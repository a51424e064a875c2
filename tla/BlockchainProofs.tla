-------------------------- MODULE BlockchainProofs --------------------------
(***************************************************************************)
(* Theorems about the pool of a running node, for every block tree, every  *)
(* set of transactions and every bound.  When m_db->add_block does not     *)
(* throw, the pool's memory mirrors its table at every step, the weight it *)
(* counts is the weight of its transactions, and the table can always be   *)
(* loaded again, whenever the process dies.  Whatever the database does,   *)
(* what the pool remembers of a chain (the input cache, the last failure   *)
(* of a transaction, the cached template) is true of it, a transaction     *)
(* that timed out stays out and none becomes private again.                *)
(***************************************************************************)
EXTENDS ChainProofs, FiniteSetTheorems

\* The table can be loaded: init_succeeds of any pool with this table.
TableLoads(txs) ==
    \A t, u \in DOMAIN txs : t # u /\ Images[t] \cap Images[u] # {} =>
        txs[t].relay = "block" \/ txs[u].relay = "block"

\* The inductive invariant of the pool.  The table a crash would go back to
\* is part of it, and so is that no batch has failed.
PoolInv ==
    /\ PoolOK(pool)
    /\ DOMAIN batch = BatchFields
    /\ batch.ok
    /\ TableShape(batch.txs)
    /\ TableLoads(batch.txs)

\* check_tx_inputs on the chain that ends in b.
InputsOn(t, b) ==
    Needs[t] \subseteq chain_txs(b) /\ Images[t] \cap chain_keys(b) = {}

\* A table of the pool, in memory or in the snapshot of the batch.
TableTrue(txs, timed_out) ==
    /\ DOMAIN txs \subseteq Tx
    /\ \A t \in DOMAIN txs :
          /\ DOMAIN txs[t] = MetaFields
          /\ txs[t].relay \in relay_method
          /\ t \in timed_out => txs[t].relay = "block"
          /\ txs[t].failed \in Block => ~ InputsOn(t, txs[t].failed)

\* The input cache is about the tip, and a batch that has moved the tip has
\* emptied it, so that an abort finds no verdict about another chain.
CacheTrue ==
    /\ DOMAIN pool.cache \subseteq Tx
    /\ \A t \in DOMAIN pool.cache : /\ pool.cache[t] <=> InputsOn(t, top)
                                    /\ batch.active => top = batch.top

\* What the pool remembers is true, here and in the batch.
MemoryInv ==
    /\ TableTrue(pool.txs, pool.timed_out)
    /\ TableTrue(batch.txs, pool.timed_out)
    /\ CacheTrue

\* Nobody had to be told about the transactions of the template.
Public(S, txs) == S \subseteq DOMAIN txs /\ \A t \in S : txs[t].relay \in broadcasted

\* No transaction is hidden from everybody.
NoneHidden(txs) == \A t \in DOMAIN txs : txs[t].relay # "none"

\* The cached template can be mined.
TemplateInv ==
    /\ NoneHidden(pool.txs) /\ NoneHidden(batch.txs)
    /\ btc.prev \in Block =>
          /\ \A t \in btc.txs : t \in Tx /\ InputsOn(t, btc.prev)
          /\ \A t, u \in btc.txs : t # u => Images[t] \cap Images[u] = {}
          /\ pool.fresh => /\ Public(btc.txs, pool.txs)
                           /\ batch.active => Public(btc.txs, batch.txs)

\* Whether tx_memory_pool::init succeeds depends on the table alone.
LEMMA LoadsIffInitSucceeds ==
  ASSUME NEW p, DOMAIN p = Fields, NEW txs
  PROVE  /\ [p EXCEPT !.txs = txs].txs = txs
         /\ init_succeeds([p EXCEPT !.txs = txs]) <=> TableLoads(txs)
  BY DEF Fields, init_succeeds, TableLoads, kept_by_block, InPool

\* The table of a pool whose index is exact can be loaded again.
LEMMA PoolTableLoads ==
  ASSUME PoolOK(pool)
  PROVE  TableShape(pool.txs) /\ TableLoads(pool.txs)
  BY DEF PoolOK, init_succeeds, TableLoads, kept_by_block, InPool

\* The three ways a block changes the pool.
LEMMA PopKeepsPool ==
  ASSUME PoolOK(pool), pop_block_from_blockchain
  PROVE  PoolOK(pool')
  BY AddKeptOK, ChainChangeOK DEF pop_block_from_blockchain

\* Taking the transactions of a connected block out of the pool.
LEMMA AddBlockKeepsPool ==
  ASSUME PoolOK(pool), NEW b, add_block(b)
  PROVE  PoolOK(pool')
  BY TakeOK, ChainChangeOK DEF add_block

\* return_txs_to_pool puts back what the block had taken.
LEMMA ReturnKeepsPool ==
  ASSUME PoolOK(pool), NEW S, return_txs_to_pool(S)
  PROVE  PoolOK(pool')
  BY TakeOK, AddKeptOK DEF return_txs_to_pool

\* A block that is refused leaves the pool in order.
LEMMA RefuseKeepsPool ==
  ASSUME PoolOK(pool), NEW b, NEW supplement, refuse_block(b, supplement)
  PROVE  PoolOK(pool')
  BY ReturnKeepsPool DEF refuse_block

\* The empty pool of a new node satisfies the invariant.
LEMMA PoolInvInit == Init => PoolInv
<1> SUFFICES ASSUME Init PROVE PoolInv  OBVIOUS
<1>1. PoolOK(pool)  BY EmptyPoolOK DEF Init
<1>2. batch = NoBatch  BY DEF Init
<1> QED  BY <1>1, <1>2 DEF PoolInv, NoBatch, BatchFields, TableShape, TableLoads

\* A step that leaves the pool in order and the batch with its snapshot, or
\* with a new one, keeps the invariant.
LEMMA BatchKept ==
  ASSUME PoolInv, PoolOK(pool'),
         \/ UNCHANGED batch
         \/ NextInBatch
         \/ EndOfBlocks
         \/ batch' = NoBatch
  PROVE  PoolInv'
<1>1. CASE UNCHANGED batch \/ NextInBatch \/ EndOfBlocks
  <2>1. DOMAIN batch' = BatchFields /\ batch'.ok = batch.ok /\ batch'.txs = batch.txs
    BY <1>1 DEF PoolInv, NextInBatch, EndOfBlocks, BatchFields
  <2> QED  BY <2>1 DEF PoolInv
<1>2. CASE batch' = NoBatch
  BY <1>2 DEF PoolInv, NoBatch, BatchFields, TableShape, TableLoads
<1> QED  BY <1>1, <1>2

\* prepare_handle_incoming_blocks and pop_blocks save a table that loads.
LEMMA BatchStarts ==
  ASSUME PoolInv, UNCHANGED pool,
         DOMAIN batch' = BatchFields, batch'.ok, batch'.txs = pool.txs
  PROVE  PoolInv'
  BY PoolTableLoads DEF PoolInv

\* Every step of a batch of blocks keeps the invariant of the pool.
LEMMA PoolInvBlockStep == PoolInv /\ BlockStep => PoolInv'
<1> SUFFICES ASSUME PoolInv, BlockStep PROVE PoolInv'  OBVIOUS
<1>0. PoolOK(pool)  BY DEF PoolInv
<1>1. CASE prepare_handle_incoming_blocks
  <2>1. DOMAIN batch' = BatchFields /\ batch'.ok /\ batch'.txs = pool.txs
    BY <1>1 DEF prepare_handle_incoming_blocks, NoBatch, BatchFields
  <2> QED  BY <1>1, <2>1, BatchStarts DEF prepare_handle_incoming_blocks
<1>2. CASE cleanup_handle_incoming_blocks
  <2>1. UNCHANGED pool /\ batch' = NoBatch
    BY <1>2 DEF cleanup_handle_incoming_blocks, PoolInv
  <2> QED  BY <1>0, <2>1, BatchKept
<1>3. ASSUME NEW b \in Block \ {Genesis}, NEW supplement \in SUBSET TxSet(b),
             add_to_main_chain(b, supplement)
      PROVE  PoolInv'
  <2>1. CASE add_block(b) /\ NextInBatch
    BY <1>0, <2>1, AddBlockKeepsPool, BatchKept
  <2>2. CASE refuse_block(b, supplement) /\ EndOfBlocks
    BY <1>0, <2>2, RefuseKeepsPool, BatchKept
  <2> QED  BY <1>3, <2>1, <2>2 DEF add_to_main_chain
<1>4. ASSUME NEW b \in Block \ {Genesis}, NEW supplement \in SUBSET TxSet(b),
             handle_alternative_block(b, supplement)
      PROVE  PoolInv'
  <2>1. /\ NextInBatch \/ EndOfBlocks
        /\ UNCHANGED pool \/ \E S : pool' = add_kept_txs(pool, S, good_inputs)
    BY <1>4 DEF handle_alternative_block
  <2>2. PoolOK(pool')  BY <1>0, <2>1, AddKeptOK
  <2> QED  BY <2>1, <2>2, BatchKept
<1>5. CASE switch_pop \/ rollback_pop
  BY <1>0, <1>5, PopKeepsPool, BatchKept DEF switch_pop, rollback_pop
<1>6. CASE switch_connect
  <2>1. PICK n : add_block(n) \/ refuse_block(n, {})
    BY <1>6 DEF switch_connect
  <2>2. PoolOK(pool')  BY <1>0, <2>1, AddBlockKeepsPool, RefuseKeepsPool
  <2> QED  BY <1>6, <2>2, BatchKept DEF switch_connect
<1>7. CASE finish_switch \/ finish_rollback
  BY <1>0, <1>7, BatchKept DEF finish_switch, finish_rollback
<1>8. CASE rollback_restore
  <2>1. PICK n : \/ add_block(n) /\ UNCHANGED batch
                 \/ refuse_block(n, {}) /\ EndOfBlocks
    BY <1>8 DEF rollback_restore
  <2>2. PoolOK(pool')  BY <1>0, <2>1, AddBlockKeepsPool, RefuseKeepsPool
  <2> QED  BY <2>1, <2>2, BatchKept
<1>9. ASSUME NEW b \in Block, pop_blocks(b)  PROVE PoolInv'
  <2>1. DOMAIN batch' = BatchFields /\ batch'.ok /\ batch'.txs = pool.txs
    BY <1>9 DEF pop_blocks, NoBatch, BatchFields
  <2> QED  BY <1>9, <2>1, BatchStarts DEF pop_blocks
<1>10. CASE pop_blocks_step
  <2>1. PoolOK(pool')  BY <1>0, <1>10, PopKeepsPool DEF pop_blocks_step
  <2> QED  BY <1>10, <2>1, BatchKept DEF pop_blocks_step
<1> QED
  BY <1>1, <1>2, <1>3, <1>4, <1>5, <1>6, <1>7, <1>8, <1>9, <1>10 DEF BlockStep

\* Every step of the pool between two batches keeps its invariant.
LEMMA PoolInvPoolStep == PoolInv /\ PoolStep => PoolInv'
<1> SUFFICES ASSUME PoolInv, PoolStep PROVE PoolInv'  OBVIOUS
<1>0. PoolOK(pool)  BY DEF PoolInv
<1>1. UNCHANGED batch
  BY DEF PoolStep, add_new_tx, on_transactions_relayed, remove_stuck, time_passes,
         flush_txes_from_pool, flush_invalid_blocks, create_block_template
<1>2. ASSUME NEW t \in Tx, NEW m \in Arrivals, add_new_tx(t, m)  PROVE PoolOK(pool')
  <2>1. Images[t] \subseteq KeyImage  BY TxPoolAssumption
  <2> QED  BY <1>0, <1>2, <2>1, AddTxOK DEF add_new_tx
<1>3. ASSUME NEW t \in Tx, NEW m \in Arrivals \cap {"stem", "fluff"},
             on_transactions_relayed(t, m)
      PROVE  PoolOK(pool')
  <2>1. m \in relay_method  BY DEF relay_method
  <2> QED  BY <1>0, <1>3, <2>1, SetRelayedOK DEF on_transactions_relayed
<1>4. ASSUME remove_stuck  PROVE PoolOK(pool')
  BY <1>0, <1>4, RemoveStuckOK DEF remove_stuck
<1>5. ASSUME time_passes  PROVE PoolOK(pool')
  BY <1>0, <1>5, OlderOK DEF time_passes
<1>6. ASSUME NEW t \in Tx, flush_txes_from_pool(t)  PROVE PoolOK(pool')
  BY <1>0, <1>6, TakeOK DEF flush_txes_from_pool
<1>7. ASSUME flush_invalid_blocks  PROVE PoolOK(pool')
  BY <1>0, <1>7 DEF flush_invalid_blocks
<1>8. ASSUME create_block_template  PROVE PoolOK(pool')
  BY <1>0, <1>8, TemplateOK DEF create_block_template
<1>9. PoolOK(pool')
  BY <1>2, <1>3, <1>4, <1>5, <1>6, <1>7, <1>8 DEF PoolStep
<1> QED  BY <1>1, <1>9, BatchKept

\* A restart builds the memory of the pool again from the last commit.
LEMMA PoolInvRestart == PoolInv /\ restart => PoolInv'
<1> SUFFICES ASSUME PoolInv, restart PROVE PoolInv'  OBVIOUS
<1> DEFINE p == IF batch.active THEN [pool EXCEPT !.txs = batch.txs] ELSE pool
<1>1. TableShape(p.txs)
  BY LoadsIffInitSucceeds, PoolTableLoads DEF PoolInv, PoolOK
<1>2. init_succeeds(p) /\ pool' = init(p) /\ batch' = NoBatch  BY DEF restart
<1> HIDE DEF p
<1>3. PoolOK(pool')  BY <1>1, <1>2, InitOK
<1> QED  BY <1>2, <1>3, BatchKept

\* The inductive invariant of the pool holds as long as add_block does not
\* throw.
THEOREM PoolInvariant == Spec => []PoolInv
<1>1. PoolInv /\ [Next]_vars => PoolInv'
  <2> SUFFICES ASSUME PoolInv, [Next]_vars PROVE PoolInv'  OBVIOUS
  <2>1. CASE UNCHANGED vars
    BY <2>1, BatchKept DEF vars, PoolInv
  <2> QED
    BY <2>1, PoolInvBlockStep, PoolInvPoolStep, PoolInvRestart DEF Next
<1> QED  BY <1>1, PoolInvInit, PTL DEF Spec

\* The key images and the sorted container in memory are those of the txpool
\* table in every state, inside a batch and in the middle of a chain switch.
THEOREM IndexMirrorsTable == Spec => []KeyImageIndexExact
<1>1. PoolInv => KeyImageIndexExact  BY DEF PoolInv, PoolOK, KeyImageIndexExact
<1> QED  BY <1>1, PoolInvariant, PTL

\* Wherever the process dies, the pool it left in the database can be loaded:
\* the node starts again.
THEOREM RestartIsPossible == Spec => []RestartPossible
<1>1. PoolInv => RestartPossible
  BY LoadsIffInitSucceeds DEF PoolInv, PoolOK, RestartPossible
<1> QED  BY <1>1, PoolInvariant, PTL

----------------------------------------------------------------------------
(* The weight of the pool.  WeightOf adds weights up in an order that      *)
(* CHOOSE decides; the sum does not depend on it, because it counts the    *)
(* elements of a set that has as many of them as the transactions weigh.   *)

\* The element WeightOf takes next, and what it asks of its recursive function.
pick(s) == CHOOSE x \in s : TRUE
Sums(S, g) ==
    g = [s \in SUBSET S |-> IF s = {} THEN 0 ELSE Weight[pick(s)] + g[s \ {pick(s)}]]

\* WeightOf is such a function, at the whole set.
LEMMA WeightUnfolds ==
  ASSUME NEW S
  PROVE  WeightOf(S) = (CHOOSE g : Sums(S, g))[S]
  BY DEF WeightOf, MapThenSumSet, MapThenFoldSet, Sums, pick

\* A transaction of weight n as n units.
Units(S) == {u \in S \X Nat : u[2] \in 1 .. Weight[u[1]]}

\* One transaction has as many units as it weighs.
LEMMA UnitsOf ==
  ASSUME NEW t \in Tx
  PROVE  IsFiniteSet(Units({t})) /\ Cardinality(Units({t})) = Weight[t]
<1> DEFINE n == Weight[t]
           f == [i \in 1 .. n |-> <<t, i>>]
<1>1. n \in Nat  BY TxPoolAssumption
<1>2. IsFiniteSet(1 .. n) /\ Cardinality(1 .. n) = n
  <2>1. IsFiniteSet(1 .. n) /\ Cardinality(1 .. n) = IF 1 > n THEN 0 ELSE n - 1 + 1  BY <1>1, FS_Interval
  <2>2. (IF 1 > n THEN 0 ELSE n - 1 + 1) = n  BY <1>1
  <2> QED  BY <2>1, <2>2
<1>3. f \in Bijection(1 .. n, Units({t}))
  <2>1. \A u \in Units({t}) : u[2] \in 1 .. n /\ u = <<t, u[2]>>  BY DEF Units
  <2>2. \A i \in 1 .. n : <<t, i>> \in Units({t})  BY <1>1 DEF Units
  <2>3. f \in [1 .. n -> Units({t})]  BY <2>2
  <2>4. \A i, j \in 1 .. n : f[i] = f[j] => i = j  OBVIOUS
  <2>5. \A u \in Units({t}) : \E i \in 1 .. n : f[i] = u  BY <2>1
  <2> HIDE DEF f
  <2> QED  BY <2>3, <2>4, <2>5 DEF Bijection, Injection, Surjection, IsInjective
<1>4. ExistsBijection(1 .. n, Units({t}))  BY <1>3 DEF ExistsBijection
<1> QED  BY <1>2, <1>4, FS_Bijection

\* Disjoint sets have disjoint units.
LEMMA UnitsJoin ==
  ASSUME NEW A, NEW B, A \cap B = {}, IsFiniteSet(Units(A)), IsFiniteSet(Units(B))
  PROVE  /\ IsFiniteSet(Units(A \cup B))
         /\ Cardinality(Units(A \cup B)) = Cardinality(Units(A)) + Cardinality(Units(B))
         /\ Cardinality(Units(A)) \in Nat /\ Cardinality(Units(B)) \in Nat
<1>1. Units(A \cup B) = Units(A) \cup Units(B)  BY DEF Units
<1>2. Units(A) \cap Units(B) = {}  BY DEF Units
<1>3. Cardinality(Units(A)) \in Nat /\ Cardinality(Units(B)) \in Nat  BY FS_CardinalityType
<1>4. Cardinality({}) = 0  BY FS_EmptySet
<1>5. Cardinality(Units(A) \cup Units(B)) = Cardinality(Units(A)) + Cardinality(Units(B))
  <2>1. Cardinality(Units(A) \cup Units(B)) = Cardinality(Units(A)) + Cardinality(Units(B)) - 0
    BY <1>2, <1>4, FS_Union
  <2>2. \A x, y \in Nat : x + y - 0 = x + y  OBVIOUS
  <2> QED  BY <1>3, <2>1, <2>2
<1>6. IsFiniteSet(Units(A) \cup Units(B))  BY FS_Union
<1> QED  BY <1>1, <1>3, <1>5, <1>6

\* Finitely many transactions have finitely many units.
LEMMA UnitsFinite ==
  ASSUME NEW S \in SUBSET Tx, IsFiniteSet(S)
  PROVE  IsFiniteSet(Units(S))
<1> DEFINE Bad == {T \in SUBSET S : ~ IsFiniteSet(Units(T))}
           Sizes == {Cardinality(T) : T \in Bad}
<1> SUFFICES ASSUME Bad # {} PROVE FALSE  OBVIOUS
<1>1. \A T \in SUBSET S : IsFiniteSet(T) /\ Cardinality(T) \in Nat  BY FS_Subset, FS_CardinalityType
<1>2. Sizes \in SUBSET Nat /\ Sizes # {}  BY <1>1
<1>3. PICK n \in Sizes : \A k \in Sizes : n <= k  BY <1>2, LeastNumber
<1>4. PICK T \in Bad : n = Cardinality(T)  BY <1>3
<1>5. T # {}
  <2>1. Units({}) = {}  BY DEF Units
  <2> QED  BY <1>4, <2>1, FS_EmptySet
<1>6. PICK t \in T : TRUE  BY <1>5
<1> DEFINE U == T \ {t}
<1>7. U \in SUBSET S /\ T \in SUBSET S /\ t \in Tx /\ T = U \cup {t} /\ U \cap {t} = {}  BY <1>4, <1>6
<1>8. Cardinality(U) = Cardinality(T) - 1  BY <1>1, <1>6, <1>7, FS_RemoveElement
<1> HIDE DEF U
<1>9. U \notin Bad
  <2>1. U \in Bad => n <= Cardinality(U)  BY <1>3
  <2>2. n \in Nat /\ Cardinality(U) = n - 1  BY <1>2, <1>3, <1>4, <1>8
  <2> QED  BY <2>1, <2>2
<1>10. IsFiniteSet(Units(U)) /\ IsFiniteSet(Units({t}))  BY <1>7, <1>9, UnitsOf
<1>11. IsFiniteSet(Units(T))  BY <1>7, <1>10, UnitsJoin
<1> QED  BY <1>4, <1>11

\* WeightOf, which adds the weights up one by one, counts the units.
LEMMA WeightCounts ==
  ASSUME NEW S \in SUBSET Tx, IsFiniteSet(S)
  PROVE  WeightOf(S) = Cardinality(Units(S))
<1> DEFINE h == [s \in SUBSET S |-> Cardinality(Units(s))]
           g == CHOOSE g : Sums(S, g)
<1>1. \A s \in SUBSET S : /\ IsFiniteSet(s) /\ Cardinality(s) \in Nat /\ s \in SUBSET Tx
                          /\ s # {} => pick(s) \in s
  BY FS_Subset, FS_CardinalityType DEF pick
<1>2. ASSUME NEW s \in SUBSET S, s # {}
      PROVE  Cardinality(Units(s)) = Weight[pick(s)] + Cardinality(Units(s \ {pick(s)}))
  <2> DEFINE x == pick(s)
             r == s \ {x}
  <2>1. x \in s /\ x \in Tx /\ r \in SUBSET S  BY <1>1, <1>2
  <2>2. s = r \cup {x} /\ r \cap {x} = {}  BY <2>1
  <2>3. IsFiniteSet(r) /\ r \in SUBSET Tx  BY <1>1, <2>1
  <2> HIDE DEF x, r
  <2>4. IsFiniteSet(Units(r))  BY <2>3, UnitsFinite
  <2>5. IsFiniteSet(Units({x})) /\ Cardinality(Units({x})) = Weight[x]  BY <2>1, UnitsOf
  <2>6. Cardinality(Units(r \cup {x})) = Cardinality(Units(r)) + Cardinality(Units({x}))
        /\ Cardinality(Units(r)) \in Nat /\ Cardinality(Units({x})) \in Nat
    BY <2>2, <2>4, <2>5, UnitsJoin
  <2>7. Cardinality(Units(s)) = Weight[x] + Cardinality(Units(r))  BY <2>2, <2>5, <2>6
  <2> QED  BY <2>7 DEF x, r
<1>3. Cardinality(Units({})) = 0
  <2>1. Units({}) = {}  BY DEF Units
  <2> QED  BY <2>1, FS_EmptySet
<1>4. Sums(S, h)
  <2>1. \A s \in SUBSET S : s \ {pick(s)} \in SUBSET S  OBVIOUS
  <2>2. \A s \in SUBSET S : h[s] = IF s = {} THEN 0 ELSE Weight[pick(s)] + h[s \ {pick(s)}]
    BY <1>2, <1>3, <2>1
  <2> QED  BY <2>2 DEF Sums
<1>5. Sums(S, g)  BY <1>4
<1> HIDE DEF g
<1>6. \A s \in SUBSET S : g[s] = IF s = {} THEN 0 ELSE Weight[pick(s)] + g[s \ {pick(s)}]
  BY <1>5 DEF Sums
<1>7. \A s \in SUBSET S : g[s] = h[s]
  <2> DEFINE Bad == {s \in SUBSET S : g[s] # h[s]}
             Sizes == {Cardinality(s) : s \in Bad}
  <2> SUFFICES ASSUME Bad # {} PROVE FALSE  OBVIOUS
  <2>1. Sizes \in SUBSET Nat /\ Sizes # {}
    <3>1. \A s \in Bad : Cardinality(s) \in Nat  BY <1>1
    <3> HIDE DEF Bad
    <3> QED  BY <3>1
  <2>2. PICK n \in Sizes : \A k \in Sizes : n <= k  BY <2>1, LeastNumber
  <2>3. PICK s \in Bad : n = Cardinality(s)  BY <2>2
  <2>4. s \in SUBSET S /\ g[s] # h[s]  BY <2>3
  <2>5. s # {}  BY <1>3, <1>6, <2>4
  <2> DEFINE r == s \ {pick(s)}
  <2>6. r \in SUBSET S /\ pick(s) \in s /\ IsFiniteSet(s)  BY <1>1, <2>4, <2>5
  <2>7. Cardinality(r) = n - 1 /\ n \in Nat  BY <2>1, <2>2, <2>3, <2>6, FS_RemoveElement
  <2>8. r \in Bad => n <= Cardinality(r)  BY <2>2
  <2>9. g[r] = h[r]
    <3> HIDE DEF r, h
    <3> QED  BY <2>6, <2>7, <2>8
  <2>10. h[s] = Weight[pick(s)] + h[r]  BY <1>2, <2>4, <2>5, <2>6
  <2>11. g[s] = Weight[pick(s)] + g[r]  BY <1>6, <2>4, <2>5
  <2> QED  BY <2>4, <2>9, <2>10, <2>11
<1>8. WeightOf(S) = g[S] /\ S \in SUBSET S  BY WeightUnfolds DEF g
<1> QED  BY <1>7, <1>8

\* The weights of disjoint sets add up.
LEMMA WeightJoin ==
  ASSUME NEW A \in SUBSET Tx, NEW B \in SUBSET Tx, IsFiniteSet(A), IsFiniteSet(B), A \cap B = {}
  PROVE  /\ WeightOf(A \cup B) = WeightOf(A) + WeightOf(B)
         /\ WeightOf(A) \in Nat /\ WeightOf(B) \in Nat
<1>1. IsFiniteSet(Units(A)) /\ IsFiniteSet(Units(B))  BY UnitsFinite
<1>2. IsFiniteSet(A \cup B) /\ A \cup B \in SUBSET Tx  BY FS_Union
<1>3. WeightOf(A) = Cardinality(Units(A)) /\ WeightOf(B) = Cardinality(Units(B))
      /\ WeightOf(A \cup B) = Cardinality(Units(A \cup B))
  BY <1>2, WeightCounts
<1> QED  BY <1>1, <1>3, UnitsJoin

\* The transactions of a block are finitely many.
LEMMA BlockTxs ==
  ASSUME NEW b \in Block
  PROVE  TxSet(b) \in SUBSET Tx /\ IsFiniteSet(TxSet(b))
<1> DEFINE s == TxsOf[b]
           n == Len(s)
<1>1. s \in Seq(Tx)  BY BlockchainAssumption
<1>2. n \in Nat /\ s \in [1 .. n -> Tx] /\ DOMAIN s = 1 .. n  BY <1>1
<1>3. TxSet(b) = {s[i] : i \in 1 .. n}  BY <1>2 DEF TxSet
<1> HIDE DEF s, n
<1>4. s \in Surjection(1 .. n, TxSet(b))  BY <1>2, <1>3 DEF Surjection
<1>5. IsFiniteSet(1 .. n)  BY <1>2, FS_Interval
<1>6. IsFiniteSet(TxSet(b))  BY <1>4, <1>5, FS_Surjection
<1> QED  BY <1>2, <1>3, <1>6

\* A pool that knows its weight.
Weighed(p) ==
    /\ DOMAIN p = Fields
    /\ InPool(p) \in SUBSET Tx /\ IsFiniteSet(InPool(p))
    /\ p.weight = WeightOf(InPool(p))

\* reduce_txpool_weight for transactions that are in the pool.
LEMMA RemoveWeighed ==
  ASSUME NEW p, Weighed(p), NEW S \in SUBSET InPool(p)
  PROVE  Weighed(remove_txs(p, S))
<1> DEFINE q == remove_txs(p, S)
           R == InPool(p) \ S
<1>1. DOMAIN q = Fields /\ InPool(q) = R  BY RemoveContents
<1>2. q.weight = reduce_txpool_weight(p.weight, WeightOf(S))  BY DEF remove_txs
<1>3. /\ S \in SUBSET Tx /\ R \in SUBSET Tx /\ IsFiniteSet(S) /\ IsFiniteSet(R) /\ S \cap R = {}
      /\ InPool(p) = S \cup R
  <2>1. R \in SUBSET InPool(p)  OBVIOUS
  <2> QED  BY <2>1, FS_Subset DEF Weighed
<1> HIDE DEF q, R
<1>4. WeightOf(S \cup R) = WeightOf(S) + WeightOf(R) /\ WeightOf(S) \in Nat /\ WeightOf(R) \in Nat
  BY <1>3, WeightJoin
<1>5. p.weight = WeightOf(S) + WeightOf(R)  BY <1>3, <1>4 DEF Weighed
<1>6. \A x, y \in Nat : reduce_txpool_weight(x + y, x) = y  BY DEF reduce_txpool_weight
<1>7. q.weight = WeightOf(R)  BY <1>2, <1>4, <1>5, <1>6
<1>8. Weighed(q)  BY <1>1, <1>3, <1>7 DEF Weighed
<1> QED  BY <1>8 DEF q

\* Pruning, and a transaction taken for a block.
LEMMA PruneWeighed ==
  ASSUME NEW p, Weighed(p)
  PROVE  Weighed(prune(p))
<1>1. overweight(p) \in SUBSET InPool(p)  BY DEF overweight
<1> QED  BY <1>1, RemoveWeighed DEF prune

LEMMA TakeWeighed ==
  ASSUME NEW p, Weighed(p), NEW S
  PROVE  Weighed(take_tx(p, S))
<1>1. S \cap InPool(p) \in SUBSET InPool(p)  OBVIOUS
<1> QED  BY <1>1, RemoveWeighed DEF take_tx

\* New transactions bring their weight, those replaced keep theirs.
LEMMA InsertWeighed ==
  ASSUME NEW p, Weighed(p), NEW S \in SUBSET Tx, IsFiniteSet(S), NEW m
  PROVE  Weighed(insert_txs(p, S, m))
<1> DEFINE q == insert_txs(p, S, m)
           N == S \ InPool(p)
           P == InPool(p)
<1>1. DOMAIN q = Fields /\ InPool(q) = P \cup S  BY InsertContents
<1>2. q.weight = p.weight + WeightOf(N)  BY DEF insert_txs
<1>3. /\ P \in SUBSET Tx /\ N \in SUBSET Tx /\ IsFiniteSet(P) /\ IsFiniteSet(N) /\ P \cap N = {}
      /\ P \cup S = P \cup N
  <2>1. N \in SUBSET S  OBVIOUS
  <2> QED  BY <2>1, FS_Subset DEF Weighed
<1>4. p.weight = WeightOf(P)  BY DEF Weighed
<1> HIDE DEF q, N, P
<1>5. WeightOf(P \cup N) = WeightOf(P) + WeightOf(N)  BY <1>3, WeightJoin
<1>6. IsFiniteSet(P \cup N) /\ P \cup N \in SUBSET Tx  BY <1>3, FS_Union
<1>7. Weighed(q)  BY <1>1, <1>2, <1>3, <1>4, <1>5, <1>6 DEF Weighed
<1> QED  BY <1>7 DEF q

\* The table keeps its transactions and the weight stays.
LEMMA SameWeighed ==
  ASSUME NEW p, Weighed(p), NEW q, DOMAIN q = Fields, InPool(q) = InPool(p), q.weight = p.weight
  PROVE  Weighed(q)
  BY DEF Weighed

\* Transactions of blocks that come back.
LEMMA AddKeptWeighed ==
  ASSUME NEW p, Weighed(p), NEW S \in SUBSET Tx, IsFiniteSet(S), NEW ok
  PROVE  Weighed(add_kept_txs(p, S, ok))
<1> DEFINE N == S \ refused_kept(p, S, ok)
<1>1. N \in SUBSET S  OBVIOUS
<1> HIDE DEF N
<1>2. N \in SUBSET Tx /\ IsFiniteSet(N)  BY <1>1, FS_Subset
<1>3. Weighed(prune(insert_txs(p, N, "block")))  BY <1>2, InsertWeighed, PruneWeighed
<1> QED  BY <1>3 DEF add_kept_txs, N

LEMMA ChainChangeWeighed ==
  ASSUME NEW p, Weighed(p)
  PROVE  Weighed(on_blockchain_change(p))
<1> DEFINE q == on_blockchain_change(p)
<1>1. DOMAIN q = Fields /\ q.txs = p.txs /\ q.weight = p.weight
  BY DEF Weighed, on_blockchain_change, Fields
<1> HIDE DEF q
<1>2. Weighed(q)  BY <1>1, SameWeighed DEF InPool
<1> QED  BY <1>2 DEF q

\* A transaction that arrives, accepted or not.
LEMMA AddTxWeighed ==
  ASSUME NEW p, Weighed(p), NEW t \in Tx, NEW m, NEW ok
  PROVE  Weighed(add_tx(p, t, m, ok))
<1> DEFINE checked == remember(p, {t}, ok)
           touched == [checked EXCEPT !.fresh = FALSE]
<1>1. DOMAIN checked = Fields /\ checked.txs = p.txs /\ checked.weight = p.weight
  BY DEF remember, Fields, Weighed
<1>2. DOMAIN touched = Fields /\ touched.txs = p.txs /\ touched.weight = p.weight
  <2> HIDE DEF checked
  <2> QED  BY <1>1 DEF Fields
<1> HIDE DEF checked, touched
<1>3. Weighed(checked) /\ Weighed(touched)  BY <1>1, <1>2, SameWeighed DEF InPool
<1>4. Weighed(prune(touched))  BY <1>3, PruneWeighed
<1>5. {t} \in SUBSET Tx /\ IsFiniteSet({t})  BY FS_Singleton
<1>6. ASSUME NEW method PROVE Weighed(prune(insert_txs(checked, {t}, method)))
  BY <1>3, <1>5, InsertWeighed, PruneWeighed
<1> QED  BY <1>3, <1>4, <1>6 DEF add_tx, checked, touched

\* The other operations of the pool.
LEMMA OthersWeighed ==
  ASSUME NEW p, Weighed(p)
  PROVE  /\ Weighed(remove_stuck_transactions(p))
         /\ \A t, m : Weighed(set_relayed(p, t, m))
         /\ \A S, ok, tip : Weighed(after_template(p, S, ok, tip))
         /\ Weighed(older(p))
<1>0. DOMAIN p = Fields  BY DEF Weighed
<1>1. Weighed(remove_stuck_transactions(p))
  <2> DEFINE r == remove_txs(p, stuck(p))
             q == [r EXCEPT !.timed_out = @ \cup stuck(p)]
  <2>1. stuck(p) \in SUBSET InPool(p)  BY DEF stuck
  <2>2. Weighed(r) /\ DOMAIN r = Fields  BY <2>1, RemoveWeighed, RemoveContents
  <2> HIDE DEF r
  <2>3. DOMAIN q = Fields /\ q.txs = r.txs /\ q.weight = r.weight  BY <2>2 DEF Fields
  <2> HIDE DEF q
  <2>4. Weighed(q)  BY <2>2, <2>3, SameWeighed DEF InPool
  <2> QED  BY <2>4 DEF remove_stuck_transactions, q, r
<1>2. ASSUME NEW t, NEW m PROVE Weighed(set_relayed(p, t, m))
  <2>1. set_relayed(p, t, m).weight = p.weight  BY <1>0 DEF set_relayed, Fields
  <2> QED  BY <1>0, <2>1, OtherContents, SameWeighed
<1>3. ASSUME NEW S, NEW ok, NEW tip PROVE Weighed(after_template(p, S, ok, tip))
  <2>1. after_template(p, S, ok, tip).weight = p.weight  BY <1>0 DEF after_template, remember, Fields
  <2> QED  BY <1>0, <2>1, OtherContents, SameWeighed
<1>4. Weighed(older(p))
  <2>1. older(p).weight = p.weight  BY <1>0 DEF older, Fields
  <2> QED  BY <1>0, <2>1, OtherContents, SameWeighed
<1> QED  BY <1>1, <1>2, <1>3, <1>4

\* The invariant: also of the table a crash would go back to.
WeightInv ==
    /\ Weighed(pool)
    /\ DOMAIN batch.txs \in SUBSET Tx /\ IsFiniteSet(DOMAIN batch.txs)

\* What the steps of the chain do to the pool.
LEMMA PopWeighed ==
  ASSUME Weighed(pool), top \in Block, pop_block_from_blockchain
  PROVE  Weighed(pool')
<1>1. PICK ok : pool' = on_blockchain_change(add_kept_txs(pool, TxSet(top), ok))
  BY DEF pop_block_from_blockchain
<1> QED  BY <1>1, BlockTxs, AddKeptWeighed, ChainChangeWeighed

LEMMA AddBlockWeighed ==
  ASSUME Weighed(pool), NEW b, add_block(b)
  PROVE  Weighed(pool')
  BY TakeWeighed, ChainChangeWeighed DEF add_block

LEMMA RefuseWeighed ==
  ASSUME Weighed(pool), NEW b, NEW supplement, refuse_block(b, supplement)
  PROVE  Weighed(pool')
<1> DEFINE S == taken(b, supplement)
<1>1. CASE UNCHANGED pool  BY <1>1
<1>2. CASE return_txs_to_pool(S)
  <2>1. pool' = add_kept_txs(take_tx(pool, S), S, good_inputs)  BY <1>2 DEF return_txs_to_pool
  <2>2. S \in SUBSET InPool(pool)  BY DEF taken
  <2> HIDE DEF S
  <2>3. S \in SUBSET Tx /\ IsFiniteSet(S)  BY <2>2, FS_Subset DEF Weighed
  <2> QED  BY <2>1, <2>3, TakeWeighed, AddKeptWeighed
<1> QED  BY <1>1, <1>2 DEF refuse_block

\* The table of the batch is the same, or empty, or the one of the pool.
LEMMA WeightKept ==
  ASSUME WeightInv, DOMAIN batch = BatchFields, Weighed(pool'),
         \/ UNCHANGED batch \/ NextInBatch \/ EndOfBlocks \/ batch' = NoBatch
         \/ batch'.txs = pool.txs
  PROVE  WeightInv'
<1>1. CASE UNCHANGED batch \/ NextInBatch \/ EndOfBlocks
  <2>1. batch'.txs = batch.txs  BY <1>1 DEF NextInBatch, EndOfBlocks, BatchFields
  <2> QED  BY <2>1 DEF WeightInv
<1>2. CASE batch' = NoBatch
  <2>1. DOMAIN batch'.txs = {}  BY <1>2 DEF NoBatch
  <2> QED  BY <2>1, FS_EmptySet DEF WeightInv
<1>3. CASE batch'.txs = pool.txs  BY <1>3 DEF WeightInv, Weighed, InPool
<1> QED  BY <1>1, <1>2, <1>3

\* Every step of the chain, of the pool, and a start keep the invariant.
LEMMA WeightBlockStep ==
  ASSUME WeightInv, DOMAIN batch = BatchFields, batch.ok, top \in Block, BlockStep
  PROVE  WeightInv'
<1>0. Weighed(pool)  BY DEF WeightInv
<1>1. CASE prepare_handle_incoming_blocks
  <2>1. batch'.txs = pool.txs  BY <1>1 DEF prepare_handle_incoming_blocks, NoBatch
  <2> QED  BY <1>0, <1>1, <2>1, WeightKept DEF prepare_handle_incoming_blocks
<1>2. CASE cleanup_handle_incoming_blocks
  <2>1. UNCHANGED pool /\ batch' = NoBatch  BY <1>2 DEF cleanup_handle_incoming_blocks
  <2> QED  BY <1>0, <2>1, WeightKept
<1>3. ASSUME NEW b \in Block \ {Genesis}, NEW supplement \in SUBSET TxSet(b),
             add_to_main_chain(b, supplement)
      PROVE  WeightInv'
  <2>1. \/ add_block(b) /\ NextInBatch
        \/ refuse_block(b, supplement) /\ EndOfBlocks
    BY <1>3 DEF add_to_main_chain
  <2>2. Weighed(pool')  BY <1>0, <2>1, AddBlockWeighed, RefuseWeighed
  <2> QED  BY <2>1, <2>2, WeightKept
<1>4. ASSUME NEW b \in Block \ {Genesis}, NEW supplement \in SUBSET TxSet(b),
             handle_alternative_block(b, supplement)
      PROVE  WeightInv'
  <2>1. /\ NextInBatch \/ EndOfBlocks
        /\ UNCHANGED pool
           \/ \E S \in SUBSET to_add(supplement) : pool' = add_kept_txs(pool, S, good_inputs)
    BY <1>4 DEF handle_alternative_block
  <2>2. to_add(supplement) \in SUBSET TxSet(b)  BY DEF to_add
  <2>3. ASSUME NEW S \in SUBSET to_add(supplement), pool' = add_kept_txs(pool, S, good_inputs)
        PROVE  Weighed(pool')
    <3>1. S \in SUBSET TxSet(b)  BY <2>2
    <3>2. S \in SUBSET Tx /\ IsFiniteSet(S)  BY <3>1, BlockTxs, FS_Subset
    <3> QED  BY <1>0, <2>3, <3>2, AddKeptWeighed
  <2>4. Weighed(pool')  BY <1>0, <2>1, <2>3
  <2> QED  BY <2>1, <2>4, WeightKept
<1>5. CASE switch_pop \/ rollback_pop
  BY <1>0, <1>5, PopWeighed, WeightKept DEF switch_pop, rollback_pop
<1>6. CASE switch_connect
  <2>1. PICK n : add_block(n) \/ refuse_block(n, {})  BY <1>6 DEF switch_connect
  <2>2. Weighed(pool')  BY <1>0, <2>1, AddBlockWeighed, RefuseWeighed
  <2> QED  BY <1>6, <2>2, WeightKept DEF switch_connect
<1>7. CASE finish_switch \/ finish_rollback
  BY <1>0, <1>7, WeightKept DEF finish_switch, finish_rollback
<1>8. CASE rollback_restore
  <2>1. PICK n : \/ add_block(n) /\ UNCHANGED batch
                 \/ refuse_block(n, {}) /\ EndOfBlocks
    BY <1>8 DEF rollback_restore
  <2>2. Weighed(pool')  BY <1>0, <2>1, AddBlockWeighed, RefuseWeighed
  <2> QED  BY <2>1, <2>2, WeightKept
<1>9. ASSUME NEW b \in Block, pop_blocks(b)  PROVE WeightInv'
  <2>1. batch'.txs = pool.txs  BY <1>9 DEF pop_blocks, NoBatch
  <2> QED  BY <1>0, <1>9, <2>1, WeightKept DEF pop_blocks
<1>10. CASE pop_blocks_step
  <2>1. Weighed(pool')  BY <1>0, <1>10, PopWeighed DEF pop_blocks_step
  <2> QED  BY <1>10, <2>1, WeightKept DEF pop_blocks_step
<1> QED
  BY <1>1, <1>2, <1>3, <1>4, <1>5, <1>6, <1>7, <1>8, <1>9, <1>10 DEF BlockStep

LEMMA WeightPoolStep ==
  ASSUME WeightInv, DOMAIN batch = BatchFields, PoolStep
  PROVE  WeightInv'
<1>0. Weighed(pool)  BY DEF WeightInv
<1>1. UNCHANGED batch
  BY DEF PoolStep, add_new_tx, on_transactions_relayed, remove_stuck, time_passes,
         flush_txes_from_pool, flush_invalid_blocks, create_block_template
<1>2. ASSUME NEW t \in Tx, NEW m \in Arrivals, add_new_tx(t, m)  PROVE Weighed(pool')
  BY <1>0, <1>2, AddTxWeighed DEF add_new_tx
<1>3. ASSUME NEW t, NEW m, on_transactions_relayed(t, m)  PROVE Weighed(pool')
  BY <1>0, <1>3, OthersWeighed DEF on_transactions_relayed
<1>4. ASSUME remove_stuck  PROVE Weighed(pool')
  BY <1>0, <1>4, OthersWeighed DEF remove_stuck
<1>5. ASSUME time_passes  PROVE Weighed(pool')
  BY <1>0, <1>5, OthersWeighed DEF time_passes
<1>6. ASSUME NEW t \in Tx, flush_txes_from_pool(t)  PROVE Weighed(pool')
  BY <1>0, <1>6, TakeWeighed DEF flush_txes_from_pool
<1>7. ASSUME flush_invalid_blocks  PROVE Weighed(pool')
  BY <1>0, <1>7 DEF flush_invalid_blocks
<1>8. ASSUME create_block_template  PROVE Weighed(pool')
  BY <1>0, <1>8, OthersWeighed DEF create_block_template
<1>9. Weighed(pool')
  BY <1>2, <1>3, <1>4, <1>5, <1>6, <1>7, <1>8 DEF PoolStep
<1> QED  BY <1>1, <1>9, WeightKept

LEMMA WeightRestart ==
  ASSUME WeightInv, DOMAIN batch = BatchFields, restart
  PROVE  WeightInv'
<1> DEFINE p == IF batch.active THEN [pool EXCEPT !.txs = batch.txs] ELSE pool
<1>1. pool' = init(p) /\ batch' = NoBatch  BY DEF restart
<1>2. DOMAIN pool = Fields  BY DEF WeightInv, Weighed
<1>3. p.txs = batch.txs \/ p.txs = pool.txs  BY <1>2 DEF Fields
<1> HIDE DEF p
<1>4. InPool(p) \in SUBSET Tx /\ IsFiniteSet(InPool(p))  BY <1>3 DEF WeightInv, Weighed, InPool
<1>5. init(p).weight = WeightOf(InPool(p))  BY DEF init, EmptyPool
<1>6. DOMAIN init(p) = Fields /\ InPool(init(p)) = InPool(p)  BY InitContents DEF InPool
<1>7. Weighed(pool')  BY <1>1, <1>4, <1>5, <1>6 DEF Weighed
<1> QED  BY <1>1, <1>7, WeightKept

\* m_txpool_weight is the weight of the transactions in the txpool table in
\* every state of every batch, chain switch and rollback, and after a crash:
\* reduce_txpool_weight never has to stop at zero.
THEOREM WeightIsExact == Spec => []WeightExact
<1>1. Init => WeightInv
  <2> SUFFICES ASSUME Init PROVE WeightInv  OBVIOUS
  <2>1. pool = EmptyPool /\ batch = NoBatch  BY DEF Init
  <2>2. /\ DOMAIN EmptyPool = Fields /\ InPool(EmptyPool) = {} /\ EmptyPool.weight = 0
        /\ DOMAIN NoBatch.txs = {}
    BY DEF EmptyPool, Fields, InPool, NoBatch
  <2>3. WeightOf({}) = 0
    <3>1. IsFiniteSet({}) /\ Cardinality({}) = 0  BY FS_EmptySet
    <3>2. WeightOf({}) = Cardinality(Units({}))  BY <3>1, WeightCounts
    <3>3. Units({}) = {}  BY DEF Units
    <3> QED  BY <3>1, <3>2, <3>3
  <2> QED  BY <2>1, <2>2, <2>3, FS_EmptySet DEF WeightInv, Weighed
<1>2. WeightInv /\ ChainInv /\ Unspoiled /\ [Next]_vars => WeightInv'
  <2> SUFFICES ASSUME WeightInv, ChainInv, Unspoiled, [Next]_vars PROVE WeightInv'  OBVIOUS
  <2>1. DOMAIN batch = BatchFields /\ batch.ok /\ top \in Block
    BY DEF ChainInv, NodeInv, SnapshotInv, Unspoiled
  <2>2. CASE UNCHANGED vars  BY <2>2 DEF vars, WeightInv, Weighed, InPool
  <2>3. CASE BlockStep  BY <2>1, <2>3, WeightBlockStep
  <2>4. CASE PoolStep  BY <2>1, <2>4, WeightPoolStep
  <2>5. CASE restart  BY <2>1, <2>5, WeightRestart
  <2> QED  BY <2>2, <2>3, <2>4, <2>5 DEF Next
<1>3. WeightInv => WeightExact  BY DEF WeightInv, Weighed, WeightExact
<1> QED  BY <1>1, <1>2, <1>3, SpecInvariant, PTL DEF Spec

----------------------------------------------------------------------------
(* What a block does to the pool.                                          *)

\* The new pool holds old entries as they were and transactions of S that a
\* block keeps.  It is fresh only if nothing has changed, and its input cache
\* is the old one or empty.
BlockChange(p, q, S) ==
    /\ DOMAIN q = Fields
    /\ q.timed_out = p.timed_out
    /\ \A t \in InPool(q) :
          \/ t \in InPool(p) /\ q.txs[t] = p.txs[t]
          \/ t \in S /\ q.txs[t] = [relay |-> "block", age |-> 0, failed |-> NoBlock]
    /\ q.fresh => p.fresh /\ InPool(p) \subseteq InPool(q) /\ \A t \in InPool(p) : q.txs[t] = p.txs[t]
    /\ q.cache = p.cache \/ DOMAIN q.cache = {}

\* Changes by blocks compose.
LEMMA BlockChangeTrans ==
  ASSUME NEW p, NEW q, NEW r, NEW S, BlockChange(p, q, S), BlockChange(q, r, S)
  PROVE  BlockChange(p, r, S)
  BY DEF BlockChange

\* A pool that nothing happens to.
LEMMA BlockChangeNone ==
  ASSUME NEW p, DOMAIN p = Fields, NEW S
  PROVE  BlockChange(p, p, S)
  BY DEF BlockChange

\* Removing transactions.
LEMMA RemoveChange ==
  ASSUME NEW p, NEW R, NEW S
  PROVE  BlockChange(p, remove_txs(p, R), S)
  BY DEF BlockChange, remove_txs, Fields, InPool

\* take_tx.
LEMMA TakeChange ==
  ASSUME NEW p, NEW R, NEW S
  PROVE  BlockChange(p, take_tx(p, R), S)
  BY RemoveChange DEF take_tx

\* Inserting transactions that a block keeps.
LEMMA InsertChange ==
  ASSUME NEW p, NEW S, NEW R \in SUBSET S
  PROVE  BlockChange(p, insert_txs(p, R, "block"), S)
  BY DEF BlockChange, insert_txs, Fields, InPool

\* add_tx for the transactions of a block.
LEMMA AddKeptChange ==
  ASSUME NEW p, NEW S, NEW ok
  PROVE  BlockChange(p, add_kept_txs(p, S, ok), S)
<1> DEFINE r == insert_txs(p, S \ refused_kept(p, S, ok), "block")
<1>1. BlockChange(p, r, S)  BY InsertChange
<1>2. BlockChange(r, prune(r), S)  BY RemoveChange DEF prune
<1> HIDE DEF r
<1>3. BlockChange(p, prune(r), S)  BY <1>1, <1>2, BlockChangeTrans
<1> QED  BY <1>3 DEF add_kept_txs, r

\* on_blockchain_inc and on_blockchain_dec empty the input cache.
LEMMA ChainChange ==
  ASSUME NEW p, NEW q, NEW S, BlockChange(p, q, S)
  PROVE  BlockChange(p, on_blockchain_change(q), S) /\ DOMAIN on_blockchain_change(q).cache = {}
<1> DEFINE r == on_blockchain_change(q)
<1>1. /\ DOMAIN r = Fields /\ r.txs = q.txs /\ r.timed_out = q.timed_out
      /\ r.fresh = q.fresh /\ DOMAIN r.cache = {}
  BY DEF BlockChange, on_blockchain_change, Fields
<1> HIDE DEF r
<1>2. BlockChange(p, r, S)  BY <1>1 DEF BlockChange, InPool
<1> QED  BY <1>1, <1>2 DEF r

\* pop_block_from_blockchain.
LEMMA PopChange ==
  ASSUME pop_block_from_blockchain, top \in Block
  PROVE  \E S \in SUBSET Tx : BlockChange(pool, pool', S) /\ DOMAIN pool'.cache = {}
<1>1. TxSet(top) \in SUBSET Tx  BY BlockchainAssumption DEF TxSet
<1>2. PICK ok : pool' = on_blockchain_change(add_kept_txs(pool, TxSet(top), ok))
  BY DEF pop_block_from_blockchain
<1> QED  BY <1>1, <1>2, AddKeptChange, ChainChange

\* add_block.
LEMMA AddBlockChange ==
  ASSUME NEW b, add_block(b)
  PROVE  BlockChange(pool, pool', {}) /\ DOMAIN pool'.cache = {} /\ btc' = NoTemplate
  BY TakeChange, ChainChange DEF add_block

\* return_txs_to_pool.
LEMMA ReturnChange ==
  ASSUME NEW S, return_txs_to_pool(S)
  PROVE  BlockChange(pool, pool', S)
<1> DEFINE r == take_tx(pool, S)
<1>1. BlockChange(pool, r, S)  BY TakeChange
<1> HIDE DEF r
<1>2. BlockChange(r, add_kept_txs(r, S, good_inputs), S)  BY AddKeptChange
<1> QED  BY <1>1, <1>2, BlockChangeTrans DEF return_txs_to_pool, r

\* A refused block.
LEMMA RefuseChange ==
  ASSUME NEW b \in Block, NEW supplement, refuse_block(b, supplement), DOMAIN pool = Fields
  PROVE  \E S \in SUBSET Tx : BlockChange(pool, pool', S)
<1>1. taken(b, supplement) \in SUBSET Tx  BY BlockchainAssumption DEF taken
<1>2. CASE check_block(b)  BY <1>1, <1>2, ReturnChange DEF refuse_block
<1>3. CASE ~ check_block(b)  BY <1>3, BlockChangeNone DEF refuse_block
<1> QED  BY <1>2, <1>3

\* Every step inside a batch changes the pool as blocks do, and empties the
\* input cache and drops the template when it moves the tip.
LEMMA InsideBatch ==
  ASSUME ChainInv, BusyInBatch, BlockStep \/ Throw,
         ~ prepare_handle_incoming_blocks, ~ cleanup_handle_incoming_blocks,
         \A b : ~ pop_blocks(b)
  PROVE  /\ batch.active /\ batch'.active
         /\ batch'.top = batch.top /\ batch'.txs = batch.txs
         /\ \E S \in SUBSET Tx : BlockChange(pool, pool', S)
         /\ top' = top \/ DOMAIN pool'.cache = {}
         /\ btc' = btc \/ btc' = NoTemplate
<1> DEFINE Good == /\ batch.active /\ batch'.active
                   /\ batch'.top = batch.top /\ batch'.txs = batch.txs
                   /\ \E S \in SUBSET Tx : BlockChange(pool, pool', S)
                   /\ top' = top \/ DOMAIN pool'.cache = {}
                   /\ btc' = btc \/ btc' = NoTemplate
<1> SUFFICES Good  OBVIOUS
<1>0. /\ DOMAIN batch = BatchFields /\ DOMAIN pool = Fields /\ top \in Block
      /\ op.target \in Block /\ op.orig \in Block
  BY DEF ChainInv, SnapshotInv, NodeInv, SwitchInv
<1>1. ASSUME UNCHANGED batch \/ NextInBatch \/ EndOfBlocks
      PROVE  batch'.active = batch.active /\ batch'.top = batch.top /\ batch'.txs = batch.txs
  BY <1>0, <1>1 DEF NextInBatch, EndOfBlocks, BatchFields
<1>2. ASSUME batch.active, UNCHANGED batch \/ NextInBatch \/ EndOfBlocks,
             NEW b \in Block, NEW supplement,
             \/ add_block(b)
             \/ refuse_block(b, supplement)
             \/ pop_block_from_blockchain
             \/ UNCHANGED <<pool, top, btc>>
      PROVE  Good
  <2>1. CASE add_block(b)  BY <1>1, <1>2, <2>1, AddBlockChange
  <2>2. CASE refuse_block(b, supplement)
    <3>1. UNCHANGED <<top, btc>>  BY <2>2 DEF refuse_block
    <3> QED  BY <1>0, <1>1, <1>2, <2>2, <3>1, RefuseChange
  <2>3. CASE pop_block_from_blockchain
    <3>1. btc' = NoTemplate  BY <2>3 DEF pop_block_from_blockchain
    <3> QED  BY <1>0, <1>1, <1>2, <2>3, <3>1, PopChange
  <2>4. CASE UNCHANGED <<pool, top, btc>>  BY <1>0, <1>1, <1>2, <2>4, BlockChangeNone
  <2> QED  BY <1>2, <2>1, <2>2, <2>3, <2>4
<1>3. ASSUME NEW b \in Block \ {Genesis}, NEW supplement, add_to_main_chain(b, supplement)
      PROVE  Good
  BY <1>2, <1>3 DEF add_to_main_chain, InBatch
<1>4. ASSUME NEW b \in Block \ {Genesis}, NEW supplement \in SUBSET TxSet(b),
             handle_alternative_block(b, supplement)
      PROVE  Good
  <2>1. batch.active /\ (NextInBatch \/ EndOfBlocks) /\ UNCHANGED <<top, btc>>
    BY <1>4 DEF handle_alternative_block, InBatch
  <2>2. to_add(supplement) \in SUBSET Tx
    <3>1. TxSet(b) \subseteq Tx  BY BlockchainAssumption DEF TxSet
    <3> QED  BY <3>1 DEF to_add
  <2>3. \/ UNCHANGED pool
        \/ \E S \in SUBSET to_add(supplement) : pool' = add_kept_txs(pool, S, good_inputs)
    BY <1>4 DEF handle_alternative_block
  <2>4. \E S \in SUBSET Tx : BlockChange(pool, pool', S)
    BY <1>0, <2>2, <2>3, AddKeptChange, BlockChangeNone
  <2> QED  BY <1>1, <2>1, <2>4
<1>5. CASE switch_pop \/ rollback_pop
  BY <1>0, <1>2, <1>5 DEF switch_pop, rollback_pop, BusyInBatch
<1>6. CASE switch_connect \/ rollback_restore
  <2>1. batch.active  BY <1>6 DEF switch_connect, rollback_restore, BusyInBatch
  <2>2. PICK n \in next_towards(op.target) \cup next_towards(op.orig) :
           add_block(n) \/ refuse_block(n, {})
    BY <1>6 DEF switch_connect, rollback_restore
  <2>3. n \in Block  BY <1>0, NextTowards
  <2>4. UNCHANGED batch \/ EndOfBlocks  BY <1>6 DEF switch_connect, rollback_restore
  <2> QED  BY <1>2, <2>1, <2>2, <2>3, <2>4
<1>7. CASE finish_switch \/ finish_rollback
  BY <1>0, <1>2, <1>7 DEF finish_switch, finish_rollback, BusyInBatch
<1>8. CASE pop_blocks_step
  BY <1>0, <1>2, <1>8 DEF pop_blocks_step, BusyInBatch
<1>9. ASSUME NEW b \in Block, batch.active, add_block_throws(b)  PROVE Good
  <2>1. /\ \E w, k : batch' = [batch EXCEPT !.ok = FALSE, !.left = 0,
                                            !.written = w, !.keys = k]
        /\ return_txs_to_pool(TxSet(b) \cap InPool(pool))
        /\ UNCHANGED <<top, btc>>
    BY <1>9 DEF add_block_throws
  <2>2. batch'.active /\ batch'.top = batch.top /\ batch'.txs = batch.txs
    BY <1>0, <1>9, <2>1 DEF BatchFields
  <2>3. TxSet(b) \cap InPool(pool) \in SUBSET Tx  BY BlockchainAssumption DEF TxSet
  <2> QED  BY <1>9, <2>1, <2>2, <2>3, ReturnChange
<1>10. ASSUME Throw  PROVE Good
  <2>1. batch.active
    BY <1>10 DEF Throw, throw_on_main, throw_in_switch, throw_in_rollback, InBatch, BusyInBatch
  <2>2. \E b \in Block : add_block_throws(b)
    BY <1>0, <1>10, NextTowards DEF Throw, throw_on_main, throw_in_switch, throw_in_rollback
  <2> QED  BY <1>9, <2>1, <2>2
<1> HIDE DEF Good
<1>11. ASSUME BlockStep  PROVE Good
  <2>1. \/ \E b \in Block \ {Genesis} : \E supplement \in SUBSET TxSet(b) :
              add_to_main_chain(b, supplement) \/ handle_alternative_block(b, supplement)
        \/ switch_pop \/ switch_connect \/ finish_switch
        \/ rollback_pop \/ rollback_restore \/ finish_rollback \/ pop_blocks_step
    BY <1>11 DEF BlockStep
  <2> QED  BY <2>1, <1>3, <1>4, <1>5, <1>6, <1>7, <1>8
<1> QED  BY <1>10, <1>11

----------------------------------------------------------------------------
(* What the pool's own operations do to its table and its memory.          *)

\* The order of the relay methods.
LEMMA RelayOrder ==
  /\ \A m \in relay_method : ~ less(m, m) /\ ~ less("block", m)
  /\ \A m, n \in relay_method :
        /\ less(m, n) => ~ less(n, m)
        /\ upgrade_relay_method(m, n) \in relay_method
        /\ ~ less(upgrade_relay_method(m, n), m)
        /\ upgrade_relay_method("block", n) = "block"
        /\ n # "none" => upgrade_relay_method(m, n) # "none"
  /\ \A m \in broadcasted : \A n \in {"stem", "fluff"} : upgrade_relay_method(m, n) = m
<1>1. \A m \in relay_method : Publicity[m] \in 0 .. 5  BY DEF relay_method, Publicity
<1>2. \A m \in relay_method : ~ less(m, m)  BY <1>1 DEF less
<1>3. \A m \in relay_method : ~ less("block", m)  BY DEF less, Publicity, relay_method
<1>4. \A m, n \in relay_method : less(m, n) => ~ less(n, m)  BY <1>1 DEF less
<1>5. \A m, n \in relay_method : n # "none" => upgrade_relay_method(m, n) # "none"
  BY DEF upgrade_relay_method, less, Publicity, relay_method
<1>6. \A m \in broadcasted : \A n \in {"stem", "fluff"} : upgrade_relay_method(m, n) = m
  BY DEF upgrade_relay_method, less, Publicity, broadcasted
<1> QED  BY <1>2, <1>3, <1>4, <1>5, <1>6 DEF upgrade_relay_method

\* No transaction that stays becomes more private.
NotHidden(p, q) ==
    \A t \in InPool(p) \cap InPool(q) : ~ less(q.txs[t].relay, p.txs[t].relay)

\* Blocks keep the table true and make no transaction private.
LEMMA BlockChangeTrue ==
  ASSUME NEW p, NEW q, NEW S \in SUBSET Tx, BlockChange(p, q, S), TableTrue(p.txs, p.timed_out)
  PROVE  TableTrue(q.txs, q.timed_out) /\ NotHidden(p, q)
<1> DEFINE fresh == [relay |-> "block", age |-> 0, failed |-> NoBlock]
<1>1. /\ DOMAIN fresh = MetaFields /\ fresh.relay = "block" /\ fresh.failed \notin Block
      /\ "block" \in relay_method
  BY BlockchainAssumption DEF MetaFields, relay_method
<1>2. \A t \in InPool(q) : (t \in InPool(p) /\ q.txs[t] = p.txs[t]) \/ (t \in S /\ q.txs[t] = fresh)
  BY DEF BlockChange
<1> HIDE DEF fresh
<1>3. TableTrue(q.txs, q.timed_out)
  BY <1>1, <1>2 DEF BlockChange, TableTrue, InPool
<1>4. NotHidden(p, q)
  BY <1>1, <1>2, RelayOrder DEF TableTrue, NotHidden, InPool
<1> QED  BY <1>3, <1>4

\* remember changes the input cache only.
LEMMA RememberFields ==
  ASSUME NEW p, DOMAIN p = Fields, NEW S, NEW ok
  PROVE  /\ DOMAIN remember(p, S, ok) = Fields
         /\ remember(p, S, ok).txs = p.txs /\ remember(p, S, ok).timed_out = p.timed_out
         /\ remember(p, S, ok).fresh = p.fresh
         /\ remember(p, S, ok).cache = [t \in DOMAIN p.cache \cup S |-> verdict(p, t, ok)]
  BY DEF remember, Fields

\* add_tx: what was refused once for good stays out, and a transaction that is
\* in the pool already is only replaced by a more public one.
LEMMA AddTxTrue ==
  ASSUME NEW p, DOMAIN p = Fields, TableTrue(p.txs, p.timed_out),
         NEW t \in Tx, NEW m \in relay_method, NEW ok
  PROVE  LET q == add_tx(p, t, m, ok)
         IN  /\ TableTrue(q.txs, q.timed_out) /\ NotHidden(p, q)
             /\ \/ q.cache = p.cache
                \/ \A u \in DOMAIN q.cache : /\ u \in DOMAIN p.cache \cup {t}
                                             /\ q.cache[u] = verdict(p, u, ok)
             /\ q.fresh => p.fresh /\ q.txs = p.txs
             /\ NoneHidden(p.txs) /\ m # "none" => NoneHidden(q.txs)
<1> DEFINE method == IF m = "stem" /\ t \in InPool(p) /\ p.txs[t].relay = "stem"
                     THEN "fluff" ELSE m
           checked == remember(p, {t}, ok)
           touched == [checked EXCEPT !.fresh = FALSE]
           inserted == insert_txs(checked, {t}, method)
           Fine(q) == /\ TableTrue(q.txs, q.timed_out) /\ NotHidden(p, q)
                      /\ \/ q.cache = p.cache
                         \/ \A u \in DOMAIN q.cache : /\ u \in DOMAIN p.cache \cup {t}
                                                      /\ q.cache[u] = verdict(p, u, ok)
                      /\ q.fresh => p.fresh /\ q.txs = p.txs
                      /\ NoneHidden(p.txs) /\ m # "none" => NoneHidden(q.txs)
<1>1. /\ DOMAIN checked = Fields /\ checked.txs = p.txs /\ checked.timed_out = p.timed_out
      /\ checked.fresh = p.fresh
      /\ checked.cache = [u \in DOMAIN p.cache \cup {t} |-> verdict(p, u, ok)]
  BY RememberFields
<1>2. method \in relay_method /\ (m # "none" => method # "none")  BY DEF relay_method
<1>3. /\ touched.txs = p.txs /\ touched.timed_out = p.timed_out /\ ~ touched.fresh
      /\ touched.cache = checked.cache
  <2> HIDE DEF checked
  <2> QED  BY <1>1 DEF Fields
<1>4. /\ inserted.timed_out = p.timed_out /\ ~ inserted.fresh
      /\ inserted.cache = checked.cache
      /\ InPool(inserted) = InPool(p) \cup {t}
      /\ inserted.txs[t] = [relay |-> method, age |-> 0, failed |-> NoBlock]
      /\ \A u \in InPool(p) \ {t} : inserted.txs[u] = p.txs[u]
  <2> HIDE DEF checked, method
  <2> QED  BY <1>1 DEF insert_txs, InPool
<1> HIDE DEF checked, touched, inserted, method
<1>5. Fine(p)  BY RelayOrder DEF TableTrue, NotHidden, InPool
<1>6. Fine(checked)  BY <1>1, RelayOrder DEF TableTrue, NotHidden, InPool
<1>7. ASSUME NEW r, ~ r.fresh, r.cache = checked.cache, TableTrue(r.txs, r.timed_out),
             NotHidden(p, r), NoneHidden(p.txs) /\ m # "none" => NoneHidden(r.txs)
      PROVE  Fine(prune(r))
  <2> DEFINE q == prune(r)
  <2>1. /\ q.timed_out = r.timed_out /\ ~ q.fresh /\ q.cache = r.cache
        /\ InPool(q) \subseteq InPool(r) /\ \A u \in InPool(q) : q.txs[u] = r.txs[u]
    BY <1>7 DEF prune, remove_txs, InPool
  <2> HIDE DEF q
  <2>2. TableTrue(q.txs, q.timed_out)  BY <1>7, <2>1 DEF TableTrue, InPool
  <2>3. NotHidden(p, q)  BY <1>7, <2>1 DEF NotHidden
  <2>4. NoneHidden(p.txs) /\ m # "none" => NoneHidden(q.txs)
    BY <1>7, <2>1 DEF NoneHidden, InPool
  <2>5. Fine(q)  BY <1>1, <1>7, <2>1, <2>2, <2>3, <2>4
  <2> QED  BY <2>5 DEF q
<1>8. Fine(prune(touched))
  <2>1. TableTrue(touched.txs, touched.timed_out) /\ NotHidden(p, touched)
    BY <1>3, RelayOrder DEF TableTrue, NotHidden, InPool
  <2> QED  BY <1>3, <1>7, <2>1
<1>9. ASSUME t \notin p.timed_out, t \in InPool(p) => less(p.txs[t].relay, method)
      PROVE  Fine(prune(inserted))
  <2> DEFINE new == [relay |-> method, age |-> 0, failed |-> NoBlock]
  <2>1. DOMAIN new = MetaFields /\ new.relay = method /\ new.failed \notin Block
    BY BlockchainAssumption DEF MetaFields
  <2>2. inserted.txs[t] = new  BY <1>4
  <2> HIDE DEF new
  <2>3. TableTrue(inserted.txs, inserted.timed_out)
    BY <1>2, <1>4, <1>9, <2>1, <2>2 DEF TableTrue, InPool
  <2>4. NotHidden(p, inserted)
    BY <1>2, <1>4, <1>9, <2>1, <2>2, RelayOrder DEF NotHidden, TableTrue, InPool
  <2>5. NoneHidden(p.txs) /\ m # "none" => NoneHidden(inserted.txs)
    BY <1>2, <1>4, <2>1, <2>2 DEF NoneHidden, InPool
  <2> QED  BY <1>4, <1>7, <2>3, <2>4, <2>5
<1> DEFINE q == add_tx(p, t, m, ok)
<1>10. CASE t \in p.timed_out \/ have_tx_keyimges_as_spent(p, t)
  <2>1. q = p  BY <1>10 DEF add_tx
  <2> QED  BY <1>5, <2>1
<1>11. CASE t \notin p.timed_out /\ ~ have_tx_keyimges_as_spent(p, t) /\ ~ verdict(p, t, ok)
  <2>1. q = checked  BY <1>11 DEF add_tx, checked
  <2> QED  BY <1>6, <2>1
<1>12. CASE /\ t \notin p.timed_out /\ ~ have_tx_keyimges_as_spent(p, t) /\ verdict(p, t, ok)
            /\ t \in InPool(p) /\ ~ less(p.txs[t].relay, method)
  <2>1. q = prune(touched)  BY <1>12 DEF add_tx, checked, touched, method
  <2> QED  BY <1>8, <2>1
<1>13. CASE /\ t \notin p.timed_out /\ ~ have_tx_keyimges_as_spent(p, t) /\ verdict(p, t, ok)
            /\ ~ (t \in InPool(p) /\ ~ less(p.txs[t].relay, method))
  <2>1. q = prune(inserted)  BY <1>13 DEF add_tx, checked, inserted, method
  <2> QED  BY <1>9, <1>13, <2>1
<1> QED  BY <1>10, <1>11, <1>12, <1>13

\* set_relayed changes one relay method, upwards.
LEMMA SetRelayedTrue ==
  ASSUME NEW p, DOMAIN p = Fields, TableTrue(p.txs, p.timed_out),
         NEW t \in InPool(p), NEW m \in {"stem", "fluff"}
  PROVE  LET q == set_relayed(p, t, m)
         IN  /\ TableTrue(q.txs, q.timed_out) /\ NotHidden(p, q)
             /\ q.cache = p.cache /\ q.fresh = p.fresh /\ q.timed_out = p.timed_out
             /\ NoneHidden(p.txs) => NoneHidden(q.txs)
             /\ \A S : Public(S, p.txs) => Public(S, q.txs)
<1> DEFINE q == set_relayed(p, t, m)
           r == p.txs[t]
           up == upgrade_relay_method(r.relay, m)
<1>1. /\ DOMAIN r = MetaFields /\ r.relay \in relay_method /\ m \in relay_method /\ m # "none"
  BY DEF TableTrue, InPool, relay_method
<1>2. /\ up \in relay_method /\ ~ less(up, r.relay) /\ (r.relay = "block" => up = "block")
      /\ up # "none" /\ (r.relay \in broadcasted => up = r.relay)
  BY <1>1, RelayOrder
<1>3. /\ q.cache = p.cache /\ q.fresh = p.fresh /\ q.timed_out = p.timed_out
      /\ q.txs = [p.txs EXCEPT ![t] = [r EXCEPT !.relay = up]]
  BY DEF set_relayed, Fields, InPool
<1>4. /\ DOMAIN q.txs = DOMAIN p.txs
      /\ \A u \in DOMAIN p.txs \ {t} : q.txs[u] = p.txs[u]
      /\ q.txs[t] = [r EXCEPT !.relay = up]
  <2> HIDE DEF up, r, q
  <2> QED  BY <1>3 DEF InPool
<1>5. /\ DOMAIN q.txs[t] = MetaFields /\ q.txs[t].relay = up /\ q.txs[t].failed = r.failed
  <2> HIDE DEF up, r, q
  <2> QED  BY <1>1, <1>4 DEF MetaFields
<1> HIDE DEF up, q
<1>6. TableTrue(q.txs, q.timed_out)  BY <1>1, <1>2, <1>3, <1>4, <1>5 DEF TableTrue, InPool
<1>7. NotHidden(p, q)
  BY <1>2, <1>4, <1>5, RelayOrder DEF NotHidden, TableTrue, InPool
<1>8. NoneHidden(p.txs) => NoneHidden(q.txs)  BY <1>2, <1>4, <1>5 DEF NoneHidden
<1>9. \A S : Public(S, p.txs) => Public(S, q.txs)
  <2> SUFFICES ASSUME NEW S, Public(S, p.txs), NEW u \in S PROVE q.txs[u].relay \in broadcasted
    BY <1>4 DEF Public
  <2>1. CASE u = t  BY <1>2, <1>5, <2>1 DEF Public
  <2>2. CASE u # t  BY <1>4, <2>2 DEF Public
  <2> QED  BY <2>1, <2>2
<1>10. /\ TableTrue(q.txs, q.timed_out) /\ NotHidden(p, q)
       /\ q.cache = p.cache /\ q.fresh = p.fresh /\ q.timed_out = p.timed_out
       /\ NoneHidden(p.txs) => NoneHidden(q.txs)
       /\ \A S : Public(S, p.txs) => Public(S, q.txs)
  BY <1>3, <1>6, <1>7, <1>8, <1>9
<1> QED  BY <1>10 DEF q

\* remove_stuck_transactions remembers exactly what it removes.
LEMMA StuckTrue ==
  ASSUME NEW p, DOMAIN p = Fields, TableTrue(p.txs, p.timed_out), stuck(p) # {}
  PROVE  LET q == remove_stuck_transactions(p)
         IN  /\ TableTrue(q.txs, q.timed_out) /\ NotHidden(p, q)
             /\ q.cache = p.cache /\ ~ q.fresh
             /\ NoneHidden(p.txs) => NoneHidden(q.txs)
<1> DEFINE r == remove_txs(p, stuck(p))
           q == remove_stuck_transactions(p)
<1>1. /\ DOMAIN r = Fields /\ r.timed_out = p.timed_out /\ r.cache = p.cache /\ ~ r.fresh
      /\ DOMAIN r.txs = DOMAIN p.txs \ stuck(p)
      /\ \A t \in DOMAIN r.txs : r.txs[t] = p.txs[t]
  BY DEF remove_txs, Fields, InPool
<1> HIDE DEF r
<1>2. /\ q.txs = r.txs /\ q.timed_out = p.timed_out \cup stuck(p) /\ q.cache = p.cache
      /\ ~ q.fresh
  BY <1>1 DEF remove_stuck_transactions, r, Fields
<1> HIDE DEF q
<1>3. /\ TableTrue(q.txs, q.timed_out) /\ NotHidden(p, q)
      /\ NoneHidden(p.txs) => NoneHidden(q.txs)
  BY <1>1, <1>2, RelayOrder DEF TableTrue, NotHidden, NoneHidden, InPool
<1> QED  BY <1>2, <1>3 DEF q

\* A table whose entries keep their relay method and whose verdicts are true.
LEMMA SameRelayTrue ==
  ASSUME NEW p, TableTrue(p.txs, p.timed_out), NEW q,
         q.timed_out = p.timed_out, DOMAIN q.txs = DOMAIN p.txs,
         \A t \in DOMAIN p.txs :
            /\ DOMAIN q.txs[t] = MetaFields /\ q.txs[t].relay = p.txs[t].relay
            /\ \/ q.txs[t].failed = p.txs[t].failed
               \/ ~ InputsOn(t, q.txs[t].failed)
  PROVE  /\ TableTrue(q.txs, q.timed_out) /\ NotHidden(p, q)
         /\ NoneHidden(p.txs) => NoneHidden(q.txs)
         /\ \A S : Public(S, p.txs) => Public(S, q.txs)
<1>1. TableTrue(q.txs, q.timed_out)  BY DEF TableTrue
<1>2. NotHidden(p, q)  BY RelayOrder DEF TableTrue, NotHidden, InPool
<1> QED  BY <1>1, <1>2 DEF NoneHidden, Public

\* Time changes the age only.
LEMMA OlderTrue ==
  ASSUME NEW p, DOMAIN p = Fields, TableTrue(p.txs, p.timed_out)
  PROVE  LET q == older(p)
         IN  /\ TableTrue(q.txs, q.timed_out) /\ NotHidden(p, q)
             /\ q.cache = p.cache /\ q.fresh = p.fresh /\ q.timed_out = p.timed_out
             /\ NoneHidden(p.txs) => NoneHidden(q.txs)
             /\ \A S : Public(S, p.txs) => Public(S, q.txs)
<1> DEFINE q == older(p)
<1>1. /\ q.cache = p.cache /\ q.fresh = p.fresh /\ q.timed_out = p.timed_out
      /\ q.txs = [t \in InPool(p) |->
                     [p.txs[t] EXCEPT !.age = IF @ < MaxAge THEN @ + 1 ELSE @]]
  BY DEF older, Fields
<1>2. /\ DOMAIN q.txs = DOMAIN p.txs
      /\ \A t \in DOMAIN p.txs : /\ DOMAIN q.txs[t] = MetaFields
                                 /\ q.txs[t].relay = p.txs[t].relay
                                 /\ q.txs[t].failed = p.txs[t].failed
  <2> HIDE DEF q
  <2> QED  BY <1>1 DEF TableTrue, InPool, MetaFields
<1> HIDE DEF q
<1>3. /\ TableTrue(q.txs, q.timed_out) /\ NotHidden(p, q)
      /\ NoneHidden(p.txs) => NoneHidden(q.txs)
      /\ \A S : Public(S, p.txs) => Public(S, q.txs)
  BY <1>1, <1>2, SameRelayTrue
<1> QED  BY <1>1, <1>3 DEF q

\* Verdicts taken from a true cache, or from the chain itself, are true.
LEMMA VerdictTrue ==
  ASSUME NEW p, NEW b, NEW ok,
         \A t \in DOMAIN p.cache : p.cache[t] <=> InputsOn(t, b),
         \A t \in Tx : t \in ok <=> InputsOn(t, b)
  PROVE  \A t \in Tx : verdict(p, t, ok) <=> InputsOn(t, b)
  BY DEF verdict

\* fill_block_template writes last_failed_id only for what has failed.
LEMMA TemplateTrue ==
  ASSUME NEW p, DOMAIN p = Fields, TableTrue(p.txs, p.timed_out), NEW S \in SUBSET Tx,
         NEW ok, NEW b, \A t \in Tx : verdict(p, t, ok) <=> InputsOn(t, b)
  PROVE  LET q == after_template(p, S, ok, b)
         IN  /\ TableTrue(q.txs, q.timed_out) /\ NotHidden(p, q)
             /\ \A t \in DOMAIN q.cache : /\ t \in DOMAIN p.cache \cup S
                                          /\ q.cache[t] = verdict(p, t, ok)
             /\ q.timed_out = p.timed_out
             /\ NoneHidden(p.txs) => NoneHidden(q.txs)
             /\ \A B : Public(B, p.txs) => Public(B, q.txs)
<1> DEFINE asked == {t \in S : p.txs[t].failed # b}
           c == remember(p, asked, ok)
           q == after_template(p, S, ok, b)
           new == [t \in InPool(p) |->
                      IF t \in asked /\ ~ verdict(p, t, ok)
                      THEN [p.txs[t] EXCEPT !.failed = b] ELSE p.txs[t]]
<1>1. /\ DOMAIN c = Fields /\ c.timed_out = p.timed_out
      /\ c.cache = [u \in DOMAIN p.cache \cup asked |-> verdict(p, u, ok)]
  BY RememberFields
<1>2. q = [c EXCEPT !.fresh = TRUE, !.txs = new]  BY DEF after_template
<1>3. asked \in SUBSET S  OBVIOUS
<1>4. /\ DOMAIN new = DOMAIN p.txs
      /\ \A t \in DOMAIN p.txs : /\ DOMAIN new[t] = MetaFields
                                 /\ new[t].relay = p.txs[t].relay
                                 /\ \/ new[t].failed = p.txs[t].failed
                                    \/ ~ InputsOn(t, new[t].failed)
  <2> SUFFICES ASSUME NEW t \in DOMAIN p.txs
               PROVE  /\ DOMAIN new[t] = MetaFields /\ new[t].relay = p.txs[t].relay
                      /\ \/ new[t].failed = p.txs[t].failed
                         \/ ~ InputsOn(t, new[t].failed)
    BY DEF InPool
  <2>1. DOMAIN p.txs[t] = MetaFields /\ t \in Tx  BY DEF TableTrue
  <2>2. CASE t \in asked /\ ~ verdict(p, t, ok)
    <3>1. new[t] = [p.txs[t] EXCEPT !.failed = b] /\ ~ InputsOn(t, b)
      BY <2>1, <2>2 DEF InPool
    <3> QED  BY <2>1, <3>1 DEF MetaFields
  <2>3. CASE ~ (t \in asked /\ ~ verdict(p, t, ok))  BY <2>1, <2>3 DEF InPool
  <2> QED  BY <2>2, <2>3
<1> HIDE DEF c, new, asked
<1>5. q.txs = new /\ q.timed_out = p.timed_out /\ q.cache = c.cache
  BY <1>1, <1>2 DEF Fields
<1> HIDE DEF q
<1>6. /\ TableTrue(q.txs, q.timed_out) /\ NotHidden(p, q)
      /\ NoneHidden(p.txs) => NoneHidden(q.txs)
      /\ \A B : Public(B, p.txs) => Public(B, q.txs)
  BY <1>4, <1>5, SameRelayTrue
<1>7. \A t \in DOMAIN q.cache : t \in DOMAIN p.cache \cup S /\ q.cache[t] = verdict(p, t, ok)
  BY <1>1, <1>3, <1>5
<1> QED  BY <1>5, <1>6, <1>7 DEF q

----------------------------------------------------------------------------
(* What the pool remembers is true, whatever the database does.            *)

\* Outside a batch the database is the chain and nothing else.
LEMMA QuietFacts ==
  ASSUME LedgerInv, Quiet
  PROVE  /\ batch = NoBatch /\ ~ batch.active /\ DOMAIN batch.txs = {}
         /\ \A t : inputs_ok(t) <=> InputsOn(t, top)
         /\ \A t \in Tx : t \in good_inputs <=> InputsOn(t, top)
<1>1. batch = NoBatch  BY DEF LedgerInv, BatchInv, Quiet
<1>2. ~ batch.active /\ batch.written = {} /\ batch.keys = {} /\ DOMAIN batch.txs = {}
  BY <1>1 DEF NoBatch
<1>3. \A t : inputs_ok(t) <=> InputsOn(t, top)  BY <1>2 DEF inputs_ok, InputsOn
<1> QED  BY <1>1, <1>2, <1>3 DEF good_inputs

\* An empty table says nothing that could be wrong.
LEMMA EmptyTableTrue ==
  ASSUME NEW txs, NEW timed_out, DOMAIN txs = {}
  PROVE  TableTrue(txs, timed_out)
  BY DEF TableTrue

\* A pool operation between two batches asks the chain that is there.
LEMMA QuietStepTrue ==
  ASSUME MemoryInv, LedgerInv, Quiet, UNCHANGED <<top, batch>>,
         TableTrue(pool'.txs, pool'.timed_out),
         \/ pool'.cache = pool.cache
         \/ \A t \in DOMAIN pool'.cache : /\ t \in Tx
                                          /\ pool'.cache[t] = verdict(pool, t, good_inputs)
  PROVE  MemoryInv'
<1>1. ~ batch.active /\ DOMAIN batch.txs = {}  BY QuietFacts
<1>2. \A t \in Tx : verdict(pool, t, good_inputs) <=> InputsOn(t, top)
  BY VerdictTrue, QuietFacts DEF MemoryInv, CacheTrue
<1>3. CacheTrue'
  <2>1. CASE pool'.cache = pool.cache  BY <1>1, <2>1 DEF MemoryInv, CacheTrue
  <2>2. CASE \A t \in DOMAIN pool'.cache : /\ t \in Tx
                                          /\ pool'.cache[t] = verdict(pool, t, good_inputs)
    BY <1>1, <1>2, <2>2 DEF CacheTrue
  <2> QED  BY <2>1, <2>2
<1>4. TableTrue(batch'.txs, pool'.timed_out)  BY <1>1, EmptyTableTrue
<1> QED  BY <1>3, <1>4 DEF MemoryInv

\* The pool's own steps.
LEMMA MemoryPoolStep ==
  ASSUME ChainInv, LedgerInv, MemoryInv, PoolStep
  PROVE  MemoryInv' /\ NotHidden(pool, pool')
<1>0. /\ UNCHANGED <<top, batch, op>> /\ Quiet /\ DOMAIN pool = Fields
      /\ TableTrue(pool.txs, pool.timed_out)
  BY DEF PoolStep, add_new_tx, on_transactions_relayed, remove_stuck, time_passes,
         flush_txes_from_pool, flush_invalid_blocks, create_block_template, ChainInv, NodeInv,
         MemoryInv
<1>1. \A t \in Tx : verdict(pool, t, good_inputs) <=> InputsOn(t, top)
  BY <1>0, VerdictTrue, QuietFacts DEF MemoryInv, CacheTrue
<1>2. ASSUME NEW t \in Tx, NEW m \in Arrivals, add_new_tx(t, m)
      PROVE  MemoryInv' /\ NotHidden(pool, pool')
  <2>1. pool' = add_tx(pool, t, m, good_inputs) /\ m \in relay_method
    BY <1>2, BlockchainAssumption DEF add_new_tx
  <2>2. /\ TableTrue(pool'.txs, pool'.timed_out) /\ NotHidden(pool, pool')
        /\ \/ pool'.cache = pool.cache
           \/ \A u \in DOMAIN pool'.cache : /\ u \in DOMAIN pool.cache \cup {t}
                                            /\ pool'.cache[u] = verdict(pool, u, good_inputs)
    BY <1>0, <2>1, AddTxTrue
  <2>3. \/ pool'.cache = pool.cache
        \/ \A u \in DOMAIN pool'.cache : /\ u \in Tx
                                         /\ pool'.cache[u] = verdict(pool, u, good_inputs)
    BY <2>2 DEF MemoryInv, CacheTrue
  <2> QED  BY <1>0, <2>2, <2>3, QuietStepTrue
<1>3. ASSUME NEW t \in Tx, NEW m \in Arrivals \cap {"stem", "fluff"}, on_transactions_relayed(t, m)
      PROVE  MemoryInv' /\ NotHidden(pool, pool')
  <2>1. /\ TableTrue(pool'.txs, pool'.timed_out) /\ NotHidden(pool, pool')
        /\ pool'.cache = pool.cache
    BY <1>0, <1>3, SetRelayedTrue DEF on_transactions_relayed
  <2> QED  BY <1>0, <2>1, QuietStepTrue
<1>4. CASE remove_stuck
  <2>1. /\ TableTrue(pool'.txs, pool'.timed_out) /\ NotHidden(pool, pool')
        /\ pool'.cache = pool.cache
    BY <1>0, <1>4, StuckTrue DEF remove_stuck
  <2> QED  BY <1>0, <2>1, QuietStepTrue
<1>5. CASE time_passes
  <2>1. /\ TableTrue(pool'.txs, pool'.timed_out) /\ NotHidden(pool, pool')
        /\ pool'.cache = pool.cache
    BY <1>0, <1>5, OlderTrue DEF time_passes
  <2> QED  BY <1>0, <2>1, QuietStepTrue
<1>6. ASSUME NEW t \in Tx, flush_txes_from_pool(t)  PROVE MemoryInv' /\ NotHidden(pool, pool')
  <2>1. BlockChange(pool, pool', {})  BY <1>6, TakeChange DEF flush_txes_from_pool
  <2>2. TableTrue(pool'.txs, pool'.timed_out) /\ NotHidden(pool, pool')
    BY <1>0, <2>1, BlockChangeTrue
  <2> QED  BY <1>0, <2>1, <2>2, QuietStepTrue DEF BlockChange
<1>7. CASE flush_invalid_blocks
  <2>1. pool' = pool  BY <1>7 DEF flush_invalid_blocks
  <2>2. NotHidden(pool, pool)  BY <1>0, RelayOrder DEF TableTrue, NotHidden, InPool
  <2> QED  BY <1>0, <2>1, <2>2, QuietStepTrue
<1>8. CASE create_block_template
  <2>1. PICK looked \in SUBSET minable(pool) : pool' = after_template(pool, looked, good_inputs, top)
    BY <1>8 DEF create_block_template
  <2>2. looked \in SUBSET Tx  BY <1>0 DEF minable, TableTrue, InPool
  <2> DEFINE q == after_template(pool, looked, good_inputs, top)
  <2>3. /\ TableTrue(q.txs, q.timed_out) /\ NotHidden(pool, q)
        /\ \A t \in DOMAIN q.cache : /\ t \in DOMAIN pool.cache \cup looked
                                     /\ q.cache[t] = verdict(pool, t, good_inputs)
    <3> HIDE DEF q
    <3> QED  BY <1>0, <1>1, <2>2, TemplateTrue DEF q
  <2> HIDE DEF q
  <2>4. pool' = q  BY <2>1 DEF q
  <2>5. \A t \in DOMAIN q.cache : t \in Tx  BY <2>2, <2>3 DEF MemoryInv, CacheTrue
  <2> QED  BY <1>0, <2>3, <2>4, <2>5, QuietStepTrue
<1> QED  BY <1>2, <1>3, <1>4, <1>5, <1>6, <1>7, <1>8 DEF PoolStep

\* The steps of the batches: an abort goes back to a table that was true when
\* the batch began, and finds an input cache that is empty or about its tip.
LEMMA MemoryBlockStep ==
  ASSUME ChainInv, BusyInBatch, LedgerInv, MemoryInv, BlockStep \/ Throw
  PROVE  /\ MemoryInv'
         /\ batch'.active \/ ~ batch.active => NotHidden(pool, pool')
<1>0. DOMAIN pool = Fields /\ NotHidden(pool, pool)
  BY RelayOrder DEF ChainInv, NodeInv, MemoryInv, TableTrue, NotHidden, InPool
<1>1. ASSUME UNCHANGED <<pool, top>>, ~ batch.active, batch'.top = top, batch'.txs = pool.txs
      PROVE  MemoryInv' /\ NotHidden(pool, pool')
  BY <1>0, <1>1 DEF MemoryInv, CacheTrue
<1>2. CASE prepare_handle_incoming_blocks
  BY <1>1, <1>2 DEF prepare_handle_incoming_blocks, Quiet, NoBatch
<1>3. CASE \E b : pop_blocks(b)
  BY <1>1, <1>3 DEF pop_blocks, Quiet, NoBatch
<1>4. CASE cleanup_handle_incoming_blocks
  <2>1. ~ batch'.active /\ batch.active /\ DOMAIN batch'.txs = {}
    BY <1>4 DEF cleanup_handle_incoming_blocks, NoBatch
  <2>2. TableTrue(batch'.txs, pool'.timed_out)  BY <2>1, EmptyTableTrue
  <2>3. CASE batch.ok
    <3>1. UNCHANGED <<pool, top>>  BY <1>4, <2>3 DEF cleanup_handle_incoming_blocks
    <3> QED  BY <2>1, <2>2, <3>1 DEF MemoryInv, CacheTrue
  <2>4. CASE ~ batch.ok
    <3>1. pool' = [pool EXCEPT !.txs = batch.txs] /\ top' = batch.top
      BY <1>4, <2>4 DEF cleanup_handle_incoming_blocks
    <3>2. pool'.txs = batch.txs /\ pool'.timed_out = pool.timed_out /\ pool'.cache = pool.cache
      BY <1>0, <3>1 DEF Fields
    <3>3. TableTrue(pool'.txs, pool'.timed_out)  BY <3>2 DEF MemoryInv
    <3>4. CacheTrue'  BY <2>1, <3>1, <3>2 DEF MemoryInv, CacheTrue
    <3> QED  BY <2>1, <2>2, <3>3, <3>4 DEF MemoryInv
  <2> QED  BY <2>3, <2>4
<1>5. CASE /\ ~ prepare_handle_incoming_blocks /\ ~ cleanup_handle_incoming_blocks
           /\ \A b : ~ pop_blocks(b)
  <2>1. /\ batch.active /\ batch'.active /\ batch'.top = batch.top /\ batch'.txs = batch.txs
        /\ \E S \in SUBSET Tx : BlockChange(pool, pool', S)
        /\ top' = top \/ DOMAIN pool'.cache = {}
    BY <1>5, InsideBatch
  <2>2. PICK S \in SUBSET Tx : BlockChange(pool, pool', S)  BY <2>1
  <2>3. TableTrue(pool'.txs, pool'.timed_out) /\ NotHidden(pool, pool')
    BY <2>2, BlockChangeTrue DEF MemoryInv
  <2>4. TableTrue(batch'.txs, pool'.timed_out)  BY <2>1, <2>2 DEF MemoryInv, BlockChange
  <2>5. CacheTrue'  BY <2>1, <2>2 DEF MemoryInv, CacheTrue, BlockChange
  <2> QED  BY <2>3, <2>4, <2>5 DEF MemoryInv
<1> QED  BY <1>2, <1>3, <1>4, <1>5

\* A restart forgets everything but the table.
LEMMA MemoryRestart ==
  ASSUME ChainInv, MemoryInv, restart
  PROVE  /\ MemoryInv'
         /\ batch'.active \/ ~ batch.active => NotHidden(pool, pool')
<1> DEFINE p == IF batch.active THEN [pool EXCEPT !.txs = batch.txs] ELSE pool
<1>1. pool' = init(p) /\ batch' = NoBatch  BY DEF restart
<1>2. p.txs = IF batch.active THEN batch.txs ELSE pool.txs  BY DEF ChainInv, NodeInv, Fields
<1> HIDE DEF p
<1>3. pool'.txs = p.txs /\ pool'.timed_out = {} /\ DOMAIN pool'.cache = {}
  BY <1>1 DEF init, EmptyPool
<1>4. ~ batch'.active /\ DOMAIN batch'.txs = {}  BY <1>1 DEF NoBatch
<1>5. TableTrue(pool'.txs, pool'.timed_out)  BY <1>2, <1>3 DEF MemoryInv, TableTrue
<1>6. TableTrue(batch'.txs, pool'.timed_out)  BY <1>4, EmptyTableTrue
<1>7. MemoryInv'  BY <1>3, <1>5, <1>6 DEF MemoryInv, CacheTrue
<1>8. ~ batch.active => NotHidden(pool, pool')
  BY <1>2, <1>3, RelayOrder DEF MemoryInv, TableTrue, NotHidden, InPool
<1> QED  BY <1>4, <1>7, <1>8

\* Every step keeps what the pool remembers true.
LEMMA MemoryStep ==
  ASSUME ChainInv, BusyInBatch, LedgerInv, MemoryInv, [Next \/ Throw]_vars
  PROVE  /\ MemoryInv'
         /\ batch'.active \/ ~ batch.active => NotHidden(pool, pool')
<1>1. CASE UNCHANGED vars
  <2>1. MemoryInv'  BY <1>1 DEF vars, MemoryInv, CacheTrue
  <2>2. NotHidden(pool, pool')
    BY <1>1, RelayOrder DEF vars, MemoryInv, TableTrue, NotHidden, InPool
  <2> QED  BY <2>1, <2>2
<1>2. CASE Next \/ Throw
  BY <1>2, MemoryPoolStep, MemoryBlockStep, MemoryRestart DEF Next
<1> QED  BY <1>1, <1>2

\* What the pool remembers about the chain is true of it: an invariant of all
\* behaviours, with crashes and database errors.
THEOREM MemoryInvariant == SpecWithThrows => [](ChainInv /\ LedgerInv /\ MemoryInv)
<1>1. Init => MemoryInv
  <2> SUFFICES ASSUME Init PROVE MemoryInv  OBVIOUS
  <2>1. DOMAIN pool.txs = {} /\ DOMAIN pool.cache = {} /\ DOMAIN batch.txs = {}
    BY DEF Init, EmptyPool, NoBatch
  <2> QED  BY <2>1, EmptyTableTrue DEF MemoryInv, CacheTrue
<1>2. ChainInv /\ BusyInBatch /\ LedgerInv /\ MemoryInv /\ [Next \/ Throw]_vars => MemoryInv'
  BY MemoryStep
<1> QED  BY <1>1, <1>2, LedgerInvariant, PTL DEF SpecWithThrows

\* m_input_cache holds verdicts about the present chain only, an aborted batch
\* that moved the chain there and back included.
THEOREM InputCacheIsFresh == SpecWithThrows => []InputCacheFresh
<1>1. LedgerInv /\ MemoryInv => InputCacheFresh
  BY QuietFacts DEF MemoryInv, CacheTrue, InputCacheFresh
<1> QED  BY <1>1, MemoryInvariant, PTL

\* A transaction that is_transaction_ready_to_go skips because of its
\* last_failed_id does fail on the present chain.
THEOREM FailedVerdictIsRight == SpecWithThrows => []FailedVerdictRight
<1>1. ChainInv /\ LedgerInv /\ MemoryInv => FailedVerdictRight
  BY QuietFacts DEF MemoryInv, TableTrue, FailedVerdictRight, ChainInv, NodeInv, InPool
<1> QED  BY <1>1, MemoryInvariant, PTL

\* A transaction that timed out comes back only inside a block, also when an
\* aborted batch puts an old table back.
THEOREM TimedOutIsOut == SpecWithThrows => []TimedOutStaysOut
<1>1. MemoryInv => TimedOutStaysOut
  BY DEF MemoryInv, TableTrue, TimedOutStaysOut, kept_by_block, InPool
<1> QED  BY <1>1, MemoryInvariant, PTL

\* As long as a transaction stays in the pool it never becomes more private.
THEOREM RelayIsMonotone == SpecWithThrows => RelayMonotone
<1> DEFINE A == \A t \in InPool(pool) \cap DOMAIN pool'.txs :
                   batch'.active \/ ~ batch.active => ~ less(pool'.txs[t].relay, pool.txs[t].relay)
<1>1. ChainInv /\ BusyInBatch /\ LedgerInv /\ MemoryInv /\ [Next \/ Throw]_vars => [A]_vars
  BY MemoryStep DEF NotHidden, InPool
<1> QED  BY <1>1, LedgerInvariant, MemoryInvariant, PTL DEF SpecWithThrows, RelayMonotone

----------------------------------------------------------------------------
(* The cached template, when no transaction arrives with do_not_relay.     *)

\* A step that keeps the template and what is public.
LEMMA SameTemplate ==
  ASSUME TemplateInv, ~ batch.active, UNCHANGED <<btc, batch>>, NoneHidden(pool'.txs),
         pool'.fresh => pool.fresh /\ \A S : Public(S, pool.txs) => Public(S, pool'.txs)
  PROVE  TemplateInv'
  BY DEF TemplateInv

\* The greedy choice shares no key image.
LEMMA GreedyDisjoint ==
  ASSUME NEW S \in SUBSET Tx, NEW chosen \in SUBSET S, is_greedy(chosen, S)
  PROVE  \A t, u \in chosen : t # u => Images[t] \cap Images[u] = {}
<1> SUFFICES ASSUME NEW t \in chosen, NEW u \in chosen, t # u
             PROVE  Images[t] \cap Images[u] = {}
  OBVIOUS
<1>1. t \in Tx /\ u \in Tx  OBVIOUS
<1>2. Rank[t] \in Nat /\ Rank[u] \in Nat /\ Rank[t] # Rank[u]  BY <1>1, TxPoolAssumption
<1>3. CASE Rank[t] < Rank[u]  BY <1>3 DEF is_greedy
<1>4. CASE Rank[u] < Rank[t]  BY <1>4 DEF is_greedy
<1> QED  BY <1>2, <1>3, <1>4

\* create_block_template takes public transactions that are good on the tip.
LEMMA TemplateStarts ==
  ASSUME ChainInv, LedgerInv, MemoryInv, TemplateInv, create_block_template
  PROVE  TemplateInv'
<1>0. /\ ~ batch.active /\ Quiet /\ UNCHANGED <<top, batch>> /\ DOMAIN pool = Fields /\ top \in Block
      /\ TableTrue(pool.txs, pool.timed_out)
  BY DEF create_block_template, Quiet, ChainInv, NodeInv, MemoryInv
<1>1. \A t \in Tx : verdict(pool, t, good_inputs) <=> InputsOn(t, top)
  BY <1>0, VerdictTrue, QuietFacts DEF MemoryInv, CacheTrue
<1>2. PICK looked \in SUBSET minable(pool) :
         LET S == {t \in looked : ready(pool, t, good_inputs, top)}
         IN  \E chosen \in SUBSET S :
                /\ is_greedy(chosen, S)
                /\ btc' = [prev |-> top, txs |-> chosen]
                /\ pool' = after_template(pool, looked, good_inputs, top)
  BY DEF create_block_template
<1> DEFINE S == {t \in looked : ready(pool, t, good_inputs, top)}
<1>3. PICK chosen \in SUBSET S :
         /\ is_greedy(chosen, S)
         /\ btc' = [prev |-> top, txs |-> chosen]
         /\ pool' = after_template(pool, looked, good_inputs, top)
  BY <1>2
<1>4. looked \in SUBSET Tx /\ \A t \in looked : t \in InPool(pool) /\ pool.txs[t].relay \in broadcasted
  BY <1>0 DEF minable, TableTrue, InPool, TemplateInv, NoneHidden, legacy, broadcasted
<1>5. S \in SUBSET Tx /\ \A t \in S : t \in looked /\ InputsOn(t, top)
  BY <1>1, <1>4 DEF ready
<1>6. Public(chosen, pool.txs)  BY <1>4 DEF Public, InPool
<1> HIDE DEF S
<1>7. \A t, u \in chosen : t # u => Images[t] \cap Images[u] = {}  BY <1>3, <1>5, GreedyDisjoint
<1> DEFINE q == after_template(pool, looked, good_inputs, top)
<1>8. /\ NoneHidden(pool.txs) => NoneHidden(q.txs)
      /\ \A B : Public(B, pool.txs) => Public(B, q.txs)
  <2> HIDE DEF q
  <2> QED  BY <1>0, <1>1, <1>4, TemplateTrue DEF q
<1> HIDE DEF q
<1>9. pool' = q /\ btc'.prev = top /\ btc'.txs = chosen  BY <1>3 DEF q
<1> QED  BY <1>0, <1>3, <1>5, <1>6, <1>7, <1>8, <1>9 DEF TemplateInv

\* The pool's steps: what could spoil the template changes the cookie.
LEMMA TemplatePoolStep ==
  ASSUME ChainInv, LedgerInv, MemoryInv, TemplateInv, "none" \notin Arrivals, PoolStep
  PROVE  TemplateInv'
<1>0. /\ batch' = batch /\ ~ batch.active /\ DOMAIN pool = Fields
      /\ TableTrue(pool.txs, pool.timed_out) /\ NoneHidden(pool.txs)
  BY DEF PoolStep, add_new_tx, on_transactions_relayed, remove_stuck, time_passes, Quiet,
         flush_txes_from_pool, flush_invalid_blocks, create_block_template, ChainInv, NodeInv,
         MemoryInv, TemplateInv
<1>1. ASSUME NEW t \in Tx, NEW m \in Arrivals, add_new_tx(t, m)  PROVE TemplateInv'
  <2>1. pool' = add_tx(pool, t, m, good_inputs) /\ m \in relay_method /\ m # "none" /\ btc' = btc
    BY <1>1, BlockchainAssumption DEF add_new_tx
  <2> DEFINE q == add_tx(pool, t, m, good_inputs)
  <2>2. NoneHidden(q.txs) /\ (q.fresh => pool.fresh /\ q.txs = pool.txs)
    <3>1. /\ q.fresh => pool.fresh /\ q.txs = pool.txs
          /\ NoneHidden(pool.txs) /\ m # "none" => NoneHidden(q.txs)
      BY <1>0, <2>1, AddTxTrue
    <3> QED  BY <1>0, <2>1, <3>1
  <2> HIDE DEF q
  <2>3. pool' = q  BY <2>1 DEF q
  <2> QED  BY <1>0, <2>1, <2>2, <2>3, SameTemplate
<1>2. ASSUME NEW t \in Tx, NEW m \in Arrivals \cap {"stem", "fluff"}, on_transactions_relayed(t, m)
      PROVE  TemplateInv'
  <2>1. /\ NoneHidden(pool'.txs) /\ pool'.fresh = pool.fresh /\ btc' = btc
        /\ \A S : Public(S, pool.txs) => Public(S, pool'.txs)
    BY <1>0, <1>2, SetRelayedTrue DEF on_transactions_relayed
  <2> QED  BY <1>0, <2>1, SameTemplate
<1>3. CASE remove_stuck
  <2>1. NoneHidden(pool'.txs) /\ ~ pool'.fresh /\ btc' = btc
    BY <1>0, <1>3, StuckTrue DEF remove_stuck
  <2> QED  BY <1>0, <2>1, SameTemplate
<1>4. CASE time_passes
  <2>1. /\ NoneHidden(pool'.txs) /\ pool'.fresh = pool.fresh /\ btc' = btc
        /\ \A S : Public(S, pool.txs) => Public(S, pool'.txs)
    BY <1>0, <1>4, OlderTrue DEF time_passes
  <2> QED  BY <1>0, <2>1, SameTemplate
<1>5. ASSUME NEW t \in Tx, flush_txes_from_pool(t)  PROVE TemplateInv'
  <2>1. BlockChange(pool, pool', {}) /\ btc' = btc
    BY <1>5, TakeChange DEF flush_txes_from_pool
  <2>2. NoneHidden(pool'.txs)  BY <1>0, <2>1 DEF BlockChange, NoneHidden, InPool
  <2>3. pool'.fresh => pool.fresh /\ \A S : Public(S, pool.txs) => Public(S, pool'.txs)
    BY <2>1 DEF BlockChange, Public, InPool
  <2> QED  BY <1>0, <2>1, <2>2, <2>3, SameTemplate
<1>6. CASE flush_invalid_blocks
  BY <1>0, <1>6, SameTemplate DEF flush_invalid_blocks
<1>7. CASE create_block_template  BY <1>7, TemplateStarts
<1> QED  BY <1>1, <1>2, <1>3, <1>4, <1>5, <1>6, <1>7 DEF PoolStep

\* The steps of the batches: the template survives only what leaves its
\* transactions in the pool and in the table that an abort puts back.
LEMMA TemplateBlockStep ==
  ASSUME ChainInv, BusyInBatch, TemplateInv, BlockStep \/ Throw
  PROVE  TemplateInv'
<1>0. DOMAIN pool = Fields /\ NoneHidden(pool.txs) /\ NoneHidden(batch.txs)
  BY DEF ChainInv, NodeInv, TemplateInv
<1>1. ASSUME UNCHANGED <<pool, btc>>, batch'.txs = pool.txs  PROVE TemplateInv'
  BY <1>0, <1>1 DEF TemplateInv
<1>2. CASE prepare_handle_incoming_blocks
  BY <1>1, <1>2 DEF prepare_handle_incoming_blocks, NoBatch
<1>3. CASE \E b : pop_blocks(b)  BY <1>1, <1>3 DEF pop_blocks, NoBatch
<1>4. CASE cleanup_handle_incoming_blocks
  <2>1. ~ batch'.active /\ batch.active /\ NoneHidden(batch'.txs) /\ btc' = btc
    BY <1>4 DEF cleanup_handle_incoming_blocks, NoBatch, NoneHidden
  <2>2. /\ pool'.fresh = pool.fresh
        /\ pool'.txs = pool.txs \/ pool'.txs = batch.txs
    BY <1>0, <1>4 DEF cleanup_handle_incoming_blocks, Fields
  <2> QED  BY <1>0, <2>1, <2>2 DEF TemplateInv
<1>5. CASE /\ ~ prepare_handle_incoming_blocks /\ ~ cleanup_handle_incoming_blocks
           /\ \A b : ~ pop_blocks(b)
  <2>1. /\ batch.active /\ batch'.txs = batch.txs
        /\ \E S \in SUBSET Tx : BlockChange(pool, pool', S)
        /\ btc' = btc \/ btc' = NoTemplate
    BY <1>5, InsideBatch
  <2>2. PICK S \in SUBSET Tx : BlockChange(pool, pool', S)  BY <2>1
  <2>3. NoneHidden(pool'.txs)  BY <1>0, <2>2 DEF BlockChange, NoneHidden, InPool
  <2>4. pool'.fresh => pool.fresh /\ \A B : Public(B, pool.txs) => Public(B, pool'.txs)
    BY <2>2 DEF BlockChange, Public, InPool
  <2>5. CASE btc' = btc  BY <1>0, <2>1, <2>3, <2>4, <2>5 DEF TemplateInv
  <2>6. CASE btc' = NoTemplate
    BY <1>0, <2>1, <2>3, <2>6, BlockchainAssumption DEF TemplateInv, NoTemplate
  <2> QED  BY <2>1, <2>5, <2>6
<1> QED  BY <1>2, <1>3, <1>4, <1>5

\* When every transaction may be relayed (none comes with do_not_relay), the
\* template served from the cache can be mined as it is: nothing that takes a
\* transaction of it out of the pool, or makes it unspendable, leaves both the
\* cookie and the tip alone.
THEOREM CachedTemplateIsMinable ==
  ASSUME "none" \notin Arrivals
  PROVE  SpecWithThrows => []CachedTemplateMinable
<1>1. Init => TemplateInv
  BY BlockchainAssumption DEF Init, TemplateInv, NoTemplate, EmptyPool, NoBatch, NoneHidden
<1>2. ASSUME ChainInv, MemoryInv, TemplateInv, restart  PROVE TemplateInv'
  <2>1. btc' = NoTemplate /\ batch' = NoBatch /\ NoneHidden(pool.txs) /\ NoneHidden(batch.txs)
    BY <1>2 DEF restart, TemplateInv
  <2>2. pool'.txs = pool.txs \/ pool'.txs = batch.txs
    BY <1>2 DEF restart, init, EmptyPool, ChainInv, NodeInv, Fields
  <2> QED  BY <2>1, <2>2, BlockchainAssumption DEF TemplateInv, NoTemplate, NoBatch, NoneHidden
<1>3. ChainInv /\ BusyInBatch /\ LedgerInv /\ MemoryInv /\ TemplateInv /\ [Next \/ Throw]_vars
        => TemplateInv'
  <2> SUFFICES ASSUME ChainInv, BusyInBatch, LedgerInv, MemoryInv, TemplateInv, [Next \/ Throw]_vars
               PROVE  TemplateInv'
    OBVIOUS
  <2>1. CASE UNCHANGED vars  BY <2>1 DEF vars, TemplateInv
  <2>2. CASE Next \/ Throw  BY <1>2, <2>2, TemplatePoolStep, TemplateBlockStep DEF Next
  <2> QED  BY <2>1, <2>2
<1>4. ChainInv /\ LedgerInv /\ TemplateInv => CachedTemplateMinable
  BY QuietFacts DEF TemplateInv, Public, CachedTemplateMinable, cached_template_usable,
                    ChainInv, NodeInv, InPool, broadcasted, legacy
<1> QED  BY <1>1, <1>3, <1>4, LedgerInvariant, MemoryInvariant, PTL DEF SpecWithThrows
=============================================================================
