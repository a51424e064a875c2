----------------------------- MODULE ChainProofs -----------------------------
(***************************************************************************)
(* Theorems about SpecWithThrows.  First, whatever the blocks, the         *)
(* transactions and the database do, the main chain never spends a key     *)
(* image twice, no transaction is both on it and in the pool, and no block *)
(* is both on it and in the alternative table.                             *)
(*                                                                         *)
(* They rest, as all theorems here and in BlockchainProofs do, on what the *)
(* operators of TxPool keep true of any pool: the index of key images and  *)
(* the sorted container mirror the table (IndexExact), and two             *)
(* transactions of the table share a key image only if a block keeps one   *)
(* of them (init_succeeds), so that the table can be loaded again.         *)
(*                                                                         *)
(* Second, what a chain switch and a batch of blocks do as a whole: the    *)
(* committed chain behaves as the ledger of module Ledger whatever the     *)
(* database does, a switch is all or nothing and loses no transaction, and *)
(* the node is on the heaviest chain it knows.  They rest on facts about   *)
(* all chains of a tree of blocks, by induction on the height: every set   *)
(* of heights has a least element, so a least counterexample is refuted.   *)
(*                                                                         *)
(* Nothing is assumed about weights: what pruning removes is irrelevant.   *)
(***************************************************************************)
EXTENDS Blockchain, WellFoundedInduction, TLAPS

------------------------------------------------------------------------------
(* The pool.                                                               *)

Fields == {"txs", "spent", "sorted", "weight", "timed_out", "cache", "fresh"}
MetaFields == {"relay", "age", "failed"}

\* The fields of the metadata of every transaction of a table.
TableShape(txs) == \A t \in DOMAIN txs : DOMAIN txs[t] = MetaFields

PoolOK(p) ==
    /\ DOMAIN p = Fields
    /\ TableShape(p.txs)
    /\ IndexExact(p)
    /\ init_succeeds(p)

\* A pool just created is in order.
LEMMA EmptyPoolOK == PoolOK(EmptyPool)
  BY DEF PoolOK, EmptyPool, Fields, TableShape, IndexExact, init_succeeds, InPool

\* Removing transactions, as take_tx, prune and remove_stuck_transactions do,
\* keeps the pool in order.
LEMMA RemoveOK ==
  ASSUME NEW p, PoolOK(p), NEW S
  PROVE  PoolOK(remove_txs(p, S))
<1> DEFINE q == remove_txs(p, S)
<1>1. DOMAIN q = Fields  BY DEF remove_txs, Fields
<1>2. InPool(q) = InPool(p) \ S /\ \A t \in InPool(q) : q.txs[t] = p.txs[t]
  BY DEF remove_txs, InPool
<1>3. TableShape(q.txs)  BY <1>2 DEF PoolOK, TableShape, InPool
<1>4. q.sorted = p.sorted \ S /\ \A k \in KeyImage : q.spent[k] = p.spent[k] \ S
  BY DEF remove_txs
<1>5. IndexExact(q)  BY <1>2, <1>4 DEF PoolOK, IndexExact
<1>6. init_succeeds(q)  BY <1>2 DEF PoolOK, init_succeeds, kept_by_block
<1> QED  BY <1>1, <1>3, <1>5, <1>6 DEF PoolOK

\* Pruning an overweight pool keeps its index exact.
LEMMA PruneOK ==
  ASSUME NEW p, PoolOK(p)
  PROVE  PoolOK(prune(p))
  BY RemoveOK DEF prune

\* take_tx keeps the index exact.
LEMMA TakeOK ==
  ASSUME NEW p, PoolOK(p), NEW S
  PROVE  PoolOK(take_tx(p, S))
  BY RemoveOK DEF take_tx

\* Inserting transactions keeps the pool in order when a block keeps them, or
\* when they share no key image with another transaction.
LEMMA InsertOK ==
  ASSUME NEW p, PoolOK(p), NEW S, NEW m,
         \/ m = "block"
         \/ \A t \in S : \A u \in InPool(p) \cup S : t # u => Images[t] \cap Images[u] = {}
  PROVE  PoolOK(insert_txs(p, S, m))
<1> DEFINE q == insert_txs(p, S, m)
<1>1. DOMAIN q = Fields  BY DEF insert_txs, Fields
<1>2. /\ InPool(q) = InPool(p) \cup S
      /\ \A t \in S : q.txs[t] = [relay |-> m, age |-> 0, failed |-> NoBlock]
      /\ \A t \in InPool(p) \ S : q.txs[t] = p.txs[t]
  BY DEF insert_txs, InPool
<1>3. TableShape(q.txs)
  <2> SUFFICES ASSUME NEW t \in InPool(q) PROVE DOMAIN q.txs[t] = MetaFields
    BY DEF TableShape, InPool
  <2>1. CASE t \in S  BY <2>1, <1>2 DEF MetaFields
  <2>2. CASE t \notin S  BY <2>2, <1>2 DEF PoolOK, TableShape, InPool
  <2> QED  BY <2>1, <2>2
<1>4. /\ q.sorted = p.sorted \cup S
      /\ \A k \in KeyImage : q.spent[k] = p.spent[k] \cup {t \in S : k \in Images[t]}
  BY DEF insert_txs
<1>5. IndexExact(q)  BY <1>2, <1>4 DEF PoolOK, IndexExact
<1>6. init_succeeds(q)
  <2> SUFFICES ASSUME NEW t \in InPool(q), NEW u \in InPool(q), t # u,
                      Images[t] \cap Images[u] # {}
               PROVE  kept_by_block(q, t) \/ kept_by_block(q, u)
    BY DEF init_succeeds
  <2>1. CASE t \in S \/ u \in S
    BY <2>1, <1>2 DEF kept_by_block
  <2>2. CASE t \notin S /\ u \notin S
    BY <2>2, <1>2 DEF PoolOK, init_succeeds, kept_by_block
  <2> QED  BY <2>1, <2>2
<1> QED  BY <1>1, <1>3, <1>5, <1>6 DEF PoolOK

\* An operation that only touches other fields, or only the metadata of the
\* transactions without letting go of one kept by a block.
LEMMA SameTableOK ==
  ASSUME NEW p, PoolOK(p), NEW q,
         DOMAIN q = Fields, q.spent = p.spent, q.sorted = p.sorted,
         DOMAIN q.txs = DOMAIN p.txs,
         \A t \in DOMAIN p.txs : /\ DOMAIN q.txs[t] = MetaFields
                                 /\ p.txs[t].relay = "block" => q.txs[t].relay = "block"
  PROVE  PoolOK(q)
<1>1. TableShape(q.txs)  BY DEF TableShape
<1>2. IndexExact(q)  BY DEF PoolOK, IndexExact, InPool
<1>3. init_succeeds(q)  BY DEF PoolOK, init_succeeds, kept_by_block, InPool
<1> QED  BY <1>1, <1>2, <1>3 DEF PoolOK

\* A verdict in m_input_cache changes nothing else.
LEMMA RememberOK ==
  ASSUME NEW p, PoolOK(p), NEW S, NEW ok
  PROVE  /\ PoolOK(remember(p, S, ok))
         /\ remember(p, S, ok).txs = p.txs /\ remember(p, S, ok).spent = p.spent
<1> DEFINE q == remember(p, S, ok)
<1>1. DOMAIN q = Fields /\ q.spent = p.spent /\ q.sorted = p.sorted /\ q.txs = p.txs
  BY DEF PoolOK, remember, Fields
<1>2. PoolOK(q)  BY <1>1, SameTableOK DEF PoolOK, TableShape
<1> QED  BY <1>1, <1>2

\* on_blockchain_inc and on_blockchain_dec only clear the cache.
LEMMA ChainChangeOK ==
  ASSUME NEW p, PoolOK(p)
  PROVE  /\ PoolOK(on_blockchain_change(p))
         /\ on_blockchain_change(p).txs = p.txs
<1> DEFINE q == on_blockchain_change(p)
<1>1. DOMAIN q = Fields /\ q.spent = p.spent /\ q.sorted = p.sorted /\ q.txs = p.txs
  BY DEF PoolOK, on_blockchain_change, Fields
<1>2. PoolOK(q)  BY <1>1, SameTableOK DEF PoolOK, TableShape
<1> QED  BY <1>1, <1>2

\* The transactions a block keeps enter whatever they clash with.
LEMMA AddKeptOK ==
  ASSUME NEW p, PoolOK(p), NEW S, NEW ok
  PROVE  PoolOK(add_kept_txs(p, S, ok))
<1>1. PoolOK(insert_txs(p, S \ refused_kept(p, S, ok), "block"))  BY InsertOK
<1> QED  BY <1>1, PruneOK DEF add_kept_txs

\* add_tx: have_tx_keyimges_as_spent, which asks the index, keeps every
\* transaction out that shares a key image with one of the table.
LEMMA AddTxOK ==
  ASSUME NEW p, PoolOK(p), NEW t \in Tx, Images[t] \subseteq KeyImage, NEW m, NEW ok
  PROVE  PoolOK(add_tx(p, t, m, ok))
<1> DEFINE checked == remember(p, {t}, ok)
           touched == [checked EXCEPT !.fresh = FALSE]
<1>1. PoolOK(checked) /\ checked.txs = p.txs  BY RememberOK
<1>2. PoolOK(touched)
  <2>1. /\ DOMAIN touched = Fields /\ touched.spent = checked.spent
        /\ touched.sorted = checked.sorted /\ touched.txs = checked.txs
    BY <1>1 DEF PoolOK, Fields
  <2> HIDE DEF touched, checked
  <2> QED  BY <1>1, <2>1, SameTableOK DEF PoolOK, TableShape
<1>3. ASSUME ~ have_tx_keyimges_as_spent(p, t), NEW method
      PROVE  PoolOK(insert_txs(checked, {t}, method))
  <2>1. \A u \in InPool(p) : u # t => Images[t] \cap Images[u] = {}
    BY <1>3 DEF have_tx_keyimges_as_spent, PoolOK, IndexExact
  <2>2. \A u \in InPool(checked) \cup {t} : t # u => Images[t] \cap Images[u] = {}
    BY <1>1, <2>1 DEF InPool
  <2> HIDE DEF checked
  <2> QED  BY <1>1, <2>2, InsertOK
<1>4. PoolOK(prune(touched))  BY <1>2, PruneOK
<1>5. ASSUME ~ have_tx_keyimges_as_spent(p, t), NEW method
      PROVE  PoolOK(prune(insert_txs(checked, {t}, method)))
  BY <1>5, <1>3, PruneOK
<1> QED  BY <1>1, <1>4, <1>5 DEF add_tx

\* remove_stuck_transactions keeps the index exact.
LEMMA RemoveStuckOK ==
  ASSUME NEW p, PoolOK(p)
  PROVE  PoolOK(remove_stuck_transactions(p))
<1> DEFINE r == remove_txs(p, stuck(p))
           q == [r EXCEPT !.timed_out = @ \cup stuck(p)]
<1>1. PoolOK(r)  BY RemoveOK
<1>2. DOMAIN q = Fields /\ q.spent = r.spent /\ q.sorted = r.sorted /\ q.txs = r.txs
  <2> HIDE DEF r
  <2> QED  BY <1>1 DEF PoolOK, Fields
<1>3. PoolOK(q)
  <2> HIDE DEF q, r
  <2> QED  BY <1>1, <1>2, SameTableOK DEF PoolOK, TableShape
<1> QED  BY <1>3 DEF remove_stuck_transactions

\* set_relayed never makes a transaction kept by a block less public.
LEMMA SetRelayedOK ==
  ASSUME NEW p, PoolOK(p), NEW t \in InPool(p), NEW m \in relay_method
  PROVE  PoolOK(set_relayed(p, t, m))
<1> DEFINE r == p.txs[t]
           q == set_relayed(p, t, m)
<1>1. upgrade_relay_method("block", m) = "block"
  BY DEF upgrade_relay_method, less, Publicity, relay_method
<1>2. DOMAIN r = MetaFields  BY DEF PoolOK, TableShape, InPool
<1>3. /\ DOMAIN q = Fields /\ q.spent = p.spent /\ q.sorted = p.sorted
      /\ q.txs = [p.txs EXCEPT ![t] = [@ EXCEPT !.relay = upgrade_relay_method(r.relay, m)]]
  BY DEF set_relayed, PoolOK, Fields
<1>4. /\ DOMAIN q.txs = DOMAIN p.txs
      /\ \A u \in DOMAIN p.txs : /\ DOMAIN q.txs[u] = MetaFields
                                 /\ p.txs[u].relay = "block" => q.txs[u].relay = "block"
  <2> HIDE DEF q
  <2> QED  BY <1>1, <1>2, <1>3 DEF InPool, PoolOK, TableShape, MetaFields
<1> HIDE DEF q
<1>5. PoolOK(q)  BY <1>3, <1>4, SameTableOK
<1> QED  BY <1>5 DEF q

\* Looking at transactions for a template only marks some as failed.
LEMMA TemplateOK ==
  ASSUME NEW p, PoolOK(p), NEW S, NEW ok, NEW tip
  PROVE  PoolOK(after_template(p, S, ok, tip))
<1> DEFINE asked == {t \in S : p.txs[t].failed # tip}
           c == remember(p, asked, ok)
           q == after_template(p, S, ok, tip)
<1>1. PoolOK(c) /\ c.txs = p.txs  BY RememberOK
<1>2. /\ DOMAIN q = Fields /\ q.spent = c.spent /\ q.sorted = c.sorted
      /\ q.txs = [t \in InPool(p) |->
                     IF t \in asked /\ ~ verdict(p, t, ok)
                     THEN [p.txs[t] EXCEPT !.failed = tip] ELSE p.txs[t]]
  <2>1. DOMAIN c = Fields  BY <1>1 DEF PoolOK
  <2> HIDE DEF c
  <2> QED  BY <2>1 DEF after_template, Fields, c
<1>3. /\ DOMAIN q.txs = DOMAIN c.txs
      /\ \A u \in DOMAIN c.txs : /\ DOMAIN q.txs[u] = MetaFields
                                 /\ c.txs[u].relay = "block" => q.txs[u].relay = "block"
  <2> HIDE DEF q, c, asked
  <2> QED  BY <1>1, <1>2 DEF InPool, PoolOK, TableShape, MetaFields
<1> HIDE DEF q, c
<1>4. PoolOK(q)  BY <1>1, <1>2, <1>3, SameTableOK
<1> QED  BY <1>4 DEF q

\* Time passing changes ages only.
LEMMA OlderOK ==
  ASSUME NEW p, PoolOK(p)
  PROVE  PoolOK(older(p))
<1> DEFINE q == older(p)
<1>1. /\ DOMAIN q = Fields /\ q.spent = p.spent /\ q.sorted = p.sorted
      /\ q.txs = [t \in InPool(p) |->
                     [p.txs[t] EXCEPT !.age = IF @ < MaxAge THEN @ + 1 ELSE @]]
  BY DEF older, PoolOK, Fields
<1>2. /\ DOMAIN q.txs = DOMAIN p.txs
      /\ \A u \in DOMAIN p.txs : /\ DOMAIN q.txs[u] = MetaFields
                                 /\ p.txs[u].relay = "block" => q.txs[u].relay = "block"
  <2> HIDE DEF q
  <2> QED  BY <1>1 DEF InPool, PoolOK, TableShape, MetaFields
<1> HIDE DEF q
<1>3. PoolOK(q)  BY <1>1, <1>2, SameTableOK
<1> QED  BY <1>3 DEF q

\* init builds the index from the table.
LEMMA InitOK ==
  ASSUME NEW p, TableShape(p.txs), init_succeeds(p)
  PROVE  PoolOK(init(p))
<1> DEFINE q == init(p)
<1>1. /\ DOMAIN q = Fields /\ q.txs = p.txs /\ q.sorted = InPool(p)
      /\ q.spent = [k \in KeyImage |-> {t \in InPool(p) : k \in Images[t]}]
  BY DEF init, EmptyPool, Fields
<1> HIDE DEF q
<1>2. PoolOK(q)
  BY <1>1 DEF PoolOK, IndexExact, init_succeeds, kept_by_block, InPool
<1> QED  BY <1>2 DEF q

----------------------------------------------------------------------------
(* What the operators put into a pool and take out of it, whether or not   *)
(* the pool is in order.                                                   *)

\* What is in the table after a removal.
LEMMA RemoveContents ==
  ASSUME NEW p, NEW S
  PROVE  DOMAIN remove_txs(p, S) = Fields /\ InPool(remove_txs(p, S)) = InPool(p) \ S
  BY DEF remove_txs, Fields, InPool

\* What is in the table after an insertion.
LEMMA InsertContents ==
  ASSUME NEW p, NEW S, NEW m
  PROVE  DOMAIN insert_txs(p, S, m) = Fields /\ InPool(insert_txs(p, S, m)) = InPool(p) \cup S
  BY DEF insert_txs, Fields, InPool

\* What is in the table after take_tx.
LEMMA TakeContents ==
  ASSUME NEW p, NEW S
  PROVE  DOMAIN take_tx(p, S) = Fields /\ InPool(take_tx(p, S)) = InPool(p) \ S
  BY RemoveContents DEF take_tx

\* Pruning brings nothing into the table.
LEMMA PruneContents ==
  ASSUME NEW p
  PROVE  DOMAIN prune(p) = Fields /\ InPool(prune(p)) \subseteq InPool(p)
  BY RemoveContents DEF prune

\* add_tx for the transactions of a block brings in only those.
LEMMA AddKeptContents ==
  ASSUME NEW p, NEW S, NEW ok
  PROVE  /\ DOMAIN add_kept_txs(p, S, ok) = Fields
         /\ InPool(add_kept_txs(p, S, ok)) \subseteq InPool(p) \cup S
<1> DEFINE r == insert_txs(p, S \ refused_kept(p, S, ok), "block")
<1>1. InPool(r) \subseteq InPool(p) \cup S  BY InsertContents
<1> HIDE DEF r
<1>2. DOMAIN prune(r) = Fields /\ InPool(prune(r)) \subseteq InPool(p) \cup S
  BY <1>1, PruneContents
<1> QED  BY <1>2 DEF add_kept_txs, r

\* The callbacks of the chain do not touch the table.
LEMMA ChainChangeContents ==
  ASSUME NEW p, DOMAIN p = Fields
  PROVE  /\ DOMAIN on_blockchain_change(p) = Fields
         /\ InPool(on_blockchain_change(p)) = InPool(p)
  BY DEF on_blockchain_change, Fields, InPool

\* add_tx brings in at most the transaction it was called for.
LEMMA AddTxContents ==
  ASSUME NEW p, DOMAIN p = Fields, NEW t, NEW m, NEW ok
  PROVE  /\ DOMAIN add_tx(p, t, m, ok) = Fields
         /\ InPool(add_tx(p, t, m, ok)) \subseteq InPool(p) \cup {t}
<1> DEFINE checked == remember(p, {t}, ok)
           touched == [checked EXCEPT !.fresh = FALSE]
<1>1. DOMAIN checked = Fields /\ checked.txs = p.txs
  BY DEF remember, Fields
<1>2. DOMAIN touched = Fields /\ touched.txs = p.txs
  <2> HIDE DEF checked
  <2> QED  BY <1>1 DEF Fields
<1> HIDE DEF touched, checked
<1>3. DOMAIN prune(touched) = Fields /\ InPool(prune(touched)) \subseteq InPool(p)
  BY <1>2, PruneContents DEF InPool
<1>4. ASSUME NEW method
      PROVE  /\ DOMAIN prune(insert_txs(checked, {t}, method)) = Fields
             /\ InPool(prune(insert_txs(checked, {t}, method))) \subseteq InPool(p) \cup {t}
  <2>1. InPool(insert_txs(checked, {t}, method)) = InPool(p) \cup {t}
    BY <1>1, InsertContents DEF InPool
  <2> QED  BY <2>1, PruneContents
<1>5. DOMAIN checked = Fields /\ InPool(checked) = InPool(p)  BY <1>1 DEF InPool
<1> QED  BY <1>3, <1>4, <1>5 DEF add_tx, touched, checked

\* The operations that add nothing to the table.
LEMMA OtherContents ==
  ASSUME NEW p, DOMAIN p = Fields
  PROVE  /\ /\ DOMAIN remove_stuck_transactions(p) = Fields
            /\ InPool(remove_stuck_transactions(p)) \subseteq InPool(p)
         /\ \A t, m : /\ DOMAIN set_relayed(p, t, m) = Fields
                      /\ InPool(set_relayed(p, t, m)) = InPool(p)
         /\ \A S, ok, tip : /\ DOMAIN after_template(p, S, ok, tip) = Fields
                            /\ InPool(after_template(p, S, ok, tip)) = InPool(p)
         /\ DOMAIN older(p) = Fields /\ InPool(older(p)) = InPool(p)
<1>1. /\ DOMAIN remove_stuck_transactions(p) = Fields
      /\ InPool(remove_stuck_transactions(p)) \subseteq InPool(p)
  <2> DEFINE r == remove_txs(p, stuck(p))
  <2>1. DOMAIN r = Fields /\ DOMAIN r.txs = InPool(p) \ stuck(p)
    BY RemoveContents DEF InPool
  <2> HIDE DEF r
  <2>2. /\ DOMAIN [r EXCEPT !.timed_out = @ \cup stuck(p)] = Fields
        /\ [r EXCEPT !.timed_out = @ \cup stuck(p)].txs = r.txs
    BY <2>1 DEF Fields
  <2> QED  BY <2>1, <2>2 DEF remove_stuck_transactions, r, InPool
<1>2. ASSUME NEW t, NEW m
      PROVE  DOMAIN set_relayed(p, t, m) = Fields /\ InPool(set_relayed(p, t, m)) = InPool(p)
  BY DEF set_relayed, Fields, InPool
<1>3. ASSUME NEW S, NEW ok, NEW tip
      PROVE  /\ DOMAIN after_template(p, S, ok, tip) = Fields
             /\ InPool(after_template(p, S, ok, tip)) = InPool(p)
  BY DEF after_template, remember, Fields, InPool
<1>4. DOMAIN older(p) = Fields /\ InPool(older(p)) = InPool(p)
  BY DEF older, Fields, InPool
<1> QED  BY <1>1, <1>2, <1>3, <1>4

\* init reads the table and does not change it.
LEMMA InitContents ==
  ASSUME NEW p
  PROVE  DOMAIN init(p) = Fields /\ init(p).txs = p.txs
  BY DEF init, EmptyPool, Fields

------------------------------------------------------------------------------
(* The chain.                                                              *)

BatchFields == {"active", "ok", "left", "top", "alt", "txs", "written", "keys"}
OpFields == {"phase", "target", "orig", "failed", "discard"}

\* NoDoubleSpend of the chain that ends in b.
ChainSound(b) ==
    \A c, d \in Chain[b] : \A i \in DOMAIN TxsOf[c], j \in DOMAIN TxsOf[d] :
        <<c, i>> # <<d, j>> => Images[TxsOf[c][i]] \cap Images[TxsOf[d][j]] = {}

OffChain(txs, b) == (DOMAIN txs) \cap chain_txs(b) = {}

\* The database as the process sees it, and as the last commit left it.
NodeInv ==
    /\ top \in Block
    /\ DOMAIN pool = Fields
    /\ ChainSound(top)
    /\ OffChain(pool.txs, top)

SnapshotInv ==
    /\ DOMAIN batch = BatchFields
    /\ batch.top \in Block
    /\ ChainSound(batch.top)
    /\ OffChain(batch.txs, batch.top)
    /\ batch.alt \cap Chain[batch.top] = {}

\* During a switch it is the old chain that the alternative table avoids: the
\* blocks that are being connected stay in it until the switch ends.
SwitchInv ==
    /\ DOMAIN op = OpFields
    /\ op.phase \in {"idle", "switch", "rollback", "pop"}
    /\ op.target \in Block /\ op.orig \in Block
    /\ op.phase = "pop" => op.target \in Chain[top]
    /\ op.phase \in {"idle", "pop"} => alt \cap Chain[top] = {}
    /\ op.phase \in {"switch", "rollback"} => alt \cap Chain[op.orig] = {}

ChainInv == NodeInv /\ SnapshotInv /\ SwitchInv

\* A chain is only being switched or popped inside a write transaction.
BusyInBatch == op.phase # "idle" => batch.active

----------------------------------------------------------------------------
(* The tree of blocks.                                                     *)

\* The shape of the block tree: a chain is its parent's and one block more.
LEMMA Tree ==
  /\ Genesis \in Block /\ Chain[Genesis] = {Genesis} /\ TxSet(Genesis) = {}
  /\ \A b \in Block : b \in Chain[b] /\ Genesis \in Chain[b] /\ Chain[b] \subseteq Block
  /\ \A b \in Block : \A c \in Chain[b] : Chain[c] \subseteq Chain[b]
  /\ \A b \in Block \ {Genesis} :
        Prev[b] \in Block /\ b \notin Chain[Prev[b]] /\ Chain[b] = Chain[Prev[b]] \cup {b}
<1>1. DOMAIN TxsOf[Genesis] = {}  BY BlockchainAssumption
<1>2. TxSet(Genesis) = {}  BY <1>1 DEF TxSet
<1>3. ASSUME NEW b \in Block  PROVE b \in Chain[b]
  <2>1. CASE b = Genesis  BY <2>1, BlockchainAssumption
  <2>2. CASE b # Genesis
    <3>1. \A c \in Block \ {Genesis} : Chain[c] = Chain[Prev[c]] \cup {c}
      BY BlockchainAssumption
    <3> QED  BY <2>2, <3>1
  <2> QED  BY <2>1, <2>2
<1> QED  BY <1>2, <1>3, BlockchainAssumption

\* A block adds its own transactions to those of its parent's chain.
LEMMA ChainTxsGrow ==
  ASSUME NEW b \in Block \ {Genesis}
  PROVE  chain_txs(b) = chain_txs(Prev[b]) \cup TxSet(b)
  BY Tree DEF chain_txs

\* Popping blocks only takes transactions off the chain.
LEMMA ChainTxsMonotone ==
  ASSUME NEW b, NEW c, Chain[c] \subseteq Chain[b]
  PROVE  chain_txs(c) \subseteq chain_txs(b)
  BY DEF chain_txs

\* Popping blocks cannot create a double spend.
LEMMA SoundMonotone ==
  ASSUME NEW b, NEW c, Chain[c] \subseteq Chain[b], ChainSound(b)
  PROVE  ChainSound(c)
  BY DEF ChainSound

\* The chain of the genesis block alone has no transaction.
LEMMA GenesisSound == ChainSound(Genesis) /\ chain_txs(Genesis) = {}
<1>1. DOMAIN TxsOf[Genesis] = {}  BY BlockchainAssumption
<1> QED  BY <1>1, Tree DEF ChainSound, chain_txs

\* On a sound chain the transactions of a block are in none of its ancestors,
\* because every transaction spends something.
LEMMA TxsAreNew ==
  ASSUME NEW b \in Block \ {Genesis}, ChainSound(b)
  PROVE  TxSet(b) \cap chain_txs(Prev[b]) = {}
<1> SUFFICES ASSUME NEW t \in TxSet(b), t \in chain_txs(Prev[b]) PROVE FALSE  OBVIOUS
<1>1. PICK i \in DOMAIN TxsOf[b] : t = TxsOf[b][i]  BY DEF TxSet
<1>2. PICK c \in Chain[Prev[b]] : t \in TxSet(c)  BY DEF chain_txs
<1>3. PICK j \in DOMAIN TxsOf[c] : t = TxsOf[c][j]  BY <1>2 DEF TxSet
<1>4. b \in Chain[b] /\ c \in Chain[b] /\ b # c  BY <1>2, Tree
<1>5. <<b, i>> # <<c, j>>  BY <1>4
<1>6. Images[t] \cap Images[t] = {}  BY <1>1, <1>3, <1>4, <1>5 DEF ChainSound
<1>7. t \in Tx  BY <1>1, BlockchainAssumption
<1> QED  BY <1>6, <1>7, TxPoolAssumption

\* A block whose transactions have good inputs and share no key image extends
\* a sound chain to a sound one.
LEMMA ExtendSound ==
  ASSUME NEW b \in Block \ {Genesis}, Prev[b] = top, ChainSound(top), ~ clash(b),
         \A i \in DOMAIN TxsOf[b] : inputs_ok(TxsOf[b][i])
  PROVE  ChainSound(b)
<1>1. ASSUME NEW c \in Chain[top], NEW i \in DOMAIN TxsOf[b], NEW j \in DOMAIN TxsOf[c]
      PROVE  Images[TxsOf[b][i]] \cap Images[TxsOf[c][j]] = {}
  <2>1. TxsOf[c][j] \in chain_txs(top)  BY DEF chain_txs, TxSet
  <2>2. Images[TxsOf[c][j]] \subseteq chain_keys(top)  BY <2>1 DEF chain_keys
  <2> QED  BY <2>2 DEF inputs_ok
<1>2. Chain[b] = Chain[top] \cup {b}  BY Tree
<1> SUFFICES ASSUME NEW c \in Chain[b], NEW d \in Chain[b],
                    NEW i \in DOMAIN TxsOf[c], NEW j \in DOMAIN TxsOf[d],
                    <<c, i>> # <<d, j>>
             PROVE  Images[TxsOf[c][i]] \cap Images[TxsOf[d][j]] = {}
  BY DEF ChainSound
<1>3. CASE c \in Chain[top] /\ d \in Chain[top]  BY <1>3 DEF ChainSound
<1>4. CASE c = b /\ d \in Chain[top]  BY <1>4, <1>1
<1>5. CASE c \in Chain[top] /\ d = b  BY <1>5, <1>1
<1>6. CASE c = b /\ d = b
  <2>1. i # j  BY <1>6
  <2> QED  BY <1>6, <2>1 DEF clash
<1> QED  BY <1>2, <1>3, <1>4, <1>5, <1>6

----------------------------------------------------------------------------
(* The ways a block changes the chain and the pool.                        *)

\* pop_block_from_blockchain: what it returns to the pool has left the chain.
LEMMA PopKeepsNode ==
  ASSUME NodeInv, top # Genesis, pop_block_from_blockchain
  PROVE  NodeInv' /\ top' = Prev[top] /\ Chain[top'] \subseteq Chain[top]
<1>1. top' = Prev[top] /\ top' \in Block /\ Chain[top'] \subseteq Chain[top]
  BY Tree DEF NodeInv, pop_block_from_blockchain
<1>2. ChainSound(top')  BY <1>1, SoundMonotone DEF NodeInv
<1>3. DOMAIN pool' = Fields /\ InPool(pool') \subseteq InPool(pool) \cup TxSet(top)
  BY AddKeptContents, ChainChangeContents DEF pop_block_from_blockchain
<1>4. OffChain(pool'.txs, top')
  <2>1. TxSet(top) \cap chain_txs(top') = {}  BY <1>1, TxsAreNew DEF NodeInv
  <2>2. chain_txs(top') \subseteq chain_txs(top)  BY <1>1, ChainTxsMonotone
  <2> QED  BY <1>3, <2>1, <2>2 DEF NodeInv, OffChain, InPool
<1> QED  BY <1>1, <1>2, <1>3, <1>4 DEF NodeInv, ChainSound, OffChain, chain_txs, TxSet

\* A block that add_block accepts spends nothing twice and leaves the pool.
LEMMA AddBlockKeepsNode ==
  ASSUME NodeInv, NEW b \in Block \ {Genesis}, NEW supplement, Prev[b] = top,
         accepted(b, supplement), ~ clash(b), add_block(b)
  PROVE  NodeInv' /\ top' = b
<1>1. \A i \in DOMAIN TxsOf[b] : inputs_ok(TxsOf[b][i])
  BY DEF accepted, stops, stops_at
<1>2. ChainSound(b)  BY <1>1, ExtendSound DEF NodeInv
<1>3. DOMAIN pool' = Fields /\ InPool(pool') = InPool(pool) \ TxSet(b)
  BY TakeContents, ChainChangeContents DEF add_block
<1>4. OffChain(pool'.txs, b)
  BY <1>3, ChainTxsGrow DEF NodeInv, OffChain, InPool
<1>5. top' = b  BY DEF add_block
<1> QED  BY <1>2, <1>3, <1>4, <1>5 DEF NodeInv

\* return_txs_to_pool only returns transactions that were in the pool.
LEMMA ReturnKeepsNode ==
  ASSUME NodeInv, NEW S, S \subseteq InPool(pool), return_txs_to_pool(S), UNCHANGED top
  PROVE  NodeInv'
<1>1. DOMAIN pool' = Fields /\ InPool(pool') \subseteq InPool(pool)
  BY TakeContents, AddKeptContents DEF return_txs_to_pool
<1> QED  BY <1>1 DEF NodeInv, OffChain, InPool

\* A refused block changes neither the chain nor what is off it.
LEMMA RefuseKeepsNode ==
  ASSUME NodeInv, NEW b, NEW supplement, refuse_block(b, supplement)
  PROVE  NodeInv' /\ UNCHANGED top
<1>1. taken(b, supplement) \subseteq InPool(pool)  BY DEF taken
<1>2. CASE check_block(b)  BY <1>1, <1>2, ReturnKeepsNode DEF refuse_block
<1>3. CASE ~ check_block(b)  BY <1>3 DEF refuse_block, NodeInv
<1> QED  BY <1>2, <1>3 DEF refuse_block

----------------------------------------------------------------------------
(* The snapshot and the switch under way.                                  *)

\* A step inside a batch leaves the snapshot alone.
LEMMA SnapshotKept ==
  ASSUME SnapshotInv, DOMAIN batch' = BatchFields, batch'.top = batch.top,
         batch'.alt = batch.alt, batch'.txs = batch.txs
  PROVE  SnapshotInv'
  BY DEF SnapshotInv

\* A step inside a batch leaves the state an abort goes back to alone.
LEMMA BatchGoesOn ==
  ASSUME SnapshotInv, UNCHANGED batch \/ NextInBatch \/ EndOfBlocks
  PROVE  SnapshotInv'
<1>1. /\ DOMAIN batch' = BatchFields /\ batch'.top = batch.top
      /\ batch'.alt = batch.alt /\ batch'.txs = batch.txs
  BY DEF SnapshotInv, NextInBatch, EndOfBlocks, BatchFields
<1> QED  BY <1>1, SnapshotKept

\* Outside a batch there is nothing to go back to.
LEMMA NoSnapshot ==
  ASSUME batch' = NoBatch
  PROVE  SnapshotInv'
<1>1. /\ DOMAIN batch' = BatchFields /\ batch'.top = Genesis
      /\ batch'.alt = {} /\ DOMAIN batch'.txs = {}
  BY DEF NoBatch, BatchFields
<1> QED  BY <1>1, Tree, GenesisSound DEF SnapshotInv, OffChain

\* A batch starts from a state that satisfies the invariant.
LEMMA NewSnapshot ==
  ASSUME NodeInv, alt \cap Chain[top] = {}, DOMAIN batch' = BatchFields,
         batch'.top = top, batch'.alt = alt, batch'.txs = pool.txs
  PROVE  SnapshotInv'
  BY DEF NodeInv, SnapshotInv

\* The fields of op when no switch is under way.
LEMMA IdleFacts ==
  /\ DOMAIN Idle = OpFields /\ Idle.phase = "idle"
  /\ Idle.target \in Block /\ Idle.orig \in Block
  BY Tree DEF Idle, OpFields

\* No switch is under way after the step.
LEMMA BecomesIdle ==
  ASSUME op' = Idle, alt' \cap Chain[top'] = {}
  PROVE  SwitchInv'
  BY IdleFacts DEF SwitchInv

\* A step that leaves the chain, the alternative table and the switch alone.
LEMMA StaysIdle ==
  ASSUME SwitchInv, UNCHANGED <<op, alt, top>>
  PROVE  SwitchInv'
  BY DEF SwitchInv

\* m_db->add_block throws.
LEMMA ThrowKeeps ==
  ASSUME NodeInv, SnapshotInv, NEW b, add_block_throws(b)
  PROVE  NodeInv' /\ SnapshotInv' /\ UNCHANGED top
<1>1. /\ \E w, k : batch' = [batch EXCEPT !.ok = FALSE, !.left = 0,
                                          !.written = w, !.keys = k]
      /\ return_txs_to_pool(TxSet(b) \cap InPool(pool))
      /\ UNCHANGED top
  BY DEF add_block_throws
<1>2. NodeInv'  BY <1>1, ReturnKeepsNode
<1>3. /\ DOMAIN batch' = BatchFields /\ batch'.top = batch.top
      /\ batch'.alt = batch.alt /\ batch'.txs = batch.txs
  BY <1>1 DEF SnapshotInv, BatchFields
<1> QED  BY <1>1, <1>2, <1>3, SnapshotKept

----------------------------------------------------------------------------
(* The steps.                                                              *)

\* Between two switches the alternative table avoids the main chain.
LEMMA IdleOffChain ==
  ASSUME SwitchInv, op = Idle
  PROVE  alt \cap Chain[top] = {}
  BY IdleFacts DEF SwitchInv

\* The next block to connect is a child of the tip on the target's chain.
LEMMA NextTowards ==
  ASSUME NEW b \in Block, NEW n \in next_towards(b)
  PROVE  /\ n \in Block \ {Genesis} /\ Prev[n] = top
         /\ top \in Block => Chain[top] \subseteq Chain[b]
<1>1. n \in Block \ {Genesis} /\ Prev[n] = top /\ n \in Chain[b]
  BY Tree DEF next_towards
<1>2. Chain[n] = Chain[top] \cup {n} /\ Chain[n] \subseteq Chain[b]  BY <1>1, Tree
<1> QED  BY <1>1, <1>2

\* prepare_handle_incoming_blocks and cleanup_handle_incoming_blocks, the abort included.
LEMMA BatchStep ==
  ASSUME ChainInv, \/ prepare_handle_incoming_blocks
                   \/ cleanup_handle_incoming_blocks
  PROVE  ChainInv'
<1>1. CASE prepare_handle_incoming_blocks
  <2>1. UNCHANGED <<pool, top, alt, op>> /\ op = Idle
    BY <1>1 DEF prepare_handle_incoming_blocks, Quiet
  <2>2. /\ DOMAIN batch' = BatchFields /\ batch'.top = top
        /\ batch'.alt = alt /\ batch'.txs = pool.txs
    BY <1>1 DEF prepare_handle_incoming_blocks, NoBatch, BatchFields
  <2>3. SnapshotInv'  BY <2>1, <2>2, NewSnapshot, IdleOffChain DEF ChainInv
  <2>4. NodeInv'  BY <2>1 DEF ChainInv, NodeInv
  <2> QED  BY <2>1, <2>3, <2>4, StaysIdle DEF ChainInv
<1>2. CASE cleanup_handle_incoming_blocks
  <2>1. batch' = NoBatch /\ op = Idle /\ op' = Idle
    BY <1>2 DEF cleanup_handle_incoming_blocks
  <2>2. SnapshotInv'  BY <2>1, NoSnapshot
  <2>3. CASE batch.ok
    <3>1. UNCHANGED <<pool, top, alt>>  BY <1>2, <2>3 DEF cleanup_handle_incoming_blocks
    <3>2. NodeInv'  BY <3>1 DEF ChainInv, NodeInv
    <3> QED  BY <2>1, <2>2, <3>1, <3>2, StaysIdle DEF ChainInv
  <2>4. CASE ~ batch.ok
    <3>1. pool' = [pool EXCEPT !.txs = batch.txs] /\ top' = batch.top /\ alt' = batch.alt
      BY <1>2, <2>4 DEF cleanup_handle_incoming_blocks
    <3>2. DOMAIN pool' = Fields /\ pool'.txs = batch.txs
      BY <3>1 DEF ChainInv, NodeInv, Fields
    <3>3. NodeInv'  BY <3>1, <3>2 DEF ChainInv, SnapshotInv, NodeInv
    <3>4. SwitchInv'  BY <2>1, <3>1, BecomesIdle DEF ChainInv, SnapshotInv
    <3> QED  BY <2>2, <3>3, <3>4 DEF ChainInv
  <2> QED  BY <2>3, <2>4
<1> QED  BY <1>1, <1>2

\* add_new_block on the tip, accepted or refused.
LEMMA MainStep ==
  ASSUME ChainInv, NEW b \in Block \ {Genesis}, NEW supplement,
         add_to_main_chain(b, supplement)
  PROVE  ChainInv'
<1>1. op = Idle /\ UNCHANGED <<alt, op>> /\ Prev[b] = top /\ b \notin alt
  BY DEF add_to_main_chain, InBatch, have_block
<1>2. alt \cap Chain[top] = {}  BY <1>1, IdleOffChain DEF ChainInv
<1>3. CASE accepted(b, supplement) /\ ~ clash(b) /\ add_block(b) /\ NextInBatch
  <2>1. NodeInv' /\ top' = b  BY <1>1, <1>3, AddBlockKeepsNode DEF ChainInv
  <2>2. Chain[b] = Chain[top] \cup {b}  BY <1>1, Tree
  <2>3. alt' \cap Chain[top'] = {}  BY <1>1, <1>2, <2>1, <2>2
  <2> QED  BY <1>1, <1>3, <2>1, <2>3, BecomesIdle, BatchGoesOn DEF ChainInv
<1>4. CASE refuse_block(b, supplement) /\ EndOfBlocks
  BY <1>1, <1>4, RefuseKeepsNode, BatchGoesOn, StaysIdle DEF ChainInv
<1> QED  BY <1>3, <1>4 DEF add_to_main_chain

\* handle_alternative_block, with the start of a switch.
LEMMA AlternativeStep ==
  ASSUME ChainInv, NEW b \in Block \ {Genesis}, NEW supplement,
         handle_alternative_block(b, supplement)
  PROVE  ChainInv'
<1>1. op = Idle /\ UNCHANGED top /\ b \notin Chain[top]
  BY DEF handle_alternative_block, InBatch, have_block
<1>2. alt \cap Chain[top] = {}  BY <1>1, IdleOffChain DEF ChainInv
<1>3. SnapshotInv'  BY BatchGoesOn DEF ChainInv, handle_alternative_block
<1>4. \/ UNCHANGED pool
      \/ \E S \in SUBSET to_add(supplement) : pool' = add_kept_txs(pool, S, good_inputs)
  BY DEF handle_alternative_block
<1>5. to_add(supplement) \cap chain_txs(top) = {}  BY DEF to_add, tx_exists
<1>6. NodeInv'
  <2>1. CASE UNCHANGED pool  BY <2>1, <1>1 DEF ChainInv, NodeInv
  <2>2. ASSUME NEW S \in SUBSET to_add(supplement), pool' = add_kept_txs(pool, S, good_inputs)
        PROVE  NodeInv'
    <3>1. DOMAIN pool' = Fields /\ InPool(pool') \subseteq InPool(pool) \cup S
      BY <2>2, AddKeptContents
    <3> QED  BY <1>1, <1>5, <3>1 DEF ChainInv, NodeInv, OffChain, InPool
  <2> QED  BY <1>4, <2>1, <2>2
<1>7. SwitchInv'
  <2>1. CASE UNCHANGED <<alt, op>>  BY <1>1, <2>1, StaysIdle DEF ChainInv
  <2>2. CASE alt' = alt \cup {b} /\ op' = Idle
    BY <1>1, <1>2, <2>2, BecomesIdle
  <2>3. CASE /\ alt' = alt \cup {b}
             /\ op' = [Idle EXCEPT !.phase = "switch", !.target = b, !.orig = top,
                                   !.discard = is_a_checkpoint(b)]
    <3>1. /\ DOMAIN op' = OpFields /\ op'.phase = "switch"
          /\ op'.target = b /\ op'.orig = top
      BY <2>3 DEF Idle, OpFields
    <3> QED  BY <1>1, <1>2, <2>3, <3>1 DEF SwitchInv, ChainInv, NodeInv
  <2> QED  BY <2>1, <2>2, <2>3 DEF handle_alternative_block
<1> QED  BY <1>3, <1>6, <1>7 DEF ChainInv

\* The phase of a switch decides which chain the alternative table avoids.
LEMMA PhaseFacts ==
  ASSUME SwitchInv, op.phase \in {"switch", "rollback"}
  PROVE  op.target \in Block /\ op.orig \in Block /\ alt \cap Chain[op.orig] = {}
  BY DEF SwitchInv

\* A turn of the loop of a switch or a rollback.
LEMMA SwitchGoesOn ==
  ASSUME SwitchInv, op.phase \in {"switch", "rollback"}, UNCHANGED alt,
         \/ UNCHANGED op
         \/ \E n : op' = [op EXCEPT !.phase = "rollback", !.failed = n]
  PROVE  SwitchInv'
<1>1. /\ DOMAIN op' = OpFields /\ op'.phase \in {"switch", "rollback"}
      /\ op'.target = op.target /\ op'.orig = op.orig
  BY DEF SwitchInv, OpFields
<1> QED  BY <1>1 DEF SwitchInv

\* switch_to_alternative_blockchain and rollback_blockchain_switching.
LEMMA SwitchStep ==
  ASSUME ChainInv, \/ switch_pop \/ switch_connect \/ finish_switch
                   \/ rollback_pop \/ rollback_restore \/ finish_rollback
  PROVE  ChainInv'
<1>0. (op.phase \in {"switch", "rollback"} /\ UNCHANGED batch) \/ EndOfBlocks
  BY DEF switch_pop, switch_connect, finish_switch, rollback_pop, rollback_restore,
         finish_rollback
<1>1. op.phase \in {"switch", "rollback"}
  BY DEF switch_pop, switch_connect, finish_switch, rollback_pop, rollback_restore,
         finish_rollback
<1>2. SnapshotInv'  BY <1>0, BatchGoesOn DEF ChainInv
<1>3. op.target \in Block /\ op.orig \in Block /\ alt \cap Chain[op.orig] = {}
  BY <1>1, PhaseFacts DEF ChainInv
<1>4. CASE switch_pop \/ rollback_pop
  <2>1. top # Genesis  BY <1>3, <1>4, Tree DEF switch_pop, rollback_pop
  <2>2. NodeInv'  BY <1>4, <2>1, PopKeepsNode DEF ChainInv, switch_pop, rollback_pop
  <2>3. SwitchInv'  BY <1>1, <1>4, SwitchGoesOn DEF ChainInv, switch_pop, rollback_pop
  <2> QED  BY <1>2, <2>2, <2>3 DEF ChainInv
<1>5. CASE switch_connect
  <2>1. PICK n \in next_towards(op.target) :
           \/ accepted(n, {}) /\ ~ clash(n) /\ add_block(n) /\ UNCHANGED op
           \/ refuse_block(n, {}) /\ op' = [op EXCEPT !.phase = "rollback", !.failed = n]
    BY <1>5 DEF switch_connect
  <2>2. n \in Block \ {Genesis} /\ Prev[n] = top  BY <1>3, NextTowards
  <2>3. NodeInv'  BY <2>1, <2>2, AddBlockKeepsNode, RefuseKeepsNode DEF ChainInv
  <2>4. SwitchInv'  BY <1>1, <1>5, <2>1, SwitchGoesOn DEF ChainInv, switch_connect
  <2> QED  BY <1>2, <2>3, <2>4 DEF ChainInv
<1>6. CASE finish_switch
  <2>1. /\ UNCHANGED <<pool, top>> /\ op' = Idle /\ top = op.target
        /\ alt' \cap Chain[op.target] = {}
    BY <1>6 DEF finish_switch
  <2>2. NodeInv'  BY <2>1 DEF ChainInv, NodeInv
  <2> QED  BY <1>2, <2>1, <2>2, BecomesIdle DEF ChainInv
<1>7. CASE finish_rollback
  <2>1. UNCHANGED <<pool, top>> /\ op' = Idle /\ top = op.orig /\ alt' \subseteq alt
    BY <1>7 DEF finish_rollback, drop_failed
  <2>2. NodeInv'  BY <2>1 DEF ChainInv, NodeInv
  <2>3. alt' \cap Chain[top'] = {}  BY <1>3, <2>1
  <2> QED  BY <1>2, <2>1, <2>2, <2>3, BecomesIdle DEF ChainInv
<1>8. CASE rollback_restore
  <2>1. PICK n \in next_towards(op.orig) :
           \/ accepted(n, {}) /\ ~ clash(n) /\ add_block(n) /\ UNCHANGED <<alt, op>>
           \/ refuse_block(n, {}) /\ drop_failed
    BY <1>8 DEF rollback_restore
  <2>2. n \in Block \ {Genesis} /\ Prev[n] = top /\ Chain[top] \subseteq Chain[op.orig]
    BY <1>3, NextTowards DEF ChainInv, NodeInv
  <2>3. CASE accepted(n, {}) /\ ~ clash(n) /\ add_block(n) /\ UNCHANGED <<alt, op>>
    <3>1. NodeInv'  BY <2>2, <2>3, AddBlockKeepsNode DEF ChainInv
    <3>2. SwitchInv'  BY <1>1, <2>3, SwitchGoesOn DEF ChainInv
    <3> QED  BY <1>2, <3>1, <3>2 DEF ChainInv
  <2>4. CASE refuse_block(n, {}) /\ drop_failed
    <3>1. NodeInv' /\ UNCHANGED top  BY <2>4, RefuseKeepsNode DEF ChainInv
    <3>2. op' = Idle /\ alt' \subseteq alt  BY <2>4 DEF drop_failed
    <3>3. alt' \cap Chain[top'] = {}  BY <1>3, <2>2, <3>1, <3>2
    <3> QED  BY <1>2, <3>1, <3>2, <3>3, BecomesIdle DEF ChainInv
  <2> QED  BY <2>1, <2>3, <2>4
<1> QED  BY <1>4, <1>5, <1>6, <1>7, <1>8

\* pop_blocks.
LEMMA PopStep ==
  ASSUME ChainInv, (\E b \in Block : pop_blocks(b)) \/ pop_blocks_step
  PROVE  ChainInv'
<1>1. ASSUME NEW b \in Block, pop_blocks(b)  PROVE ChainInv'
  <2>1. /\ op = Idle /\ UNCHANGED <<pool, top, alt>> /\ b \in Chain[top]
        /\ op' = [Idle EXCEPT !.phase = "pop", !.target = b]
    BY <1>1 DEF pop_blocks, Quiet
  <2>2. alt \cap Chain[top] = {}  BY <2>1, IdleOffChain DEF ChainInv
  <2>3. /\ DOMAIN batch' = BatchFields /\ batch'.top = top
        /\ batch'.alt = alt /\ batch'.txs = pool.txs
    BY <1>1 DEF pop_blocks, NoBatch, BatchFields
  <2>4. SnapshotInv'  BY <2>2, <2>3, NewSnapshot DEF ChainInv
  <2>5. DOMAIN op' = OpFields /\ op'.phase = "pop" /\ op'.target = b /\ op'.orig = Genesis
    BY <2>1 DEF Idle, OpFields
  <2>6. SwitchInv'  BY <2>1, <2>2, <2>5, Tree DEF SwitchInv
  <2>7. NodeInv'  BY <2>1 DEF ChainInv, NodeInv
  <2> QED  BY <2>4, <2>6, <2>7 DEF ChainInv
<1>2. CASE pop_blocks_step
  <2>1. /\ op.phase = "pop" /\ op.target \in Chain[top] /\ alt \cap Chain[top] = {}
        /\ UNCHANGED <<alt, batch>>
    BY <1>2 DEF pop_blocks_step, ChainInv, SwitchInv
  <2>2. SnapshotInv'  BY <2>1, BatchGoesOn DEF ChainInv
  <2>3. CASE top = op.target
    <3>1. op' = Idle /\ UNCHANGED <<pool, top>>  BY <1>2, <2>3 DEF pop_blocks_step
    <3>2. NodeInv'  BY <3>1 DEF ChainInv, NodeInv
    <3> QED  BY <2>1, <2>2, <3>1, <3>2, BecomesIdle DEF ChainInv
  <2>4. CASE top # op.target
    <3>1. pop_block_from_blockchain /\ UNCHANGED op  BY <1>2, <2>4 DEF pop_blocks_step
    <3>2. top \in Block /\ top # Genesis  BY <2>1, <2>4, Tree DEF ChainInv, NodeInv
    <3>3. NodeInv' /\ top' = Prev[top] /\ Chain[top'] \subseteq Chain[top]
      BY <3>1, <3>2, PopKeepsNode DEF ChainInv
    <3>4. op.target \in Chain[top']  BY <2>1, <2>4, <3>2, <3>3, Tree
    <3>5. SwitchInv'  BY <2>1, <3>1, <3>3, <3>4 DEF ChainInv, SwitchInv
    <3> QED  BY <2>2, <3>3, <3>5 DEF ChainInv
  <2> QED  BY <2>3, <2>4
<1> QED  BY <1>1, <1>2

\* The pool's own steps bring nothing into it that is on the chain.
LEMMA PoolStepKeepsChain ==
  ASSUME ChainInv, PoolStep
  PROVE  ChainInv'
<1>1. UNCHANGED <<top, alt, batch, op>>
  BY DEF PoolStep, add_new_tx, on_transactions_relayed, remove_stuck, time_passes,
         flush_txes_from_pool, flush_invalid_blocks, create_block_template
<1>2. DOMAIN pool = Fields  BY DEF ChainInv, NodeInv
<1> DEFINE Fine == DOMAIN pool' = Fields /\ InPool(pool') \cap chain_txs(top) = {}
<1>3. ASSUME DOMAIN pool' = Fields, InPool(pool') \subseteq InPool(pool)  PROVE Fine
  BY <1>3 DEF ChainInv, NodeInv, OffChain, InPool
<1>4. ASSUME NEW t \in Tx, NEW m, add_new_tx(t, m)  PROVE Fine
  <2>1. t \notin chain_txs(top)  BY <1>4 DEF add_new_tx, tx_exists
  <2>2. DOMAIN pool' = Fields /\ InPool(pool') \subseteq InPool(pool) \cup {t}
    BY <1>2, <1>4, AddTxContents DEF add_new_tx
  <2> QED  BY <2>1, <2>2 DEF ChainInv, NodeInv, OffChain, InPool
<1>5. ASSUME \/ \E t, m : pool' = set_relayed(pool, t, m)
             \/ \E S, ok, b : pool' = after_template(pool, S, ok, b)
             \/ pool' = remove_stuck_transactions(pool)
             \/ pool' = older(pool)
      PROVE  Fine
  BY <1>2, <1>3, <1>5, OtherContents
<1>6. ASSUME NEW t, flush_txes_from_pool(t)  PROVE Fine
  <2>1. DOMAIN pool' = Fields /\ InPool(pool') \subseteq InPool(pool)
    BY <1>6, TakeContents DEF flush_txes_from_pool
  <2> QED  BY <1>3, <2>1
<1>7. ASSUME flush_invalid_blocks  PROVE Fine
  BY <1>2, <1>3, <1>7 DEF flush_invalid_blocks
<1>8. Fine
  <2> HIDE DEF Fine
  <2> QED
    BY <1>4, <1>5, <1>6, <1>7
       DEF PoolStep, on_transactions_relayed, remove_stuck, time_passes, create_block_template
<1>9. NodeInv'  BY <1>1, <1>8 DEF ChainInv, NodeInv, OffChain, InPool
<1> QED  BY <1>1, <1>9, BatchGoesOn, StaysIdle DEF ChainInv

\* A crash goes back to the last commit.
LEMMA RestartKeepsChain ==
  ASSUME ChainInv, BusyInBatch, restart
  PROVE  ChainInv'
<1>1. batch' = NoBatch /\ op' = Idle  BY DEF restart
<1>2. SnapshotInv'  BY <1>1, NoSnapshot
<1>3. CASE batch.active
  <2>1. pool' = init([pool EXCEPT !.txs = batch.txs]) /\ top' = batch.top /\ alt' = batch.alt
    BY <1>3 DEF restart
  <2>2. [pool EXCEPT !.txs = batch.txs].txs = batch.txs  BY DEF ChainInv, NodeInv, Fields
  <2>3. DOMAIN pool' = Fields /\ pool'.txs = batch.txs  BY <2>1, <2>2, InitContents
  <2>4. NodeInv'  BY <2>1, <2>3 DEF ChainInv, SnapshotInv, NodeInv
  <2>5. SwitchInv'  BY <1>1, <2>1, BecomesIdle DEF ChainInv, SnapshotInv
  <2> QED  BY <1>2, <2>4, <2>5 DEF ChainInv
<1>4. CASE ~ batch.active
  <2>1. pool' = init(pool) /\ UNCHANGED <<top, alt>>  BY <1>4 DEF restart
  <2>2. DOMAIN pool' = Fields /\ pool'.txs = pool.txs  BY <2>1, InitContents
  <2>3. NodeInv'  BY <2>1, <2>2 DEF ChainInv, NodeInv
  <2>4. alt \cap Chain[top] = {}  BY <1>4 DEF ChainInv, SwitchInv, BusyInBatch
  <2>5. SwitchInv'  BY <1>1, <2>1, <2>4, BecomesIdle
  <2> QED  BY <1>2, <2>3, <2>5 DEF ChainInv
<1> QED  BY <1>3, <1>4

\* add_block throws: on the tip, in a switch, in a rollback.
LEMMA ThrowStep ==
  ASSUME ChainInv, Throw
  PROVE  ChainInv'
<1>1. ASSUME NEW b, NEW supplement, throw_on_main(b, supplement)  PROVE ChainInv'
  BY <1>1, ThrowKeeps, StaysIdle DEF throw_on_main, ChainInv
<1>2. CASE throw_in_switch
  <2>1. PICK n : /\ add_block_throws(n)
                 /\ op' = [op EXCEPT !.phase = "rollback", !.failed = n]
    BY <1>2 DEF throw_in_switch
  <2>2. NodeInv' /\ SnapshotInv'  BY <2>1, ThrowKeeps DEF ChainInv
  <2>3. SwitchInv'  BY <1>2, <2>1, SwitchGoesOn DEF throw_in_switch, ChainInv
  <2> QED  BY <2>2, <2>3 DEF ChainInv
<1>3. CASE throw_in_rollback
  <2>1. PICK n \in next_towards(op.orig) : add_block_throws(n)
    BY <1>3 DEF throw_in_rollback
  <2>2. NodeInv' /\ SnapshotInv' /\ UNCHANGED top  BY <2>1, ThrowKeeps DEF ChainInv
  <2>3. op' = Idle /\ alt' \subseteq alt  BY <1>3 DEF throw_in_rollback, drop_failed
  <2>4. op.orig \in Block /\ alt \cap Chain[op.orig] = {}
    BY <1>3, PhaseFacts DEF throw_in_rollback, ChainInv
  <2>5. Chain[top] \subseteq Chain[op.orig]
    BY <2>4, NextTowards DEF ChainInv, NodeInv
  <2>6. alt' \cap Chain[top'] = {}  BY <2>2, <2>3, <2>4, <2>5
  <2> QED  BY <2>2, <2>3, <2>6, BecomesIdle DEF ChainInv
<1> QED  BY <1>1, <1>2, <1>3 DEF Throw

\* What a step does to the write transaction, as far as BusyInBatch goes.
LEMMA BusyKept ==
  ASSUME BusyInBatch, DOMAIN batch = BatchFields, Next \/ Throw
  PROVE  BusyInBatch'
<1> USE DEF BusyInBatch
<1>1. ASSUME UNCHANGED batch \/ NextInBatch \/ EndOfBlocks  PROVE batch'.active = batch.active
  BY <1>1 DEF NextInBatch, EndOfBlocks, BatchFields
<1>2. Idle.phase = "idle"  BY IdleFacts
<1>3. ASSUME NEW b, add_block_throws(b)  PROVE batch'.active = batch.active
  BY <1>3 DEF add_block_throws, BatchFields
<1>4. CASE PoolStep
  <2>1. UNCHANGED <<op, batch>>
    BY <1>4 DEF PoolStep, add_new_tx, on_transactions_relayed, remove_stuck, time_passes,
                flush_txes_from_pool, flush_invalid_blocks, create_block_template
  <2> QED  BY <2>1
<1>5. CASE restart  BY <1>2, <1>5 DEF restart
<1>6. CASE Throw
  <2>1. ASSUME NEW b, NEW supplement, throw_on_main(b, supplement)  PROVE BusyInBatch'
    BY <1>3, <2>1 DEF throw_on_main
  <2>2. CASE throw_in_switch
    <3>1. PICK n : add_block_throws(n)  BY <2>2 DEF throw_in_switch
    <3> QED  BY <1>3, <2>2, <3>1 DEF throw_in_switch
  <2>3. CASE throw_in_rollback  BY <1>2, <2>3 DEF throw_in_rollback, drop_failed
  <2> QED  BY <1>6, <2>1, <2>2, <2>3 DEF Throw
<1>7. CASE BlockStep
  <2>1. CASE prepare_handle_incoming_blocks
    BY <1>2, <2>1 DEF prepare_handle_incoming_blocks, Quiet
  <2>2. CASE cleanup_handle_incoming_blocks
    BY <1>2, <2>2 DEF cleanup_handle_incoming_blocks
  <2>3. ASSUME NEW b, NEW supplement, add_to_main_chain(b, supplement)  PROVE BusyInBatch'
    BY <1>1, <2>3 DEF add_to_main_chain
  <2>4. ASSUME NEW b, NEW supplement, handle_alternative_block(b, supplement)
        PROVE  BusyInBatch'
    <3>1. (NextInBatch \/ EndOfBlocks) /\ batch.active
      BY <2>4 DEF handle_alternative_block, InBatch
    <3> QED  BY <1>1, <3>1
  <2>5. CASE switch_pop \/ switch_connect \/ rollback_pop
    <3>1. batch.active /\ UNCHANGED batch
      BY <2>5 DEF switch_pop, switch_connect, rollback_pop
    <3> QED  BY <3>1
  <2>6. CASE finish_switch \/ finish_rollback
    BY <1>2, <2>6 DEF finish_switch, finish_rollback, drop_failed
  <2>7. CASE rollback_restore
    BY <1>1, <2>7 DEF rollback_restore
  <2>8. ASSUME NEW b, pop_blocks(b)  PROVE BusyInBatch'
    BY <2>8 DEF pop_blocks, NoBatch
  <2>9. CASE pop_blocks_step  BY <1>2, <2>9 DEF pop_blocks_step
  <2> QED  BY <1>7, <2>1, <2>2, <2>3, <2>4, <2>5, <2>6, <2>7, <2>8, <2>9 DEF BlockStep
<1> QED  BY <1>4, <1>5, <1>6, <1>7 DEF Next

\* A new node has the genesis block and an empty pool.
LEMMA ChainInvInit == Init => ChainInv /\ BusyInBatch
<1> SUFFICES ASSUME Init PROVE ChainInv /\ BusyInBatch  OBVIOUS
<1>1. /\ top = Genesis /\ alt = {} /\ batch = NoBatch /\ op = Idle
      /\ DOMAIN pool = Fields /\ DOMAIN pool.txs = {}
  BY DEF Init, EmptyPool, Fields
<1>2. NodeInv  BY <1>1, Tree, GenesisSound DEF NodeInv, OffChain
<1>3. SnapshotInv
  <2>1. DOMAIN batch = BatchFields /\ batch.top = Genesis /\ batch.alt = {} /\ DOMAIN batch.txs = {}
    BY <1>1 DEF NoBatch, BatchFields
  <2> QED  BY <2>1, Tree, GenesisSound DEF SnapshotInv, OffChain
<1>4. SwitchInv  BY <1>1, IdleFacts DEF SwitchInv
<1>5. BusyInBatch  BY <1>1, IdleFacts DEF BusyInBatch
<1> QED  BY <1>2, <1>3, <1>4, <1>5 DEF ChainInv

\* The inductive invariant of the chain, whatever the database does.
THEOREM ChainInvariant == SpecWithThrows => [](ChainInv /\ BusyInBatch)
<1>1. ChainInv /\ BusyInBatch /\ [Next \/ Throw]_vars => (ChainInv /\ BusyInBatch)'
  <2> SUFFICES ASSUME ChainInv, BusyInBatch, [Next \/ Throw]_vars
               PROVE  ChainInv' /\ BusyInBatch'
    OBVIOUS
  <2>1. CASE UNCHANGED vars
    <3>1. NodeInv'  BY <2>1 DEF vars, ChainInv, NodeInv
    <3>2. SnapshotInv' /\ SwitchInv'  BY <2>1, BatchGoesOn, StaysIdle DEF vars, ChainInv
    <3> QED  BY <2>1, <3>1, <3>2 DEF vars, ChainInv, BusyInBatch
  <2>2. CASE Next \/ Throw
    <3>1. BusyInBatch'  BY <2>2, BusyKept DEF ChainInv, SnapshotInv
    <3>2. ASSUME BlockStep  PROVE ChainInv'
      BY <3>2, BatchStep, MainStep, AlternativeStep, SwitchStep, PopStep DEF BlockStep
    <3>3. ChainInv'
      BY <2>2, <3>2, PoolStepKeepsChain, RestartKeepsChain, ThrowStep DEF Next
    <3> QED  BY <3>1, <3>3
  <2> QED  BY <2>1, <2>2
<1> QED  BY <1>1, ChainInvInit, PTL DEF SpecWithThrows

\* Every key image is spent at most once on the main chain, although nothing
\* in handle_block_to_main_chain compares the transactions of one block: it
\* is add_block that refuses them.
THEOREM NoKeyImageSpentTwice == SpecWithThrows => []NoDoubleSpend
<1>1. ChainInv => NoDoubleSpend  BY DEF ChainInv, NodeInv, ChainSound, NoDoubleSpend
<1> QED  BY <1>1, ChainInvariant, PTL

\* No transaction is both on the main chain and in the pool, in the middle of
\* a switch and after an aborted batch as well.
THEOREM PoolIsOffChain == SpecWithThrows => []PoolOffChain
<1>1. ChainInv => PoolOffChain  BY DEF ChainInv, NodeInv, OffChain, PoolOffChain, InPool
<1> QED  BY <1>1, ChainInvariant, PTL

\* Between two blocks no block is both on the main chain and alternative.
THEOREM AltIsOffChain == SpecWithThrows => []AltOffChain
<1>1. ChainInv => AltOffChain  BY IdleOffChain DEF ChainInv, AltOffChain
<1> QED  BY <1>1, ChainInvariant, PTL

------------------------------------------------------------------------------
(* Switches and batches.                                                   *)

\* Every output a transaction of the chain needs was made below its block.
NeedsMet(b) ==
    \A c \in Chain[b] \ {Genesis} : \A t \in TxSet(c) : Needs[t] \subseteq chain_txs(Prev[c])

OnCheckpoints(b) == \A c \in Chain[b], p \in Checkpoint : Height[c] = Height[p] => c = p

\* handle_block_to_main_chain would accept the blocks of the chain once more.
ChainGood(b) ==
    /\ ChainSound(b) /\ NeedsMet(b) /\ OnCheckpoints(b)
    /\ Chain[b] \ {Genesis} \subseteq GoodMiner

\* A chain gives way to a heavier one, or to one with a new checkpoint, that
\* has all its checkpoints.
Better(b, c) ==
    /\ CumDiff[c] > CumDiff[b] \/ (Checkpoint \cap Chain[c]) \ Chain[b] # {}
    /\ Checkpoint \cap Chain[b] \subseteq Chain[c]

\* What switch_to_alternative_blockchain was called with.
Switchable(orig, target) ==
    /\ target \notin Chain[orig]
    /\ is_a_checkpoint(target) \/ CumDiff[orig] < CumDiff[target]
    /\ is_alternative_block_allowed(Height[orig] + 1, Height[target])

\* The transactions no pruning removes.
Kept(p) == {t \in InPool(p) : kept_by_block(p, t)}

\* The transactions of the chain b are on the chain T or kept in the pool p.
Retains(b, T, p) == chain_txs(b) \subseteq chain_txs(T) \cup Kept(p)

\* The write transaction and what it may commit.
BatchInv ==
    /\ ~ batch.active => batch = NoBatch
    /\ batch.ok => batch.written = {} /\ batch.keys = {} /\ ChainGood(top)
    /\ ChainGood(batch.top)
    /\ batch.active => Retains(batch.top, top, pool)

\* The tip a batch that started from b may commit.
Reached(b, c) == c = b \/ Better(b, c)

Popped == PopCommand /\ batch.left = 0 /\ top \in Chain[batch.top]

GoalInv ==
    /\ batch.active /\ batch.ok =>
          /\ op.phase = "idle" => Reached(batch.top, top) \/ Popped
          /\ op.phase = "pop" => Popped
    /\ op.phase \in {"switch", "rollback"} =>
          /\ Switchable(op.orig, op.target)
          /\ Retains(op.orig, top, pool)
          /\ batch.ok => Reached(batch.top, op.orig) /\ ChainGood(op.orig)

LedgerInv == BatchInv /\ GoalInv

\* The blocks of the table A have no checkpoint that the chain of T lacks, and
\* are no heavier than T unless they miss one of its checkpoints.
Outweighs(T, A) ==
    \A b \in A : /\ Checkpoint \cap Chain[b] \subseteq Chain[T]
                 /\ CumDiff[b] <= CumDiff[T] \/ ~ (Checkpoint \cap Chain[T] \subseteq Chain[b])

HeaviestInv ==
    /\ alt \subseteq Block /\ batch.alt \subseteq Block
    /\ op.phase \in {"idle", "switch", "rollback"}
    /\ op.phase = "idle" => Outweighs(top, alt)
    /\ op.phase \in {"switch", "rollback"} =>
          /\ Outweighs(op.orig, alt \ {op.target})
          /\ op.discard = is_a_checkpoint(op.target)
    /\ op.phase = "rollback" => op.failed \in Chain[op.target]
    /\ Outweighs(batch.top, batch.alt)

----------------------------------------------------------------------------
(* Chains and heights.                                                     *)

\* Every nonempty set of natural numbers has a least element.
LEMMA LeastNumber ==
  ASSUME NEW S \in SUBSET Nat, S # {}
  PROVE  \E m \in S : \A k \in S : m <= k
<1> DEFINE R == {ss \in Nat \X Nat : ss[1] < ss[2]}
<1>1. IsWellFoundedOn(R, Nat)  BY NatLessThanWellFounded, Zenon DEF OpToRel
<1> HIDE DEF R
<1>2. PICK m \in S : \A y \in S : ~ (<<y, m>> \in R)  BY <1>1, WFMin
<1>3. \A y \in S : ~ (y < m)  BY <1>2 DEF R
<1> QED  BY <1>3

\* A block is above its parent and heavier; only the genesis block is at 0.
LEMMA Heights ==
  /\ \A b \in Block : Height[b] \in Nat /\ CumDiff[b] \in Nat
  /\ Height[Genesis] = 0
  /\ \A b \in Block \ {Genesis} : /\ Prev[b] \in Block
                                  /\ Height[b] = Height[Prev[b]] + 1
                                  /\ CumDiff[b] > CumDiff[Prev[b]]
  BY BlockchainAssumption

\* Every nonempty set of blocks has a lowest one.
LEMMA LowestBlock ==
  ASSUME NEW S \in SUBSET Block, S # {}
  PROVE  \E x \in S : \A z \in S : Height[x] <= Height[z]
<1> DEFINE H == {Height[x] : x \in S}
<1>1. H \in SUBSET Nat /\ H # {}  BY Heights
<1>2. PICK m \in H : \A k \in H : m <= k  BY <1>1, LeastNumber
<1> QED  BY <1>2

\* An ancestor is neither higher nor heavier.
LEMMA AncestorIsBelow ==
  ASSUME NEW b \in Block, NEW c \in Chain[b]
  PROVE  Height[c] <= Height[b] /\ CumDiff[c] <= CumDiff[b]
<1> DEFINE Bad == {x \in Block : \E y \in Chain[x] :
                      ~ (Height[y] <= Height[x] /\ CumDiff[y] <= CumDiff[x])}
<1> SUFFICES ASSUME Bad # {} PROVE FALSE  OBVIOUS
<1>1. PICK x \in Bad : \A z \in Bad : Height[x] <= Height[z]  BY LowestBlock
<1>2. PICK y \in Chain[x] : ~ (Height[y] <= Height[x] /\ CumDiff[y] <= CumDiff[x])
  BY <1>1
<1>3. x # Genesis /\ y # x  BY <1>2, Tree, Heights
<1>4. Prev[x] \in Block /\ y \in Chain[Prev[x]] /\ y \in Block  BY <1>2, <1>3, Tree
<1>5. Height[Prev[x]] < Height[x] /\ CumDiff[Prev[x]] < CumDiff[x]  BY <1>3, Heights
<1>6. Prev[x] \notin Bad  BY <1>1, <1>4, <1>5, Heights
<1> QED  BY <1>2, <1>4, <1>5, <1>6, Heights

\* A chain has a block at every height up to its tip.
LEMMA EveryHeight ==
  ASSUME NEW b \in Block, NEW h \in Nat, h <= Height[b]
  PROVE  \E c \in Chain[b] : Height[c] = h
<1> DEFINE Bad == {x \in Block : h <= Height[x] /\ \A y \in Chain[x] : Height[y] # h}
<1> SUFFICES ASSUME Bad # {} PROVE FALSE  OBVIOUS
<1>1. PICK x \in Bad : \A z \in Bad : Height[x] <= Height[z]  BY LowestBlock
<1>2. Height[x] # h  BY <1>1, Tree
<1>3. x # Genesis  BY <1>1, <1>2, Heights
<1>4. Prev[x] \in Block /\ h <= Height[Prev[x]] /\ Height[Prev[x]] < Height[x]
  BY <1>1, <1>2, <1>3, Heights
<1>5. Prev[x] \notin Bad  BY <1>1, <1>4, Heights
<1> QED  BY <1>3, <1>4, <1>5, Tree

\* A chain that agrees with the checkpoints has each one it is high enough for.
LEMMA CheckpointsPassed ==
  ASSUME NEW b \in Block, OnCheckpoints(b), NEW p \in Checkpoint, Height[p] <= Height[b]
  PROVE  p \in Chain[b]
<1>1. Height[p] \in Nat  BY Heights, BlockchainAssumption
<1>2. PICK c \in Chain[b] : Height[c] = Height[p]  BY <1>1, EveryHeight
<1> QED  BY <1>2 DEF OnCheckpoints

----------------------------------------------------------------------------
(* Good chains.                                                            *)

\* Popping blocks leaves a good chain.
LEMMA GoodMonotone ==
  ASSUME NEW b, NEW c, Chain[c] \subseteq Chain[b], ChainGood(b)
  PROVE  ChainGood(c)
<1>1. ChainSound(c)  BY SoundMonotone DEF ChainGood
<1> QED  BY <1>1 DEF ChainGood, NeedsMet, OnCheckpoints

\* A new node is on a good chain.
LEMMA GenesisGood == ChainGood(Genesis)
<1>1. NeedsMet(Genesis) /\ Chain[Genesis] \ {Genesis} = {}  BY Tree DEF NeedsMet
<1>2. OnCheckpoints(Genesis)
  <2> SUFFICES ASSUME NEW p \in Checkpoint, Height[p] = 0 PROVE p = Genesis
    BY Tree, Heights DEF OnCheckpoints
  <2>1. p \in Block  BY BlockchainAssumption
  <2> QED  BY <2>1, Heights
<1> QED  BY <1>1, <1>2, GenesisSound DEF ChainGood

\* A block that is accepted outside a spoiled transaction extends a good chain
\* to a good one.
LEMMA ExtendGood ==
  ASSUME NEW b \in Block \ {Genesis}, NEW supplement, Prev[b] = top, ChainGood(top),
         batch.written = {}, accepted(b, supplement), ~ clash(b)
  PROVE  ChainGood(b)
<1>1. \A i \in DOMAIN TxsOf[b] : inputs_ok(TxsOf[b][i])
  BY DEF accepted, stops, stops_at
<1>2. ChainSound(b)  BY <1>1, ExtendSound DEF ChainGood
<1>3. Chain[b] = Chain[top] \cup {b}  BY Tree
<1>4. \A t \in TxSet(b) : Needs[t] \subseteq chain_txs(Prev[b])
  BY <1>1 DEF TxSet, inputs_ok
<1>5. NeedsMet(b)  BY <1>3, <1>4 DEF ChainGood, NeedsMet
<1>6. OnCheckpoints(b)  BY <1>3 DEF ChainGood, OnCheckpoints, accepted, check_block
<1> QED  BY <1>2, <1>3, <1>5, <1>6 DEF ChainGood, accepted

\* A block of a good chain whose transactions are still at hand is accepted
\* again: "PANIC! failed to add (again) block" needs a spoiled transaction.
LEMMA AcceptedAgain ==
  ASSUME NEW b \in Block, ChainGood(b), Retains(b, top, pool),
         batch.written = {}, batch.keys = {}, NEW n \in next_towards(b)
  PROVE  accepted(n, {}) /\ ~ clash(n)
<1>1. n \in Block \ {Genesis} /\ Prev[n] = top /\ n \in Chain[b]  BY NextTowards DEF next_towards
<1>2. Chain[n] \subseteq Chain[b] /\ n \in Chain[n] /\ Chain[n] = Chain[top] \cup {n}
  BY <1>1, Tree
<1>3. ChainGood(n)  BY <1>2, GoodMonotone
<1>4. check_block(n) /\ n \in GoodMiner
  BY <1>1, <1>2, <1>3 DEF ChainGood, OnCheckpoints, check_block
<1>5. ~ clash(n)
  <2> SUFFICES ASSUME NEW i \in DOMAIN TxsOf[n], NEW j \in DOMAIN TxsOf[n], i # j
               PROVE  Images[TxsOf[n][i]] \cap Images[TxsOf[n][j]] = {}
    BY DEF clash
  <2> QED  BY <1>2, <1>3 DEF ChainGood, ChainSound
<1>6. ASSUME NEW i \in DOMAIN TxsOf[n]  PROVE ~ stops_at(n, i, {})
  <2> DEFINE t == TxsOf[n][i]
  <2>1. t \in TxSet(n) /\ t \in chain_txs(b)  BY <1>1 DEF TxSet, chain_txs
  <2>2. t \notin chain_txs(top)  BY <1>1, <1>3, <2>1, TxsAreNew DEF ChainGood
  <2>3. t \in InPool(pool)  BY <2>1, <2>2 DEF Retains, Kept
  <2>4. Needs[t] \subseteq chain_txs(top)  BY <1>1, <1>2, <1>3, <2>1 DEF ChainGood, NeedsMet
  <2>5. Images[t] \cap chain_keys(top) = {}
    <3> SUFFICES ASSUME NEW u \in chain_txs(top) PROVE Images[t] \cap Images[u] = {}
      BY DEF chain_keys
    <3>1. PICK c \in Chain[top] : u \in TxSet(c)  BY DEF chain_txs
    <3>2. PICK j \in DOMAIN TxsOf[c] : u = TxsOf[c][j]  BY <3>1 DEF TxSet
    <3>3. <<n, i>> # <<c, j>>  BY <1>1, <3>1, Tree
    <3> QED  BY <1>2, <1>3, <3>1, <3>2, <3>3 DEF ChainGood, ChainSound
  <2> QED
    BY <2>2, <2>3, <2>4, <2>5
       DEF stops_at, exists_at, missing_at, tx_exists, inputs_ok
<1> QED  BY <1>4, <1>5, <1>6 DEF accepted, stops

----------------------------------------------------------------------------
(* Better chains.                                                          *)

\* Chains get better transitively.
LEMMA BetterTransitive ==
  ASSUME NEW a \in Block, NEW b \in Block, NEW c \in Block, Reached(a, b), Better(b, c)
  PROVE  Better(a, c)
<1>1. CASE a = b  BY <1>1
<1>2. CASE Better(a, b)
  <2>1. Checkpoint \cap Chain[a] \subseteq Chain[c]  BY <1>2 DEF Better
  <2>2. CASE CumDiff[b] > CumDiff[a] /\ CumDiff[c] > CumDiff[b]
    BY <2>1, <2>2, Heights DEF Better
  <2>3. CASE (Checkpoint \cap Chain[b]) \ Chain[a] # {}
    BY <1>2, <2>1, <2>3 DEF Better
  <2>4. CASE (Checkpoint \cap Chain[c]) \ Chain[b] # {}
    BY <1>2, <2>1, <2>4 DEF Better
  <2> QED  BY <1>2, <2>2, <2>3, <2>4 DEF Better
<1> QED  BY <1>1, <1>2 DEF Reached

\* A block on top makes the chain better.
LEMMA BetterChild ==
  ASSUME NEW b \in Block \ {Genesis}
  PROVE  Better(Prev[b], b)
  BY Tree, Heights DEF Better

\* The chain that is switched to has the checkpoints of the old one, because
\* is_alternative_block_allowed let no block below a checkpoint in.
LEMMA BetterSwitch ==
  ASSUME NEW orig \in Block, NEW target \in Block, Switchable(orig, target),
         OnCheckpoints(target)
  PROVE  Better(orig, target)
<1>1. ASSUME NEW p \in Checkpoint, p \in Chain[orig]  PROVE p \in Chain[target]
  <2>1. p \in Block /\ Height[p] <= Height[orig]  BY <1>1, AncestorIsBelow, BlockchainAssumption
  <2>2. Height[p] <= Height[orig] + 1  BY <2>1, Heights
  <2>3. Height[p] < Height[target]
    BY <1>1, <2>2 DEF Switchable, is_alternative_block_allowed
  <2>4. Height[p] <= Height[target]  BY <2>1, <2>3, Heights
  <2> QED  BY <1>1, <2>4, CheckpointsPassed
<1>2. CASE CumDiff[orig] < CumDiff[target]  BY <1>1, <1>2, Heights DEF Better
<1>3. CASE is_a_checkpoint(target)
  <2>1. target \in Checkpoint  BY <1>3, Tree DEF is_a_checkpoint, OnCheckpoints
  <2> QED  BY <1>1, <2>1, Tree DEF Better, Switchable
<1> QED  BY <1>2, <1>3 DEF Switchable

----------------------------------------------------------------------------
(* What the pool keeps.                                                    *)

\* Pruning passes over the transactions that a block keeps.
LEMMA PruneKeeps ==
  ASSUME NEW p
  PROVE  Kept(prune(p)) = Kept(p)
<1>1. \A t \in overweight(p) : ~ kept_by_block(p, t)  BY DEF overweight
<1>2. /\ InPool(prune(p)) = InPool(p) \ overweight(p)
      /\ \A t \in InPool(p) \ overweight(p) : prune(p).txs[t] = p.txs[t]
  BY DEF prune, remove_txs, InPool
<1> QED  BY <1>1, <1>2 DEF Kept, kept_by_block

\* add_tx for the transactions of a block keeps them: the database refuses
\* only those that were in the pool already.
LEMMA AddKeptKeeps ==
  ASSUME NEW p, NEW S, NEW ok
  PROVE  Kept(p) \cup (S \ InPool(p)) \subseteq Kept(add_kept_txs(p, S, ok))
<1> DEFINE new == S \ refused_kept(p, S, ok)
           r == insert_txs(p, new, "block")
<1>1. S \ InPool(p) \subseteq new  BY DEF refused_kept
<1>2. /\ InPool(r) = InPool(p) \cup new
      /\ \A t \in InPool(r) : r.txs[t].relay = IF t \in new THEN "block" ELSE p.txs[t].relay
  BY DEF insert_txs, InPool
<1> HIDE DEF r, new
<1>3. Kept(p) \cup (S \ InPool(p)) \subseteq Kept(r)
  BY <1>1, <1>2 DEF Kept, kept_by_block
<1>4. Kept(prune(r)) = Kept(r)  BY PruneKeeps
<1> QED  BY <1>3, <1>4 DEF add_kept_txs, r, new

\* take_tx takes what it is told to.
LEMMA TakeKeeps ==
  ASSUME NEW p, NEW S
  PROVE  Kept(take_tx(p, S)) = Kept(p) \ S
<1>1. /\ InPool(take_tx(p, S)) = InPool(p) \ S
      /\ \A t \in InPool(p) \ S : take_tx(p, S).txs[t] = p.txs[t]
  BY DEF take_tx, remove_txs, InPool
<1> QED  BY <1>1 DEF Kept, kept_by_block

\* The callbacks of the chain change the input cache only.
LEMMA ChangeKeeps ==
  ASSUME NEW p, DOMAIN p = Fields
  PROVE  Kept(on_blockchain_change(p)) = Kept(p)
<1>1. on_blockchain_change(p).txs = p.txs  BY DEF on_blockchain_change, Fields
<1> QED  BY <1>1 DEF Kept, kept_by_block, InPool

\* What pop_block_from_blockchain takes off the chain is in the pool.
LEMMA PopRetains ==
  ASSUME NodeInv, top # Genesis, pop_block_from_blockchain
  PROVE  \A b : Retains(b, top, pool) => Retains(b, top', pool')
<1>1. chain_txs(top) = chain_txs(top') \cup TxSet(top)
  BY ChainTxsGrow DEF NodeInv, pop_block_from_blockchain
<1>2. TxSet(top) \cap InPool(pool) = {}
  BY <1>1 DEF NodeInv, OffChain, InPool
<1>3. PICK ok : pool' = on_blockchain_change(add_kept_txs(pool, TxSet(top), ok))
  BY DEF pop_block_from_blockchain
<1>4. Kept(pool) \cup TxSet(top) \subseteq Kept(pool')
  BY <1>2, <1>3, AddKeptKeeps, AddKeptContents, ChangeKeeps
<1> QED  BY <1>1, <1>4 DEF Retains

\* What add_block takes out of the pool is on the chain.
LEMMA AddBlockRetains ==
  ASSUME NodeInv, NEW n \in Block \ {Genesis}, Prev[n] = top, add_block(n)
  PROVE  \A b : Retains(b, top, pool) => Retains(b, top', pool')
<1>1. chain_txs(top') = chain_txs(top) \cup TxSet(n)  BY ChainTxsGrow DEF add_block
<1>2. Kept(pool') = Kept(pool) \ TxSet(n)
  BY TakeKeeps, TakeContents, ChangeKeeps DEF add_block
<1> QED  BY <1>1, <1>2 DEF Retains

\* return_txs_to_pool brings back what was taken.
LEMMA ReturnRetains ==
  ASSUME NEW S, return_txs_to_pool(S), UNCHANGED top
  PROVE  \A b : Retains(b, top, pool) => Retains(b, top', pool')
<1> DEFINE p == take_tx(pool, S)
<1>1. Kept(p) = Kept(pool) \ S /\ InPool(p) \cap S = {}  BY TakeKeeps, TakeContents
<1>2. Kept(p) \cup S \subseteq Kept(pool')
  BY <1>1, AddKeptKeeps DEF return_txs_to_pool
<1> QED  BY <1>1, <1>2 DEF Retains

\* A refused block loses no transaction.
LEMMA RefuseRetains ==
  ASSUME NEW n, NEW supplement, refuse_block(n, supplement)
  PROVE  \A b : Retains(b, top, pool) => Retains(b, top', pool')
<1>1. CASE check_block(n)  BY <1>1, ReturnRetains DEF refuse_block
<1>2. CASE ~ check_block(n)  BY <1>2 DEF refuse_block
<1> QED  BY <1>1, <1>2

----------------------------------------------------------------------------
(* The write transaction.                                                  *)

\* Steps inside a batch that do not spoil it.
LEMMA BatchFieldsKept ==
  ASSUME DOMAIN batch = BatchFields, UNCHANGED batch \/ NextInBatch \/ EndOfBlocks
  PROVE  /\ batch'.active = batch.active /\ batch'.ok = batch.ok /\ batch'.top = batch.top
         /\ batch'.written = batch.written /\ batch'.keys = batch.keys /\ batch'.alt = batch.alt
         /\ UNCHANGED batch \/ NextInBatch \/ batch'.left = 0
  BY DEF NextInBatch, EndOfBlocks, BatchFields

\* No block of a batch is lost and a chain without a throw is good.
LEMMA BatchInvKept ==
  ASSUME BatchInv, DOMAIN batch = BatchFields, batch.active,
         UNCHANGED batch \/ NextInBatch \/ EndOfBlocks,
         batch.ok => ChainGood(top'),
         \A b : Retains(b, top, pool) => Retains(b, top', pool')
  PROVE  BatchInv'
  BY BatchFieldsKept DEF BatchInv

\* A step that throws away the batch, by committing, aborting or crashing.
LEMMA BatchEnds ==
  ASSUME batch' = NoBatch, op' = Idle, ChainGood(top')
  PROVE  LedgerInv'
<1>1. /\ ~ batch'.active /\ batch'.written = {} /\ batch'.keys = {} /\ batch'.top = Genesis
  BY DEF NoBatch
<1>2. BatchInv'  BY <1>1, GenesisGood DEF BatchInv
<1>3. GoalInv'  BY <1>1, IdleFacts DEF GoalInv
<1> QED  BY <1>2, <1>3 DEF LedgerInv

\* A batch starts with the tip it goes back to.
LEMMA BatchBegins ==
  ASSUME BatchInv, ~ batch.active, UNCHANGED <<top, pool>>,
         batch'.active, batch'.written = {}, batch'.keys = {}, batch'.top = top
  PROVE  BatchInv'
<1>1. ChainGood(top)  BY DEF BatchInv, NoBatch
<1>2. Retains(top, top, pool)  BY DEF Retains
<1> QED  BY <1>1, <1>2 DEF BatchInv

\* Between two blocks of a batch the tip is one that may be committed.
LEMMA TipReached ==
  ASSUME GoalInv, InBatch
  PROVE  batch.ok => Reached(batch.top, top)
  BY IdleFacts DEF GoalInv, InBatch, Popped

\* prepare_handle_incoming_blocks and cleanup_handle_incoming_blocks.
LEMMA LedgerBatchStep ==
  ASSUME ChainInv, LedgerInv, \/ prepare_handle_incoming_blocks
                              \/ cleanup_handle_incoming_blocks
  PROVE  LedgerInv'
<1>1. CASE prepare_handle_incoming_blocks
  <2>1. ~ batch.active /\ op' = Idle /\ UNCHANGED <<pool, top>>
    BY <1>1 DEF prepare_handle_incoming_blocks, Quiet
  <2>2. batch'.active /\ batch'.written = {} /\ batch'.keys = {} /\ batch'.top = top
    BY <1>1 DEF prepare_handle_incoming_blocks, NoBatch
  <2>3. BatchInv'  BY <2>1, <2>2, BatchBegins DEF LedgerInv
  <2>4. GoalInv'  BY <2>1, <2>2, IdleFacts DEF GoalInv, Reached
  <2> QED  BY <2>3, <2>4 DEF LedgerInv
<1>2. CASE cleanup_handle_incoming_blocks
  <2>1. batch' = NoBatch /\ op' = Idle  BY <1>2 DEF cleanup_handle_incoming_blocks
  <2>2. ChainGood(top')  BY <1>2 DEF cleanup_handle_incoming_blocks, LedgerInv, BatchInv
  <2> QED  BY <2>1, <2>2, BatchEnds
<1> QED  BY <1>1, <1>2

\* add_new_block on the tip.
LEMMA LedgerMainStep ==
  ASSUME ChainInv, LedgerInv, NEW b \in Block \ {Genesis}, NEW supplement,
         add_to_main_chain(b, supplement)
  PROVE  LedgerInv'
<1>1. op = Idle /\ op' = Idle /\ batch.active /\ Prev[b] = top /\ InBatch
  BY DEF add_to_main_chain, InBatch
<1>2. batch.ok => Reached(batch.top, top)  BY <1>1, TipReached DEF LedgerInv
<1>3. DOMAIN batch = BatchFields /\ NodeInv /\ top \in Block /\ batch.top \in Block
  BY DEF ChainInv, SnapshotInv, NodeInv
<1>4. CASE accepted(b, supplement) /\ ~ clash(b) /\ add_block(b) /\ NextInBatch
  <2>1. top' = b  BY <1>4 DEF add_block
  <2>2. batch.ok => ChainGood(b)  BY <1>1, <1>4, ExtendGood DEF LedgerInv, BatchInv
  <2>3. BatchInv'  BY <1>1, <1>3, <1>4, <2>1, <2>2, BatchInvKept, AddBlockRetains DEF LedgerInv
  <2>4. batch.ok => Reached(batch.top, b)
    BY <1>1, <1>2, <1>3, BetterChild, BetterTransitive DEF Reached
  <2>5. GoalInv'  BY <1>1, <1>3, <1>4, <2>1, <2>4, BatchFieldsKept, IdleFacts DEF GoalInv
  <2> QED  BY <2>3, <2>5 DEF LedgerInv
<1>5. CASE refuse_block(b, supplement) /\ EndOfBlocks
  <2>1. UNCHANGED top  BY <1>5 DEF refuse_block
  <2>2. BatchInv'
    BY <1>1, <1>3, <1>5, <2>1, BatchInvKept, RefuseRetains DEF LedgerInv, BatchInv
  <2>3. GoalInv'  BY <1>1, <1>2, <1>3, <1>5, <2>1, BatchFieldsKept, IdleFacts DEF GoalInv
  <2> QED  BY <2>2, <2>3 DEF LedgerInv
<1> QED  BY <1>4, <1>5 DEF add_to_main_chain

\* handle_alternative_block: the supplement joins the pool, and the tip is the
\* chain to go back to if the switch fails.
LEMMA LedgerAlternativeStep ==
  ASSUME ChainInv, LedgerInv, NEW b \in Block \ {Genesis}, NEW supplement,
         handle_alternative_block(b, supplement)
  PROVE  LedgerInv'
<1>1. op = Idle /\ batch.active /\ InBatch /\ UNCHANGED top /\ b \notin Chain[top]
  BY DEF handle_alternative_block, InBatch, have_block
<1>2. batch.ok => Reached(batch.top, top)  BY <1>1, TipReached DEF LedgerInv
<1>3. DOMAIN batch = BatchFields  BY DEF ChainInv, SnapshotInv
<1>4. NextInBatch \/ EndOfBlocks  BY DEF handle_alternative_block
<1>5. \A c : Retains(c, top, pool) => Retains(c, top', pool')
  <2>1. UNCHANGED pool \/ \E S : pool' = add_kept_txs(pool, S, good_inputs)
    BY DEF handle_alternative_block
  <2>2. Kept(pool) \subseteq Kept(pool')  BY <2>1, AddKeptKeeps
  <2> QED  BY <1>1, <2>2 DEF Retains
<1>6. BatchInv'  BY <1>1, <1>3, <1>4, <1>5, BatchInvKept DEF LedgerInv, BatchInv
<1>7. CASE op' = Idle
  BY <1>1, <1>2, <1>3, <1>4, <1>6, <1>7, BatchFieldsKept, IdleFacts DEF LedgerInv, GoalInv
<1>8. CASE op' # Idle
  <2>1. /\ op' = [Idle EXCEPT !.phase = "switch", !.target = b, !.orig = top,
                              !.discard = is_a_checkpoint(b)]
        /\ must_switch(b) /\ alternative_allowed(b)
    BY <1>1, <1>8 DEF handle_alternative_block
  <2>2. op'.phase = "switch" /\ op'.target = b /\ op'.orig = top  BY <2>1 DEF Idle
  <2>3. Switchable(top, b)
    BY <1>1, <2>1 DEF Switchable, must_switch, alternative_allowed, height
  <2>4. Retains(top, top', pool')
    <3>1. Retains(top, top, pool)  BY DEF Retains
    <3> QED  BY <1>5, <3>1
  <2>5. GoalInv'
    BY <1>1, <1>2, <1>3, <1>4, <2>2, <2>3, <2>4, BatchFieldsKept DEF GoalInv, LedgerInv, BatchInv
  <2> QED  BY <1>6, <2>5 DEF LedgerInv
<1> QED  BY <1>7, <1>8

\* A turn of the loops of a switch.
LEMMA SwitchGoalKept ==
  ASSUME SwitchInv, GoalInv, op.phase \in {"switch", "rollback"}, UNCHANGED batch,
         \A b : Retains(b, top, pool) => Retains(b, top', pool'),
         \/ UNCHANGED op
         \/ \E n : op' = [op EXCEPT !.phase = "rollback", !.failed = n]
  PROVE  GoalInv'
<1>1. op'.phase \in {"switch", "rollback"} /\ op'.target = op.target /\ op'.orig = op.orig
  BY DEF SwitchInv, OpFields
<1> QED  BY <1>1 DEF GoalInv

\* switch_to_alternative_blockchain and rollback_blockchain_switching.  In a
\* batch without a throw the old blocks are accepted again.
LEMMA LedgerSwitchStep ==
  ASSUME ChainInv, LedgerInv, BusyInBatch,
         \/ switch_pop \/ switch_connect \/ finish_switch
         \/ rollback_pop \/ rollback_restore \/ finish_rollback
  PROVE  LedgerInv'
<1>1. op.phase \in {"switch", "rollback"} /\ batch.active
  BY DEF switch_pop, switch_connect, finish_switch, rollback_pop, rollback_restore,
         finish_rollback, BusyInBatch
<1>2. op.target \in Block /\ op.orig \in Block /\ top \in Block /\ batch.top \in Block
  BY DEF ChainInv, SwitchInv, SnapshotInv, NodeInv
<1>3. DOMAIN batch = BatchFields /\ NodeInv /\ SwitchInv /\ BatchInv /\ GoalInv
  BY DEF ChainInv, SnapshotInv, LedgerInv
<1>4. /\ Switchable(op.orig, op.target) /\ Retains(op.orig, top, pool)
      /\ batch.ok => Reached(batch.top, op.orig) /\ ChainGood(op.orig) /\ ChainGood(top)
      /\ batch.ok => batch.written = {} /\ batch.keys = {}
  BY <1>1, <1>3 DEF GoalInv, BatchInv
<1>5. CASE switch_pop \/ rollback_pop
  <2>1. pop_block_from_blockchain /\ UNCHANGED <<batch, op>>
    BY <1>5 DEF switch_pop, rollback_pop
  <2>2. top # Genesis  BY <1>2, <1>5, Tree DEF switch_pop, rollback_pop
  <2>3. Chain[top'] \subseteq Chain[top]  BY <1>3, <2>1, <2>2, PopKeepsNode
  <2>4. \A b : Retains(b, top, pool) => Retains(b, top', pool')
    BY <1>3, <2>1, <2>2, PopRetains
  <2>5. batch.ok => ChainGood(top')  BY <1>4, <2>3, GoodMonotone
  <2>6. BatchInv'  BY <1>1, <1>3, <2>1, <2>4, <2>5, BatchInvKept
  <2>7. GoalInv'  BY <1>1, <1>3, <2>1, <2>4, SwitchGoalKept
  <2> QED  BY <2>6, <2>7 DEF LedgerInv
<1>6. CASE switch_connect
  <2>1. PICK n \in next_towards(op.target) :
           \/ accepted(n, {}) /\ ~ clash(n) /\ add_block(n) /\ UNCHANGED op
           \/ refuse_block(n, {}) /\ op' = [op EXCEPT !.phase = "rollback", !.failed = n]
    BY <1>6 DEF switch_connect
  <2>2. n \in Block \ {Genesis} /\ Prev[n] = top  BY <1>2, NextTowards
  <2>3. \A b : Retains(b, top, pool) => Retains(b, top', pool')
    BY <1>3, <2>1, <2>2, AddBlockRetains, RefuseRetains
  <2>4. batch.ok => ChainGood(top')
    BY <1>4, <2>1, <2>2, ExtendGood DEF add_block, refuse_block
  <2>5. UNCHANGED batch  BY <1>6 DEF switch_connect
  <2>6. BatchInv'  BY <1>1, <1>3, <2>3, <2>4, <2>5, BatchInvKept
  <2>7. GoalInv'  BY <1>1, <1>3, <2>1, <2>3, <2>5, SwitchGoalKept
  <2> QED  BY <2>6, <2>7 DEF LedgerInv
<1>7. CASE finish_switch
  <2>1. UNCHANGED <<pool, top, batch>> /\ op' = Idle /\ top = op.target
    BY <1>7 DEF finish_switch
  <2>2. batch.ok => Reached(batch.top, top)
    BY <1>2, <1>4, <2>1, BetterSwitch, BetterTransitive DEF ChainGood, Reached
  <2>3. BatchInv'  BY <1>1, <1>3, <1>4, <2>1, BatchInvKept
  <2>4. GoalInv'  BY <2>1, <2>2, IdleFacts DEF GoalInv
  <2> QED  BY <2>3, <2>4 DEF LedgerInv
<1>8. CASE finish_rollback
  <2>1. UNCHANGED <<pool, top>> /\ op' = Idle /\ top = op.orig /\ EndOfBlocks
    BY <1>8 DEF finish_rollback, drop_failed
  <2>2. BatchInv'  BY <1>1, <1>3, <1>4, <2>1, BatchInvKept
  <2>3. GoalInv'  BY <1>3, <1>4, <2>1, IdleFacts, BatchFieldsKept DEF GoalInv
  <2> QED  BY <2>2, <2>3 DEF LedgerInv
<1>9. CASE rollback_restore
  <2>1. PICK n \in next_towards(op.orig) :
           \/ accepted(n, {}) /\ ~ clash(n) /\ add_block(n) /\ UNCHANGED <<op, batch>>
           \/ ~ accepted(n, {}) /\ refuse_block(n, {}) /\ op' = Idle /\ EndOfBlocks
    BY <1>9 DEF rollback_restore, drop_failed
  <2>2. n \in Block \ {Genesis} /\ Prev[n] = top  BY <1>2, NextTowards
  <2>3. \A b : Retains(b, top, pool) => Retains(b, top', pool')
    BY <1>3, <2>1, <2>2, AddBlockRetains, RefuseRetains
  <2>4. CASE accepted(n, {}) /\ ~ clash(n) /\ add_block(n) /\ UNCHANGED <<op, batch>>
    <3>1. batch.ok => ChainGood(top')  BY <1>4, <2>2, <2>4, ExtendGood DEF add_block
    <3>2. BatchInv'  BY <1>1, <1>3, <2>3, <2>4, <3>1, BatchInvKept
    <3>3. GoalInv'  BY <1>1, <1>3, <2>3, <2>4, SwitchGoalKept
    <3> QED  BY <3>2, <3>3 DEF LedgerInv
  <2>5. CASE ~ accepted(n, {}) /\ refuse_block(n, {}) /\ op' = Idle /\ EndOfBlocks
    <3>1. ~ batch.ok  BY <1>2, <1>4, <2>5, AcceptedAgain
    <3>2. BatchInv'  BY <1>1, <1>3, <2>3, <2>5, <3>1, BatchInvKept
    <3>3. GoalInv'  BY <1>3, <2>5, <3>1, IdleFacts, BatchFieldsKept DEF GoalInv
    <3> QED  BY <3>2, <3>3 DEF LedgerInv
  <2> QED  BY <2>1, <2>4, <2>5
<1> QED  BY <1>5, <1>6, <1>7, <1>8, <1>9

\* pop_blocks from the console.
LEMMA LedgerPopStep ==
  ASSUME ChainInv, LedgerInv, BusyInBatch, (\E b \in Block : pop_blocks(b)) \/ pop_blocks_step
  PROVE  LedgerInv'
<1>1. ASSUME NEW b \in Block, pop_blocks(b)  PROVE LedgerInv'
  <2>1. ~ batch.active /\ UNCHANGED <<pool, top>> /\ PopCommand  BY <1>1 DEF pop_blocks, Quiet
  <2>2. /\ batch'.active /\ batch'.written = {} /\ batch'.keys = {}
        /\ batch'.top = top /\ batch'.left = 0
    BY <1>1 DEF pop_blocks, NoBatch
  <2>3. op'.phase = "pop"  BY <1>1 DEF pop_blocks, Idle
  <2>4. BatchInv'  BY <2>1, <2>2, BatchBegins DEF LedgerInv
  <2>5. GoalInv'  BY <2>1, <2>2, <2>3, Tree DEF GoalInv, Popped, ChainInv, NodeInv
  <2> QED  BY <2>4, <2>5 DEF LedgerInv
<1>2. CASE pop_blocks_step
  <2>1. /\ op.phase = "pop" /\ batch.active /\ UNCHANGED batch /\ DOMAIN batch = BatchFields
        /\ NodeInv /\ BatchInv /\ GoalInv
    BY <1>2 DEF pop_blocks_step, BusyInBatch, ChainInv, SnapshotInv, LedgerInv
  <2>2. batch.ok => Popped /\ ChainGood(top)  BY <2>1 DEF GoalInv, BatchInv
  <2>3. CASE top = op.target
    <3>1. op' = Idle /\ UNCHANGED <<pool, top>>  BY <1>2, <2>3 DEF pop_blocks_step
    <3>2. BatchInv'  BY <2>1, <2>2, <3>1, BatchInvKept
    <3>3. GoalInv'  BY <2>1, <2>2, <3>1, IdleFacts DEF GoalInv, Popped
    <3> QED  BY <3>2, <3>3 DEF LedgerInv
  <2>4. CASE top # op.target
    <3>1. pop_block_from_blockchain /\ UNCHANGED op  BY <1>2, <2>4 DEF pop_blocks_step
    <3>2. top \in Block /\ top # Genesis  BY <2>1, <2>4, Tree DEF ChainInv, SwitchInv, NodeInv
    <3>3. top' \in Chain[top] /\ Chain[top'] \subseteq Chain[top] /\ top' \in Block
      BY <2>1, <3>1, <3>2, PopKeepsNode, Tree DEF NodeInv
    <3>4. \A b : Retains(b, top, pool) => Retains(b, top', pool')
      BY <2>1, <3>1, <3>2, PopRetains
    <3>5. batch.ok => ChainGood(top')  BY <2>2, <3>3, GoodMonotone
    <3>6. BatchInv'  BY <2>1, <3>4, <3>5, BatchInvKept
    <3>7. batch.top \in Block  BY DEF ChainInv, SnapshotInv
    <3>8. GoalInv'  BY <2>1, <2>2, <3>1, <3>3, <3>7, Tree DEF GoalInv, Popped
    <3> QED  BY <3>6, <3>8 DEF LedgerInv
  <2> QED  BY <2>3, <2>4
<1> QED  BY <1>1, <1>2

\* The pool's own steps run outside the batches.
LEMMA LedgerPoolStep ==
  ASSUME LedgerInv, PoolStep
  PROVE  LedgerInv'
<1>1. UNCHANGED <<top, batch, op>> /\ Quiet
  BY DEF PoolStep, add_new_tx, on_transactions_relayed, remove_stuck, time_passes,
         flush_txes_from_pool, flush_invalid_blocks, create_block_template
<1> QED  BY <1>1, IdleFacts DEF LedgerInv, BatchInv, GoalInv, Quiet

\* A crash goes back to the last commit.
LEMMA LedgerRestart ==
  ASSUME LedgerInv, restart
  PROVE  LedgerInv'
<1>1. batch' = NoBatch /\ op' = Idle /\ top' = IF batch.active THEN batch.top ELSE top
  BY DEF restart
<1>2. ChainGood(top')  BY <1>1 DEF LedgerInv, BatchInv, NoBatch
<1> QED  BY <1>1, <1>2, BatchEnds

\* A throw spoils the batch and loses no transaction.
LEMMA LedgerThrow ==
  ASSUME ChainInv, LedgerInv, BusyInBatch, Throw
  PROVE  LedgerInv'
<1>1. ASSUME NEW b, batch.active, add_block_throws(b)
      PROVE  /\ batch'.active /\ ~ batch'.ok /\ BatchInv'
             /\ \A c : Retains(c, top, pool) => Retains(c, top', pool')
  <2>1. /\ \E w, k : batch' = [batch EXCEPT !.ok = FALSE, !.left = 0,
                                            !.written = w, !.keys = k]
        /\ return_txs_to_pool(TxSet(b) \cap InPool(pool))
        /\ UNCHANGED top
    BY <1>1 DEF add_block_throws
  <2>2. batch'.active /\ ~ batch'.ok /\ batch'.top = batch.top
    BY <1>1, <2>1 DEF ChainInv, SnapshotInv, BatchFields
  <2>3. \A c : Retains(c, top, pool) => Retains(c, top', pool')  BY <2>1, ReturnRetains
  <2>4. BatchInv'  BY <1>1, <2>2, <2>3 DEF LedgerInv, BatchInv
  <2> QED  BY <2>2, <2>3, <2>4
<1>2. ASSUME NEW b, NEW supplement, throw_on_main(b, supplement)  PROVE LedgerInv'
  <2>1. op' = Idle /\ batch.active /\ add_block_throws(b)  BY <1>2 DEF throw_on_main, InBatch
  <2> QED  BY <1>1, <2>1, IdleFacts DEF LedgerInv, GoalInv
<1>3. CASE throw_in_switch
  <2>1. PICK n : /\ add_block_throws(n)
                 /\ op' = [op EXCEPT !.phase = "rollback", !.failed = n]
    BY <1>3 DEF throw_in_switch
  <2>2. op.phase = "switch" /\ batch.active  BY <1>3 DEF throw_in_switch, BusyInBatch
  <2>3. op'.phase = "rollback" /\ op'.target = op.target /\ op'.orig = op.orig
    BY <2>1 DEF ChainInv, SwitchInv, OpFields
  <2> QED  BY <1>1, <2>1, <2>2, <2>3 DEF LedgerInv, GoalInv
<1>4. CASE throw_in_rollback
  <2>1. PICK n : add_block_throws(n)  BY <1>4 DEF throw_in_rollback
  <2>2. op' = Idle /\ batch.active  BY <1>4 DEF throw_in_rollback, drop_failed, BusyInBatch
  <2> QED  BY <1>1, <2>1, <2>2, IdleFacts DEF LedgerInv, GoalInv
<1> QED  BY <1>2, <1>3, <1>4 DEF Throw

\* Every step keeps the invariant of the ledger.
LEMMA LedgerStep ==
  ASSUME ChainInv, BusyInBatch, LedgerInv, [Next \/ Throw]_vars
  PROVE  LedgerInv'
<1>1. CASE UNCHANGED vars  BY <1>1 DEF vars, LedgerInv, BatchInv, GoalInv, Popped
<1>2. CASE BlockStep
  BY <1>2, LedgerBatchStep, LedgerMainStep, LedgerAlternativeStep, LedgerSwitchStep,
     LedgerPopStep DEF BlockStep
<1> QED  BY <1>1, <1>2, LedgerPoolStep, LedgerRestart, LedgerThrow DEF Next

\* A new node is on the chain it has committed.
LEMMA LedgerInvInit == Init => LedgerInv
<1> SUFFICES ASSUME Init PROVE LedgerInv  OBVIOUS
<1>1. /\ top = Genesis /\ op = Idle /\ batch = NoBatch
      /\ ~ batch.active /\ batch.written = {} /\ batch.keys = {} /\ batch.top = Genesis
  BY DEF Init, NoBatch
<1> QED  BY <1>1, GenesisGood, IdleFacts DEF LedgerInv, BatchInv, GoalInv

\* The inductive invariant: a batch that add_block has not spoiled is on a
\* good chain that may be committed, and no transaction is lost on the way.
THEOREM LedgerInvariant == SpecWithThrows => [](ChainInv /\ BusyInBatch /\ LedgerInv)
<1>1. LedgerInv /\ ChainInv /\ BusyInBatch /\ [Next \/ Throw]_vars => LedgerInv'
  BY LedgerStep
<1> QED  BY <1>1, LedgerInvInit, ChainInvariant, PTL DEF SpecWithThrows

----------------------------------------------------------------------------
(* The committed chain is a ledger.                                        *)

\* A good chain is a valid one of module Ledger.
LEMMA GoodIsValid ==
  ASSUME NEW b \in Block, ChainGood(b)
  PROVE  Abstract!Valid(b)
<1>1. ASSUME NEW c \in Chain[b], NEW i \in DOMAIN TxsOf[c], NEW n \in Needs[TxsOf[c][i]]
      PROVE  \E d \in Chain[c] \ {c} : \E j \in DOMAIN TxsOf[d] : TxsOf[d][j] = n
  <2>1. c \in Block /\ TxsOf[c][i] \in TxSet(c)  BY Tree DEF TxSet
  <2>2. c # Genesis  BY <2>1, Tree
  <2>3. n \in chain_txs(Prev[c])  BY <2>1, <2>2 DEF ChainGood, NeedsMet
  <2>4. PICK d \in Chain[Prev[c]] : n \in TxSet(d)  BY <2>3 DEF chain_txs
  <2>5. d \in Chain[c] \ {c}  BY <2>1, <2>2, Tree
  <2> QED  BY <2>4, <2>5 DEF TxSet
<1> QED  BY <1>1 DEF ChainGood, ChainSound, OnCheckpoints, Abstract!Valid

\* Only the end of a batch commits anything.
LEMMA OnlyCleanupCommits ==
  ASSUME ChainInv, BusyInBatch, LedgerInv, Next \/ Throw, ~ cleanup_handle_incoming_blocks
  PROVE  committed' = committed
<1> USE DEF committed
<1>1. DOMAIN batch = BatchFields  BY DEF ChainInv, SnapshotInv
<1>2. ASSUME batch.active, UNCHANGED batch \/ NextInBatch \/ EndOfBlocks
      PROVE  committed' = committed
  BY <1>1, <1>2, BatchFieldsKept
<1>3. ASSUME NEW b, batch.active, add_block_throws(b)  PROVE committed' = committed
  BY <1>1, <1>3 DEF add_block_throws, BatchFields
<1>4. CASE PoolStep
  <2>1. UNCHANGED <<top, batch>>
    BY <1>4 DEF PoolStep, add_new_tx, on_transactions_relayed, remove_stuck, time_passes,
                flush_txes_from_pool, flush_invalid_blocks, create_block_template
  <2> QED  BY <2>1
<1>5. CASE restart  BY <1>5 DEF restart, NoBatch
<1>6. CASE Throw
  <2>1. batch.active /\ \E b : add_block_throws(b)
    BY <1>6 DEF Throw, throw_on_main, throw_in_switch, throw_in_rollback, InBatch, BusyInBatch
  <2> QED  BY <1>3, <2>1
<1>7. CASE BlockStep
  <2>1. CASE prepare_handle_incoming_blocks
    BY <2>1 DEF prepare_handle_incoming_blocks, Quiet, NoBatch
  <2>2. ASSUME NEW b, pop_blocks(b)  PROVE committed' = committed
    BY <2>2 DEF pop_blocks, Quiet, NoBatch
  <2>3. ASSUME NEW b, NEW supplement, \/ add_to_main_chain(b, supplement)
                                      \/ handle_alternative_block(b, supplement)
        PROVE  committed' = committed
    BY <1>2, <2>3 DEF add_to_main_chain, handle_alternative_block, InBatch
  <2>4. CASE \/ switch_pop \/ switch_connect \/ finish_switch
             \/ rollback_pop \/ rollback_restore \/ finish_rollback \/ pop_blocks_step
    BY <1>2, <2>4 DEF switch_pop, switch_connect, finish_switch, rollback_pop,
       rollback_restore, finish_rollback, pop_blocks_step, BusyInBatch
  <2> QED  BY <1>7, <2>1, <2>2, <2>3, <2>4 DEF BlockStep
<1> QED  BY <1>4, <1>5, <1>6, <1>7 DEF Next

\* Every step is a step of the ledger, or changes nothing that is committed.
LEMMA LedgerSimulation ==
  ASSUME ChainInv, BusyInBatch, LedgerInv, [Next \/ Throw]_vars
  PROVE  [Abstract!Advance \/ Abstract!Pop]_committed
<1>1. CASE UNCHANGED vars  BY <1>1 DEF vars, committed
<1>2. CASE (Next \/ Throw) /\ ~ cleanup_handle_incoming_blocks
  BY <1>2, OnlyCleanupCommits
<1>3. CASE cleanup_handle_incoming_blocks
  <2>1. batch.active /\ op.phase = "idle" /\ committed = batch.top /\ committed' = top'
    BY <1>3, IdleFacts DEF cleanup_handle_incoming_blocks, NoBatch, committed
  <2>2. CASE batch.ok
    <3>1. top' = top /\ top \in Block /\ ChainGood(top)
      BY <1>3, <2>2 DEF cleanup_handle_incoming_blocks, ChainInv, NodeInv, LedgerInv, BatchInv
    <3>2. Reached(batch.top, top) \/ Popped  BY <2>1, <2>2 DEF LedgerInv, GoalInv
    <3>3. CASE top = batch.top  BY <2>1, <3>1, <3>3
    <3>4. CASE Better(batch.top, top)
      BY <2>1, <3>1, <3>4, GoodIsValid DEF Better, Abstract!Advance
    <3>5. CASE Popped  BY <2>1, <3>1, <3>5 DEF Popped, Abstract!Pop
    <3> QED  BY <3>2, <3>3, <3>4, <3>5 DEF Reached
  <2>3. CASE ~ batch.ok  BY <1>3, <2>1, <2>3 DEF cleanup_handle_incoming_blocks
  <2> QED  BY <2>2, <2>3
<1> QED  BY <1>1, <1>2, <1>3

\* What is committed behaves as the ledger of module Ledger, whatever the
\* blocks, the crashes and the errors of the database: it moves in one step
\* to a valid chain that is heavier or that a checkpoint decides for.
THEOREM CommittedIsLedger == SpecWithThrows => IsLedger
<1>1. Init => Abstract!Init  BY DEF Init, NoBatch, committed, Abstract!Init
<1>2. ChainInv /\ BusyInBatch /\ LedgerInv /\ [Next \/ Throw]_vars
        => [Abstract!Advance \/ Abstract!Pop]_committed
  BY LedgerSimulation
<1> QED  BY <1>1, <1>2, LedgerInvariant, PTL DEF SpecWithThrows, IsLedger, Abstract!Spec

\* What a batch takes off the main chain stays in the pool, kept by its
\* block, until the batch ends.
THEOREM CommitKeepsTxs == SpecWithThrows => ReorgKeepsTxs
<1> DEFINE A == batch.active /\ op = Idle /\ ~ batch'.active /\ top' = top
                  => chain_txs(batch.top) \subseteq chain_txs(top) \cup DOMAIN pool'.txs
<1>1. ASSUME ChainInv, BusyInBatch, LedgerInv, Next \/ Throw  PROVE A
  <2> SUFFICES ASSUME batch.active, ~ batch'.active, top' = top
               PROVE  chain_txs(batch.top) \subseteq chain_txs(top) \cup DOMAIN pool'.txs
    OBVIOUS
  <2>1. CASE top = batch.top  BY <2>1
  <2>2. CASE top # batch.top
    <3>1. cleanup_handle_incoming_blocks
      BY <1>1, <2>2, OnlyCleanupCommits DEF committed
    <3>2. UNCHANGED pool  BY <2>2, <3>1 DEF cleanup_handle_incoming_blocks
    <3> QED  BY <1>1, <3>2 DEF LedgerInv, BatchInv, Retains, Kept, InPool
  <2> QED  BY <2>1, <2>2
<1>2. ChainInv /\ BusyInBatch /\ LedgerInv /\ [Next \/ Throw]_vars => [A]_vars  BY <1>1
<1> QED  BY <1>2, LedgerInvariant, PTL DEF SpecWithThrows, ReorgKeepsTxs

----------------------------------------------------------------------------
(* When add_block does not throw.                                          *)

Unspoiled == batch.ok

\* Only a throw spoils a batch.
LEMMA NotSpoiled ==
  ASSUME DOMAIN batch = BatchFields, batch.ok, [Next]_vars
  PROVE  batch'.ok
<1>1. ASSUME UNCHANGED batch \/ NextInBatch \/ EndOfBlocks  PROVE batch'.ok
  BY <1>1, BatchFieldsKept
<1>2. CASE UNCHANGED vars  BY <1>2 DEF vars
<1>3. CASE PoolStep
  <2>1. UNCHANGED batch
    BY <1>3 DEF PoolStep, add_new_tx, on_transactions_relayed, remove_stuck, time_passes,
                flush_txes_from_pool, flush_invalid_blocks, create_block_template
  <2> QED  BY <2>1
<1>4. CASE restart  BY <1>4 DEF restart, NoBatch
<1>5. CASE BlockStep
  <2>0. CASE cleanup_handle_incoming_blocks
    BY <2>0 DEF cleanup_handle_incoming_blocks, NoBatch
  <2>1. CASE prepare_handle_incoming_blocks
    BY <2>1 DEF prepare_handle_incoming_blocks, NoBatch
  <2>2. ASSUME NEW b, pop_blocks(b)  PROVE batch'.ok
    BY <2>2 DEF pop_blocks, NoBatch
  <2>3. ASSUME NEW b, NEW supplement, \/ add_to_main_chain(b, supplement)
                                      \/ handle_alternative_block(b, supplement)
        PROVE  batch'.ok
    BY <1>1, <2>3 DEF add_to_main_chain, handle_alternative_block
  <2>4. CASE \/ switch_pop \/ switch_connect \/ finish_switch
             \/ rollback_pop \/ rollback_restore \/ finish_rollback \/ pop_blocks_step
    BY <1>1, <2>4 DEF switch_pop, switch_connect, finish_switch, rollback_pop,
       rollback_restore, finish_rollback, pop_blocks_step
  <2> QED  BY <1>5, <2>0, <2>1, <2>2, <2>3, <2>4 DEF BlockStep
<1> QED  BY <1>2, <1>3, <1>4, <1>5 DEF Next

\* Without a throw every batch can be committed.
LEMMA SpecInvariant == Spec => [](ChainInv /\ BusyInBatch /\ LedgerInv /\ Unspoiled)
<1>1. [Next]_vars => [Next \/ Throw]_vars  OBVIOUS
<1>2. Spec => SpecWithThrows  BY <1>1, PTL DEF Spec, SpecWithThrows
<1>3. Init => Unspoiled  BY DEF Init, NoBatch, Unspoiled
<1>4. ChainInv /\ Unspoiled /\ [Next]_vars => Unspoiled'
  BY NotSpoiled DEF ChainInv, SnapshotInv, Unspoiled
<1> QED  BY <1>2, <1>3, <1>4, LedgerInvariant, PTL DEF Spec

\* A switch that add_block does not interrupt ends on the new chain or on the
\* old one, whole: "PANIC! failed to add (again) block" cannot happen.
THEOREM SwitchIsAllOrNothing == Spec => SwitchAllOrNothing
<1> DEFINE A == op.phase \in {"switch", "rollback"} /\ op' = Idle /\ batch'.active
                  => top' = (IF op.phase = "switch" THEN op.target ELSE op.orig)
<1>1. ASSUME ChainInv, LedgerInv, batch.ok, Next  PROVE A
  <2> SUFFICES ASSUME op.phase \in {"switch", "rollback"}, op' = Idle, batch'.active
               PROVE  top' = (IF op.phase = "switch" THEN op.target ELSE op.orig)
    OBVIOUS
  <2>1. op # Idle /\ op.orig \in Block  BY IdleFacts, <1>1 DEF ChainInv, SwitchInv
  <2>2. ~ PoolStep
    BY <2>1 DEF PoolStep, add_new_tx, on_transactions_relayed, remove_stuck, time_passes,
       flush_txes_from_pool, flush_invalid_blocks, create_block_template, Quiet
  <2>3. BlockStep  BY <1>1, <2>2 DEF Next, restart, NoBatch
  <2>4. finish_switch \/ finish_rollback \/ rollback_restore
    <3>1. op'.phase = "idle"  BY IdleFacts
    <3>2. DOMAIN op = OpFields  BY <1>1 DEF ChainInv, SwitchInv
    <3>3. ~ switch_connect
      <4> SUFFICES ASSUME NEW n, op' = [op EXCEPT !.phase = "rollback", !.failed = n] PROVE FALSE
        BY <2>1 DEF switch_connect
      <4> QED  BY <3>1, <3>2 DEF OpFields
    <3> QED
      BY <2>1, <2>3, <3>3
         DEF BlockStep, prepare_handle_incoming_blocks, cleanup_handle_incoming_blocks, Quiet,
             InBatch, add_to_main_chain, handle_alternative_block, switch_pop, rollback_pop,
             pop_blocks, pop_blocks_step
  <2>5. CASE finish_switch  BY <2>5 DEF finish_switch
  <2>6. CASE finish_rollback  BY <2>6 DEF finish_rollback
  <2>7. CASE rollback_restore
    <3>1. PICK n \in next_towards(op.orig) : ~ accepted(n, {})
      BY <2>1, <2>7 DEF rollback_restore
    <3>2. /\ ChainGood(op.orig) /\ Retains(op.orig, top, pool)
          /\ batch.written = {} /\ batch.keys = {}
      BY <1>1 DEF LedgerInv, BatchInv, GoalInv
    <3> QED  BY <2>1, <3>1, <3>2, AcceptedAgain
  <2> QED  BY <2>4, <2>5, <2>6, <2>7
<1>2. ChainInv /\ LedgerInv /\ Unspoiled /\ [Next]_vars => [A]_vars  BY <1>1 DEF Unspoiled
<1> QED  BY <1>2, SpecInvariant, PTL DEF Spec, SwitchAllOrNothing

----------------------------------------------------------------------------
(* The heaviest chain.                                                     *)

\* A better tip still outweighs the table.
LEMMA OutweighsGrows ==
  ASSUME NEW T \in Block, NEW U \in Block, NEW A \in SUBSET Block, Outweighs(T, A),
         CumDiff[T] <= CumDiff[U], Checkpoint \cap Chain[T] \subseteq Chain[U]
  PROVE  Outweighs(U, A)
<1> SUFFICES ASSUME NEW b \in A
             PROVE  /\ Checkpoint \cap Chain[b] \subseteq Chain[U]
                    /\ \/ CumDiff[b] <= CumDiff[U]
                       \/ ~ (Checkpoint \cap Chain[U] \subseteq Chain[b])
  BY DEF Outweighs
<1>1. Checkpoint \cap Chain[b] \subseteq Chain[T]  BY DEF Outweighs
<1>2. CASE CumDiff[b] <= CumDiff[T]  BY <1>1, <1>2, Heights
<1>3. CASE ~ (Checkpoint \cap Chain[T] \subseteq Chain[b])  BY <1>1, <1>3
<1> QED  BY <1>2, <1>3 DEF Outweighs

\* build_alt_chain: the parent of an alternative block is in the alternative
\* table or on the main chain.
LEMMA ParentKnown ==
  ASSUME NEW b \in Block \ {Genesis}, connects_to_main(b)
  PROVE  Prev[b] \in Chain[top] \cup alt
<1>1. CASE alt_below(b) = {}  BY <1>1 DEF connects_to_main
<1>2. CASE alt_below(b) # {}
  <2>1. PICK c \in alt_below(b) : TRUE  BY <1>2
  <2>2. c \in Chain[Prev[b]] /\ Prev[b] \in Chain[b] \ {b} /\ Prev[b] \in Block
    BY <2>1, Tree DEF alt_below
  <2>3. Height[Prev[b]] >= Height[c]  BY <2>2, AncestorIsBelow, Heights, Tree
  <2> QED  BY <2>1, <2>2, <2>3 DEF alt_below
<1> QED  BY <1>1, <1>2

\* A new alternative block brings at most itself as a new checkpoint.
LEMMA NewAltCheckpoints ==
  ASSUME NEW b \in Block \ {Genesis}, top \in Block, alt \subseteq Block,
         Outweighs(top, alt), connects_to_main(b), check_block(b)
  PROVE  Checkpoint \cap Chain[b] \subseteq Chain[top] \cup {b}
<1>1. Checkpoint \cap Chain[Prev[b]] \subseteq Chain[top]
  <2>1. CASE Prev[b] \in Chain[top]  BY <2>1, Tree
  <2>2. CASE Prev[b] \in alt  BY <2>2 DEF Outweighs
  <2> QED  BY <2>1, <2>2, ParentKnown
<1> QED  BY <1>1, Tree

\* Fewer alternative blocks are outweighed as well.
LEMMA OutweighsFewer ==
  ASSUME NEW T, NEW A, NEW B \in SUBSET A, Outweighs(T, A)
  PROVE  Outweighs(T, B)
  BY DEF Outweighs

\* The old blocks of a switch are outweighed by the new ones, unless a
\* checkpoint decided for those and the old ones are thrown away.
LEMMA SwitchOutweighs ==
  ASSUME NEW orig \in Block, NEW target \in Block, Switchable(orig, target),
         OnCheckpoints(target), NEW A \in SUBSET Block, Outweighs(orig, A \ {target}),
         NEW pushed, pushed \subseteq Chain[orig],
         is_a_checkpoint(target) => pushed = {}
  PROVE  Outweighs(target, (A \cup pushed) \ Chain[target])
<1> SUFFICES ASSUME NEW b \in (A \cup pushed) \ Chain[target]
             PROVE  /\ Checkpoint \cap Chain[b] \subseteq Chain[target]
                    /\ \/ CumDiff[b] <= CumDiff[target]
                       \/ ~ (Checkpoint \cap Chain[target] \subseteq Chain[b])
  BY DEF Outweighs
<1>1. Better(orig, target)  BY BetterSwitch
<1>2. b # target /\ target \in Chain[target]  BY Tree
<1>3. CASE b \in pushed
  <2>1. Chain[b] \subseteq Chain[orig] /\ b \in Block  BY <1>3, Tree
  <2>2. CumDiff[b] <= CumDiff[orig]  BY <1>3, AncestorIsBelow
  <2>3. CumDiff[orig] < CumDiff[target]  BY <1>3 DEF Switchable
  <2> QED  BY <1>1, <2>1, <2>2, <2>3, Heights DEF Better
<1>4. CASE b \in A
  <2>1. b \in A \ {target} /\ b \in Block  BY <1>2, <1>4
  <2>2. Checkpoint \cap Chain[b] \subseteq Chain[orig]  BY <2>1 DEF Outweighs
  <2>3. CASE CumDiff[orig] < CumDiff[target]
    <3>1. CumDiff[orig] <= CumDiff[target]  BY <2>3, Heights
    <3>2. Outweighs(target, A \ {target})  BY <1>1, <3>1, OutweighsGrows DEF Better
    <3> QED  BY <2>1, <3>2 DEF Outweighs
  <2>4. CASE is_a_checkpoint(target)
    <3>1. target \in Checkpoint  BY <1>2, <2>4 DEF is_a_checkpoint, OnCheckpoints
    <3>2. target \notin Chain[b]  BY <2>2, <3>1 DEF Switchable
    <3> QED  BY <1>1, <1>2, <2>2, <3>1, <3>2 DEF Better
  <2> QED  BY <2>3, <2>4 DEF Switchable
<1> QED  BY <1>3, <1>4

\* The block steps, when the operator leaves the chain alone.
LEMMA HeaviestBlockStep ==
  ASSUME ~ PopCommand, ChainInv, BusyInBatch, LedgerInv, Unspoiled, HeaviestInv, BlockStep
  PROVE  HeaviestInv'
<1>0. /\ DOMAIN batch = BatchFields /\ DOMAIN op = OpFields /\ batch.ok /\ ChainGood(top)
      /\ top \in Block /\ batch.top \in Block /\ op.target \in Block /\ op.orig \in Block
  BY DEF ChainInv, NodeInv, SnapshotInv, SwitchInv, LedgerInv, BatchInv, Unspoiled
<1>1. ASSUME UNCHANGED batch \/ NextInBatch \/ EndOfBlocks
      PROVE  batch'.top = batch.top /\ batch'.alt = batch.alt
  BY <1>0, <1>1, BatchFieldsKept
<1>2. ASSUME UNCHANGED batch \/ NextInBatch \/ EndOfBlocks, op' = Idle, alt' \subseteq Block,
             Outweighs(top', alt')
      PROVE  HeaviestInv'
  BY <1>1, <1>2, IdleFacts DEF HeaviestInv
<1>3. CASE prepare_handle_incoming_blocks
  <2>1. op = Idle /\ UNCHANGED <<op, top, alt>> /\ batch'.top = top /\ batch'.alt = alt
    BY <1>3 DEF prepare_handle_incoming_blocks, Quiet, NoBatch
  <2> QED  BY <2>1, IdleFacts DEF HeaviestInv
<1>4. CASE cleanup_handle_incoming_blocks
  <2>1. op = Idle /\ UNCHANGED <<op, top, alt>> /\ batch'.alt = {}
    BY <1>0, <1>4 DEF cleanup_handle_incoming_blocks, NoBatch
  <2> QED  BY <2>1, IdleFacts DEF HeaviestInv, Outweighs
<1>5. ASSUME NEW b \in Block \ {Genesis}, NEW supplement, add_to_main_chain(b, supplement)
      PROVE  HeaviestInv'
  <2>1. /\ op' = Idle /\ op = Idle /\ UNCHANGED alt /\ (NextInBatch \/ EndOfBlocks)
        /\ (top' = b /\ Prev[b] = top) \/ top' = top
    BY <1>5 DEF add_to_main_chain, InBatch, add_block, refuse_block
  <2>2. Outweighs(top, alt) /\ alt \subseteq Block  BY <2>1, IdleFacts DEF HeaviestInv
  <2>3. CASE top' = b /\ Prev[b] = top
    <3>1. CumDiff[top] <= CumDiff[b] /\ Chain[top] \subseteq Chain[b]
      BY <1>0, <2>3, Heights, Tree
    <3>2. Outweighs(b, alt)  BY <1>0, <2>2, <3>1, OutweighsGrows
    <3> QED  BY <1>2, <2>1, <2>2, <2>3, <3>2
  <2>4. CASE top' = top  BY <1>2, <2>1, <2>2, <2>4
  <2> QED  BY <2>1, <2>3, <2>4
<1>6. ASSUME NEW b \in Block \ {Genesis}, NEW supplement, handle_alternative_block(b, supplement)
      PROVE  HeaviestInv'
  <2>1. op = Idle /\ UNCHANGED top /\ (NextInBatch \/ EndOfBlocks)
    BY <1>6 DEF handle_alternative_block, InBatch
  <2>2. Outweighs(top, alt) /\ alt \subseteq Block  BY <2>1, IdleFacts DEF HeaviestInv
  <2>3. CASE UNCHANGED <<alt, op>>  BY <1>2, <2>1, <2>2, <2>3
  <2>4. CASE ~ UNCHANGED <<alt, op>>
    <3>1. /\ alternative_allowed(b) /\ alt' = alt \cup {b}
          /\ op' = IF must_switch(b)
                   THEN [Idle EXCEPT !.phase = "switch", !.target = b, !.orig = top,
                                     !.discard = is_a_checkpoint(b)]
                   ELSE Idle
      BY <1>6, <2>4 DEF handle_alternative_block
    <3>2. CASE must_switch(b)
      <4>1. /\ op'.phase = "switch" /\ op'.target = b /\ op'.orig = top
            /\ op'.discard = is_a_checkpoint(b)
        BY <3>1, <3>2 DEF Idle
      <4>2. Outweighs(top, alt' \ {b})  BY <2>2, <3>1, OutweighsFewer
      <4> QED  BY <1>1, <2>1, <2>2, <3>1, <4>1, <4>2 DEF HeaviestInv
    <3>3. CASE ~ must_switch(b)
      <4>1. ~ is_a_checkpoint(b) /\ CumDiff[b] <= CumDiff[top]
        BY <1>0, <3>3, Heights DEF must_switch
      <4>2. Checkpoint \cap Chain[b] \subseteq Chain[top] \cup {b}
        BY <1>0, <2>2, <3>1, NewAltCheckpoints DEF alternative_allowed
      <4>3. b \notin Checkpoint  BY <4>1 DEF is_a_checkpoint
      <4>4. Outweighs(top, alt')  BY <2>2, <3>1, <4>1, <4>2, <4>3 DEF Outweighs
      <4> QED  BY <1>2, <2>1, <2>2, <3>1, <3>3, <4>4
    <3> QED  BY <3>2, <3>3
  <2> QED  BY <2>3, <2>4
<1>7. CASE switch_pop \/ rollback_pop
  BY <1>7 DEF switch_pop, rollback_pop, HeaviestInv
<1>8. CASE switch_connect
  <2>1. op.phase = "switch" /\ UNCHANGED <<alt, batch>>  BY <1>8 DEF switch_connect
  <2>2. PICK n \in Chain[op.target] :
           \/ UNCHANGED op
           \/ op' = [op EXCEPT !.phase = "rollback", !.failed = n]
    BY <1>8 DEF switch_connect, next_towards
  <2>3. CASE UNCHANGED op  BY <2>1, <2>3 DEF HeaviestInv
  <2>4. CASE op' = [op EXCEPT !.phase = "rollback", !.failed = n]
    <3>1. /\ op'.phase = "rollback" /\ op'.target = op.target /\ op'.orig = op.orig
          /\ op'.failed = n /\ op'.discard = op.discard
      BY <1>0, <2>4 DEF OpFields
    <3> QED  BY <2>1, <3>1 DEF HeaviestInv
  <2> QED  BY <2>2, <2>3, <2>4
<1>9. CASE finish_switch
  <2>1. PICK pushed : /\ pushed \subseteq Chain[op.orig]
                      /\ op.discard => pushed = {}
                      /\ alt' = (alt \cup pushed) \ Chain[op.target]
    BY <1>9 DEF finish_switch
  <2>2. op.phase = "switch" /\ top = op.target /\ UNCHANGED <<top, batch>> /\ op' = Idle
    BY <1>9 DEF finish_switch
  <2>3. Switchable(op.orig, op.target) /\ OnCheckpoints(op.target)
    BY <1>0, <2>2 DEF LedgerInv, GoalInv, ChainGood
  <2>4. /\ alt \subseteq Block /\ Outweighs(op.orig, alt \ {op.target})
        /\ is_a_checkpoint(op.target) => pushed = {}
    BY <2>1, <2>2 DEF HeaviestInv
  <2>5. Outweighs(top', alt')  BY <1>0, <2>1, <2>2, <2>3, <2>4, SwitchOutweighs
  <2>6. alt' \subseteq Block  BY <1>0, <2>1, <2>4, Tree
  <2> QED  BY <1>2, <2>2, <2>5, <2>6
<1>10. CASE finish_rollback
  <2>1. /\ op.phase = "rollback" /\ top = op.orig /\ UNCHANGED top /\ op' = Idle /\ EndOfBlocks
        /\ alt' = alt \ {b \in Chain[op.target] : Height[b] >= Height[op.failed]}
    BY <1>10 DEF finish_rollback, drop_failed
  <2>2. /\ op.failed \in Chain[op.target] /\ alt \subseteq Block
        /\ Outweighs(op.orig, alt \ {op.target})
    BY <2>1 DEF HeaviestInv
  <2>3. Height[op.target] >= Height[op.failed]
    BY <1>0, <2>2, AncestorIsBelow, Heights, Tree
  <2>4. alt' \subseteq alt \ {op.target}  BY <1>0, <2>1, <2>3, Tree
  <2>5. Outweighs(top', alt')  BY <2>1, <2>2, <2>4, OutweighsFewer
  <2> QED  BY <1>2, <2>1, <2>2, <2>4, <2>5
<1>11. CASE rollback_restore
  <2>1. PICK n \in next_towards(op.orig) :
           (UNCHANGED <<alt, op, batch>>) \/ ~ accepted(n, {})
    BY <1>11 DEF rollback_restore
  <2>2. /\ op.phase = "rollback" /\ ChainGood(op.orig) /\ Retains(op.orig, top, pool)
        /\ batch.written = {} /\ batch.keys = {}
    BY <1>0, <1>11 DEF rollback_restore, LedgerInv, BatchInv, GoalInv
  <2>3. UNCHANGED <<alt, op, batch>>  BY <1>0, <2>1, <2>2, AcceptedAgain
  <2> QED  BY <2>2, <2>3 DEF HeaviestInv
<1>12. ~ pop_blocks_step /\ \A b : ~ pop_blocks(b)
  BY DEF pop_blocks_step, pop_blocks, HeaviestInv
<1> QED
  BY <1>3, <1>4, <1>5, <1>6, <1>7, <1>8, <1>9, <1>10, <1>11, <1>12 DEF BlockStep

\* Every step that is not the operator's keeps the invariant.
LEMMA HeaviestStep ==
  ASSUME ~ PopCommand, ChainInv, BusyInBatch, LedgerInv, Unspoiled, HeaviestInv, [Next]_vars
  PROVE  HeaviestInv'
<1>1. CASE UNCHANGED vars  BY <1>1 DEF vars, HeaviestInv
<1>2. CASE PoolStep
  <2>1. UNCHANGED <<top, alt, batch, op>>
    BY <1>2 DEF PoolStep, add_new_tx, on_transactions_relayed, remove_stuck, time_passes,
                flush_txes_from_pool, flush_invalid_blocks, create_block_template
  <2> QED  BY <2>1 DEF HeaviestInv
<1>3. CASE restart
  <2>1. /\ op' = Idle /\ batch'.alt = {}
        /\ top' = IF batch.active THEN batch.top ELSE top
        /\ alt' = IF batch.active THEN batch.alt ELSE alt
    BY <1>3 DEF restart, NoBatch
  <2>2. Outweighs(top', alt') /\ alt' \subseteq Block
    BY <2>1 DEF HeaviestInv, BusyInBatch
  <2> QED  BY <2>1, <2>2, IdleFacts DEF HeaviestInv, Outweighs
<1> QED  BY <1>1, <1>2, <1>3, HeaviestBlockStep DEF Next

\* A checkpoint of the main chain that an alternative chain lacks rules it out.
LEMMA HeaviestSuffices ==
  ASSUME ChainInv, HeaviestInv
  PROVE  OnHeaviestChain
<1> SUFFICES ASSUME op = Idle, NEW b \in alt, ~ (CumDiff[b] <= CumDiff[top]),
                    passes_checkpoints(b)
             PROVE  \E c \in Checkpoint : Height[b] < Height[c] /\ Height[c] <= Height[top]
  BY DEF OnHeaviestChain
<1>1. top \in Block /\ b \in Block /\ Outweighs(top, alt)
  BY IdleFacts DEF ChainInv, NodeInv, HeaviestInv
<1>2. PICK c \in Checkpoint \cap Chain[top] : c \notin Chain[b]  BY <1>1 DEF Outweighs
<1>3. c \in Block /\ Height[c] <= Height[top]  BY <1>1, <1>2, AncestorIsBelow, Tree
<1>4. ~ (Height[c] <= Height[b])
  <2> SUFFICES ASSUME Height[c] <= Height[b] PROVE FALSE  OBVIOUS
  <2>1. PICK d \in Chain[b] : Height[d] = Height[c]  BY <1>1, <1>3, EveryHeight, Heights
  <2> QED  BY <1>2, <1>3, <2>1 DEF passes_checkpoints
<1> QED  BY <1>1, <1>2, <1>3, <1>4, Heights

\* As long as the operator does not pop blocks, the node is between two blocks
\* on the heaviest chain it knows that has the checkpoints it has passed.
THEOREM HeaviestChain == ~ PopCommand => (Spec => []OnHeaviestChain)
<1> SUFFICES ASSUME ~ PopCommand PROVE Spec => []OnHeaviestChain  OBVIOUS
<1>1. Init => HeaviestInv
  <2> SUFFICES ASSUME Init PROVE HeaviestInv  OBVIOUS
  <2>1. op = Idle /\ alt = {} /\ batch.alt = {}  BY DEF Init, NoBatch
  <2> QED  BY <2>1, IdleFacts DEF HeaviestInv, Outweighs
<1>2. ChainInv /\ BusyInBatch /\ LedgerInv /\ Unspoiled /\ HeaviestInv /\ [Next]_vars
        => HeaviestInv'
  BY HeaviestStep
<1>3. ChainInv /\ HeaviestInv => OnHeaviestChain  BY HeaviestSuffices
<1> QED  BY <1>1, <1>2, <1>3, SpecInvariant, PTL DEF Spec
=============================================================================
