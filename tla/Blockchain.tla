----------------------------- MODULE Blockchain -----------------------------
(***************************************************************************)
(* The main chain, the alternative blocks and the transaction pool of a    *)
(* node: src/cryptonote_core/blockchain.cpp with tx_pool.cpp.  Blocks come *)
(* in batches (prepare_handle_incoming_blocks, add_new_block for each one, *)
(* cleanup_handle_incoming_blocks) during which the pool's and the chain's *)
(* locks are held and the database runs one write transaction, committed   *)
(* or aborted at the end.  Everything else happens between two batches; a  *)
(* crash can happen anywhere.  A chain switch is a loop over blocks, and   *)
(* each of its turns is a step.                                            *)
(*                                                                         *)
(* Block is the set of blocks that pass the checks that depend only on the *)
(* block and its ancestors (version, timestamp, proof of work, size); one  *)
(* that does not changes nothing.  A block stands for the chain that ends  *)
(* in it: Chain[b] is the set of its ancestors and itself.                 *)
(***************************************************************************)
EXTENDS TxPool, Sequences

CONSTANTS Block, Genesis,
          Prev,         \* Prev[b]: bl.prev_id
          Chain,        \* Chain[b]: b and its ancestors
          Height,       \* Height[b]
          CumDiff,      \* CumDiff[b]: cumulative difficulty
          TxsOf,        \* TxsOf[b]: bl.tx_hashes
          Needs,        \* Needs[t]: transactions whose outputs are in the rings of t
          GoodMiner,    \* blocks whose miner transaction has the right reward
          Checkpoint,   \* m_checkpoints, as blocks
          Arrivals,     \* relay methods with which transactions arrive
          MaxBatch,     \* bound: blocks in a batch
          PopCommand,   \* the operator may use pop_blocks
          DbErrors,     \* the database may fail while a block is written
          MaxDrift      \* bound: no batch starts once m_txpool_weight is beyond it

TxSet(b) == {TxsOf[b][i] : i \in DOMAIN TxsOf[b]}

ASSUME BlockchainAssumption ==
    /\ Genesis \in Block /\ NoBlock \notin Block
    /\ Prev \in [Block \ {Genesis} -> Block]
    /\ Chain \in [Block -> SUBSET Block]
    /\ Chain[Genesis] = {Genesis}
    /\ \A b \in Block \ {Genesis} : /\ b \notin Chain[Prev[b]]
                                    /\ Chain[b] = Chain[Prev[b]] \cup {b}
    /\ \A b \in Block : Genesis \in Chain[b]
    /\ \A b \in Block : \A c \in Chain[b] : Chain[c] \subseteq Chain[b]
    /\ Height \in [Block -> Nat]
    /\ Height[Genesis] = 0
    /\ \A b \in Block \ {Genesis} : Height[b] = Height[Prev[b]] + 1
    /\ CumDiff \in [Block -> Nat]
    /\ \A b \in Block \ {Genesis} : CumDiff[b] > CumDiff[Prev[b]]
    /\ TxsOf \in [Block -> Seq(Tx)]
    /\ TxsOf[Genesis] = << >>
    /\ Needs \in [Tx -> SUBSET Tx]
    /\ Checkpoint \subseteq Block
    /\ Arrivals \subseteq relay_method \ {"block"}
    /\ MaxBatch \in Nat

VARIABLES pool,     \* the transaction pool
          top,      \* get_tail_id()
          alt,      \* the alternative blocks table
          invalid,  \* m_invalid_blocks
          btc,      \* the cached block template: its prev_id and transactions
          batch,    \* the write transaction of the database
          op        \* the chain switch under way

vars == <<pool, top, alt, invalid, btc, batch, op>>

NoTemplate == [prev |-> NoBlock, txs |-> {}]

\* No batch: the database has nothing to go back to.  written and keys are
\* what an add_block that threw left in the transaction; left is the number
\* of blocks still to come.
NoBatch == [active |-> FALSE, ok |-> TRUE, left |-> 0, top |-> Genesis, alt |-> {},
            txs |-> [t \in {} |-> NoBlock], written |-> {}, keys |-> {}]

Idle == [phase |-> "idle", target |-> Genesis, orig |-> Genesis, failed |-> Genesis,
         discard |-> FALSE]

----------------------------------------------------------------------------
(* What the database answers.                                              *)

chain_txs(b) == UNION {TxSet(c) : c \in Chain[b]}
chain_keys(b) == UNION {Images[t] : t \in chain_txs(b)}

tx_exists(t) == t \in chain_txs(top) \cup batch.written

inputs_ok_unspent(t) == Needs[t] \subseteq chain_txs(top) \cup batch.written   \* mutant

\* check_tx_inputs: the outputs of the rings exist, no key image is spent.
inputs_ok(t) ==
    /\ Needs[t] \subseteq chain_txs(top) \cup batch.written
    /\ Images[t] \cap (chain_keys(top) \cup batch.keys) = {}

good_inputs == {t \in Tx : inputs_ok(t)}

have_block(b) == b \in Chain[top] \cup alt \cup invalid

height == Height[top] + 1

is_alternative_block_allowed_any(blockchain_height, block_height) == block_height # 0   \* mutant

\* checkpoints::check_block and is_alternative_block_allowed.
check_block(b) == \A c \in Checkpoint : Height[c] = Height[b] => c = b
is_a_checkpoint(b) == \E c \in Checkpoint : Height[c] = Height[b]
is_alternative_block_allowed(blockchain_height, block_height) ==
    /\ block_height # 0
    /\ \A c \in Checkpoint : Height[c] <= blockchain_height => Height[c] < block_height

----------------------------------------------------------------------------
(* pop_block_from_blockchain and handle_block_to_main_chain.               *)

pop_block_forgetting_txs ==   \* mutant
    /\ top' = Prev[top]
    /\ pool' = on_blockchain_change(pool)
    /\ btc' = NoTemplate

\* The transactions of the top block go back to the pool, kept by the block;
\* their inputs are checked against the chain without that block.
pop_block_from_blockchain ==
    LET below == {t \in Tx : /\ Needs[t] \subseteq chain_txs(Prev[top]) \cup batch.written
                             /\ Images[t] \cap (chain_keys(Prev[top]) \cup batch.keys) = {}}
    IN  /\ top' = Prev[top]
        /\ pool' = on_blockchain_change(add_kept_txs(pool, TxSet(top), below))
        /\ btc' = NoTemplate

\* The i-th transaction stops the block: it is on the chain already, it is
\* neither in the pool nor in the supplement, or its inputs are wrong.
exists_at(b, i) == tx_exists(TxsOf[b][i])
missing_at(b, i, supplement) == TxsOf[b][i] \notin InPool(pool) \cup supplement
stops_at(b, i, supplement) ==
    exists_at(b, i) \/ missing_at(b, i, supplement) \/ ~ inputs_ok(TxsOf[b][i])

stops(b, supplement) == {i \in DOMAIN TxsOf[b] : stops_at(b, i, supplement)}

first_stop(b, supplement) ==
    {i \in stops(b, supplement) : \A j \in stops(b, supplement) : i <= j}

\* Two transactions of the block spend one key image: only add_block notices.
clash(b) == \E i, j \in DOMAIN TxsOf[b] :
                i # j /\ Images[TxsOf[b][i]] \cap Images[TxsOf[b][j]] # {}

accepted(b, supplement) ==
    /\ check_block(b)
    /\ stops(b, supplement) = {}
    /\ b \in GoodMiner

\* The transactions taken from the pool before the block was refused: all of
\* them when it is the miner transaction that is wrong.
taken(b, supplement) ==
    InPool(pool) \cap
    {TxsOf[b][i] : i \in {i \in DOMAIN TxsOf[b] :
        \A f \in first_stop(b, supplement) : i < f \/ (i = f /\ ~ exists_at(b, i))}}

wrong_inputs(b, supplement) ==
    \E f \in first_stop(b, supplement) : ~ exists_at(b, f) /\ ~ missing_at(b, f, supplement)

add_block_keeping_pool(b) ==   \* mutant
    /\ top' = b
    /\ pool' = on_blockchain_change(pool)
    /\ btc' = NoTemplate

add_block(b) ==
    /\ top' = b
    /\ pool' = on_blockchain_change(take_tx(pool, TxSet(b)))
    /\ btc' = NoTemplate

\* return_txs_to_pool for the transactions of S.
return_txs_to_pool(S) == pool' = add_kept_txs(take_tx(pool, S), S, good_inputs)

refuse_block(b, supplement) ==
    /\ IF check_block(b) THEN return_txs_to_pool(taken(b, supplement)) ELSE UNCHANGED pool
    /\ invalid' = IF check_block(b) /\ wrong_inputs(b, supplement)
                  THEN invalid \cup {b} ELSE invalid
    /\ UNCHANGED <<top, btc>>

\* m_db->add_block throws after writing the first n transactions of the block
\* and some key images of the next one: KEY_IMAGE_EXISTS, or an error of the
\* database itself.  What it wrote stays in the write transaction.
disjoint_before(b, n) == \A i, j \in 1 .. n :
    i # j => Images[TxsOf[b][i]] \cap Images[TxsOf[b][j]] = {}

add_block_throws(b) ==
    \E n \in 0 .. Len(TxsOf[b]) :
        LET written == {TxsOf[b][i] : i \in 1 .. n}
            keys == UNION {Images[t] : t \in written}
            next == IF n < Len(TxsOf[b]) THEN Images[TxsOf[b][n + 1]] ELSE {}
        IN  /\ disjoint_before(b, n)
            /\ DbErrors \/ (n < Len(TxsOf[b]) /\ ~ disjoint_before(b, n + 1))
            /\ \E some \in SUBSET (next \ keys) :
                  batch' = [batch EXCEPT !.ok = FALSE, !.left = 0,
                                         !.written = @ \cup written,
                                         !.keys = @ \cup keys \cup some]
            /\ return_txs_to_pool(TxSet(b) \cap InPool(pool))
            /\ UNCHANGED <<top, btc, invalid>>

----------------------------------------------------------------------------
(* Batches of blocks.                                                      *)

Quiet == ~ batch.active /\ op = Idle
InBatch == batch.active /\ op = Idle /\ batch.left > 0

prepare_handle_incoming_blocks ==
    /\ Quiet
    /\ MaxBatch > 0 /\ pool.weight <= MaxDrift
    /\ batch' = [NoBatch EXCEPT !.active = TRUE, !.left = MaxBatch,
                                !.top = top, !.alt = alt, !.txs = pool.txs]
    /\ UNCHANGED <<pool, top, alt, invalid, btc, op>>

\* cleanup_handle_incoming_blocks: a batch that failed leaves the database as
\* it was, the txpool table included; the memory is not touched.
cleanup_handle_incoming_blocks ==
    /\ batch.active /\ op = Idle
    /\ IF batch.ok THEN UNCHANGED <<pool, top, alt>>
       ELSE /\ pool' = [pool EXCEPT !.txs = batch.txs]
            /\ top' = batch.top
            /\ alt' = batch.alt
    /\ batch' = NoBatch
    /\ UNCHANGED <<invalid, btc, op>>

NextInBatch == batch' = [batch EXCEPT !.left = @ - 1]
EndOfBlocks == batch' = [batch EXCEPT !.left = 0]

\* add_new_block for a block on the tip of the main chain.
add_to_main_chain(b, supplement) ==
    /\ InBatch
    /\ ~ have_block(b)
    /\ Prev[b] = top
    /\ \/ /\ accepted(b, supplement) /\ ~ clash(b)
          /\ add_block(b)
          /\ NextInBatch
          /\ UNCHANGED invalid
       \/ /\ ~ accepted(b, supplement)
          /\ refuse_block(b, supplement)
          /\ EndOfBlocks
    /\ UNCHANGED <<alt, op>>

----------------------------------------------------------------------------
(* Alternative blocks: handle_alternative_block.                           *)

\* The blocks build_alt_chain finds below b in the alternative table, and
\* whether the block under them is on the main chain and is not its tip.
alt_below(b) ==
    {c \in Chain[b] \ {b} : \A d \in Chain[b] \ {b} : Height[d] >= Height[c] => d \in alt}

connects_to_main(b) ==
    LET A == alt_below(b)
    IN  IF A = {} THEN Prev[b] \in Chain[top]
        ELSE \A c \in A : (\A d \in A : Height[c] <= Height[d])
                             => Prev[c] \in Chain[top] /\ height > Height[c]

alternative_allowed(b) ==
    /\ is_alternative_block_allowed(height, Height[b])
    /\ connects_to_main(b)
    /\ check_block(b)

\* The transactions of the supplement that go to the pool.
to_add(supplement) == {t \in supplement : ~ have_tx(pool, t, legacy) /\ ~ tx_exists(t)}

\* The main chain loses to an alternative block only if that one has more
\* difficulty behind it, or is a checkpoint.
must_switch_never(b) == is_a_checkpoint(b)   \* mutant
must_switch(b) == is_a_checkpoint(b) \/ CumDiff[top] < CumDiff[b]

handle_alternative_block(b, supplement) ==
    /\ InBatch
    /\ ~ have_block(b)
    /\ b # Genesis /\ Prev[b] # top
    /\ \/ \* refused, or an orphan
          /\ ~ alternative_allowed(b)
          /\ EndOfBlocks
          /\ UNCHANGED <<pool, alt, op>>
       \/ \* a transaction of the supplement is refused: the others that the
          \* loop had reached stay in the pool
          /\ alternative_allowed(b)
          /\ refused_kept(pool, to_add(supplement), good_inputs) # {}
          /\ \E S \in SUBSET (to_add(supplement)
                              \ refused_kept(pool, to_add(supplement), good_inputs)) :
                pool' = add_kept_txs(pool, S, good_inputs)
          /\ EndOfBlocks
          /\ UNCHANGED <<alt, op>>
       \/ /\ alternative_allowed(b)
          /\ refused_kept(pool, to_add(supplement), good_inputs) = {}
          /\ pool' = add_kept_txs(pool, to_add(supplement), good_inputs)
          /\ alt' = alt \cup {b}
          /\ op' = IF must_switch(b)
                   THEN [Idle EXCEPT !.phase = "switch", !.target = b, !.orig = top,
                                     !.discard = is_a_checkpoint(b)]
                   ELSE Idle
          /\ NextInBatch
    /\ UNCHANGED <<top, invalid, btc>>

----------------------------------------------------------------------------
(* switch_to_alternative_blockchain and rollback_blockchain_switching.     *)

\* The next block on the way from top to b.
next_towards(b) == {n \in Chain[b] \ {Genesis} : Prev[n] = top}

switch_pop ==
    /\ op.phase = "switch"
    /\ top \notin Chain[op.target]
    /\ pop_block_from_blockchain
    /\ UNCHANGED <<alt, invalid, batch, op>>

switch_connect ==
    /\ op.phase = "switch"
    /\ \E n \in next_towards(op.target) :
        \/ /\ accepted(n, {}) /\ ~ clash(n)
           /\ add_block(n)
           /\ UNCHANGED <<invalid, op>>
        \/ /\ ~ accepted(n, {})
           /\ refuse_block(n, {})
           /\ op' = [op EXCEPT !.phase = "rollback", !.failed = n]
    /\ UNCHANGED <<alt, batch>>

\* The old blocks become alternative ones, unless a checkpoint decided; the
\* blocks that are now on the main chain leave the table.
finish_switch_keeping_alt ==   \* mutant
    /\ op.phase = "switch" /\ top = op.target
    /\ alt' = alt \cup (Chain[op.orig] \ Chain[op.target])
    /\ op' = Idle
    /\ UNCHANGED <<pool, top, invalid, btc, batch>>

finish_switch ==
    /\ op.phase = "switch" /\ top = op.target
    /\ LET old == Chain[op.orig] \ Chain[op.target]
           pushed == {b \in old : \A c \in old : Height[c] <= Height[b] =>
                                     is_alternative_block_allowed(height, Height[c])}
       IN  alt' = (alt \cup (IF op.discard THEN {} ELSE pushed)) \ Chain[op.target]
    /\ op' = Idle
    /\ UNCHANGED <<pool, top, invalid, btc, batch>>

rollback_pop ==
    /\ op.phase = "rollback"
    /\ top \notin Chain[op.orig]
    /\ pop_block_from_blockchain
    /\ UNCHANGED <<alt, invalid, batch, op>>

\* The blocks from the one that failed on leave the alternative table.
drop_failed ==
    /\ alt' = alt \ {b \in Chain[op.target] : Height[b] >= Height[op.failed]}
    /\ op' = Idle

finish_rollback_early ==   \* mutant
    /\ op.phase = "rollback" /\ top \in Chain[op.orig]
    /\ drop_failed
    /\ EndOfBlocks
    /\ UNCHANGED <<pool, top, invalid, btc>>

finish_rollback ==
    /\ op.phase = "rollback" /\ top = op.orig
    /\ drop_failed
    /\ EndOfBlocks
    /\ UNCHANGED <<pool, top, invalid, btc>>

rollback_restore ==
    /\ op.phase = "rollback"
    /\ \E n \in next_towards(op.orig) :
        \/ /\ accepted(n, {}) /\ ~ clash(n)
           /\ add_block(n)
           /\ UNCHANGED <<invalid, alt, op, batch>>
        \/ \* "PANIC! failed to add (again) block"
           /\ ~ accepted(n, {})
           /\ refuse_block(n, {})
           /\ drop_failed
           /\ EndOfBlocks

----------------------------------------------------------------------------
(* The pool between two batches.                                           *)

\* core::add_new_tx
add_new_tx(t, m) ==
    /\ Quiet
    /\ ~ have_tx(pool, t, legacy) /\ ~ tx_exists(t)
    /\ pool' = add_tx(pool, t, m, good_inputs)
    /\ UNCHANGED <<top, alt, invalid, btc, batch, op>>

\* core::on_transactions_relayed: as a stem, or to everyone.
on_transactions_relayed(t, m) ==
    /\ Quiet
    /\ t \in InPool(pool)
    /\ pool' = set_relayed(pool, t, m)
    /\ UNCHANGED <<top, alt, invalid, btc, batch, op>>

remove_stuck ==
    /\ Quiet
    /\ stuck(pool) # {}
    /\ pool' = remove_stuck_transactions(pool)
    /\ UNCHANGED <<top, alt, invalid, btc, batch, op>>

time_passes ==
    /\ Quiet
    /\ pool' = older(pool)
    /\ UNCHANGED <<top, alt, invalid, btc, batch, op>>

flush_txes_from_pool(t) ==
    /\ Quiet
    /\ t \in InPool(pool)
    /\ pool' = take_tx(pool, {t})
    /\ UNCHANGED <<top, alt, invalid, btc, batch, op>>

flush_invalid_blocks ==
    /\ Quiet
    /\ invalid' = {}
    /\ UNCHANGED <<pool, top, alt, btc, batch, op>>

\* create_block_template when the cached one cannot be used, or was made for
\* another address or nonce: looked is the set of transactions that the weight
\* and reward limits let it look at.
cached_template_usable == btc.prev = top /\ pool.fresh

create_block_template ==
    /\ Quiet
    /\ \E looked \in SUBSET minable(pool) :
        LET S == {t \in looked : ready(pool, t, good_inputs, top)}
        IN  \E chosen \in SUBSET S :
                /\ is_greedy(chosen, S)
                /\ btc' = [prev |-> top, txs |-> chosen]
                /\ pool' = after_template(pool, looked, good_inputs, top)
    /\ UNCHANGED <<top, alt, invalid, batch, op>>

\* pop_blocks, from the operator's console: its own batch.
pop_blocks(b) ==
    /\ PopCommand
    /\ Quiet
    /\ b \in Chain[top] \ {top}
    /\ batch' = [NoBatch EXCEPT !.active = TRUE, !.top = top, !.alt = alt, !.txs = pool.txs]
    /\ op' = [Idle EXCEPT !.phase = "pop", !.target = b]
    /\ UNCHANGED <<pool, top, alt, invalid, btc>>

pop_blocks_step ==
    /\ op.phase = "pop"
    /\ IF top = op.target
       THEN op' = Idle /\ UNCHANGED <<pool, top, btc>>
       ELSE pop_block_from_blockchain /\ UNCHANGED op
    /\ UNCHANGED <<alt, invalid, batch>>

\* The process dies and starts again: the database is what the last commit
\* left, the memory is built again from it.
restart ==
    LET p == IF batch.active THEN [pool EXCEPT !.txs = batch.txs] ELSE pool
    IN  /\ init_succeeds(p)
        /\ pool' = init(p)
        /\ top' = IF batch.active THEN batch.top ELSE top
        /\ alt' = IF batch.active THEN batch.alt ELSE alt
        /\ invalid' = {}
        /\ btc' = NoTemplate
        /\ batch' = NoBatch
        /\ op' = Idle

----------------------------------------------------------------------------
(* The specification.                                                      *)

Init ==
    /\ pool = EmptyPool
    /\ top = Genesis
    /\ alt = {} /\ invalid = {}
    /\ btc = NoTemplate
    /\ batch = NoBatch
    /\ op = Idle

BlockStep ==
    \/ prepare_handle_incoming_blocks
    \/ cleanup_handle_incoming_blocks
    \/ \E b \in Block \ {Genesis} : \E supplement \in SUBSET TxSet(b) :
          add_to_main_chain(b, supplement) \/ handle_alternative_block(b, supplement)
    \/ switch_pop \/ switch_connect \/ finish_switch
    \/ rollback_pop \/ rollback_restore \/ finish_rollback
    \/ \E b \in Block : pop_blocks(b)
    \/ pop_blocks_step

PoolStep ==
    \/ \E t \in Tx, m \in Arrivals : add_new_tx(t, m)
    \/ \E t \in Tx, m \in Arrivals \cap {"stem", "fluff"} : on_transactions_relayed(t, m)
    \/ remove_stuck \/ time_passes
    \/ \E t \in Tx : flush_txes_from_pool(t)
    \/ flush_invalid_blocks
    \/ create_block_template

\* Steps in which m_db->add_block does not throw.
Next == BlockStep \/ PoolStep \/ restart

Spec == Init /\ [][Next]_vars

\* add_block throws while a block is added to the tip, during a switch, or
\* while the old blocks are put back.
throw_on_main(b, supplement) ==
    /\ InBatch /\ ~ have_block(b) /\ Prev[b] = top
    /\ accepted(b, supplement)
    /\ add_block_throws(b)
    /\ UNCHANGED <<alt, op>>

throw_in_switch ==
    /\ op.phase = "switch"
    /\ \E n \in next_towards(op.target) :
        /\ accepted(n, {})
        /\ add_block_throws(n)
        /\ op' = [op EXCEPT !.phase = "rollback", !.failed = n]
    /\ UNCHANGED alt

throw_in_rollback ==
    /\ op.phase = "rollback"
    /\ \E n \in next_towards(op.orig) :
        /\ accepted(n, {})
        /\ add_block_throws(n)
    /\ drop_failed

Throw ==
    \/ \E b \in Block \ {Genesis} : \E supplement \in SUBSET TxSet(b) : throw_on_main(b, supplement)
    \/ throw_in_switch
    \/ throw_in_rollback

SpecWithThrows == Init /\ [][Next \/ Throw]_vars
----------------------------------------------------------------------------
(* Properties.                                                             *)

Meta == [relay : relay_method, age : 0 .. MaxAge, failed : Block \cup {NoBlock}]

\* The tables hold what their types say.
TypeOK ==
    /\ InPool(pool) \subseteq Tx
    /\ \A t \in InPool(pool) : pool.txs[t] \in Meta
    /\ pool.spent \in [KeyImage -> SUBSET Tx]
    /\ pool.sorted \subseteq Tx /\ pool.timed_out \subseteq Tx
    /\ DOMAIN pool.cache \subseteq Tx
    /\ top \in Block /\ alt \subseteq Block \ {Genesis} /\ invalid \subseteq Block \ {Genesis}
    /\ btc.prev \in Block \cup {NoBlock} /\ btc.txs \subseteq Tx
    /\ batch.top \in Block /\ batch.left \in 0 .. MaxBatch

\* The index of key images and the sorted container agree with the txpool
\* table at every step of every reorganisation: remove_transaction_keyimages
\* never fails to find an input ("failed to find transaction input in key
\* images") and have_tx_keyimg_as_spent misses no double spend.
KeyImageIndexExact == IndexExact(pool)

\* m_txpool_weight is the weight of what is in the pool, so that pruning
\* starts when it should and reduce_txpool_weight never underflows.
WeightExact == pool.weight = WeightOf(InPool(pool))

\* Two transactions of the pool spend one key image only if a block keeps one
\* of them: otherwise tx_memory_pool::init refuses the second one after a
\* crash at this point ("Failed to insert key images from txpool tx") and the
\* node does not start.
RestartPossible ==
    init_succeeds(IF batch.active THEN [pool EXCEPT !.txs = batch.txs] ELSE pool)

\* No transaction is both on the main chain and in the pool, whatever failed.
PoolOffChain == InPool(pool) \cap chain_txs(top) = {}

\* Every key image is spent once on the main chain.
NoDoubleSpend ==
    \A b, c \in Chain[top] : \A i \in DOMAIN TxsOf[b], j \in DOMAIN TxsOf[c] :
        <<b, i>> # <<c, j>> => Images[TxsOf[b][i]] \cap Images[TxsOf[c][j]] = {}

\* m_input_cache only holds verdicts about the present chain, although it is
\* cleared by callbacks of the chain and filled by the pool.
InputCacheFresh ==
    Quiet => \A t \in DOMAIN pool.cache : pool.cache[t] <=> inputs_ok(t)

\* A transaction that last_failed_id lets is_transaction_ready_to_go skip
\* without looking does have wrong inputs on the present chain.
FailedVerdictRight ==
    Quiet => \A t \in InPool(pool) : pool.txs[t].failed = top => ~ inputs_ok(t)

\* The template served from the cache can be mined: it extends the tip, and
\* its transactions are in the pool, public, spendable and disjoint.
CachedTemplateMinable ==
    Quiet /\ cached_template_usable =>
        /\ btc.txs \subseteq {t \in InPool(pool) : pool.txs[t].relay \in legacy}
        /\ btc.txs \subseteq good_inputs
        /\ \A t, u \in btc.txs : t # u => Images[t] \cap Images[u] = {}

\* A block is on the main chain or in the alternative table, not in both.
AltOffChain == op = Idle => alt \cap Chain[top] = {}

\* What add_block_as_invalid recorded is invalid on any chain: it has a
\* transaction with wrong inputs right after its parent.
InvalidDeserved ==
    \A b \in invalid : \E i \in DOMAIN TxsOf[b] :
        LET t == TxsOf[b][i]
        IN  \/ ~ (Needs[t] \subseteq chain_txs(Prev[b]))
            \/ Images[t] \cap chain_keys(Prev[b]) # {}

\* Between two blocks the node is on the heaviest chain it knows that agrees
\* with the checkpoints it has passed (as long as nobody uses pop_blocks).
passes_checkpoints(b) ==
    \A c \in Checkpoint : Height[c] <= Height[top] => \A d \in Chain[b] : Height[d] # Height[c] \/ d = c

OnHeaviestChain ==
    op = Idle => \A b \in alt :
        CumDiff[b] <= CumDiff[top] \/ ~ passes_checkpoints(b)
        \/ \E c \in Checkpoint : Height[b] < Height[c] /\ Height[c] <= Height[top]

\* A switch ends on the new chain or, when a block of it is refused, on the
\* old one, whole ("PANIC! failed to add (again) block" never happens).
SwitchAllOrNothing ==
    [][op.phase \in {"switch", "rollback"} /\ op' = Idle /\ batch'.active
         => top' = (IF op.phase = "switch" THEN op.target ELSE op.orig)]_vars

\* What a committed batch takes off the main chain is not lost: it is on the
\* new chain or in the pool.
ReorgKeepsTxs ==
    [][batch.active /\ op = Idle /\ ~ batch'.active /\ top' = top
         => chain_txs(batch.top) \subseteq chain_txs(top) \cup DOMAIN pool'.txs]_vars

\* A transaction that timed out comes back only inside a block: a peer that
\* still has it cannot put it back into the pool.
TimedOutStaysOut ==
    \A t \in pool.timed_out \cap InPool(pool) : kept_by_block(pool, t)

\* What is committed, a crash or an abort included, behaves as one ledger: it
\* moves in one step from a valid chain to a valid chain that is heavier or
\* that a checkpoint decided for, and keeps the checkpoints it has passed,
\* whatever happens inside the batches.
committed == IF batch.active THEN batch.top ELSE top
Abstract == INSTANCE Ledger WITH tip <- committed
IsLedger == Abstract!Spec

\* A transaction the network may have seen does not become private again
\* while it stays in the pool.
RelayMonotone ==
    [][\A t \in InPool(pool) \cap DOMAIN pool'.txs :
          batch'.active \/ ~ batch.active => ~ less(pool'.txs[t].relay, pool.txs[t].relay)]_vars
=============================================================================
