------------------------------- MODULE TxPool -------------------------------
(***************************************************************************)
(* The transaction pool, src/cryptonote_core/tx_pool.cpp, as a value and   *)
(* the operators that change it.  The pool lives in two places that only   *)
(* agree because every operation updates both: the txpool table of the     *)
(* database (the field txs: the metadata of each transaction) and the      *)
(* memory of the process (everything else):                                *)
(*   spent      m_spent_key_images: who spends a key image                 *)
(*   sorted     m_txs_by_fee_and_receive_time, as a set: Rank is its order *)
(*   weight     m_txpool_weight                                            *)
(*   timed_out  m_timed_out_transactions                                   *)
(*   cache      m_input_cache: verdicts of check_tx_inputs                 *)
(*   fresh      m_cookie has not moved since the block template was cached *)
(* Every operation runs under the pool's and the chain's locks, so each is *)
(* one step of the module that composes the pool with the chain.  The      *)
(* operators take the set ok of transactions whose inputs the chain        *)
(* accepts now.  Blobs, fees, relay timestamps, double_spend_seen and the  *)
(* lists kept for incremental RPC queries are left out; transactions that  *)
(* break a rule that depends on nothing but themselves never enter and are *)
(* not members of Tx.                                                      *)
(***************************************************************************)
EXTENDS Integers, FiniteSets, FiniteSetsExt

CONSTANTS Tx, KeyImage,
          Images,       \* Images[t]: the key images of the inputs of t
          Weight,       \* Weight[t]
          Rank,         \* Rank[t]: position by fee per byte, the best first
          MaxWeight,    \* m_txpool_max_weight
          Livetime,     \* CRYPTONOTE_MEMPOOL_TX_LIVETIME
          AltLivetime,  \* CRYPTONOTE_MEMPOOL_TX_FROM_ALT_BLOCK_LIVETIME
          MaxAge,       \* bound on the age that is told apart
          NoBlock       \* null_hash

ASSUME TxPoolAssumption ==
    /\ Images \in [Tx -> (SUBSET KeyImage) \ {{}}]
    /\ Weight \in [Tx -> Nat \ {0}]
    /\ Rank \in [Tx -> Nat]
    /\ \A t, u \in Tx : t # u => Rank[t] # Rank[u]
    /\ MaxWeight \in Nat
    /\ MaxAge \in Nat

----------------------------------------------------------------------------
(* Relay methods: each state is more public than the one before it.        *)

relay_method == {"none", "local", "forward", "stem", "fluff", "block"}

Publicity == [none |-> 0, local |-> 1, forward |-> 2, stem |-> 3, fluff |-> 4, block |-> 5]

less(m, n) == Publicity[m] < Publicity[n]

legacy      == {"none", "fluff", "block"}
broadcasted == {"fluff", "block"}

upgrade_any(m, n) == n   \* mutant
upgrade_relay_method(m, n) == IF less(m, n) THEN n ELSE m

----------------------------------------------------------------------------
(* The pool and its parts.                                                 *)

EmptyPool ==
    [txs |-> [t \in {} |-> NoBlock], spent |-> [k \in KeyImage |-> {}],
     sorted |-> {}, weight |-> 0, timed_out |-> {},
     cache |-> [t \in {} |-> TRUE], fresh |-> FALSE]

InPool(p) == DOMAIN p.txs
kept_by_block(p, t) == p.txs[t].relay = "block"
have_tx(p, t, category) == t \in InPool(p) /\ p.txs[t].relay \in category

WeightOf(S) == MapThenSumSet(LAMBDA t : Weight[t], S)

reduce_txpool_weight_none(w, d) == w   \* mutant
reduce_txpool_weight(w, d) == IF d > w THEN 0 ELSE w - d

\* Another transaction spends one of t's key images, or t itself is public.
have_tx_keyimges_as_spent(p, t) ==
    \E k \in Images[t] :
        \/ p.spent[k] \ {t} # {}
        \/ t \in p.spent[k] /\ have_tx(p, t, legacy)

\* remove_txpool_tx, reduce_txpool_weight, remove_transaction_keyimages and
\* remove_tx_from_transient_lists for the members of S.
remove_txs_leaving_images(p, S) ==   \* mutant
    [txs |-> [t \in InPool(p) \ S |-> p.txs[t]],
     spent |-> p.spent,
     sorted |-> p.sorted \ S,
     weight |-> reduce_txpool_weight(p.weight, WeightOf(S)),
     timed_out |-> p.timed_out, cache |-> p.cache,
     fresh |-> p.fresh /\ S = {}]

remove_txs_keeping_cookie(p, S) ==   \* mutant
    [txs |-> [t \in InPool(p) \ S |-> p.txs[t]],
     spent |-> [k \in KeyImage |-> p.spent[k] \ S],
     sorted |-> p.sorted \ S,
     weight |-> reduce_txpool_weight(p.weight, WeightOf(S)),
     timed_out |-> p.timed_out, cache |-> p.cache,
     fresh |-> p.fresh]

remove_txs(p, S) ==
    [txs |-> [t \in InPool(p) \ S |-> p.txs[t]],
     spent |-> [k \in KeyImage |-> p.spent[k] \ S],
     sorted |-> p.sorted \ S,
     weight |-> reduce_txpool_weight(p.weight, WeightOf(S)),
     timed_out |-> p.timed_out, cache |-> p.cache,
     fresh |-> p.fresh /\ S = {}]

take_tx(p, S) == remove_txs(p, S \cap InPool(p))

\* The transactions the loop of prune removes: it walks the sorted container
\* from its worst entry, never reaches its first one, skips those kept by a
\* block and stops as soon as the pool fits.
overweight(p) ==
    LET candidate == {t \in p.sorted \cap InPool(p) :
                         ~ kept_by_block(p, t) /\ \E u \in p.sorted : Rank[u] < Rank[t]}
        worse(t) == {u \in candidate : Rank[u] > Rank[t]}
    IN  {t \in candidate : p.weight - WeightOf(worse(t)) > MaxWeight}

prune(p) == remove_txs(p, overweight(p))

\* insert_key_images, add_txpool_tx and add_tx_to_transient_lists for the
\* members of S, which enter, or enter again, with relay method m.
insert_txs(p, S, m) ==
    [txs |-> [t \in InPool(p) \cup S |->
                 IF t \in S THEN [relay |-> m, age |-> 0, failed |-> NoBlock] ELSE p.txs[t]],
     spent |-> [k \in KeyImage |-> p.spent[k] \cup {t \in S : k \in Images[t]}],
     sorted |-> p.sorted \cup S,
     weight |-> p.weight + WeightOf(S \ InPool(p)),
     timed_out |-> p.timed_out, cache |-> p.cache,
     fresh |-> p.fresh /\ S = {}]

----------------------------------------------------------------------------
(* The operations.                                                         *)

\* check_tx_inputs through m_input_cache, for a transaction that is not kept
\* by a block.
verdict(p, t, ok) == IF t \in DOMAIN p.cache THEN p.cache[t] ELSE t \in ok

remember(p, S, ok) ==
    [p EXCEPT !.cache = [t \in DOMAIN p.cache \cup S |-> verdict(p, t, ok)]]

\* on_blockchain_inc and on_blockchain_dec.
on_blockchain_change_kept(p) == p   \* mutant
on_blockchain_change(p) == [p EXCEPT !.cache = [t \in {} |-> TRUE]]

\* add_tx for a transaction received from a peer or from RPC.
add_tx_unchecked(p, t, m, ok) ==   \* mutant
    IF t \in p.timed_out THEN p
    ELSE IF ~ verdict(p, t, ok) THEN remember(p, {t}, ok)
    ELSE prune(insert_txs(remember(p, {t}, ok), {t}, m))

add_tx_timed_out(p, t, m, ok) ==   \* mutant
    IF have_tx_keyimges_as_spent(p, t) THEN p
    ELSE IF ~ verdict(p, t, ok) THEN remember(p, {t}, ok)
    ELSE prune(insert_txs(remember(p, {t}, ok), {t}, m))

add_tx(p, t, m, ok) ==
    LET known == t \in InPool(p)
        looped == m = "stem" /\ known /\ p.txs[t].relay = "stem"
        method == IF looped THEN "fluff" ELSE m
        checked == remember(p, {t}, ok)
    IN  IF t \in p.timed_out \/ have_tx_keyimges_as_spent(p, t) THEN p
        ELSE IF ~ verdict(p, t, ok) THEN checked
        ELSE IF known /\ ~ less(p.txs[t].relay, method)
             THEN prune([checked EXCEPT !.fresh = FALSE])
             ELSE prune(insert_txs(checked, {t}, method))

\* add_tx with relay_method::block for every member of S, none of which is in
\* the pool with a legacy relay method.  The ones in the pool already are
\* upgraded when their inputs are good; otherwise the database refuses them.
\* Pruning after each or once after the last removes the same transactions.
refused_kept(p, S, ok) == (S \cap InPool(p)) \ ok

add_kept_txs(p, S, ok) == prune(insert_txs(p, S \ refused_kept(p, S, ok), "block"))

\* remove_stuck_transactions.
stuck(p) == {t \in InPool(p) :
                p.txs[t].age > (IF kept_by_block(p, t) THEN AltLivetime ELSE Livetime)}

remove_stuck_transactions(p) ==
    LET S == stuck(p)
    IN  [remove_txs(p, S) EXCEPT !.timed_out = @ \cup S]

\* set_relayed: the relay method and nothing else the pool remembers.
set_relayed_any(p, t, m) == [p EXCEPT !.txs[t].relay = upgrade_any(p.txs[t].relay, m)]   \* mutant
set_relayed(p, t, m) == [p EXCEPT !.txs[t].relay = upgrade_relay_method(p.txs[t].relay, m)]

\* init reads the table back.  insert_key_images refuses a second transaction
\* for a key image unless a block keeps it, and the node then does not start.
init_succeeds(p) ==
    \A t, u \in InPool(p) : t # u /\ Images[t] \cap Images[u] # {} =>
        kept_by_block(p, t) \/ kept_by_block(p, u)

init(p) ==
    [EmptyPool EXCEPT
        !.txs = p.txs,
        !.spent = [k \in KeyImage |-> {t \in InPool(p) : k \in Images[t]}],
        !.sorted = InPool(p),
        !.weight = WeightOf(InPool(p))]

\* The transactions fill_block_template may look at: those already public.
minable(p) == {t \in p.sorted \cap InPool(p) : p.txs[t].relay \in legacy}

\* is_transaction_ready_to_go, with the verdict of the last failure.
ready(p, t, ok, top) == p.txs[t].failed # top /\ verdict(p, t, ok)

\* The greedy choice, best rank first, of transactions that share no key
\* image: chosen is the only subset of S with this property.
is_greedy(chosen, S) ==
    \A t \in S : t \in chosen <=>
        \A u \in chosen : Rank[u] < Rank[t] => Images[u] \cap Images[t] = {}

after_template_all(p, S, ok, top) ==   \* mutant
    [remember(p, S, ok) EXCEPT !.fresh = TRUE,
        !.txs = [t \in InPool(p) |->
                    IF t \in S THEN [p.txs[t] EXCEPT !.failed = top] ELSE p.txs[t]]]

\* What looking at the transactions of S for a template changes.
after_template(p, S, ok, top) ==
    LET asked == {t \in S : p.txs[t].failed # top}
        q == remember(p, asked, ok)
    IN  [q EXCEPT !.fresh = TRUE,
                  !.txs = [t \in InPool(p) |->
                              IF t \in asked /\ ~ verdict(p, t, ok)
                              THEN [p.txs[t] EXCEPT !.failed = top] ELSE p.txs[t]]]

\* Time passes.
older(p) ==
    [p EXCEPT !.txs = [t \in InPool(p) |->
                          [p.txs[t] EXCEPT !.age = IF @ < MaxAge THEN @ + 1 ELSE @]]]

----------------------------------------------------------------------------
(* What the operators keep true of the pool.                               *)

\* Who spends a key image, according to memory, is exactly who spends it in
\* the database, so no double spend slips in and no removal trips over a
\* missing entry ("failed to find transaction input in key images").
IndexExact(p) ==
    /\ p.sorted = InPool(p)
    /\ \A k \in KeyImage : p.spent[k] = {t \in InPool(p) : k \in Images[t]}
=============================================================================
