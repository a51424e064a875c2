--------------------------- MODULE ConsensusState ---------------------------
(* The state that Blockchain derives from the blocks and keeps beside them: *)
(* the weight limit, the long term weight cache, the difficulty cache, the  *)
(* coins generated and the hard fork object.  It is updated incrementally   *)
(* when blocks are added, popped, reorganised, rolled back or lost with an  *)
(* aborted batch, and decides whether the next block is valid.              *)
(*                                                                          *)
(* A block is what its miner chose; block h is chain[h + 1], and what the   *)
(* database stores with it is in meta[h + 1].  The hash of a block is the   *)
(* sequence of the blocks that ends with it.                                *)
EXTENDS BlockReward, Difficulty, HardFork

CONSTANTS
  Genesis,          \* the block 0
  Block,            \* blocks that miners may come up with
  Tables,           \* tables of forks, the later ones of newer releases
  MaxHeight,        \* bound on the height of a chain
  MaxPop,           \* bound on the blocks pop_blocks takes at once
  MaxFaults         \* bound on exceptions of the database

VARIABLES
  chain, meta, hfv, \* the database: blocks, their data, hard fork versions by height
  alt,              \* alternative blocks: one branch on top of alt.root
  batch,            \* the database at the start of the batch, m_batch_success, and
                    \* whether the caller goes on with the batch
  median_weight,    \* m_current_block_cumul_weight_median
  lt,               \* the long term weight cache: tip hash and window
  dc,               \* the difficulty cache
  hf,               \* the hard fork object
  release,          \* index of the table of forks the program was built with
  job,              \* the reorganisation or the series of pops in progress
  faults            \* exceptions of the database so far

db == <<chain, meta, hfv, alt>>
caches == <<median_weight, lt, dc, hf>>
vars == <<db, batch, caches, release, job, faults>>

forks == Tables[release]
NoAlt == [root |-> << >>, blocks |-> << >>, meta |-> << >>]
Idle == [at |-> "idle"]
NoBatch == [open |-> FALSE]
NoHash == << >>
last(s) == s[Len(s)]
front(s) == SubSeq(s, 1, Len(s) - 1)

(* A block's version, vote, timestamp, weight, fees, and what its coinbase    *)
(* pays out above what it may.                                               *)
ASSUME BlockAssumption ==
  Block \cup {Genesis} \subseteq [v : Versions, vote : Versions, ts : Nat, w : Nat, fee : Nat, bad : Nat]

ASSUME BoundsAssumption == {MaxHeight, MaxPop, MaxFaults} \subseteq Nat

(* add_fork takes forks in order of version and height; the tables of        *)
(* hardforks.cpp start with the genesis block and leave nothing to a vote.   *)
ASSUME TablesAssumption ==
  /\ Tables \in Seq(Seq([version : Versions, height : Nat, threshold : {0}])) /\ Tables # << >>
  /\ \A r \in DOMAIN Tables :
       /\ Tables[r] # << >> /\ Tables[r][1].height = 0 /\ Tables[r][1].version = Genesis.v
       /\ \A i, j \in DOMAIN Tables[r] : i < j =>
            /\ Tables[r][i].version < Tables[r][j].version
            /\ Tables[r][i].height < Tables[r][j].height

(* A later release knows the forks of the earlier ones. *)
ASSUME ReleasesAssumption ==
  \A q, r \in DOMAIN Tables : q <= r =>
    Len(Tables[q]) <= Len(Tables[r]) /\ Tables[q] = SubSeq(Tables[r], 1, Len(Tables[q]))

Column(m, f) == [i \in DOMAIN m |-> m[i][f]]
-----------------------------------------------------------------------------
(* What the rules say, computed from the blocks alone.                      *)

long_term_median(m) == median(youngest(Column(m, "ltw"), LONG_TERM_WINDOW))

(* The blocks the next difficulty is computed from: not the genesis block. *)
recent(s) == youngest(Tail(s), DIFFICULTY_BLOCKS_COUNT)

RuleMedian(blocks, m) == effective_median(Column(blocks, "w"), long_term_median(m))
RuleDifficulty(blocks, m) == next_difficulty(recent(Column(blocks, "ts")), recent(Column(m, "cum")))
RuleReward(blocks, m, b) ==
  get_block_reward(RuleMedian(blocks, m), b.w, last(m).coins)

(* The data the rules attach to a block on top of a chain with data m. *)
RuleData(blocks, m, b) ==
  IF blocks = << >> THEN [ltw |-> b.w, cum |-> 1, coins |-> 0]
  ELSE [ltw |-> get_next_long_term_block_weight(b.w, long_term_median(m)),
        cum |-> last(m).cum + RuleDifficulty(blocks, m),
        coins |-> add_coins(last(m).coins, RuleReward(blocks, m, b).reward)]

(* The data the rules attach to every block of a chain. *)
RuleMeta(blocks) ==
  LET upto[k \in 0..Len(blocks)] ==
        IF k = 0 THEN << >>
        ELSE Append(upto[k - 1], RuleData(SubSeq(blocks, 1, k - 1), upto[k - 1], blocks[k]))
  IN upto[Len(blocks)]

(* A block may follow a chain. *)
Valid(blocks, b) ==
  /\ b.v = get_ideal_version(forks, Len(blocks)) /\ b.vote >= b.v
  /\ RuleReward(blocks, RuleMeta(blocks), b).ok
  /\ b.bad = 0

(* What the coinbase of b pays out, when b was mined on top of blocks. *)
money_in_use(blocks, b) == RuleReward(blocks, RuleMeta(blocks), b).reward + b.fee + b.bad
-----------------------------------------------------------------------------
(* The caches.                                                              *)

(* get_long_term_block_weight_median: the cache after it was asked for the   *)
(* window that ends with the tip.                                            *)
long_term_cache(c, blocks, m) ==
  LET height == Len(blocks)
      count == least(LONG_TERM_WINDOW, height)
      size == Len(c.window)
  IN IF count = size /\ c.tip = blocks THEN c
     ELSE IF /\ height > 1
             /\ count = size \/ (count = size + 1 /\ size < LONG_TERM_WINDOW)
             /\ c.tip = SubSeq(blocks, 1, height - 1)
     THEN [tip |-> blocks, window |-> push(c.window, m[height].ltw, LONG_TERM_WINDOW)]
     ELSE [tip |-> blocks, window |-> youngest(Column(m, "ltw"), LONG_TERM_WINDOW)]

(* get_difficulty_for_next_block: the cache after it was asked; c.next is    *)
(* the answer.                                                               *)
difficulty_cache(c, blocks, m) ==
  LET height == Len(blocks)
      cached == IF c.reset THEN 0 ELSE c.height
      step == cached # 0 /\ height - cached = 1 /\ Len(c.ts) >= DIFFICULTY_BLOCKS_COUNT
      ts == IF step THEN push(c.ts, blocks[height].ts, DIFFICULTY_BLOCKS_COUNT)
            ELSE recent(Column(blocks, "ts"))
      cum == IF step THEN push(c.cum, m[height].cum, DIFFICULTY_BLOCKS_COUNT)
             ELSE recent(Column(m, "cum"))
  IN IF c.top = blocks THEN c
     ELSE [height |-> height, reset |-> c.reset, ts |-> ts, cum |-> cum,
           top |-> blocks, next |-> next_difficulty(ts, cum)]

reset_difficulties(c) == [c EXCEPT !.height = 0, !.reset = TRUE]

(* update_next_cumulative_weight_limit, on a chain and its data. *)
update_limit(blocks, m) ==
  /\ lt' = long_term_cache(lt, blocks, m)
  /\ median_weight' = effective_median(Column(blocks, "w"), median(lt'.window))
-----------------------------------------------------------------------------
(* handle_block_to_main_chain.                                              *)

(* The reward check of validate_miner_transaction. *)
reward_right(b) ==
  LET r == get_block_reward(median_weight, b.w, last(meta).coins)
  IN r.ok /\ r.reward + b.fee = money_in_use(chain, b)

accepts(b) == do_check(forks, hf.index, b) /\ reward_right(b)

(* Mutant: what the database stores is the reward and the fees. *)
stored_data_with_fees(b, d, c) ==
  [ltw |-> get_next_long_term_block_weight(b.w, median(c.window)),
   cum |-> last(meta).cum + d.next,
   coins |-> add_coins(last(meta).coins, get_block_reward(median_weight, b.w, last(meta).coins).reward + b.fee)]

(* What is stored with b, from the two caches. *)
stored_data(b, d, c) ==
  [ltw |-> get_next_long_term_block_weight(b.w, median(c.window)),
   cum |-> last(meta).cum + d.next,
   coins |-> add_coins(last(meta).coins, get_block_reward(median_weight, b.w, last(meta).coins).reward)]

(* The block is valid: the database and then every cache. *)
add_block(b) ==
  LET d == difficulty_cache(dc, chain, meta)
      c == long_term_cache(lt, chain, meta)
      blocks == Append(chain, b)
      m == Append(meta, stored_data(b, d, c))
  IN /\ accepts(b)
     /\ chain' = blocks /\ meta' = m
     /\ hfv' = [hfv EXCEPT ![Len(chain)] = current_version(forks, hf)]
     /\ hf' = add(forks, hf, b, Len(chain))
     /\ lt' = long_term_cache(c, blocks, m)
     /\ median_weight' = effective_median(Column(blocks, "w"), median(lt'.window))
     /\ dc' = difficulty_cache(d, blocks, m)
     /\ UNCHANGED faults

(* It is not: a block of the wrong version does not get as far as the        *)
(* difficulty.                                                               *)
refuse_block(b) ==
  /\ ~accepts(b)
  /\ dc' = IF do_check(forks, hf.index, b) THEN difficulty_cache(dc, chain, meta) ELSE dc
  /\ UNCHANGED <<chain, meta, hfv, median_weight, lt, hf, faults>>

(* The database throws when the block is stored: m_batch_success = false. *)
add_block_throws(b) ==
  /\ accepts(b) /\ faults < MaxFaults
  /\ faults' = faults + 1
  /\ dc' = difficulty_cache(dc, chain, meta)
  /\ lt' = long_term_cache(lt, chain, meta)
  /\ UNCHANGED <<chain, meta, hfv, median_weight, hf>>

(* pop_block_from_blockchain. *)
pop_block ==
  /\ Len(chain) > 1
  /\ chain' = front(chain) /\ meta' = front(meta)
  /\ hf' = on_block_popped(forks, hf, Len(chain) - 1, hfv)
  /\ dc' = reset_difficulties(dc)
  /\ UNCHANGED <<hfv, median_weight, lt>>
-----------------------------------------------------------------------------
(* Batches: prepare_handle_incoming_blocks, the blocks, and                 *)
(* cleanup_handle_incoming_blocks.                                          *)

Saved == [chain |-> chain, meta |-> meta, hfv |-> hfv, alt |-> alt]

(* The database as it is outside of the batch. *)
Committed == IF batch.open THEN batch.db ELSE Saved

Restore(d) == chain' = d.chain /\ meta' = d.meta /\ hfv' = d.hfv /\ alt' = d.alt

Handling == batch.open /\ batch.goes_on /\ job = Idle

prepare ==
  /\ ~batch.open /\ job = Idle
  /\ batch' = [open |-> TRUE, db |-> Saved, ok |-> TRUE, goes_on |-> TRUE]
  /\ UNCHANGED <<db, caches, release, job, faults>>

(* A block on top of the chain that is not known as an alternative one. *)
incoming(b) ==
  /\ Handling
  /\ alt.blocks # << >> => Append(chain, b) # Append(alt.root, alt.blocks[1])
  /\ \/ Len(chain) <= MaxHeight /\ add_block(b) /\ UNCHANGED batch
     \/ refuse_block(b) /\ batch' = [batch EXCEPT !.goes_on = FALSE]
     \/ add_block_throws(b) /\ batch' = [batch EXCEPT !.goes_on = FALSE, !.ok = FALSE]
  /\ UNCHANGED <<alt, release, job>>

commit ==
  /\ batch.ok
  /\ dc' = IF dc.reset THEN [dc EXCEPT !.height = 0, !.reset = FALSE] ELSE dc
  /\ UNCHANGED db

(* The database forgets the batch; nothing else does. *)
abort == ~batch.ok /\ Restore(batch.db) /\ UNCHANGED dc

cleanup ==
  /\ batch.open /\ job = Idle
  /\ commit \/ abort
  /\ batch' = NoBatch
  /\ UNCHANGED <<median_weight, lt, hf, release, job, faults>>
-----------------------------------------------------------------------------
(* handle_alternative_block and switch_to_alternative_blockchain.           *)

(* Mutant: the genesis block is not left out. *)
alt_difficulty_from_genesis(a) ==
  LET n == Len(a.blocks)
      stop == Len(a.root)
      count == least(DIFFICULTY_BLOCKS_COUNT - least(DIFFICULTY_BLOCKS_COUNT, n), stop)
      ts(s) == Column(s, "ts")
  IN next_difficulty(ts(SubSeq(chain, stop - count + 1, stop)) \o youngest(ts(a.blocks), DIFFICULTY_BLOCKS_COUNT),
                     Column(SubSeq(meta, stop - count + 1, stop), "cum")
                       \o youngest(Column(a.meta, "cum"), DIFFICULTY_BLOCKS_COUNT))

(* get_next_difficulty_for_alternative_chain: the window of the branch is    *)
(* completed from the main chain below it, the genesis block left out.       *)
alt_difficulty(a) ==
  LET n == Len(a.blocks)
      stop == Len(a.root)
      count == least(DIFFICULTY_BLOCKS_COUNT - least(DIFFICULTY_BLOCKS_COUNT, n), stop)
      start == largest(1, stop - count)
      ts(s) == Column(s, "ts")
  IN next_difficulty(ts(SubSeq(chain, start + 1, stop)) \o youngest(ts(a.blocks), DIFFICULTY_BLOCKS_COUNT),
                     Column(SubSeq(meta, start + 1, stop), "cum")
                       \o youngest(Column(a.meta, "cum"), DIFFICULTY_BLOCKS_COUNT))

(* Branch a with b on top.  Its coins are counted from the coinbase. *)
extend_alt(a, b) ==
  LET parent == IF a.blocks = << >> THEN meta[Len(a.root)] ELSE last(a.meta)
  IN [a EXCEPT !.blocks = Append(@, b),
               !.meta = Append(@, [cum |-> parent.cum + alt_difficulty(a),
                                   coins |-> add_coins(parent.coins,
                                               money_in_use(a.root \o a.blocks, b))])]

(* A branch whose root the main chain has, with at least one block above. *)
connected(a) == Len(a.root) < Len(chain) /\ SubSeq(chain, 1, Len(a.root)) = a.root

(* The branch the parent of the block is the tip of. *)
alternative(a, b) ==
  LET height == Len(a.root) + Len(a.blocks)
      longer == extend_alt(a, b)
  IN /\ Handling /\ connected(a) /\ height <= MaxHeight
     /\ dc' = reset_difficulties(dc)
     /\ IF ~check_for_height(forks, hf, b, height)
        THEN batch' = [batch EXCEPT !.goes_on = FALSE] /\ UNCHANGED <<alt, job>>
        ELSE /\ alt' = longer
             /\ job' = IF last(meta).cum < last(longer.meta).cum
                       THEN [at |-> "disconnect", off |-> << >>, was |-> chain, cum |-> last(meta).cum]
                       ELSE Idle
             /\ UNCHANGED batch
     /\ UNCHANGED <<chain, meta, hfv, median_weight, lt, hf, release, faults>>

(* build_alt_chain fails: the blocks the branch stands on were popped. *)
stranded(b) ==
  /\ Handling /\ alt.blocks # << >> /\ ~connected(alt)
  /\ dc' = reset_difficulties(dc)
  /\ batch' = [batch EXCEPT !.goes_on =
                 check_for_height(forks, hf, b, Len(alt.root) + Len(alt.blocks))]
  /\ UNCHANGED <<db, median_weight, lt, hf, release, job, faults>>

alternative_block(b) ==
  \/ alt.blocks # << >> /\ alternative(alt, b)
  \/ /\ alt.blocks = << >>
     /\ \E h \in 1..(Len(chain) - 1) :
          b # chain[h + 1] /\ alternative([NoAlt EXCEPT !.root = SubSeq(chain, 1, h)], b)

(* Mutant: the old blocks are kept in the order they were taken off. *)
disconnect_reversed ==
  /\ job.at = "disconnect" /\ chain # alt.root
  /\ pop_block
  /\ job' = [job EXCEPT !.off = Append(@, last(chain))]
  /\ UNCHANGED <<alt, batch, release, faults>>

disconnect ==
  /\ job.at = "disconnect" /\ chain # alt.root
  /\ pop_block
  /\ job' = [job EXCEPT !.off = <<last(chain)>> \o @]
  /\ UNCHANGED <<alt, batch, release, faults>>

(* Mutant: the branch is connected under the limit of the old tip. *)
disconnected_without_limit ==
  /\ job.at = "disconnect" /\ chain = alt.root
  /\ job' = [job EXCEPT !.at = "connect"]
  /\ UNCHANGED <<db, caches, batch, release, faults>>

disconnected ==
  /\ job.at = "disconnect" /\ chain = alt.root
  /\ update_limit(chain, meta)
  /\ job' = [job EXCEPT !.at = "connect"]
  /\ UNCHANGED <<db, dc, hf, batch, release, faults>>

(* How many of the branch's blocks, or of the disconnected ones, are back. *)
done == Len(chain) - Len(alt.root)

connect ==
  /\ job.at = "connect" /\ done < Len(alt.blocks)
  /\ LET b == alt.blocks[done + 1]
     IN \/ add_block(b) /\ UNCHANGED <<batch, job>>
        \/ /\ refuse_block(b)
           /\ batch' = [batch EXCEPT !.goes_on = FALSE]
           /\ job' = [at |-> "rollback", off |-> job.off, was |-> job.was, failed |-> done + 1]
        \/ /\ add_block_throws(b)
           /\ batch' = [batch EXCEPT !.goes_on = FALSE, !.ok = FALSE]
           /\ job' = [at |-> "rollback", off |-> job.off, was |-> job.was, failed |-> done + 1]
  /\ UNCHANGED <<alt, release>>

(* The disconnected blocks become an alternative branch, one by one. *)
connected_all ==
  /\ job.at = "connect" /\ done = Len(alt.blocks)
  /\ alt' = [alt EXCEPT !.blocks = << >>, !.meta = << >>]
  /\ job' = [at |-> "push", off |-> job.off, cum |-> job.cum, was |-> job.was, split |-> Len(alt.root)]
  /\ UNCHANGED <<chain, meta, hfv, caches, batch, release, faults>>

(* Once one is refused, the ones above it are orphans. *)
parent_is_known == Len(alt.root) + Len(alt.blocks) = Len(job.was) - Len(job.off)

push_alternative ==
  /\ job.at = "push" /\ job.off # << >>
  /\ alt' = IF /\ parent_is_known
               /\ check_for_height(forks, hf, Head(job.off), Len(alt.root) + Len(alt.blocks))
            THEN extend_alt(alt, Head(job.off)) ELSE alt
  /\ job' = [job EXCEPT !.off = Tail(@)]
  /\ dc' = reset_difficulties(dc)
  /\ UNCHANGED <<chain, meta, hfv, median_weight, lt, hf, batch, release, faults>>

switched ==
  /\ job.at = "push" /\ job.off = << >>
  /\ hf' = reorganize_from_chain_height(forks, hf, chain, job.split, hfv)
  /\ job' = Idle
  /\ UNCHANGED <<db, median_weight, lt, dc, batch, release, faults>>

(* rollback_blockchain_switching. *)
rollback ==
  /\ job.at = "rollback" /\ chain # alt.root
  /\ pop_block
  /\ UNCHANGED <<alt, batch, release, job, faults>>

rolled_back ==
  /\ job.at = "rollback" /\ chain = alt.root
  /\ update_limit(chain, meta)
  /\ hf' = reorganize_from_chain_height(forks, hf, chain, Len(chain), hfv)
  /\ dc' = reset_difficulties(dc)
  /\ job' = [job EXCEPT !.at = "restore"]
  /\ UNCHANGED <<db, batch, release, faults>>

(* "PANIC! failed to add (again) block": the switch is given up as it is. *)
restore ==
  /\ job.at = "restore" /\ done < Len(job.off)
  /\ LET b == job.off[done + 1]
     IN \/ add_block(b) /\ UNCHANGED <<batch, job>>
        \/ refuse_block(b) /\ job' = [job EXCEPT !.at = "panic"] /\ UNCHANGED batch
        \/ /\ add_block_throws(b)
           /\ job' = [job EXCEPT !.at = "panic"]
           /\ batch' = [batch EXCEPT !.ok = FALSE]
  /\ UNCHANGED <<alt, release>>

(* The failed block and the ones above it are dropped. *)
kept_alt ==
  IF job.failed = 1 THEN NoAlt
  ELSE [alt EXCEPT !.blocks = SubSeq(@, 1, job.failed - 1), !.meta = SubSeq(@, 1, job.failed - 1)]

restored ==
  /\ \/ /\ job.at = "restore" /\ done = Len(job.off)
        /\ hf' = reorganize_from_chain_height(forks, hf, chain, Len(alt.root), hfv)
     \/ job.at = "panic" /\ UNCHANGED hf
  /\ alt' = kept_alt
  /\ job' = Idle
  /\ UNCHANGED <<chain, meta, hfv, median_weight, lt, dc, batch, release, faults>>
-----------------------------------------------------------------------------
(* pop_blocks, get_difficulty_for_next_block from another thread, restarts. *)

pop_blocks(n) ==
  /\ ~batch.open /\ job = Idle
  /\ batch' = [open |-> TRUE, db |-> Saved, ok |-> TRUE, goes_on |-> TRUE]
  /\ job' = [at |-> "pops", left |-> least(n, Len(chain) - 1)]
  /\ UNCHANGED <<db, caches, release, faults>>

pop_next ==
  /\ job.at = "pops" /\ job.left > 0
  /\ pop_block
  /\ job' = [job EXCEPT !.left = @ - 1]
  /\ UNCHANGED <<alt, batch, release, faults>>

(* The catch block of pop_blocks. *)
pop_throws ==
  /\ job.at = "pops" /\ job.left > 0 /\ faults < MaxFaults
  /\ faults' = faults + 1
  /\ Restore(batch.db)
  /\ dc' = reset_difficulties(dc)
  /\ batch' = NoBatch /\ job' = Idle
  /\ UNCHANGED <<median_weight, lt, hf, release>>

(* Mutant: the limit is left as it was. *)
popped_without_limit ==
  /\ job.at = "pops" /\ job.left = 0
  /\ batch' = NoBatch /\ job' = Idle
  /\ UNCHANGED <<db, caches, release, faults>>

popped ==
  /\ job.at = "pops" /\ job.left = 0
  /\ update_limit(chain, meta)
  /\ batch' = NoBatch /\ job' = Idle
  /\ UNCHANGED <<db, dc, hf, release, faults>>

(* Another thread sees the database as it was before the batch. *)
ask_difficulty ==
  /\ job = Idle
  /\ dc' = difficulty_cache(dc, Committed.chain, Committed.meta)
  /\ UNCHANGED <<db, median_weight, lt, hf, batch, release, job, faults>>

FreshDifficulty == [height |-> 0, reset |-> TRUE, ts |-> << >>, cum |-> << >>, top |-> NoHash, next |-> 1]
FreshLongTerm == [tip |-> NoHash, window |-> << >>]

(* The blocks that have the version of their height: a start pops the ones   *)
(* above the last of them.                                                   *)
right_version(table, blocks) ==
  {k \in 1..Len(blocks) :
     LET ideal == get_ideal_version(table, k - 1) IN ideal <= 1 \/ blocks[k].v = ideal}
last_right(table, blocks) ==
  LET right == right_version(table, blocks) IN CHOOSE k \in right : \A j \in right : j <= k

(* A crash at any time, or an exit, and a start, perhaps of a later release: *)
(* blocks on top whose version is not the one of their height are popped.    *)
(* The difficulty in the start-up message is not asked for at the default    *)
(* log level.                                                                *)
restart(r, keep_alt_blocks) ==
  LET d == Committed
      table == Tables[r]
      top == last_right(table, d.chain)
      blocks == SubSeq(d.chain, 1, top)
      m == SubSeq(d.meta, 1, top)
      scanned == init(table, d.chain, d.hfv)
  IN /\ r >= release
     /\ release' = r
     /\ chain' = blocks /\ meta' = m /\ hfv' = d.hfv
     /\ alt' = IF keep_alt_blocks THEN d.alt ELSE NoAlt
     /\ hf' = IF top = Len(d.chain) THEN scanned
              ELSE reorganize_from_chain_height(table, scanned, blocks, top, d.hfv)
     /\ lt' = long_term_cache(FreshLongTerm, blocks, m)
     /\ median_weight' = effective_median(Column(blocks, "w"), median(lt'.window))
     /\ dc' = FreshDifficulty
     /\ batch' = NoBatch /\ job' = Idle
     /\ UNCHANGED faults
-----------------------------------------------------------------------------
(* A new database with the genesis block, after start-up. *)
Init ==
  /\ chain = <<Genesis>>
  /\ meta = <<[ltw |-> Genesis.w, cum |-> 1, coins |-> 0]>>
  /\ hfv = [h \in 0..MaxHeight |-> IF h = 0 THEN Genesis.v ELSE 0]
  /\ alt = NoAlt /\ batch = NoBatch
  /\ release = 1 /\ job = Idle /\ faults = 0
  /\ lt = long_term_cache(FreshLongTerm, chain, meta)
  /\ median_weight = effective_median(Column(chain, "w"), median(lt.window))
  /\ dc = FreshDifficulty
  /\ hf = init(forks, chain, hfv)

Next ==
  \/ prepare \/ cleanup
  \/ \E b \in Block : incoming(b) \/ alternative_block(b) \/ stranded(b)
  \/ disconnect \/ disconnected \/ connect \/ connected_all \/ push_alternative \/ switched
  \/ rollback \/ rolled_back \/ restore \/ restored
  \/ \E n \in 1..MaxPop : pop_blocks(n)
  \/ pop_next \/ pop_throws \/ popped
  \/ ask_difficulty
  \/ \E r \in DOMAIN Tables, keep \in BOOLEAN : restart(r, keep)

Spec == Init /\ [][Next]_vars
-----------------------------------------------------------------------------
(* Properties.                                                              *)

(* The long term weight, the cumulative difficulty and the coins the         *)
(* database stores with every block are the ones the rules give for the      *)
(* blocks below it, although add_block takes them from caches that were      *)
(* filled on other branches, in other batches or by other threads: a node's  *)
(* history does not show in its chain.  After an exception of the database   *)
(* the cached median may be stale, and a coinbase that pays out exactly what *)
(* the stale median allows is accepted and its coins are counted: a chain    *)
(* with such a block is excepted then.                                       *)
ChainExact ==
  faults = 0 \/ (\A k \in DOMAIN chain : chain[k].bad = 0) => meta = RuleMeta(chain)

(* The blocks handle_block_to_main_chain may be given now. *)
asked ==
  CASE Handling -> Block
    [] job.at = "connect" /\ done < Len(alt.blocks) -> {alt.blocks[done + 1]}
    [] job.at = "restore" /\ done < Len(job.off) -> {job.off[done + 1]}
    [] OTHER -> {}

(* handle_block_to_main_chain accepts the blocks the rules accept and no     *)
(* other: neither the cached median nor the hard fork object is stale when   *)
(* it is asked, in a reorganisation and a rollback as well as at the tip, as *)
(* long as the database has not thrown.                                      *)
VerdictRight == faults = 0 => \A b \in asked : accepts(b) <=> Valid(chain, b)

(* "gets the block weight limit based on recent blocks" (blockchain.h:724):  *)
(* outside a reorganisation the limit is the one of the current tip, as long  *)
(* as the database has not thrown.                                           *)
LimitsFresh == faults = 0 /\ job = Idle => median_weight = RuleMedian(chain, meta)

(* get_current_version is the version scheduled for the next block, after    *)
(* every addition, pop, reorganisation, restart and upgrade, although the    *)
(* object is updated by different functions in each case.  "This is the      *)
(* latest version that's past its trigger date" (hardfork.h).  Again as long *)
(* as the database has not thrown.                                           *)
ForkMatchesHeight ==
  faults = 0 /\ job = Idle => current_version(forks, hf) = get_ideal_version(forks, Len(chain))

(* "rolling window of the last N blocks' versions" (hardfork.h): the window  *)
(* holds the votes of the blocks on top of the chain.                        *)
VotesAreWindow ==
  job = Idle =>
    hf.versions = [i \in 1..least(VOTE_WINDOW, Len(chain)) |->
                     get_effective_version(forks,
                       youngest(chain, VOTE_WINDOW)[i].vote)]

(* A switch that fails is undone: every block of the old chain is accepted   *)
(* again ("PANIC! failed to add (again) block" is never reached unless the   *)
(* database throws) and the chain is the one it was.                         *)
RollbackRestores == faults = 0 =>
  /\ job.at # "panic"
  /\ job.at = "restore" /\ done = Len(job.off) => chain = job.was

(* The difficulty of an alternative block, computed partly from the branch   *)
(* and partly from the main chain, is the one it has once the branch is the  *)
(* main chain, so that a switch ends on a chain with more work than the one  *)
(* it left.                                                                  *)
SwitchedIsHeavier ==
  /\ job.at = "push" => last(meta).cum > job.cum
  /\ alt.blocks # << >> =>
       Column(alt.meta, "cum") =
         youngest(Column(RuleMeta(alt.root \o alt.blocks), "cum"), Len(alt.blocks))

(* "the total coins minted after that block" (blockchain.h:114), for the     *)
(* blocks of an alternative chain.                                           *)
AltCoinsMinted ==
  alt.blocks # << >> =>
    Column(alt.meta, "coins") =
      youngest(Column(RuleMeta(alt.root \o alt.blocks), "coins"), Len(alt.blocks))

(* No block of the chain weighs more than twice the median that              *)
(* get_block_reward was given: it "is bigger than allowed for this           *)
(* blockchain" (blockchain.cpp:1362).                                        *)
WeightWithinLimit ==
  \A k \in 2..Len(chain) :
    chain[k].w <= 2 * RuleMedian(SubSeq(chain, 1, k - 1), SubSeq(meta, 1, k - 1))
=============================================================================
