------------------------------ MODULE LockOrder ------------------------------
(***************************************************************************)
(* The three recursive mutexes of cryptonote_core and the write            *)
(* transaction ("batch") of the database, as the entry points of core and  *)
(* Blockchain take them: m_incoming_tx_lock (incoming), the lock of the    *)
(* transaction pool (pool) and m_blockchain_lock (chain).  An operation is *)
(* the sequence of lock, unlock and batch events on its longest path; what *)
(* it does to the data is in Blockchain.  Every thread carries out one     *)
(* operation.                                                              *)
(***************************************************************************)
EXTENDS Integers, Sequences

CONSTANTS Thread, NoThread,
          Operations    \* names of the operations the threads carry out

Mutex == {"incoming", "pool", "chain"}

ASSUME LockOrderAssumption == NoThread \notin Thread

----------------------------------------------------------------------------
(* The operations.                                                         *)

lock(m) == [kind |-> "lock", mutex |-> m]
unlock(m) == [kind |-> "unlock", mutex |-> m]
locked(m, body) == <<lock(m)>> \o body \o <<unlock(m)>>

\* LockedTXN: a write transaction of its own unless one is open; and
\* batch_start that waits, batch_start that does not, batch_stop.
txn         == [kind |-> "txn"]
batch_start == [kind |-> "batch_start"]
batch_try   == [kind |-> "batch_try"]
batch_stop  == [kind |-> "batch_stop"]

\* The operations of the pool that write: add_tx, take_tx, set_relayed,
\* fill_block_template, remove_stuck_transactions.
pool_write == locked("pool", locked("chain", <<txn>>))

\* pop_block_from_blockchain: add_tx and on_blockchain_dec.
pop_block_from_blockchain == locked("chain", pool_write \o locked("pool", << >>))

\* handle_block_to_main_chain and handle_alternative_block below add_new_block.
add_new_block ==
    locked("pool", locked("chain",
        pop_block_from_blockchain \o pool_write \o locked("pool", << >>)))

prepare_without_pool ==   \* mutant
    <<lock("chain"), batch_start, unlock("chain"), lock("pool")>>
prepare_handle_incoming_blocks ==
    <<lock("pool"), lock("chain"), batch_start, unlock("chain")>>

cleanup_handle_incoming_blocks ==
    locked("chain", <<batch_stop>>) \o <<unlock("pool")>>
    \o locked("pool", locked("chain", << >>))   \* update_blockchain_pruning

Blocks ==
    locked("incoming", prepare_handle_incoming_blocks \o add_new_block
                       \o cleanup_handle_incoming_blocks)

create_block_template_unlocked == locked("chain", pool_write)   \* mutant
create_block_template == locked("pool", locked("chain", pool_write))
pop_blocks == locked("pool", locked("chain",
                  <<batch_try>> \o pop_block_from_blockchain \o <<batch_stop>>))

\* A new checkpoint that the main chain does not pass, with checkpoints
\* enforced: rollback_blockchain_switching pops blocks.
check_against_checkpoints ==
    locked("chain", <<batch_try>> \o pop_block_from_blockchain \o <<batch_stop>>)

handle_incoming_tx == locked("incoming", pool_write)

Program ==
    [handle_incoming_tx |-> handle_incoming_tx,
     handle_incoming_blocks |-> Blocks,
     create_block_template |-> create_block_template,
     flush_txes_from_pool |-> locked("pool", pool_write),
     pop_blocks |-> pop_blocks,
     get_blocks |-> locked("chain", << >>),
     update_checkpoints |-> check_against_checkpoints]

----------------------------------------------------------------------------

VARIABLES todo,   \* todo[th]: the events th has still to go through
          owner,  \* owner[m]: the thread that holds the mutex m
          depth,  \* depth[m]: how many times it has locked it
          batch   \* the thread that opened the write transaction
vars == <<todo, owner, depth, batch>>

Init ==
    /\ todo \in [Thread -> {Program[o] : o \in Operations}]
    /\ owner = [m \in Mutex |-> NoThread]
    /\ depth = [m \in Mutex |-> 0]
    /\ batch = NoThread

Next1(th, kind) == todo[th] # << >> /\ Head(todo[th]).kind = kind
Advance(th) == todo' = [todo EXCEPT ![th] = Tail(@)]

Lock(th) ==
    /\ Next1(th, "lock")
    /\ LET m == Head(todo[th]).mutex
       IN  /\ owner[m] \in {NoThread, th}
           /\ owner' = [owner EXCEPT ![m] = th]
           /\ depth' = [depth EXCEPT ![m] = @ + 1]
    /\ Advance(th)
    /\ UNCHANGED batch

Unlock(th) ==
    /\ Next1(th, "unlock")
    /\ LET m == Head(todo[th]).mutex
       IN  /\ depth' = [depth EXCEPT ![m] = @ - 1]
           /\ owner' = [owner EXCEPT ![m] = IF depth[m] = 1 THEN NoThread ELSE @]
    /\ Advance(th)
    /\ UNCHANGED batch

BatchStart_inverted(th) ==   \* mutant
    /\ Next1(th, "batch_start")
    /\ IF batch # NoThread
       THEN Advance(th)
       ELSE todo' = [todo EXCEPT ![th] =
                <<unlock("chain"), unlock("pool"), lock("pool"), lock("chain")>> \o @]
    /\ UNCHANGED <<owner, depth, batch>>

\* The loop that waits for a transaction gives both locks back for a second.
BatchStart(th) ==
    /\ Next1(th, "batch_start")
    /\ IF batch = NoThread
       THEN batch' = th /\ Advance(th)
       ELSE /\ todo' = [todo EXCEPT ![th] =
                   <<unlock("chain"), unlock("pool"), lock("pool"), lock("chain")>> \o @]
            /\ UNCHANGED batch
    /\ UNCHANGED <<owner, depth>>

BatchTry(th) ==
    /\ Next1(th, "batch_try")
    /\ batch' = IF batch = NoThread THEN th ELSE batch
    /\ Advance(th)
    /\ UNCHANGED <<owner, depth>>

BatchStop(th) ==
    /\ Next1(th, "batch_stop")
    /\ batch' = IF batch = th THEN NoThread ELSE batch
    /\ Advance(th)
    /\ UNCHANGED <<owner, depth>>

\* Both locks are held from the start to the commit of a LockedTXN.
Txn(th) ==
    /\ Next1(th, "txn")
    /\ Advance(th)
    /\ UNCHANGED <<owner, depth, batch>>

Step(th) == Lock(th) \/ Unlock(th) \/ BatchStart(th) \/ BatchTry(th) \/ BatchStop(th) \/ Txn(th)

Finished == \A th \in Thread : todo[th] = << >>

Next == (\E th \in Thread : Step(th)) \/ (Finished /\ UNCHANGED vars)

\* A thread that can go on does so: the scheduler runs it, and a mutex that is
\* free and wanted by one thread only is given to it.
Spec == Init /\ [][Next]_vars /\ \A th \in Thread : WF_vars(Step(th))

----------------------------------------------------------------------------
(* Properties.                                                             *)

WantsLock(th, m) == Next1(th, "lock") /\ Head(todo[th]).mutex = m

\* The rule stated in prepare_handle_incoming_blocks: "Something which takes
\* the blockchain lock may never take the txpool lock if it has not provably
\* taken the txpool lock earlier".
LockOrderKept ==
    \A th \in Thread : owner["chain"] = th /\ WantsLock(th, "pool") => owner["pool"] = th

\* The contract of LockedTXN: "If a batch exists, it can't be from another
\* thread, since we can only be called with the txpool lock taken".
BatchIsOwn ==
    \A th \in Thread : Next1(th, "txn") => batch \in {NoThread, th}

\* Every operation gets its locks and finishes.
AllFinish == <>Finished
=============================================================================
