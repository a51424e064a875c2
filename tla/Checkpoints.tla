----------------------------- MODULE Checkpoints ----------------------------
(***************************************************************************)
(* Checkpoints that arrive while the node runs, or that its chain already  *)
(* fails when it starts: core::update_checkpoints,                         *)
(* Blockchain::update_checkpoints, check_against_checkpoints and the       *)
(* rollback, src/cryptonote_core and src/checkpoints/checkpoints.cpp, next *)
(* to another thread that adds blocks in a batch of its own.               *)
(*                                                                         *)
(* Every checkpoint is of the right chain.  Of a chain only its length     *)
(* matters and the height of the first block that is not on the right      *)
(* chain.  m_blockchain_lock belongs to the update while it is in the loop *)
(* of check_against_checkpoints and is free otherwise: a step of the other *)
(* thread takes it and gives it back.  The pool's lock belongs to the      *)
(* other thread from prepare to cleanup.                                   *)
(***************************************************************************)
EXTENDS Integers, FiniteSets, FiniteSetsExt

CONSTANTS MaxHeight,      \* bound: blocks of the chain
          Default,        \* heights of init_default_checkpoints
          Later,          \* heights of checkpoints that the file may get later
          Lengths,        \* lengths of the chain a node may start with
          MaxCrashes      \* bound

NoFork == MaxHeight + 1

ASSUME CheckpointsAssumption ==
    /\ MaxHeight \in Nat /\ MaxCrashes \in Nat
    /\ Default \subseteq 1 .. MaxHeight /\ Later \subseteq 1 .. MaxHeight
    /\ Lengths \subseteq 1 .. MaxHeight

VARIABLES chain,      \* what the owner of the batch reads: length and first wrong block
          saved,      \* what is committed; all that the others read
          batch,      \* who has the write transaction: "none", "update" or "blocks"
          incoming,   \* a thread with blocks: "out", "locked" (the pool) or "open" (the batch)
          points,     \* heights in m_points
          checked,    \* points that an update with a batch of its own has checked
          file,       \* heights in the checkpoints file
          spoiled,    \* the file cannot be read, or contradicts itself
          enabled,    \* mainnet, and not m_disable_dns_checkpoints
          updating,   \* m_checkpoints_updating
          up,         \* "down", "init", "up" or "ending"
          at,         \* where update_checkpoints is: "out", "load", "check", "loop" or "pop"
          todo,       \* points still to be looked at
          seen,       \* blockchain_height, read before the loop
          crashes

vars == <<chain, saved, batch, incoming, points, checked, file, spoiled, enabled,
          updating, up, at, todo, seen, crashes>>
outside == <<file, spoiled, crashes>>
loaded == <<points, checked, enabled>>
progress == <<updating, up, at, todo, seen>>

Chain(n, wrong) == [height |-> n, fork |-> IF wrong < n THEN wrong ELSE NoFork]

fails(c, pt) == pt < c.height /\ pt >= c.fork

Running == up \in {"up", "ending"}
ChainLockFree == at \notin {"loop", "pop"}

\* The chain of a node that may have followed another branch until now.
Init ==
    /\ \E n \in Lengths, wrong \in 1 .. NoFork : chain = Chain(n, wrong)
    /\ saved = chain /\ batch = "none" /\ incoming = "out"
    /\ points = {} /\ checked = {} /\ file = {} /\ spoiled = FALSE /\ enabled = TRUE
    /\ updating = FALSE /\ up = "down" /\ at = "out" /\ todo = {} /\ seen = 0
    /\ crashes = 0

----------------------------------------------------------------------------
(* The process.                                                            *)

\* core::init: the default checkpoints of mainnet, then update_checkpoints,
\* which returns at once on another network or when it is disabled.
init ==
    /\ up = "down"
    /\ enabled' \in BOOLEAN
    /\ points' \in {Default, {}} /\ (enabled' => points' = Default)
    /\ up' = IF enabled' THEN "init" ELSE "up"
    /\ at' = IF enabled' THEN "load" ELSE "out"
    /\ updating' = enabled'
    /\ UNCHANGED <<chain, saved, batch, incoming, checked, todo, seen, outside>>

\* The process ends; what was not committed is lost.
Exit ==
    /\ up' = "down" /\ chain' = saved /\ batch' = "none" /\ incoming' = "out"
    /\ updating' = FALSE /\ at' = "out" /\ todo' = {} /\ seen' = 0 /\ checked' = {}
    /\ UNCHANGED <<saved, points, enabled, file, spoiled>>

crash == up # "down" /\ crashes < MaxCrashes /\ crashes' = crashes + 1 /\ Exit

\* The signal that graceful_exit raised is dealt with.
shutdown == up = "ending" /\ Exit /\ UNCHANGED crashes

\* The operator adds a checkpoint to the file, or spoils it, or mends it.
publish(pt) ==
    /\ pt \notin file /\ file' = file \cup {pt}
    /\ UNCHANGED <<chain, saved, batch, incoming, loaded, spoiled, progress, crashes>>

edit ==
    /\ spoiled' = ~ spoiled
    /\ UNCHANGED <<chain, saved, batch, incoming, loaded, file, progress, crashes>>

----------------------------------------------------------------------------
(* Another thread with blocks.                                             *)

\* prepare_handle_incoming_blocks takes the pool's lock ...
prepare ==
    /\ Running /\ incoming = "out"
    /\ incoming' = "locked"
    /\ UNCHANGED <<chain, saved, batch, loaded, progress, outside>>

\* ... and the chain's.  It opens a batch, or gives both back and tries again.
batch_start ==
    /\ incoming = "locked" /\ ChainLockFree
    /\ IF batch = "none" THEN batch' = "blocks" /\ incoming' = "open"
                         ELSE batch' = batch /\ incoming' = "out"
    /\ UNCHANGED <<chain, saved, loaded, progress, outside>>

\* add_new_block: a block on the tip, of the right chain or of another.
add_new_block(wrong) ==
    /\ incoming = "open" /\ ChainLockFree
    /\ chain.height < MaxHeight
    /\ chain.fork # NoFork => wrong
    /\ chain.height \in points => ~ wrong   \* m_checkpoints.check_block
    /\ chain' = IF wrong THEN Chain(chain.height + 1, IF chain.fork = NoFork THEN chain.height ELSE chain.fork)
                ELSE Chain(chain.height + 1, NoFork)
    /\ UNCHANGED <<saved, batch, incoming, loaded, progress, outside>>

is_alternative_block_allowed_at(split) ==   \* mutant
    \A pt \in points : pt <= chain.height => pt <= split

\* The last checkpoint up to the chain's height is below the block's.
is_alternative_block_allowed(split) ==
    \A pt \in points : pt <= chain.height => pt < split

\* add_new_block: a reorganisation to a longer chain, right or wrong.
reorganize(split, wrong) ==
    /\ incoming = "open" /\ ChainLockFree
    /\ split \in 1 .. chain.height - 1 /\ chain.height < MaxHeight
    /\ split <= chain.fork
    /\ is_alternative_block_allowed(split)
    /\ chain' = Chain(chain.height + 1, IF wrong THEN split ELSE NoFork)
    /\ UNCHANGED <<saved, batch, incoming, loaded, progress, outside>>

\* cleanup_handle_incoming_blocks: batch_stop, or batch_abort when the
\* database has thrown.
cleanup ==
    /\ incoming = "open" /\ ChainLockFree
    /\ \/ saved' = chain /\ chain' = chain
       \/ chain' = saved /\ saved' = saved
    /\ batch' = "none" /\ incoming' = "out"
    /\ UNCHANGED <<loaded, progress, outside>>

----------------------------------------------------------------------------
(* update_checkpoints.                                                     *)

\* core::update_checkpoints, after a block of a peer, every ten minutes.
begin_update ==
    /\ Running /\ enabled /\ at = "out" /\ ~ updating
    /\ updating' = TRUE /\ at' = "load"
    /\ UNCHANGED <<chain, saved, batch, incoming, loaded, up, todo, seen, outside>>

\* load_checkpoints_from_json: heights up to the highest known are ignored.
\* The name servers of this network do not exist.
new_points == {pt \in file : points # {} => pt > Max(points)}

load_checkpoints ==
    /\ at = "load" /\ ~ spoiled /\ at' = "check"
    /\ points' = points \cup new_points
    /\ UNCHANGED <<chain, saved, batch, incoming, checked, enabled, updating, up, todo, seen, outside>>

\* It returns false; the lines before the bad one have been added.
\* graceful_exit, or the end of core::init.
load_fails ==
    /\ at = "load" /\ spoiled
    /\ IF up = "init" THEN Exit /\ UNCHANGED crashes
       ELSE /\ \E lines \in SUBSET new_points : points' = points \cup lines
            /\ updating' = FALSE /\ at' = "out" /\ up' = "ending"
            /\ UNCHANGED <<chain, saved, batch, incoming, checked, enabled, todo, seen, outside>>

\* What the thread of the update reads.
view == IF batch = "update" THEN chain ELSE saved

check_against_checkpoints_beyond ==   \* mutant
    /\ at = "check" /\ at' = "loop"
    /\ batch' = IF batch = "none" THEN "update" ELSE batch
    /\ seen' = view.height + 1 /\ todo' = points
    /\ UNCHANGED <<chain, saved, incoming, loaded, updating, up, outside>>

\* check_against_checkpoints: batch_start does not wait for another batch.
check_against_checkpoints ==
    /\ at = "check" /\ at' = "loop"
    /\ batch' = IF batch = "none" THEN "update" ELSE batch
    /\ seen' = view.height /\ todo' = points
    /\ UNCHANGED <<chain, saved, incoming, loaded, updating, up, outside>>

next_point == Min(todo)
Rest == todo' = todo \ {next_point}

\* A block that the node does not have yet, or the right one.
point_passes ==
    /\ at = "loop" /\ todo # {}
    /\ \/ next_point >= seen
       \/ next_point < view.height /\ ~ fails(view, next_point)
    /\ Rest
    /\ UNCHANGED <<chain, saved, batch, incoming, loaded, updating, up, at, seen, outside>>

rollback_height == IF next_point >= 2 THEN next_point - 2 ELSE 0

\* rollback_blockchain_switching, which pops in the update's own batch.
point_fails ==
    /\ at = "loop" /\ todo # {} /\ next_point < seen
    /\ fails(view, next_point) /\ batch = "update"
    /\ at' = "pop"
    /\ UNCHANGED <<chain, saved, batch, incoming, loaded, updating, up, todo, seen, outside>>

\* pop_block_from_blockchain gives the transactions back to the pool, with the
\* chain's lock held: it waits for a thread that has the pool's.
pop_block ==
    /\ at = "pop" /\ chain.height # rollback_height /\ chain.height > 1
    /\ incoming = "out"
    /\ chain' = Chain(chain.height - 1, chain.fork)
    /\ UNCHANGED <<saved, batch, incoming, loaded, progress, outside>>

rolled_back ==
    /\ at = "pop" /\ chain.height = rollback_height
    /\ at' = "loop" /\ Rest
    /\ UNCHANGED <<chain, saved, batch, incoming, loaded, updating, up, seen, outside>>

\* A block that an earlier turn of the loop has rolled back is asked for
\* (BLOCK_DNE); the batch is of another thread, and block_wtxn_start throws;
\* or "Cannot pop the genesis block".
throws ==
    \/ /\ at = "loop" /\ todo # {} /\ next_point < seen
       /\ next_point >= view.height \/ (fails(view, next_point) /\ batch # "update")
    \/ at = "pop" /\ chain.height # rollback_height /\ chain.height = 1

\* The exception ends core::init and the process ...
throw_in_init == throws /\ up = "init" /\ Exit /\ UNCHANGED crashes

\* ... or one message of a peer: nobody ends the batch or clears the flag.
throw_in_handler ==
    /\ throws /\ Running
    /\ at' = "out" /\ todo' = {} /\ seen' = 0
    /\ UNCHANGED <<chain, saved, batch, incoming, loaded, updating, up, outside>>

\* batch_stop, of a batch of its own.
end_update ==
    /\ at = "loop" /\ todo = {}
    /\ IF batch = "update" THEN saved' = chain /\ batch' = "none" /\ checked' = points
       ELSE UNCHANGED <<saved, batch, checked>>
    /\ updating' = FALSE /\ at' = "out" /\ seen' = 0
    /\ up' = IF up = "init" THEN "up" ELSE up
    /\ UNCHANGED <<chain, incoming, points, enabled, todo, outside>>

update_checkpoints ==
    \/ load_checkpoints \/ load_fails \/ check_against_checkpoints
    \/ point_passes \/ point_fails \/ pop_block \/ rolled_back
    \/ throw_in_init \/ throw_in_handler \/ end_update

----------------------------------------------------------------------------
Next ==
    \/ init \/ crash \/ shutdown \/ edit \/ begin_update \/ update_checkpoints
    \/ \E pt \in Later : publish(pt)
    \/ prepare \/ batch_start \/ cleanup
    \/ \E wrong \in BOOLEAN : add_new_block(wrong)
    \/ \E split \in 1 .. MaxHeight, wrong \in BOOLEAN : reorganize(split, wrong)

Spec == Init /\ [][Next]_vars

\* Somebody starts the node again when it has ended; peers send blocks; an
\* update goes on unless it waits for a lock.
FairSpec == Spec /\ WF_vars(init) /\ WF_vars(begin_update) /\ WF_vars(update_checkpoints)

----------------------------------------------------------------------------
\* The checkpoints that a running node has started with, and every later one
\* that an update could check in a batch of its own, hold on the chain and in
\* an open batch: no block, reorganisation, aborted batch, rollback, exception
\* or race with a later update brings in a chain that fails one.
Enforced ==
    Running /\ enabled =>
        \A pt \in Default \cup checked : ~ fails(chain, pt) /\ ~ fails(saved, pt)

\* "load json & DNS checkpoints every 10min/hour respectively, and verify them
\* with respect to what blocks we already have": a node whose update is over
\* is on a chain that passes every checkpoint it has.  The code does not keep
\* this: a block of an open batch is neither seen by the update nor checked
\* against its checkpoints when the batch is committed.
VerifiedAll ==
    up = "up" /\ enabled /\ ~ updating => \A pt \in points : ~ fails(saved, pt)

\* What the rollback is written for: one checkpoint fails, and it is not one
\* of the first two blocks.
OneFails ==
    \A pt \in points : fails(saved, pt) =>
        pt > 2 /\ \A other \in points : other > pt => other >= saved.height

Failing == \E pt \in points : fails(saved, pt)

\* A node whose chain fails such a checkpoint gets rid of the wrong blocks, in
\* the database as well, and runs, however often it dies on the way: when it
\* can read its file and no other thread has blocks while an update checks
\* the chain.  (check_against_checkpoints: "roll back to a couple of blocks
\* before the checkpoint".)
RollsBack ==
    []( /\ enabled /\ ~ spoiled /\ OneFails
        /\ ~ ChainLockFree => incoming = "out")
    => (Failing ~> (up = "up" /\ ~ Failing))

=============================================================================
