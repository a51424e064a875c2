------------------------------ MODULE TxRelay ------------------------------
(***************************************************************************)
(* How a transaction of the pool leaves the node: the relay method and the *)
(* relay time the pool stores with it (src/cryptonote_core/tx_pool.cpp),   *)
(* the idle task that picks what is due (src/cryptonote_core/              *)
(* cryptonote_core.cpp), the choice of a network (src/p2p/net_node.inl)    *)
(* and the Dandelion++ handler of the public network                       *)
(* (src/cryptonote_protocol/levin_notify.cpp).                             *)
(*                                                                         *)
(* Threads interleave between the calls: a caller adds the transaction,    *)
(* then asks for its relay; the request is queued on the network's strand; *)
(* the strand's handler updates the pool and sends.  The pool is in the    *)
(* database and survives a crash, the requests and m_next_check do not.    *)
(*                                                                         *)
(* All times are relative to the current time, so that time never ends and *)
(* the state stays finite: last is the stored last_relayed_time minus now, *)
(* age is now minus receive_time, next_check is m_next_check minus now (0  *)
(* when it has passed).                                                    *)
(***************************************************************************)
EXTENDS Integers, FiniteSets

CONSTANTS Txs,
          Never,           \* last_relayed_time at its maximum: not set yet
          LIVETIME,        \* CRYPTONOTE_MEMPOOL_TX_LIVETIME
          ALT_LIVETIME,    \* CRYPTONOTE_MEMPOOL_TX_FROM_ALT_BLOCK_LIVETIME
          MIN_RELAY_TIME, MAX_RELAY_TIME,
          CHECK,           \* max_relayable_check
          Delays,          \* what the embargo and the forward delay may last
          Networks,        \* the networks a node may be configured with
          MaxArrivals,     \* how often a transaction is received or asked for
          MaxCrashes

ASSUME ConstantsAssumption ==
    /\ {LIVETIME, ALT_LIVETIME, MIN_RELAY_TIME, MAX_RELAY_TIME, CHECK} \subseteq Nat \ {0}
    /\ LIVETIME <= ALT_LIVETIME
    /\ Delays \subseteq 1..LIVETIME
    /\ Never \notin Int
    /\ Networks \subseteq {"public", "anonymity", "two_anonymity"}
    /\ {MaxArrivals, MaxCrashes} \subseteq Nat

VARIABLES pool,        \* the metadata of each transaction, or Absent, or Mined
          timed_out,   \* m_timed_out_transactions
          next_check,  \* m_next_check
          calls,       \* relay_transactions calls about to be made
          strand,      \* dandelionpp_notify handlers of the public strand
          sent,        \* handed to some network since it came in
          expired,     \* too old before the network could know of it
          net,         \* the public network only, or one or two anonymity networks too
          up, arrivals, crashes

vars == <<pool, timed_out, next_check, calls, strand, sent, expired, up, arrivals, crashes, net>>

Absent == [relay |-> "absent"]
Mined == [relay |-> "mined"]   \* in a block of the main chain

\* relay_method, in the order its static_asserts fix.
Methods == <<"none", "local", "forward", "stem", "fluff", "block">>
Rank(m) == CHOOSE i \in DOMAIN Methods : Methods[i] = m

broadcasted == {"fluff", "block"}
legacy == broadcasted \cup {"none"}

InPool(t) == pool[t] \notin {Absent, Mined}

Calls == [tx : Txs, how : {"local", "own_fluff", "stem", "fluff"}]
Handlers == [tx : Txs, how : {"local", "stem", "failed"}]

Init ==
    /\ pool = [t \in Txs |-> Absent]
    /\ timed_out = {} /\ calls = {} /\ strand = {}
    /\ expired = {} /\ sent = {}
    /\ next_check = 0
    /\ up = TRUE /\ arrivals = 0 /\ crashes = 0
    /\ net \in Networks

\* set_if_less(m_next_check, candidate).
set_if_less(candidate) == IF candidate < next_check THEN candidate ELSE next_check

\* txpool_tx_meta_t::upgrade_relay_method: a method is only ever raised.
upgrade_relay_method(old, method) == IF Rank(old) < Rank(method) THEN method ELSE old

-----------------------------------------------------------------------------
(***************************************************************************)
(* A transaction arrives: from a peer on the public network (stem, or      *)
(* fluff with its flag), from one on an anonymity network (forward, or     *)
(* fluff), from the RPC server (local, or none when asked not to relay).   *)
(* core::add_new_tx returns early for what the legacy category shows;      *)
(* add_tx turns a stem that comes back into a fluff, stores the            *)
(* transaction when it is new or its method was raised, leaves             *)
(* last_relayed_time for set_relayed to fill in, unless it is forwarded,   *)
(* and prunes the pool.                                                    *)
(***************************************************************************)
detect_loop(t, r) == IF r = "stem" /\ pool[t].relay = "stem" THEN "fluff" ELSE r

stores(t, method) == ~InPool(t) \/ Rank(pool[t].relay) < Rank(method)

stored(t, method, last) ==
    IF stores(t, method)
    THEN [pool EXCEPT ![t] = [relay |-> method, age |-> 0, last |-> last]] ELSE pool

(***************************************************************************)
(* prune(m_txpool_max_weight), the end of every add_tx: a pool that is too *)
(* heavy loses the cheapest transactions, but those kept by a block.  Fees *)
(* and weights are not modelled here, nor the transactions beside Txs that *)
(* fill the pool, so it may lose any, or none.                             *)
(***************************************************************************)
prunable(p) == {t \in Txs : p[t].relay \in {"none", "local", "forward", "stem", "fluff"}}

prune(p, told) ==
    \E S \in SUBSET prunable(p) :
        /\ pool' = [t \in Txs |-> IF t \in S THEN Absent ELSE p[t]]
        /\ sent' = told \ S

add_tx(t, method, last, told) == prune(stored(t, method, last), told)

arrive == arrivals < MaxArrivals /\ arrivals' = arrivals + 1

handle_incoming_tx(t, r) ==
    /\ up /\ arrive
    /\ t \notin timed_out
    /\ pool[t].relay \notin legacy \cup {"mined"}
    /\ LET method == detect_loop(t, r) IN
       IF method = "forward"
       THEN \E d \in Delays :
               /\ add_tx(t, method, d, sent)
               /\ next_check' = IF stores(t, method) THEN set_if_less(d) ELSE next_check
               /\ UNCHANGED calls
       ELSE /\ add_tx(t, method, Never, sent)
            /\ calls' = calls \cup {[tx |-> t, how |-> method] : m \in {method} \ {"none"}}
            /\ UNCHANGED next_check
    /\ UNCHANGED <<timed_out, strand, expired, up, crashes, net>>

\* add_tx for a transaction that is not in Txs.
add_other_tx ==
    /\ up /\ prune(pool, sent)
    /\ UNCHANGED <<timed_out, next_check, calls, strand, expired, up, arrivals, crashes, net>>

\* The RPC call relay_tx: the node's own relay, fluff when it was broadcast
\* before, else local.
relay_tx(t) ==
    /\ up /\ InPool(t) /\ arrive
    /\ calls' = calls \cup {[tx |-> t, how |-> IF pool[t].relay \in broadcasted
                                               THEN "own_fluff" ELSE "local"]}
    /\ UNCHANGED <<pool, timed_out, next_check, strand, sent, expired, up, crashes, net>>

-----------------------------------------------------------------------------
\* The embargo is stored, but m_next_check is not brought forward.
set_relayed_late(t, method) ==
    IF InPool(t)
    THEN LET now_relay == upgrade_relay_method(pool[t].relay, method) IN
         /\ \E d \in IF now_relay = "stem" THEN Delays ELSE {0} :
               pool' = [pool EXCEPT ![t].relay = now_relay, ![t].last = d]
         /\ UNCHANGED next_check
    ELSE UNCHANGED <<pool, next_check>>

(***************************************************************************)
(* tx_memory_pool::set_relayed for one transaction: raise the method, then *)
(* start the embargo if it is in the stem phase, else note the time.       *)
(***************************************************************************)
set_relayed(t, method) ==
    IF InPool(t)
    THEN LET now_relay == upgrade_relay_method(pool[t].relay, method) IN
         IF now_relay = "stem"
         THEN \E d \in Delays :
                 /\ pool' = [pool EXCEPT ![t].relay = now_relay, ![t].last = d]
                 /\ next_check' = set_if_less(d)
         ELSE /\ pool' = [pool EXCEPT ![t].relay = now_relay, ![t].last = 0]
              /\ UNCHANGED next_check
    ELSE UNCHANGED <<pool, next_check>>

\* A request may come after its transaction left the pool.
pooled(t) == {t} \cap {u \in Txs : InPool(u)}

(***************************************************************************)
(* relay_transactions reaches node_server::send_txs and notify::send_txs.  *)
(* What came from the public network, or was picked for it, goes there;    *)
(* the node's own goes to an anonymity network if one is configured.  With *)
(* two of those, and no outgoing connection on either, nothing is sent and *)
(* nothing is noted.  Stem and local wait for the public strand; a fluff   *)
(* is noted and queued on every connection at once.                        *)
(***************************************************************************)
own(c) == c.how \in {"local", "own_fluff"}

queue_stem(c) ==
    /\ c.how = "stem" \/ (c.how = "local" /\ net = "public")
    /\ strand' = strand \cup {c}
    /\ UNCHANGED <<pool, next_check, sent>>

\* On an anonymity network the transaction keeps the method it has.
send_anonymously(c) ==
    /\ own(c) /\ net # "public"
    /\ set_relayed(c.tx, IF c.how = "local" THEN "local" ELSE "fluff")
    /\ sent' = sent \cup pooled(c.tx)
    /\ UNCHANGED strand

no_anonymity_connection(c) ==
    /\ own(c) /\ net = "two_anonymity"
    /\ UNCHANGED <<pool, next_check, strand, sent>>

send_fluff(c) ==
    /\ c.how = "fluff" \/ (c.how = "own_fluff" /\ net = "public")
    /\ set_relayed(c.tx, "fluff")
    /\ sent' = sent \cup pooled(c.tx)
    /\ UNCHANGED strand

relay_transactions(c) ==
    /\ up
    /\ calls' = calls \ {c}
    /\ \/ queue_stem(c)
       \/ send_anonymously(c)
       \/ no_anonymity_connection(c)
       \/ send_fluff(c)
    /\ UNCHANGED <<timed_out, expired, up, arrivals, crashes, net>>

(***************************************************************************)
(* dandelionpp_notify: in a stem epoch, or for the node's own transaction, *)
(* the pool is told first and the transaction is sent to the stem; when no *)
(* stem takes it, and in a fluff epoch, the pool is told again and it is   *)
(* fluffed.                                                                *)
(***************************************************************************)
free == \A s \in strand : s.how # "failed"   \* no handler is half way

dandelionpp_stem(s) ==
    /\ up /\ s.how # "failed" /\ free
    /\ set_relayed(s.tx, "stem")
    /\ \/ strand' = strand \ {s} /\ sent' = sent \cup pooled(s.tx)
       \/ strand' = (strand \ {s}) \cup {[s EXCEPT !.how = "failed"]} /\ UNCHANGED sent
    /\ UNCHANGED <<timed_out, calls, expired, up, arrivals, crashes, net>>

dandelionpp_fluff(s) ==
    /\ up /\ s.how # "local" /\ (free \/ s.how = "failed")
    /\ set_relayed(s.tx, "fluff")
    /\ strand' = strand \ {s}
    /\ sent' = sent \cup pooled(s.tx)
    /\ UNCHANGED <<timed_out, calls, expired, up, arrivals, crashes, net>>

-----------------------------------------------------------------------------
(***************************************************************************)
(* The increasing backoff of re-relays.  A time that was never set is the  *)
(* maximum of 64 bits: the difference with now wraps to a small number and *)
(* the delay, computed in signed seconds, to a huge one, so that such a    *)
(* transaction is never due.                                               *)
(***************************************************************************)
get_relay_delay(last_relay, received) ==
    LET d == ((last_relay - received + MIN_RELAY_TIME) \div MIN_RELAY_TIME) * MIN_RELAY_TIME
    IN  IF d > MAX_RELAY_TIME THEN MAX_RELAY_TIME ELSE d

\* An embargo that ends is not one of the reasons to look.
due_backoff_only(m) ==
    /\ m.last # Never
    /\ m.relay \in {"local", "fluff", "block"}
    /\ -m.last > get_relay_delay(m.last, -m.age)

due(m) ==
    /\ m.last # Never
    /\ \/ m.relay \in {"stem", "forward"} /\ m.last <= 0
       \/ m.relay \in {"local", "fluff", "block"}
          /\ -m.last > get_relay_delay(m.last, -m.age)

\* What get_relayable_transactions returns: due, and young enough.
livetime(m) == IF m.relay = "block" THEN ALT_LIVETIME ELSE LIVETIME
relayable == {t \in Txs : InPool(t) /\ due(pool[t]) /\ pool[t].age <= livetime(pool[t]) \div 2}

\* The embargoes that are still running.
running == {pool[t].last : t \in {u \in Txs : /\ pool[u].relay \in {"stem", "forward"}
                                              /\ pool[u].last # Never /\ pool[u].last > 0}}

\* An expired embargo goes back to the stem.
rerelay_as_stem(method) == CASE method = "local" -> "local"
                             [] method \in {"forward", "stem"} -> "stem"
                             [] OTHER -> "fluff"

\* The method core::relay_txpool_transactions asks for.
rerelay(method) == CASE method = "local"   -> "local"
                     [] method = "forward" -> "stem"
                     [] OTHER              -> "fluff"

(***************************************************************************)
(* get_relayable_transactions and relay_txpool_transactions, one idle      *)
(* task.  The times it sets are written in a database transaction that is  *)
(* never committed: the pool does not change.                              *)
(***************************************************************************)
relay_txpool_transactions ==
    /\ up /\ next_check = 0
    /\ calls' = calls \cup {[tx |-> t, how |-> rerelay(pool[t].relay)] : t \in relayable}
    /\ next_check' = CHOOSE n \in running \cup {CHECK} :
                        \A m \in running \cup {CHECK} : n <= m
    /\ UNCHANGED <<pool, timed_out, strand, sent, expired, up, arrivals, crashes, net>>

-----------------------------------------------------------------------------
\* remove_stuck_transactions: what is too old leaves the pool.
stuck == {t \in Txs : InPool(t) /\ pool[t].age > livetime(pool[t])}

\* In the stem phase or forwarded, with a wait that ended (or ends) before the
\* pool stops re-relaying the transaction.
waits_in_time(m) ==
    /\ m.relay \in {"forward", "stem"}
    /\ m.last # Never
    /\ m.age + m.last <= LIVETIME \div 2

remove_stuck_transactions ==
    /\ up /\ stuck # {}
    /\ pool' = [t \in Txs |-> IF t \in stuck THEN Absent ELSE pool[t]]
    /\ timed_out' = timed_out \cup stuck
    /\ expired' = expired \cup
          {t \in stuck : /\ pool[t].relay # "none"
                         /\ \A c \in calls \cup strand : c.tx # t
                         /\ t \notin sent \/ waits_in_time(pool[t])}
    /\ sent' = sent \ stuck
    /\ UNCHANGED <<next_check, calls, strand, up, arrivals, crashes, net>>

\* A block of the main chain takes the transaction.
take_tx(t) ==
    /\ up /\ InPool(t)
    /\ pool' = [pool EXCEPT ![t] = Mined]
    /\ UNCHANGED <<timed_out, next_check, calls, strand, sent, expired, up, arrivals, crashes, net>>

(***************************************************************************)
(* add_tx for a block that is popped or stays on the side: kept_by_block.  *)
(* With inputs that hold, last_relayed_time is left unset and no caller    *)
(* sets it; with inputs that do not, the time is noted (such a transaction *)
(* cannot be stored twice).  The peers that have the block have it.        *)
(***************************************************************************)
add_tx_of_block(t) ==
    /\ up
    /\ \/ add_tx(t, "block", Never, sent \cup {t})
       \/ ~InPool(t) /\ add_tx(t, "block", 0, sent \cup {t})
    /\ UNCHANGED <<timed_out, next_check, calls, strand, expired, up, arrivals, crashes, net>>

-----------------------------------------------------------------------------
(***************************************************************************)
(* Time.  While the node runs, a unit of time is long: the threads make    *)
(* the calls they are at, the strand drains and the idle tasks that are    *)
(* due run within it.                                                      *)
(***************************************************************************)
Lower(n, floor) == IF n > floor THEN n - 1 ELSE floor

Tick ==
    /\ up => calls = {} /\ strand = {} /\ next_check > 0 /\ stuck = {}
    /\ pool' = [t \in Txs |->
          IF ~InPool(t) THEN pool[t]
          ELSE [pool[t] EXCEPT !.age = IF @ > ALT_LIVETIME THEN @ ELSE @ + 1,
                               !.last = IF @ = Never THEN Never ELSE Lower(@, -(ALT_LIVETIME + 1))]]
    /\ next_check' = Lower(next_check, 0)
    /\ UNCHANGED <<timed_out, calls, strand, sent, expired, up, arrivals, crashes, net>>

Crash ==
    /\ up /\ crashes < MaxCrashes
    /\ up' = FALSE /\ crashes' = crashes + 1
    /\ calls' = {} /\ strand' = {} /\ timed_out' = {}
    /\ UNCHANGED <<pool, next_check, sent, expired, arrivals, net>>

\* The constructor sets m_next_check to the time it starts at.
Restart ==
    /\ ~up
    /\ up' = TRUE /\ next_check' = 0
    /\ UNCHANGED <<pool, timed_out, calls, strand, sent, expired, arrivals, crashes, net>>

Next ==
    \/ \E t \in Txs :
          \/ \E r \in {"none", "local", "forward", "stem", "fluff"} : handle_incoming_tx(t, r)
          \/ relay_tx(t) \/ take_tx(t) \/ add_tx_of_block(t)
    \/ add_other_tx
    \/ \E c \in calls : relay_transactions(c)
    \/ \E s \in strand : dandelionpp_stem(s) \/ dandelionpp_fluff(s)
    \/ relay_txpool_transactions
    \/ remove_stuck_transactions
    \/ Tick \/ Crash \/ Restart

Spec == Init /\ [][Next]_vars

(***************************************************************************)
(* Fairness: time goes on; the node is started again; a thread makes the   *)
(* call it is at; a handler on the strand, a queue in order, has its turn  *)
(* (it waits while another is half way, hence the strong form); the idle   *)
(* tasks run. Nothing is assumed of arrivals, of blocks or of the stem's   *)
(* peers, except that the same transaction is not submitted again for ever *)
(* (MaxArrivals): each submission starts the embargo anew.                 *)
(***************************************************************************)
Fairness ==
    /\ WF_vars(Tick) /\ WF_vars(Restart)
    /\ \A c \in Calls :
          WF_vars(c \in calls /\ relay_transactions(c))
    /\ \A s \in Handlers :
          SF_vars(s \in strand /\ (dandelionpp_stem(s) \/ dandelionpp_fluff(s)))
    /\ WF_vars(relay_txpool_transactions)
    /\ WF_vars(remove_stuck_transactions)

FairSpec == Spec /\ Fairness

-----------------------------------------------------------------------------
(***************************************************************************)
(* No transaction that is to be relayed grows too old in the pool while    *)
(* nobody but the first hop could know of it: the embargo, the forward     *)
(* delay or the re-relay reached it first (tx_pool.cpp, set_relayed and    *)
(* get_relayable_transactions; cryptonote_core.cpp: "we attempt to relay   *)
(* txes that should be relayed, but were not").  That is so as long as the *)
(* process does not die with a request it has not served, and with one     *)
(* network for the node's own transactions.  A transaction that a full     *)
(* pool gives up (prune) did not grow old and does not count.              *)
(***************************************************************************)
NothingExpiresUnsent == crashes = 0 /\ net # "two_anonymity" => expired = {}

(***************************************************************************)
(* The next look at the pool never comes after the end of an embargo or of *)
(* a forward delay that is running, across restarts too: m_next_check is   *)
(* brought forward by add_tx and set_relayed and recomputed by the idle    *)
(* task (tx_pool.cpp, set_if_less and get_relayable_transactions).         *)
(***************************************************************************)
EmbargoWatched == up => \A d \in running : next_check <= d

(***************************************************************************)
(* A transaction in the stem phase does not stay there, nor grow too old   *)
(* in it, whatever its stem peers do with it: it is broadcast, or a block  *)
(* takes it, unless a full pool gives it up first (the embargo of          *)
(* set_relayed and get_relayable_transactions; prune).  That is promised   *)
(* of an embargo that ends in the first half of the transaction's life,    *)
(* after which the pool does not relay it again, and once the transaction  *)
(* is no longer submitted anew; a crash before that does not change it, as *)
(* the embargo is in the database.                                         *)
(***************************************************************************)
quiet(t) ==
    /\ up /\ arrivals = MaxArrivals /\ crashes = MaxCrashes
    /\ \A c \in calls \cup strand : c.tx # t

embargoed(t) ==
    /\ quiet(t) /\ pool[t].relay = "stem"
    /\ pool[t].age <= LIVETIME \div 2 /\ waits_in_time(pool[t])

\* Not in the pool, and not because it grew too old.
given_up(t) == pool[t] = Absent /\ t \notin timed_out

StemEnds ==
    \A t \in Txs : embargoed(t) ~> \/ pool[t].relay \in broadcasted \cup {"mined"}
                                   \/ given_up(t)

(***************************************************************************)
(* What get_relayable_transactions picks of the stem and forward           *)
(* transactions has a later time for the next attempt afterwards: "the     *)
(* field represents the next time a relay should be attempted", reset "as  *)
(* a precaution" (tx_pool.cpp, the loop over change_timestamps).           *)
(***************************************************************************)
PickedIsPostponed ==
    [][relay_txpool_transactions =>
         \A t \in relayable : pool[t].relay \in {"stem", "forward"} => pool'[t].last > 0]_vars
=============================================================================
