--------------------------- MODULE TxRelayProofs ----------------------------
(***************************************************************************)
(* The idle task never sleeps past the end of an embargo, for every set of *)
(* transactions, every length of the embargo and of the other delays and   *)
(* every configuration of networks; and nothing the pool still has to send *)
(* grows too old to be sent, when the delays of a relay fit together into  *)
(* the age at which the pool gives a transaction up.                       *)
(***************************************************************************)
EXTENDS TxRelay, WellFoundedInduction, TLAPS

\* What the pool stores with a transaction.
Meta == [relay : {"none", "local", "forward", "stem", "fluff", "block"},
         age : Nat, last : Int \cup {Never}]

\* The wait of t is running.
Running(t) == pool[t].relay \in {"stem", "forward"} /\ pool[t].last # Never /\ pool[t].last > 0

RelayInv ==
    /\ pool \in [Txs -> {Absent, Mined} \cup Meta]
    /\ next_check \in Nat
    /\ EmbargoWatched

----------------------------------------------------------------------------

\* Every nonempty set of natural numbers has a least element.
LEMMA LeastNumber ==
  ASSUME NEW S \in SUBSET Nat, S # {}
  PROVE  \E m \in S : \A k \in S : m <= k
<1> DEFINE R == {ss \in Nat \X Nat : ss[1] < ss[2]}
<1>1. IsWellFoundedOn(R, Nat)  BY NatLessThanWellFounded, Zenon DEF OpToRel
<1> HIDE DEF R
<1>2. PICK m \in S : \A y \in S : ~ (<<y, m>> \in R)  BY <1>1, WFMin
<1>3. \A y \in S : ~ (y < m)  BY <1>2 DEF R
<1> QED  BY <1>3

\* EmbargoWatched, transaction by transaction.
LEMMA WatchedEach ==
  EmbargoWatched <=> (up => \A t \in Txs : Running(t) => next_check <= pool[t].last)
  BY DEF EmbargoWatched, running, Running

\* The fields of the metadata.
LEMMA MetaParts ==
  ASSUME NEW m \in Meta
  PROVE  /\ m.relay \in {"none", "local", "forward", "stem", "fluff", "block"}
         /\ m.age \in Nat /\ m.last \in Int \cup {Never}
         /\ m # Absent /\ m # Mined
  BY DEF Meta, Absent, Mined

\* The metadata after a relay.
LEMMA MetaRelayed ==
  ASSUME NEW m \in Meta, NEW d \in Nat,
         NEW r \in {"none", "local", "forward", "stem", "fluff", "block"}
  PROVE  [m EXCEPT !.relay = r, !.last = d] \in Meta
<1>1. [m EXCEPT !.relay = r] \in Meta  BY DEF Meta
<1>2. \A n \in Meta : [n EXCEPT !.last = d] \in Meta  BY DEF Meta
<1> QED  BY <1>1, <1>2

\* A step that leaves each transaction alone, or without a wait that runs, or
\* with one that m_next_check knows about.
LEMMA WatchKept ==
  ASSUME RelayInv, next_check' \in Nat, pool' \in [Txs -> {Absent, Mined} \cup Meta], up' => up,
         next_check' <= next_check,
         \A t \in Txs : pool'[t] = pool[t] \/ ~ Running(t)' \/ next_check' <= pool'[t].last
  PROVE  RelayInv'
<1>1. next_check \in Nat  BY DEF RelayInv
<1>2. ASSUME up', NEW t \in Txs, Running(t)'  PROVE next_check' <= pool'[t].last
  <2>1. CASE pool'[t] = pool[t]
    <3>1. Running(t) /\ pool[t] \in {Absent, Mined} \cup Meta  BY <1>2, <2>1 DEF Running, RelayInv
    <3>2. pool[t].last \in Int  BY <3>1, MetaParts DEF Running, Absent, Mined
    <3>3. next_check <= pool[t].last  BY <1>2, <3>1, WatchedEach DEF RelayInv
    <3> QED  BY <1>1, <2>1, <3>2, <3>3
  <2> QED  BY <1>2, <2>1
<1>3. EmbargoWatched'
  <2>1. EmbargoWatched' <=> (up' => \A t \in Txs : Running(t)' => next_check' <= pool'[t].last)
    BY DEF EmbargoWatched, running, Running
  <2> QED  BY <1>2, <2>1
<1> QED  BY <1>3 DEF RelayInv

\* m_next_check is brought forward.
LEMMA SetIfLess ==
  ASSUME next_check \in Nat, NEW d \in Nat
  PROVE  set_if_less(d) \in Nat /\ set_if_less(d) <= next_check /\ set_if_less(d) <= d
  BY DEF set_if_less

\* The relay methods are ranked, so that upgrading stays among them.
LEMMA Upgrade ==
  ASSUME NEW S, NEW m \in S, NEW n \in S
  PROVE  upgrade_relay_method(m, n) \in S
  BY DEF upgrade_relay_method

\* set_relayed: an embargo that starts is watched.
LEMMA SetRelayedWatched ==
  ASSUME RelayInv, NEW t \in Txs, NEW m \in {"local", "stem", "fluff"}, set_relayed(t, m), up' = up
  PROVE  RelayInv'
<1>0. next_check \in Nat /\ pool \in [Txs -> {Absent, Mined} \cup Meta]  BY DEF RelayInv
<1>1. CASE ~ InPool(t)
  BY <1>0, <1>1, WatchKept DEF set_relayed
<1>2. CASE InPool(t)
  <2> DEFINE r == upgrade_relay_method(pool[t].relay, m)
  <2>1. pool[t] \in Meta  BY <1>0, <1>2 DEF InPool
  <2>2. r \in {"none", "local", "forward", "stem", "fluff", "block"}
    BY <2>1, MetaParts, Upgrade
  <2>3. PICK d \in Delays \cup {0} :
           /\ pool' = [pool EXCEPT ![t].relay = r, ![t].last = d]
           /\ r = "stem" => next_check' = set_if_less(d)
           /\ r # "stem" => d = 0 /\ next_check' = next_check
    BY <1>2 DEF set_relayed
  <2> HIDE DEF r
  <2>4. d \in Nat  BY ConstantsAssumption
  <2>5. /\ pool'[t] = [pool[t] EXCEPT !.relay = r, !.last = d]
        /\ \A u \in Txs \ {t} : pool'[u] = pool[u]
        /\ pool' \in [Txs -> {Absent, Mined} \cup Meta] /\ pool'[t].last = d
    <3>1. [pool[t] EXCEPT !.relay = r, !.last = d] \in Meta  BY <2>1, <2>2, <2>4, MetaRelayed
    <3>2. /\ pool'[t] = [pool[t] EXCEPT !.relay = r, !.last = d]
          /\ \A u \in Txs \ {t} : pool'[u] = pool[u]
          /\ DOMAIN pool' = Txs
      BY <1>0, <2>3
    <3>3. pool'[t].last = d  BY <2>1, <3>2 DEF Meta
    <3>4. pool' = [u \in Txs |-> pool'[u]]  BY <1>0, <2>3
    <3> QED  BY <1>0, <3>1, <3>2, <3>3, <3>4
  <2>6. next_check' \in Nat /\ next_check' <= next_check /\ (r = "stem" => next_check' <= d)
    BY <1>0, <2>3, <2>4, SetIfLess
  <2>7. r # "stem" => ~ Running(t)'  BY <2>3, <2>5 DEF Running
  <2> QED  BY <2>5, <2>6, <2>7, WatchKept
<1> QED  BY <1>1, <1>2

\* prune leaves a transaction alone, or takes it out.
LEMMA Prunes ==
  ASSUME NEW p \in [Txs -> {Absent, Mined} \cup Meta], NEW told, prune(p, told)
  PROVE  /\ pool' \in [Txs -> {Absent, Mined} \cup Meta]
         /\ \A u \in Txs : pool'[u] = p[u] \/ pool'[u] = Absent
         /\ \A u \in Txs : pool'[u] # Absent /\ u \in told => u \in sent'
<1>1. PICK S \in SUBSET prunable(p) :
         /\ pool' = [u \in Txs |-> IF u \in S THEN Absent ELSE p[u]] /\ sent' = told \ S
  BY DEF prune
<1> QED  BY <1>1

\* The pool after add_tx: the transaction is stored, or left alone, and some are
\* pruned.
Added(t, m, last, told) ==
    /\ pool' \in [Txs -> {Absent, Mined} \cup Meta]
    /\ \A u \in Txs : \/ pool'[u] = Absent
                      \/ pool'[u] = pool[u]
                      \/ /\ u = t /\ stores(t, m)
                         /\ pool'[u] = [relay |-> m, age |-> 0, last |-> last]
    /\ \A u \in Txs : pool'[u] # Absent /\ u \in told => u \in sent'

\* add_tx does that.
LEMMA AddTx ==
  ASSUME RelayInv, NEW t \in Txs, NEW last \in Int \cup {Never}, NEW told,
         NEW m \in {"none", "local", "forward", "stem", "fluff", "block"},
         add_tx(t, m, last, told)
  PROVE  Added(t, m, last, told)
<1> DEFINE new == [relay |-> m, age |-> 0, last |-> last]
           p == stored(t, m, last)
<1>1. new \in Meta  BY DEF Meta
<1>2. pool \in [Txs -> {Absent, Mined} \cup Meta]  BY DEF RelayInv
<1>3. p = pool \/ (stores(t, m) /\ p = [pool EXCEPT ![t] = new])
  BY DEF stored
<1>4. prune(p, told)  BY DEF add_tx
<1> HIDE DEF new, p
<1>5. /\ p \in [Txs -> {Absent, Mined} \cup Meta]
      /\ \A u \in Txs : p[u] = pool[u] \/ (u = t /\ stores(t, m) /\ p[u] = new)
  BY <1>1, <1>2, <1>3
<1>6. /\ pool' \in [Txs -> {Absent, Mined} \cup Meta]
      /\ \A u \in Txs : pool'[u] = p[u] \/ pool'[u] = Absent
      /\ \A u \in Txs : pool'[u] # Absent /\ u \in told => u \in sent'
  BY <1>4, <1>5, Prunes
<1> QED  BY <1>5, <1>6 DEF new, Added

\* The transactions that come in: a forward delay is watched from the start.
LEMMA IncomingWatched ==
  ASSUME RelayInv, NEW t \in Txs, NEW r \in {"none", "local", "forward", "stem", "fluff"},
         handle_incoming_tx(t, r)
  PROVE  RelayInv'
<1> DEFINE method == detect_loop(t, r)
<1>0. next_check \in Nat /\ up' = up  BY DEF RelayInv, handle_incoming_tx
<1>1. method \in {"none", "local", "forward", "stem", "fluff", "block"}  BY DEF detect_loop
<1>4. Absent.relay = "absent"  BY DEF Absent
<1>2. CASE method = "forward"
  <2>1. PICK d \in Delays :
           /\ add_tx(t, method, d, sent)
           /\ next_check' = IF stores(t, method) THEN set_if_less(d) ELSE next_check
    BY <1>2 DEF handle_incoming_tx
  <2>2. d \in Nat  BY ConstantsAssumption
  <2> HIDE DEF method
  <2>3. /\ pool' \in [Txs -> {Absent, Mined} \cup Meta]
        /\ \A u \in Txs : \/ pool'[u] = Absent
                          \/ pool'[u] = pool[u]
                          \/ /\ u = t /\ stores(t, method)
                             /\ pool'[u] = [relay |-> method, age |-> 0, last |-> d]
    <3>1. Added(t, method, d, sent)  BY <1>1, <2>1, <2>2, AddTx
    <3> QED  BY <3>1 DEF Added
  <2>4. /\ next_check' \in Nat /\ next_check' <= next_check
        /\ stores(t, method) => next_check' <= d
    BY <1>0, <2>1, <2>2, SetIfLess
  <2>5. \A u \in Txs : pool'[u] = pool[u] \/ ~ Running(u)' \/ next_check' <= pool'[u].last
    BY <1>4, <2>3, <2>4 DEF Running
  <2> QED  BY <1>0, <2>3, <2>4, <2>5, WatchKept
<1>3. CASE method # "forward"
  <2>1. add_tx(t, method, Never, sent) /\ next_check' = next_check
    BY <1>3 DEF handle_incoming_tx
  <2> HIDE DEF method
  <2>2. /\ pool' \in [Txs -> {Absent, Mined} \cup Meta]
        /\ \A u \in Txs : \/ pool'[u] = Absent
                          \/ pool'[u] = pool[u]
                          \/ pool'[u] = [relay |-> method, age |-> 0, last |-> Never]
    <3>1. Added(t, method, Never, sent)  BY <1>1, <2>1, AddTx
    <3> QED  BY <3>1 DEF Added
  <2>3. \A u \in Txs : pool'[u] = pool[u] \/ ~ Running(u)'  BY <1>4, <2>2 DEF Running
  <2> QED  BY <1>0, <2>1, <2>2, <2>3, WatchKept
<1> QED  BY <1>2, <1>3

\* The transactions of a block have no wait.
LEMMA BlockWatched ==
  ASSUME RelayInv, NEW t \in Txs, add_tx_of_block(t)
  PROVE  RelayInv'
<1>0. next_check \in Nat /\ next_check' = next_check /\ up' = up
  BY DEF RelayInv, add_tx_of_block
<1>1. PICK last \in {Never, 0} : add_tx(t, "block", last, sent \cup {t})
  BY DEF add_tx_of_block
<1>2. /\ pool' \in [Txs -> {Absent, Mined} \cup Meta]
      /\ \A u \in Txs : \/ pool'[u] = Absent
                        \/ pool'[u] = pool[u]
                        \/ pool'[u] = [relay |-> "block", age |-> 0, last |-> last]
  <2> DEFINE told == sent \cup {t}
             m == "block"
  <2>1. /\ add_tx(t, m, last, told) /\ last \in Int \cup {Never}
        /\ m \in {"none", "local", "forward", "stem", "fluff", "block"}
    BY <1>1
  <2> HIDE DEF told, m
  <2>2. Added(t, m, last, told)  BY <2>1, AddTx
  <2> QED  BY <2>2 DEF Added, m
<1>3. \A u \in Txs : pool'[u] = pool[u] \/ ~ Running(u)'  BY <1>2 DEF Running, Absent
<1> QED  BY <1>0, <1>2, <1>3, WatchKept

\* A pool that is pruned has fewer waits.
LEMMA OtherWatched ==
  ASSUME RelayInv, add_other_tx
  PROVE  RelayInv'
<1>0. /\ next_check \in Nat /\ next_check' = next_check /\ up' = up /\ prune(pool, sent)
      /\ pool \in [Txs -> {Absent, Mined} \cup Meta]
  BY DEF RelayInv, add_other_tx
<1>1. /\ pool' \in [Txs -> {Absent, Mined} \cup Meta]
      /\ \A u \in Txs : pool'[u] = pool[u] \/ pool'[u] = Absent
  BY <1>0, Prunes
<1>2. \A u \in Txs : pool'[u] = pool[u] \/ ~ Running(u)'  BY <1>1 DEF Running, Absent
<1> QED  BY <1>0, <1>1, <1>2, WatchKept

\* The idle task: m_next_check is the end of the first wait, or the interval.
LEMMA IdleWatched ==
  ASSUME RelayInv, relay_txpool_transactions
  PROVE  RelayInv'
<1> DEFINE S == running \cup {CHECK}
<1>1. S \in SUBSET Nat /\ S # {}
  <2>1. ASSUME NEW t \in Txs, Running(t)  PROVE pool[t].last \in Nat
    <3>1. pool[t] \in {Absent, Mined} \cup Meta  BY DEF RelayInv
    <3>2. pool[t] \in Meta  BY <2>1, <3>1 DEF Running, Absent, Mined
    <3> QED  BY <2>1, <3>2, MetaParts DEF Running
  <2>2. running \in SUBSET Nat  BY <2>1 DEF running, Running
  <2>3. CHECK \in Nat  BY ConstantsAssumption
  <2> QED  BY <2>2, <2>3
<1>2. \E m \in S : \A k \in S : m <= k  BY <1>1, LeastNumber
<1>3. next_check' = CHOOSE n \in S : \A m \in S : n <= m  BY DEF relay_txpool_transactions
<1> HIDE DEF S
<1>4. next_check' \in S /\ \A m \in S : next_check' <= m  BY <1>2, <1>3
<1>5. UNCHANGED <<pool, up>>  BY DEF relay_txpool_transactions
<1>6. running' = running  BY <1>5 DEF running
<1> QED  BY <1>1, <1>4, <1>5, <1>6 DEF RelayInv, EmbargoWatched, S

\* Time passes for the waits and for m_next_check alike.
LEMMA TickWatched ==
  ASSUME RelayInv, Tick
  PROVE  RelayInv'
<1>0. next_check \in Nat /\ pool \in [Txs -> {Absent, Mined} \cup Meta] /\ up' = up
  BY DEF RelayInv, Tick
<1>1. next_check' = Lower(next_check, 0)  BY DEF Tick
<1>2. next_check' \in Nat  BY <1>0, <1>1 DEF Lower
<1>3. ASSUME NEW t \in Txs
      PROVE  /\ pool'[t] \in {Absent, Mined} \cup Meta
             /\ Running(t)' => Running(t) /\ pool'[t].last = pool[t].last - 1
                               /\ pool[t].last \in Int
  <2>1. CASE ~ InPool(t)
    <3>1. pool'[t] = pool[t] /\ pool[t] \in {Absent, Mined}  BY <2>1 DEF Tick, InPool
    <3> QED  BY <3>1 DEF Running, Absent, Mined
  <2>2. CASE InPool(t)
    <3> DEFINE m == pool[t]
               age == IF m.age > ALT_LIVETIME THEN m.age ELSE m.age + 1
               last == IF m.last = Never THEN Never ELSE Lower(m.last, -(ALT_LIVETIME + 1))
    <3>1. m \in Meta  BY <1>0, <2>2 DEF InPool
    <3>2. pool'[t] = [m EXCEPT !.age = age, !.last = last]  BY <2>2 DEF Tick
    <3>3. ALT_LIVETIME \in Nat  BY ConstantsAssumption
    <3>4. age \in Nat /\ last \in Int \cup {Never}
          /\ (last # Never /\ last > 0 => m.last # Never /\ m.last > 0 /\ last = m.last - 1
                                          /\ m.last \in Int)
      BY <3>1, <3>3, MetaParts DEF Lower
    <3> HIDE DEF m, age, last
    <3>5. pool'[t] \in Meta /\ pool'[t].relay = m.relay /\ pool'[t].last = last
      BY <3>1, <3>2, <3>4 DEF Meta
    <3> QED  BY <3>4, <3>5 DEF Running, m
  <2> QED  BY <2>1, <2>2
<1>4. pool' \in [Txs -> {Absent, Mined} \cup Meta]
  <2>1. pool' = [t \in Txs |-> pool'[t]]  BY DEF Tick
  <2> QED  BY <1>3, <2>1
<1>5. ASSUME up', NEW t \in Txs, Running(t)'  PROVE next_check' <= pool'[t].last
  <2>1. /\ Running(t) /\ pool'[t].last = pool[t].last - 1 /\ pool[t].last \in Int
        /\ pool'[t].last > 0
    BY <1>3, <1>5 DEF Running
  <2>2. next_check <= pool[t].last  BY <1>0, <1>5, <2>1, WatchedEach DEF RelayInv
  <2> QED  BY <1>0, <1>1, <2>1, <2>2 DEF Lower
<1>6. EmbargoWatched'
  <2>1. EmbargoWatched' <=> (up' => \A t \in Txs : Running(t)' => next_check' <= pool'[t].last)
    BY DEF EmbargoWatched, running, Running
  <2> QED  BY <1>5, <2>1
<1> QED  BY <1>2, <1>4, <1>6 DEF RelayInv

\* Every step keeps the invariant.
LEMMA WatchStep ==
  ASSUME RelayInv, calls \subseteq Calls, strand \subseteq Handlers, [Next]_vars
  PROVE  RelayInv'
<1>0. next_check \in Nat /\ pool \in [Txs -> {Absent, Mined} \cup Meta]  BY DEF RelayInv
<1>1. ASSUME UNCHANGED <<pool, next_check>>, up' => up  PROVE RelayInv'
  BY <1>0, <1>1, WatchKept
<1>2. CASE UNCHANGED vars  BY <1>1, <1>2 DEF vars
<1>3. ASSUME NEW t \in Txs, relay_tx(t)  PROVE RelayInv'  BY <1>1, <1>3 DEF relay_tx
<1>4. ASSUME NEW t \in Txs, take_tx(t)  PROVE RelayInv'
  <2>1. /\ pool' = [pool EXCEPT ![t] = Mined] /\ UNCHANGED <<next_check, up>>
    BY <1>4 DEF take_tx
  <2>2. /\ pool' \in [Txs -> {Absent, Mined} \cup Meta] /\ pool'[t] = Mined
        /\ \A u \in Txs \ {t} : pool'[u] = pool[u]
    BY <1>0, <2>1
  <2>3. ~ Running(t)'  BY <2>2 DEF Running, Mined
  <2> QED  BY <1>0, <2>1, <2>2, <2>3, WatchKept
<1>5. ASSUME NEW c \in calls, relay_transactions(c)  PROVE RelayInv'
  <2>1. c.tx \in Txs /\ up' = up  BY <1>5 DEF Calls, relay_transactions
  <2>2. \/ UNCHANGED <<pool, next_check>>
        \/ \E m \in {"local", "stem", "fluff"} : set_relayed(c.tx, m)
    BY <1>5 DEF relay_transactions, queue_stem, send_anonymously, no_anonymity_connection,
                send_fluff
  <2> QED  BY <1>1, <2>1, <2>2, SetRelayedWatched
<1>6. ASSUME NEW s \in strand, dandelionpp_stem(s) \/ dandelionpp_fluff(s)  PROVE RelayInv'
  <2>1. s.tx \in Txs /\ up' = up /\ \E m \in {"local", "stem", "fluff"} : set_relayed(s.tx, m)
    BY <1>6 DEF Handlers, dandelionpp_stem, dandelionpp_fluff
  <2> QED  BY <2>1, SetRelayedWatched
<1>7. CASE remove_stuck_transactions
  <2>1. /\ UNCHANGED <<next_check, up>>
        /\ pool' = [t \in Txs |-> IF t \in stuck THEN Absent ELSE pool[t]]
    BY <1>7 DEF remove_stuck_transactions
  <2>2. /\ pool' \in [Txs -> {Absent, Mined} \cup Meta]
        /\ \A t \in Txs : pool'[t] = pool[t] \/ pool'[t] = Absent
    BY <1>0, <2>1
  <2>3. \A t \in Txs : pool'[t] = pool[t] \/ ~ Running(t)'  BY <2>2 DEF Running, Absent
  <2> QED  BY <1>0, <2>1, <2>2, <2>3, WatchKept
<1>8. CASE Crash  BY <1>1, <1>8 DEF Crash
<1>9. CASE Restart
  <2>1. next_check' = 0 /\ pool' = pool  BY <1>9 DEF Restart
  <2>2. EmbargoWatched'
    <3>1. ASSUME NEW t \in Txs, Running(t)  PROVE 0 <= pool[t].last
      <4>1. pool[t] \in Meta  BY <1>0, <3>1 DEF Running, Absent, Mined
      <4> QED  BY <3>1, <4>1, MetaParts DEF Running
    <3> QED  BY <2>1, <3>1 DEF EmbargoWatched, running, Running
  <2> QED  BY <1>0, <2>1, <2>2 DEF RelayInv
<1> QED
  BY <1>2, <1>3, <1>4, <1>5, <1>6, <1>7, <1>8, <1>9, IncomingWatched, BlockWatched, OtherWatched,
     IdleWatched, TickWatched DEF Next

\* The requests are about transactions.
LEMMA CallsTyped ==
  ASSUME RelayInv, calls \subseteq Calls, strand \subseteq Handlers, [Next]_vars
  PROVE  calls' \subseteq Calls /\ strand' \subseteq Handlers
<1>1. CASE UNCHANGED vars  BY <1>1 DEF vars
<1>2. ASSUME NEW t \in Txs, NEW r \in {"none", "local", "forward", "stem", "fluff"},
             handle_incoming_tx(t, r)
      PROVE  calls' \subseteq Calls /\ strand' \subseteq Handlers
  <2> DEFINE method == detect_loop(t, r)
  <2>1. method \in {"none", "local", "forward", "stem", "fluff"}  BY DEF detect_loop
  <2>2. /\ strand' = strand
        /\ \/ calls' = calls
           \/ /\ method # "forward"
              /\ calls' = calls \cup {[tx |-> t, how |-> method] : m \in {method} \ {"none"}}
    BY <1>2 DEF handle_incoming_tx
  <2> HIDE DEF method
  <2> QED  BY <2>1, <2>2 DEF Calls
<1>3. ASSUME NEW t \in Txs, relay_tx(t) \/ take_tx(t) \/ add_tx_of_block(t)
      PROVE  calls' \subseteq Calls /\ strand' \subseteq Handlers
  BY <1>3 DEF relay_tx, take_tx, add_tx_of_block, Calls
<1>4. ASSUME NEW c \in calls, relay_transactions(c)
      PROVE  calls' \subseteq Calls /\ strand' \subseteq Handlers
  <2>1. /\ calls' = calls \ {c}
        /\ strand' = strand \/ (strand' = strand \cup {c} /\ c.how \in {"stem", "local"})
    BY <1>4 DEF relay_transactions, queue_stem, send_anonymously, no_anonymity_connection,
                send_fluff
  <2> QED  BY <2>1 DEF Calls, Handlers
<1>5. ASSUME NEW s \in strand, dandelionpp_stem(s) \/ dandelionpp_fluff(s)
      PROVE  calls' \subseteq Calls /\ strand' \subseteq Handlers
  <2>1. /\ calls' = calls
        /\ \/ strand' = strand \ {s}
           \/ strand' = (strand \ {s}) \cup {[s EXCEPT !.how = "failed"]}
    BY <1>5 DEF dandelionpp_stem, dandelionpp_fluff
  <2>2. [s EXCEPT !.how = "failed"] \in Handlers  BY DEF Handlers
  <2> QED  BY <2>1, <2>2
<1>6. CASE relay_txpool_transactions
  <2>1. /\ strand' = strand
        /\ calls' = calls \cup {[tx |-> t, how |-> rerelay(pool[t].relay)] : t \in relayable}
    BY <1>6 DEF relay_txpool_transactions
  <2>2. \A t : rerelay(pool[t].relay) \in {"local", "stem", "fluff"}  BY DEF rerelay
  <2>3. relayable \subseteq Txs  BY DEF relayable
  <2> QED  BY <2>1, <2>2, <2>3 DEF Calls
<1>7. CASE add_other_tx \/ remove_stuck_transactions \/ Tick \/ Crash \/ Restart
  BY <1>7 DEF add_other_tx, remove_stuck_transactions, Tick, Crash, Restart
<1> QED  BY <1>1, <1>2, <1>3, <1>4, <1>5, <1>6, <1>7 DEF Next

\* The next look at the pool never comes after the end of an embargo or of a
\* forward delay that is running, across crashes and restarts.
THEOREM EmbargoIsWatched == Spec => []EmbargoWatched
<1> DEFINE I == RelayInv /\ calls \subseteq Calls /\ strand \subseteq Handlers
<1>1. Init => I
  <2> SUFFICES ASSUME Init PROVE I  OBVIOUS
  <2>1. /\ pool = [t \in Txs |-> Absent] /\ next_check = 0 /\ calls = {} /\ strand = {}
    BY DEF Init
  <2>2. \A t \in Txs : pool[t].relay = "absent"  BY <2>1 DEF Absent
  <2> QED  BY <2>1, <2>2 DEF RelayInv, EmbargoWatched, running
<1>2. I /\ [Next]_vars => I'  BY WatchStep, CallsTyped
<1>3. I => EmbargoWatched  BY DEF RelayInv
<1> QED  BY <1>1, <1>2, <1>3, PTL DEF Spec

-----------------------------------------------------------------------------
(***************************************************************************)
(* Nothing expires unsent.                                                 *)
(***************************************************************************)

\* A request that speaks of t; one that ends the wait of t when it is served.
Pending(t) == \E c \in calls \cup strand : c.tx = t
Brought(t) == \E c \in calls \cup strand : c.tx = t /\ c.how # "local"

\* The wait of t is over before the pool stops relaying it: it is running, or
\* it is over and the next look comes in time.
Waits(t) ==
    /\ pool[t].last >= 0 /\ next_check <= pool[t].last
    /\ pool[t].age + pool[t].last + CHECK <= LIVETIME \div 2
LooksInTime(t) == pool[t].last <= 0 /\ pool[t].age + next_check <= LIVETIME \div 2

\* What holds of a forwarded transaction, of one in the stem phase, of any.
ForwardServed(t) ==
    pool[t].relay = "forward" =>
        pool[t].last # Never /\ (Brought(t) \/ Waits(t) \/ LooksInTime(t))
StemServed(t) ==
    pool[t].relay = "stem" /\ waits_in_time(pool[t]) =>
        Brought(t) \/ (pool[t].last >= 0 /\ next_check <= pool[t].last)
Served(t) ==
    InPool(t) /\ pool[t].relay # "none" => t \in sent \/ Pending(t) \/ pool[t].relay = "forward"

TxServed(t) == ForwardServed(t) /\ StemServed(t) /\ Served(t)

\* As long as the process has not died and the node's own transactions have one
\* network at most.
Regular == crashes = 0 /\ net # "two_anonymity"

ServedInv ==
    Regular => /\ up /\ expired = {} /\ next_check <= CHECK
               /\ \A t \in Txs : TxServed(t)

\* Every wait, and one more look at the pool, fit in the time in which the pool
\* relays a transaction: minutes against half of three days.
DelaysAreShort == \A d \in Delays : d + CHECK <= LIVETIME \div 2

\* The place of each method in relay_method.
LEMMA Ranks ==
  /\ Rank("none") = 1 /\ Rank("local") = 2 /\ Rank("forward") = 3
  /\ Rank("stem") = 4 /\ Rank("fluff") = 5 /\ Rank("block") = 6
<1>1. DOMAIN Methods = 1 .. 6  BY DEF Methods
<1>2. /\ Methods[1] = "none" /\ Methods[2] = "local" /\ Methods[3] = "forward"
      /\ Methods[4] = "stem" /\ Methods[5] = "fluff" /\ Methods[6] = "block"
  BY DEF Methods
<1>3. ASSUME NEW k \in 1 .. 6  PROVE Rank(Methods[k]) = k
  <2>1. \A i \in 1 .. 6 : Methods[i] = Methods[k] => i = k  BY <1>2
  <2>2. Rank(Methods[k]) = CHOOSE i \in 1 .. 6 : Methods[i] = Methods[k]  BY <1>1 DEF Rank
  <2> QED  BY <2>1, <2>2
<1> QED  BY <1>2, <1>3

\* The method after a relay.
LEMMA UpgradeTo ==
  ASSUME NEW m \in {"none", "local", "forward", "stem", "fluff", "block"}
  PROVE  /\ upgrade_relay_method(m, "stem") \in {"stem", "fluff", "block"}
         /\ upgrade_relay_method(m, "fluff") \in {"fluff", "block"}
         /\ upgrade_relay_method(m, "local") = "forward" => m = "forward"
         /\ upgrade_relay_method(m, "local") # "none"
  BY Ranks DEF upgrade_relay_method

\* A transaction that is left alone stays served while no request about it is
\* taken away and the next look is not put off.
LEMMA LeftAlone ==
  ASSUME RelayInv, NEW t \in Txs, TxServed(t), pool'[t] = pool[t],
         next_check' \in Nat, next_check' <= next_check,
         \A c \in calls \cup strand : c.tx = t => c \in calls' \cup strand',
         t \in sent => t \in sent'
  PROVE  TxServed(t)'
<1>1. Pending(t) => Pending(t)'  BY DEF Pending
<1>2. Brought(t) => Brought(t)'  BY DEF Brought
<1>3. next_check \in Nat /\ pool[t] \in {Absent, Mined} \cup Meta  BY DEF RelayInv
<1>4. ASSUME pool[t] \in Meta  PROVE pool[t].age \in Nat /\ pool[t].last \in Int \cup {Never}
  BY <1>4, MetaParts
<1>5. pool[t].relay \in {"forward", "stem"} => pool[t] \in Meta
  BY <1>3 DEF Absent, Mined
<1>6. LIVETIME \div 2 \in Int  BY ConstantsAssumption
<1>7. ForwardServed(t)'
  <2>1. SUFFICES ASSUME pool[t].relay = "forward"
                 PROVE  pool[t].last # Never /\ (Brought(t)' \/ Waits(t)' \/ LooksInTime(t)')
    BY DEF ForwardServed
  <2>2. pool[t].last # Never /\ (Brought(t) \/ Waits(t) \/ LooksInTime(t))
    BY <2>1 DEF TxServed, ForwardServed
  <2>3. pool[t].age \in Nat /\ pool[t].last \in Int  BY <1>4, <1>5, <2>1, <2>2
  <2>4. Waits(t) => Waits(t)'  BY <1>3, <2>3 DEF Waits
  <2>5. LooksInTime(t) => LooksInTime(t)'  BY <1>3, <1>6, <2>3 DEF LooksInTime
  <2> QED  BY <1>2, <2>2, <2>4, <2>5
<1>8. StemServed(t)'
  <2>1. SUFFICES ASSUME pool[t].relay = "stem", waits_in_time(pool[t])
                 PROVE  Brought(t)' \/ (pool[t].last >= 0 /\ next_check' <= pool[t].last)
    BY DEF StemServed
  <2>2. Brought(t) \/ (pool[t].last >= 0 /\ next_check <= pool[t].last)
    BY <2>1 DEF TxServed, StemServed
  <2>3. pool[t].last \in Int  BY <1>4, <1>5, <2>1 DEF waits_in_time
  <2> QED  BY <1>2, <1>3, <2>2, <2>3
<1>9. Served(t)'  BY <1>1 DEF TxServed, Served, InPool
<1> QED  BY <1>7, <1>8, <1>9 DEF TxServed

\* A transaction that is not in the pool needs nothing.
LEMMA GoneServed ==
  ASSUME NEW t \in Txs, pool'[t] \in {Absent, Mined}
  PROVE  TxServed(t)'
  BY DEF TxServed, ForwardServed, StemServed, Served, InPool, Absent, Mined

\* A relay that sends the transaction, or leaves the rest to another request.
LEMMA RelayServes ==
  ASSUME RelayInv, RelayInv', DelaysAreShort, NEW t \in Txs, NEW m \in {"local", "stem", "fluff"},
         set_relayed(t, m), InPool(t), TxServed(t), next_check <= CHECK,
         t \in sent' \/ Pending(t)',
         m = "local" => (Brought(t) => Brought(t)')
  PROVE  TxServed(t)'
<1> DEFINE r == upgrade_relay_method(pool[t].relay, m)
<1>0. next_check \in Nat /\ pool \in [Txs -> {Absent, Mined} \cup Meta] /\ pool[t] \in Meta
  BY DEF RelayInv, InPool
<1>1. pool[t].relay \in {"none", "local", "forward", "stem", "fluff", "block"} /\ pool[t].age \in Nat
      /\ pool[t].last \in Int \cup {Never}
  BY <1>0, MetaParts
<1>2. PICK d \in Delays \cup {0} :
           /\ pool' = [pool EXCEPT ![t].relay = r, ![t].last = d]
           /\ r = "stem" => next_check' = set_if_less(d) /\ d \in Delays
           /\ r # "stem" => d = 0 /\ next_check' = next_check
  BY DEF set_relayed
<1>3. d \in Nat  BY ConstantsAssumption
<1>4. m # "local" => r \in {"stem", "fluff", "block"}  BY <1>1, UpgradeTo
<1>5. m = "local" => (r = "forward" => pool[t].relay = "forward") /\ r # "none"
  BY <1>1, UpgradeTo
<1> HIDE DEF r
<1>6. pool'[t].relay = r /\ pool'[t].last = d /\ pool'[t].age = pool[t].age
  <2>1. pool'[t] = [pool[t] EXCEPT !.relay = r, !.last = d]  BY <1>0, <1>2
  <2> QED  BY <1>0, <2>1 DEF Meta
<1>7. next_check' \in Nat /\ next_check' <= next_check /\ (r = "stem" => next_check' <= d)
  BY <1>0, <1>2, <1>3, SetIfLess
<1>8. StemServed(t)'  BY <1>3, <1>6, <1>7 DEF StemServed
<1>9. Served(t)'  BY DEF Served
<1>10. ForwardServed(t)'
  <2>1. SUFFICES ASSUME r = "forward"
                 PROVE  pool'[t].last # Never /\ (Brought(t)' \/ Waits(t)' \/ LooksInTime(t)')
    BY <1>6 DEF ForwardServed
  <2>2. m = "local" /\ pool[t].relay = "forward" /\ d = 0 /\ next_check' = next_check
    BY <1>2, <1>4, <1>5, <2>1
  <2>3. pool[t].last # Never /\ (Brought(t) \/ Waits(t) \/ LooksInTime(t))
    BY <2>2 DEF TxServed, ForwardServed
  <2>4. CASE Brought(t)  BY <1>6, <2>2, <2>4, ConstantsAssumption
  <2>5. CASE Waits(t)
    <3>1. pool[t].last \in Int /\ CHECK \in Nat /\ LIVETIME \div 2 \in Int /\ Never \notin Int
      BY <1>1, <2>3, ConstantsAssumption
    <3>2. pool[t].age + CHECK <= LIVETIME \div 2  BY <1>1, <2>5, <3>1 DEF Waits
    <3>3. LooksInTime(t)'  BY <1>0, <1>1, <1>6, <2>2, <3>1, <3>2 DEF LooksInTime
    <3> QED  BY <1>6, <2>2, <3>1, <3>3
  <2>6. CASE LooksInTime(t)
    <3>1. LooksInTime(t)'  BY <1>6, <2>2, <2>6 DEF LooksInTime
    <3> QED  BY <1>6, <2>2, <3>1, ConstantsAssumption
  <2> QED  BY <2>3, <2>4, <2>5, <2>6
<1> QED  BY <1>8, <1>9, <1>10 DEF TxServed

\* The next look comes after the interval at the latest.
LEMMA IdleLooks ==
  ASSUME RelayInv, relay_txpool_transactions
  PROVE  next_check' <= CHECK
<1> DEFINE S == running \cup {CHECK}
<1>1. S \in SUBSET Nat /\ S # {}
  <2>1. ASSUME NEW t \in Txs, Running(t)  PROVE pool[t].last \in Nat
    <3>1. pool[t] \in Meta  BY <2>1 DEF RelayInv, Running, Absent, Mined
    <3> QED  BY <2>1, <3>1, MetaParts DEF Running
  <2>2. running \in SUBSET Nat  BY <2>1 DEF running, Running
  <2> QED  BY <2>2, ConstantsAssumption
<1>2. \E m \in S : \A k \in S : m <= k  BY <1>1, LeastNumber
<1>3. next_check' = CHOOSE n \in S : \A m \in S : n <= m  BY DEF relay_txpool_transactions
<1>4. CHECK \in S  OBVIOUS
<1> HIDE DEF S
<1> QED  BY <1>2, <1>3, <1>4

\* The idle task asks for every transaction whose wait is over.
LEMMA IdleServes ==
  ASSUME RelayInv, RelayInv', NEW t \in Txs, TxServed(t), relay_txpool_transactions
  PROVE  TxServed(t)'
<1>0. next_check = 0 /\ UNCHANGED <<pool, strand, sent>>  BY DEF relay_txpool_transactions
<1>1. calls' = calls \cup {[tx |-> u, how |-> rerelay(pool[u].relay)] : u \in relayable}
  BY DEF relay_txpool_transactions
<1>2. next_check' \in Nat /\ up /\ up' /\ EmbargoWatched'
  BY DEF RelayInv, relay_txpool_transactions
<1>3. Pending(t) => Pending(t)'  BY <1>0, <1>1 DEF Pending
<1>4. Brought(t) => Brought(t)'  BY <1>0, <1>1 DEF Brought
<1>5. t \in relayable /\ pool[t].relay \in {"forward", "stem"} => Brought(t)'
  <2> SUFFICES ASSUME t \in relayable, pool[t].relay \in {"forward", "stem"} PROVE Brought(t)'
    OBVIOUS
  <2> DEFINE c == [tx |-> t, how |-> rerelay(pool[t].relay)]
  <2>1. c \in calls'  BY <1>1
  <2>2. rerelay(pool[t].relay) # "local"  BY DEF rerelay
  <2>3. c.tx = t /\ c.how # "local"  BY <2>2
  <2> QED  BY <2>1, <2>3 DEF Brought
<1>6. pool[t].relay \in {"forward", "stem"} => pool[t] \in Meta
  BY DEF RelayInv, Absent, Mined
<1>7. LIVETIME \div 2 \in Int /\ CHECK \in Nat  BY ConstantsAssumption
<1>8. ASSUME pool[t].relay \in {"forward", "stem"}, pool[t].last # Never,
             pool[t].last <= 0, pool[t].age <= LIVETIME \div 2
      PROVE  t \in relayable
  <2>1. InPool(t)  BY <1>6, <1>8, MetaParts DEF InPool
  <2> QED  BY <1>8, <2>1 DEF relayable, due, livetime
<1>9. ASSUME pool[t].relay \in {"forward", "stem"}, pool[t].last # Never, pool[t].last > 0
      PROVE  next_check' <= pool[t].last
  <2>1. Running(t)'  BY <1>0, <1>9 DEF Running
  <2>2. EmbargoWatched' <=> (up' => \A u \in Txs : Running(u)' => next_check' <= pool'[u].last)
    BY DEF EmbargoWatched, running, Running
  <2> QED  BY <1>0, <1>2, <2>1, <2>2
<1>10. ForwardServed(t)'
  <2>1. SUFFICES ASSUME pool[t].relay = "forward"
                 PROVE  pool[t].last # Never /\ (Brought(t)' \/ Waits(t)' \/ LooksInTime(t)')
    BY <1>0 DEF ForwardServed
  <2>2. pool[t].last # Never /\ (Brought(t) \/ Waits(t) \/ LooksInTime(t))
    BY <2>1 DEF TxServed, ForwardServed
  <2>3. pool[t].age \in Nat /\ pool[t].last \in Int  BY <1>6, <2>1, <2>2, MetaParts
  <2>4. CASE Brought(t)  BY <1>4, <2>2, <2>4
  <2>5. CASE Waits(t) /\ pool[t].last > 0
    <3>1. next_check' <= pool[t].last  BY <1>9, <2>1, <2>2, <2>5
    <3>2. Waits(t)'  BY <1>0, <2>5, <3>1 DEF Waits
    <3> QED  BY <2>2, <3>2
  <2>6. CASE (Waits(t) \/ LooksInTime(t)) /\ ~ (pool[t].last > 0)
    <3>1. pool[t].last <= 0 /\ pool[t].age <= LIVETIME \div 2
      BY <1>0, <1>7, <2>3, <2>6 DEF Waits, LooksInTime
    <3> QED  BY <1>5, <1>8, <2>1, <2>2, <3>1
  <2>7. LooksInTime(t) => ~ (pool[t].last > 0)  BY <2>3 DEF LooksInTime
  <2> QED  BY <2>2, <2>4, <2>5, <2>6, <2>7
<1>11. StemServed(t)'
  <2>1. SUFFICES ASSUME pool[t].relay = "stem", waits_in_time(pool[t])
                 PROVE  Brought(t)' \/ (pool[t].last >= 0 /\ next_check' <= pool[t].last)
    BY <1>0 DEF StemServed
  <2>2. Brought(t) \/ (pool[t].last >= 0 /\ next_check <= pool[t].last)
    BY <2>1 DEF TxServed, StemServed
  <2>3. /\ pool[t].age \in Nat /\ pool[t].last \in Int /\ pool[t].last # Never
        /\ pool[t].age + pool[t].last <= LIVETIME \div 2
    BY <1>6, <2>1, MetaParts DEF waits_in_time
  <2>4. CASE Brought(t)  BY <1>4, <2>4
  <2>5. CASE pool[t].last > 0  BY <1>9, <2>1, <2>3, <2>5
  <2>6. CASE pool[t].last = 0
    <3>1. pool[t].age <= LIVETIME \div 2  BY <2>3, <2>6
    <3> QED  BY <1>5, <1>8, <2>1, <2>3, <2>6, <3>1
  <2> QED  BY <2>2, <2>3, <2>4, <2>5, <2>6
<1>12. Served(t)'  BY <1>0, <1>3 DEF TxServed, Served, InPool
<1> QED  BY <1>10, <1>11, <1>12 DEF TxServed

\* Time passes only when no request is left, and never past the next look.
LEMMA TickServes ==
  ASSUME RelayInv, RelayInv', NEW t \in Txs, TxServed(t), Tick, up
  PROVE  TxServed(t)'
<1>0. /\ calls = {} /\ strand = {} /\ next_check > 0 /\ stuck = {}
      /\ UNCHANGED <<calls, strand, sent>> /\ next_check' = Lower(next_check, 0)
  BY DEF Tick
<1>1. ~ Brought(t) /\ ~ Pending(t)  BY <1>0 DEF Brought, Pending
<1>2. next_check \in Nat /\ pool[t] \in {Absent, Mined} \cup Meta  BY DEF RelayInv
<1>3. CASE ~ InPool(t)
  <2>1. pool'[t] = pool[t] /\ pool[t] \in {Absent, Mined}  BY <1>3 DEF Tick, InPool
  <2> QED  BY <2>1, GoneServed
<1>4. CASE InPool(t)
  <2> DEFINE m == pool[t]
             age == IF m.age > ALT_LIVETIME THEN m.age ELSE m.age + 1
             last == IF m.last = Never THEN Never ELSE Lower(m.last, -(ALT_LIVETIME + 1))
  <2>1. m \in Meta  BY <1>2, <1>4 DEF InPool
  <2>2. pool'[t] = [m EXCEPT !.age = age, !.last = last]  BY <1>4 DEF Tick
  <2>3. m.age \in Nat /\ m.last \in Int \cup {Never}  BY <2>1, MetaParts
  <2>4. pool'[t].relay = m.relay /\ pool'[t].age = age /\ pool'[t].last = last
    <3> HIDE DEF age, last, m
    <3> QED  BY <2>1, <2>2 DEF Meta
  <2>5. /\ ALT_LIVETIME \in Nat /\ LIVETIME \in Nat /\ LIVETIME <= ALT_LIVETIME /\ CHECK \in Nat
        /\ LIVETIME \div 2 \in Int /\ Never \notin Int
    BY ConstantsAssumption
  <2>6. next_check' = next_check - 1  BY <1>0, <1>2 DEF Lower
  <2>7. m.relay # "block" => m.age <= LIVETIME
    <3>1. t \notin stuck  BY <1>0
    <3> QED  BY <1>4, <2>3, <2>5, <3>1 DEF stuck, livetime
  <2>8. m.relay # "block" => age = m.age + 1  BY <2>3, <2>5, <2>7
  <2>9. m.last # Never /\ m.last > -(ALT_LIVETIME + 1) => last = m.last - 1
    BY <2>3, <2>5 DEF Lower
  <2>10. m.last # Never => last # Never /\ last \in Int /\ (m.last <= 0 => last <= 0)
                           /\ last >= m.last - 1
    BY <2>3, <2>5 DEF Lower
  <2>11. m.last = Never => last = Never  OBVIOUS
  <2> HIDE DEF age, last
  <2>12. ForwardServed(t)'
    <3>1. SUFFICES ASSUME m.relay = "forward"
                   PROVE  last # Never /\ (Waits(t)' \/ LooksInTime(t)')
      BY <2>4 DEF ForwardServed
    <3>2. m.last # Never /\ (Waits(t) \/ LooksInTime(t))
      BY <1>1, <3>1 DEF TxServed, ForwardServed
    <3>3. CASE Waits(t)
      <4>1. m.last >= 0 /\ next_check <= m.last /\ m.age + m.last + CHECK <= LIVETIME \div 2
        BY <3>3 DEF Waits
      <4>2. last = m.last - 1 /\ age = m.age + 1  BY <2>3, <2>5, <2>8, <2>9, <3>1, <3>2, <4>1
      <4>3. /\ last >= 0 /\ next_check' <= last /\ age + last + CHECK <= LIVETIME \div 2
        BY <1>0, <1>2, <2>3, <2>5, <2>6, <3>2, <4>1, <4>2
      <4> QED  BY <2>4, <2>10, <3>2, <4>3 DEF Waits
    <3>4. CASE LooksInTime(t)
      <4>1. m.last <= 0 /\ m.age + next_check <= LIVETIME \div 2  BY <3>4 DEF LooksInTime
      <4>2. last <= 0 /\ age + next_check' <= LIVETIME \div 2
        BY <1>2, <2>3, <2>5, <2>6, <2>8, <2>10, <3>1, <3>2, <4>1
      <4> QED  BY <2>4, <2>10, <3>2, <4>2 DEF LooksInTime
    <3> QED  BY <3>2, <3>3, <3>4
  <2>13. StemServed(t)'
    <3>1. SUFFICES ASSUME m.relay = "stem", last # Never, age + last <= LIVETIME \div 2
                   PROVE  last >= 0 /\ next_check' <= last
      BY <2>4 DEF StemServed, waits_in_time
    <3>2. m.last # Never /\ m.last \in Int /\ age = m.age + 1
      BY <2>3, <2>8, <2>11, <3>1
    <3>3. m.age + m.last <= LIVETIME \div 2  BY <2>3, <2>5, <2>10, <3>1, <3>2
    <3>4. m.last >= 0 /\ next_check <= m.last
      BY <1>1, <3>1, <3>2, <3>3 DEF TxServed, StemServed, waits_in_time
    <3> QED  BY <1>0, <1>2, <2>3, <2>5, <2>6, <2>9, <3>2, <3>4
  <2>14. Served(t)'
    <3>1. m.relay # "none" => t \in sent \/ m.relay = "forward"
      BY <1>1, <1>4 DEF TxServed, Served
    <3> QED  BY <1>0, <2>4, <3>1 DEF Served
  <2> QED  BY <2>12, <2>13, <2>14 DEF TxServed
<1> QED  BY <1>3, <1>4

\* A transaction that is stored: with a request, forwarded, or in a block.
LEMMA StoredServed ==
  ASSUME RelayInv, RelayInv', DelaysAreShort, NEW t \in Txs, NEW m, NEW last,
         pool'[t] = [relay |-> m, age |-> 0, last |-> last], next_check' <= CHECK,
         \/ m \in {"local", "stem", "fluff", "block"} /\ last \in {Never, 0}
            /\ (m = "stem" => last = Never) /\ (t \in sent' \/ Pending(t)')
         \/ m = "none"
         \/ m = "forward" /\ last \in Delays /\ next_check' <= last
  PROVE  TxServed(t)'
<1>0. pool'[t].relay = m /\ pool'[t].age = 0 /\ pool'[t].last = last  OBVIOUS
<1>1. CASE m = "forward"
  <2>1. last \in Nat /\ last # Never /\ last + CHECK <= LIVETIME \div 2 /\ next_check' <= last
        /\ CHECK \in Nat
    <3>1. last \in Delays /\ next_check' <= last  BY <1>1
    <3> QED  BY <3>1, ConstantsAssumption DEF DelaysAreShort
  <2>2. Waits(t)'  BY <1>0, <2>1 DEF Waits
  <2>3. ForwardServed(t)' /\ StemServed(t)' /\ Served(t)'
    BY <1>0, <1>1, <2>1, <2>2 DEF ForwardServed, StemServed, Served
  <2> QED  BY <2>3 DEF TxServed
<1>2. CASE m = "none"
  BY <1>0, <1>2 DEF TxServed, ForwardServed, StemServed, Served
<1>3. CASE m \in {"local", "stem", "fluff", "block"}
  <2>1. m = "stem" => last = Never  BY <1>3
  <2>2. ForwardServed(t)' /\ StemServed(t)'
    BY <1>0, <1>3, <2>1 DEF ForwardServed, StemServed, waits_in_time
  <2>3. Served(t)'  BY <1>3 DEF Served
  <2> QED  BY <2>2, <2>3 DEF TxServed
<1> QED  BY <1>1, <1>2, <1>3

\* What comes in is asked for, or waits, or is not to be relayed.
LEMMA IncomingServes ==
  ASSUME RelayInv, RelayInv', DelaysAreShort, NEW t \in Txs, next_check <= CHECK,
         NEW r \in {"none", "local", "forward", "stem", "fluff"}, handle_incoming_tx(t, r),
         \A u \in Txs : TxServed(u)
  PROVE  next_check' <= CHECK /\ \A u \in Txs : TxServed(u)'
<1> DEFINE method == detect_loop(t, r)
<1>0. /\ next_check \in Nat /\ next_check' \in Nat /\ CHECK \in Nat /\ strand' = strand
  BY ConstantsAssumption DEF RelayInv, handle_incoming_tx
<1>1. method \in {"none", "local", "forward", "stem", "fluff"}  BY DEF detect_loop
<1>2. CASE method = "forward"
  <2>1. PICK d \in Delays :
           /\ add_tx(t, method, d, sent) /\ calls' = calls
           /\ next_check' = IF stores(t, method) THEN set_if_less(d) ELSE next_check
    BY <1>2 DEF handle_incoming_tx
  <2>2. d \in Nat  BY ConstantsAssumption
  <2> HIDE DEF method
  <2>3. /\ next_check' <= next_check /\ next_check' <= CHECK
        /\ stores(t, method) => next_check' <= d
    BY <1>0, <2>1, <2>2, SetIfLess
  <2>4. /\ \A u \in Txs : \/ pool'[u] = Absent
                          \/ pool'[u] = pool[u]
                          \/ /\ u = t /\ stores(t, method)
                             /\ pool'[u] = [relay |-> method, age |-> 0, last |-> d]
        /\ \A u \in Txs : pool'[u] # Absent /\ u \in sent => u \in sent'
    <3>1. Added(t, method, d, sent)  BY <1>1, <2>1, <2>2, AddTx
    <3> QED  BY <3>1 DEF Added
  <2>5. ASSUME NEW u \in Txs, pool'[u] = pool[u], pool'[u] # Absent  PROVE TxServed(u)'
    BY <1>0, <2>1, <2>3, <2>4, <2>5, LeftAlone
  <2>6. ASSUME stores(t, method), pool'[t] = [relay |-> method, age |-> 0, last |-> d]
        PROVE  TxServed(t)'
    BY <1>2, <2>1, <2>3, <2>6, StoredServed
  <2> QED  BY <2>3, <2>4, <2>5, <2>6, GoneServed
<1>3. CASE method # "forward"
  <2>1. /\ add_tx(t, method, Never, sent) /\ next_check' = next_check
        /\ calls' = calls \cup {[tx |-> t, how |-> method] : x \in {method} \ {"none"}}
    BY <1>3 DEF handle_incoming_tx
  <2> HIDE DEF method
  <2>2. /\ \A u \in Txs : \/ pool'[u] = Absent
                          \/ pool'[u] = pool[u]
                          \/ u = t /\ pool'[u] = [relay |-> method, age |-> 0, last |-> Never]
        /\ \A u \in Txs : pool'[u] # Absent /\ u \in sent => u \in sent'
    <3>1. Added(t, method, Never, sent)  BY <1>1, <2>1, AddTx
    <3> QED  BY <3>1 DEF Added
  <2>3. method # "none" => Pending(t)'
    <3> DEFINE c == [tx |-> t, how |-> method]
    <3>1. method # "none" => c \in calls'  BY <2>1
    <3>2. c.tx = t  OBVIOUS
    <3> QED  BY <3>1, <3>2 DEF Pending
  <2>4. ASSUME NEW u \in Txs, pool'[u] = pool[u], pool'[u] # Absent  PROVE TxServed(u)'
    BY <1>0, <2>1, <2>2, <2>4, LeftAlone
  <2>5. ASSUME pool'[t] = [relay |-> method, age |-> 0, last |-> Never]  PROVE TxServed(t)'
    BY <1>1, <1>3, <2>1, <2>3, <2>5, StoredServed
  <2> QED  BY <2>1, <2>2, <2>4, <2>5, GoneServed
<1> QED  BY <1>2, <1>3

\* set_relayed touches one transaction and does not put the next look off.
LEMMA RelayTouches ==
  ASSUME RelayInv, NEW t \in Txs, NEW m, set_relayed(t, m)
  PROVE  /\ \A u \in Txs \ {t} : pool'[u] = pool[u]
         /\ ~ InPool(t) => pool'[t] = pool[t]
         /\ next_check' \in Nat /\ next_check' <= next_check
<1>0. next_check \in Nat /\ pool \in [Txs -> {Absent, Mined} \cup Meta]  BY DEF RelayInv
<1>1. CASE ~ InPool(t)  BY <1>0, <1>1 DEF set_relayed
<1>2. CASE InPool(t)
  <2> DEFINE r == upgrade_relay_method(pool[t].relay, m)
  <2>1. PICK d \in Delays \cup {0} :
           /\ pool' = [pool EXCEPT ![t].relay = r, ![t].last = d]
           /\ next_check' = set_if_less(d) \/ next_check' = next_check
    BY <1>2 DEF set_relayed
  <2>2. d \in Nat  BY ConstantsAssumption
  <2>3. \A u \in Txs \ {t} : pool'[u] = pool[u]  BY <1>0, <2>1
  <2> QED  BY <1>0, <1>2, <2>1, <2>2, <2>3, SetIfLess
<1> QED  BY <1>1, <1>2

\* A request is served: it goes on to the strand, or sends.
LEMMA RequestServes ==
  ASSUME RelayInv, RelayInv', DelaysAreShort, NEW t \in Txs, NEW m \in {"local", "stem", "fluff"},
         set_relayed(t, m), next_check <= CHECK, \A u \in Txs : TxServed(u),
         \A c \in calls \cup strand : c.tx # t => c \in calls' \cup strand',
         sent \subseteq sent',
         InPool(t) => t \in sent' \/ Pending(t)',
         m = "local" => (Brought(t) => Brought(t)')
  PROVE  next_check' <= CHECK /\ \A u \in Txs : TxServed(u)'
<1>0. next_check \in Nat /\ next_check' \in Nat /\ CHECK \in Nat
  BY ConstantsAssumption DEF RelayInv
<1>1. /\ \A u \in Txs \ {t} : pool'[u] = pool[u]
      /\ ~ InPool(t) => pool'[t] = pool[t]
      /\ next_check' <= next_check
  BY RelayTouches
<1>2. ASSUME NEW u \in Txs \ {t}  PROVE TxServed(u)'
  BY <1>0, <1>1, LeftAlone
<1>3. CASE InPool(t)  BY <1>0, <1>1, <1>2, <1>3, RelayServes
<1>4. CASE ~ InPool(t)
  <2>1. pool'[t] \in {Absent, Mined}  BY <1>1, <1>4 DEF InPool
  <2> QED  BY <1>0, <1>1, <1>2, <2>1, GoneServed
<1> QED  BY <1>3, <1>4

\* relay_transactions.
LEMMA CallServes ==
  ASSUME RelayInv, RelayInv', DelaysAreShort, calls \subseteq Calls, Regular, next_check <= CHECK,
         \A u \in Txs : TxServed(u), NEW c \in calls, relay_transactions(c)
  PROVE  next_check' <= CHECK /\ \A u \in Txs : TxServed(u)'
<1> DEFINE t == c.tx
<1>0. t \in Txs /\ calls' = calls \ {c}  BY DEF Calls, relay_transactions
<1>1. CASE queue_stem(c)
  <2>1. calls' \cup strand' = calls \cup strand /\ UNCHANGED <<pool, next_check, sent>>
    BY <1>0, <1>1 DEF queue_stem
  <2>2. next_check \in Nat  BY DEF RelayInv
  <2> QED  BY <2>1, <2>2, LeftAlone
<1>2. CASE send_anonymously(c) \/ send_fluff(c)
  <2>1. PICK m \in {"local", "stem", "fluff"} :
           set_relayed(t, m) /\ (m = "local" => c.how = "local")
    BY <1>2 DEF send_anonymously, send_fluff
  <2>2. strand' = strand /\ sent' = sent \cup pooled(t)
    BY <1>2 DEF send_anonymously, send_fluff
  <2>3. InPool(t) => t \in sent'  BY <1>0, <2>2 DEF pooled
  <2>4. \A d \in calls \cup strand : d # c => d \in calls' \cup strand'  BY <1>0, <2>2
  <2>5. m = "local" => (Brought(t) => Brought(t)')  BY <2>1, <2>4 DEF Brought
  <2>6. sent \subseteq sent'  BY <2>2
  <2> HIDE DEF t
  <2>7. \A d \in calls \cup strand : d.tx # t => d \in calls' \cup strand'  BY <2>4 DEF t
  <2> QED  BY <1>0, <2>1, <2>3, <2>5, <2>6, <2>7, RequestServes
<1>3. ~ no_anonymity_connection(c)  BY DEF no_anonymity_connection, Regular
<1> QED  BY <1>1, <1>2, <1>3 DEF relay_transactions

\* The handler on the strand.
LEMMA HandlerServes ==
  ASSUME RelayInv, RelayInv', DelaysAreShort, strand \subseteq Handlers, next_check <= CHECK,
         \A u \in Txs : TxServed(u), NEW s \in strand, dandelionpp_stem(s) \/ dandelionpp_fluff(s)
  PROVE  next_check' <= CHECK /\ \A u \in Txs : TxServed(u)'
<1> DEFINE t == s.tx
           failed == [s EXCEPT !.how = "failed"]
<1>0. t \in Txs /\ calls' = calls  BY DEF Handlers, dandelionpp_stem, dandelionpp_fluff
<1>1. PICK m \in {"stem", "fluff"} : set_relayed(t, m)  BY DEF dandelionpp_stem, dandelionpp_fluff
<1>2. \/ strand' = strand \ {s} /\ sent' = sent \cup pooled(t)
      \/ strand' = (strand \ {s}) \cup {failed} /\ sent' = sent
  BY DEF dandelionpp_stem, dandelionpp_fluff
<1>3. failed.tx = t  BY DEF Handlers
<1>4. InPool(t) => t \in sent' \/ Pending(t)'
  <2>1. CASE sent' = sent \cup pooled(t)  BY <1>0, <2>1 DEF pooled
  <2>2. CASE failed \in strand'
    <3> HIDE DEF failed
    <3> QED  BY <1>3, <2>2 DEF Pending
  <2> QED  BY <1>2, <2>1, <2>2
<1>5. \A d \in calls \cup strand : d.tx # t => d \in calls' \cup strand'  BY <1>0, <1>2
<1>6. sent \subseteq sent'  BY <1>2
<1> HIDE DEF t
<1> QED  BY <1>0, <1>1, <1>4, <1>5, <1>6, RequestServes

\* What is too old was sent, and its wait, if it has one, did not end in time.
LEMMA StuckServes ==
  ASSUME RelayInv, RelayInv', up, expired = {}, \A u \in Txs : TxServed(u),
         remove_stuck_transactions
  PROVE  expired' = {} /\ \A u \in Txs : TxServed(u)'
<1>0. /\ pool' = [t \in Txs |-> IF t \in stuck THEN Absent ELSE pool[t]]
      /\ UNCHANGED <<next_check, calls, strand>> /\ sent' = sent \ stuck
      /\ expired' = expired \cup
           {t \in stuck : /\ pool[t].relay # "none"
                          /\ \A c \in calls \cup strand : c.tx # t
                          /\ t \notin sent \/ waits_in_time(pool[t])}
  BY DEF remove_stuck_transactions
<1>1. next_check \in Nat /\ LIVETIME \in Nat /\ CHECK \in Nat  BY ConstantsAssumption DEF RelayInv
<1>2. ASSUME NEW t \in stuck, pool[t].relay # "none", \A c \in calls \cup strand : c.tx # t,
             t \notin sent \/ waits_in_time(pool[t])
      PROVE  FALSE
  <2>1. t \in Txs /\ InPool(t) /\ pool[t].age > livetime(pool[t])  BY DEF stuck
  <2>2. pool[t] \in Meta /\ TxServed(t)  BY <2>1 DEF RelayInv, InPool
  <2>3. ~ Pending(t) /\ ~ Brought(t)  BY <1>2 DEF Pending, Brought
  <2>4. pool[t].relay \in {"forward", "stem"}
    BY <1>2, <2>1, <2>2, <2>3 DEF TxServed, Served, waits_in_time
  <2>5. pool[t].age > LIVETIME  BY <2>1, <2>4 DEF livetime
  <2>6. pool[t].age \in Nat /\ pool[t].last \in Int \cup {Never}  BY <2>2, MetaParts
  <2>7. CASE pool[t].relay = "forward"
    <3>1. pool[t].last # Never /\ (Waits(t) \/ LooksInTime(t))
      BY <2>2, <2>3, <2>7 DEF TxServed, ForwardServed
    <3> QED  BY <1>1, <2>5, <2>6, <3>1 DEF Waits, LooksInTime
  <2>8. CASE pool[t].relay = "stem"
    <3>1. waits_in_time(pool[t])  BY <1>2, <2>1, <2>2, <2>3, <2>8 DEF TxServed, Served
    <3>2. pool[t].last >= 0  BY <2>2, <2>3, <2>8, <3>1 DEF TxServed, StemServed
    <3>3. pool[t].age + pool[t].last <= LIVETIME \div 2 /\ pool[t].last \in Int
      BY <2>6, <3>1 DEF waits_in_time
    <3> QED  BY <1>1, <2>5, <2>6, <3>2, <3>3
  <2> QED  BY <2>4, <2>7, <2>8
<1>3. expired' = {}  BY <1>0, <1>2
<1>4. ASSUME NEW u \in Txs  PROVE TxServed(u)'
  <2>1. CASE u \in stuck  BY <1>0, <2>1, GoneServed
  <2>2. CASE u \notin stuck  BY <1>0, <1>1, <2>2, LeftAlone
  <2> QED  BY <2>1, <2>2
<1> QED  BY <1>3, <1>4

LEMMA ServedStep ==
  ASSUME RelayInv, RelayInv', DelaysAreShort, calls \subseteq Calls, strand \subseteq Handlers,
         crashes \in Nat, ServedInv, [Next]_vars
  PROVE  ServedInv'
<1> SUFFICES ASSUME Regular'
             PROVE  (up /\ expired = {} /\ next_check <= CHECK /\ \A t \in Txs : TxServed(t))'
  BY DEF ServedInv
<1>0. next_check \in Nat /\ next_check' \in Nat /\ CHECK \in Nat
  BY ConstantsAssumption DEF RelayInv
<1>1. Regular /\ ~ Crash
  <2>1. CASE Crash
    <3>1. crashes' = crashes + 1  BY <2>1 DEF Crash
    <3> QED  BY <3>1 DEF Regular
  <2>2. CASE ~ Crash
    <3>1. UNCHANGED <<crashes, net>>
      BY <2>2 DEF Next, vars, handle_incoming_tx, relay_tx, take_tx, add_tx_of_block, add_other_tx,
           relay_transactions, dandelionpp_stem, dandelionpp_fluff, relay_txpool_transactions,
           remove_stuck_transactions, Tick, Restart
    <3> QED  BY <2>2, <3>1 DEF Regular
  <2> QED  BY <2>1, <2>2
<1>2. up /\ expired = {} /\ next_check <= CHECK /\ \A t \in Txs : TxServed(t)
  BY <1>1 DEF ServedInv
<1>3. ~ Restart  BY <1>2 DEF Restart
<1>4. CASE UNCHANGED vars
  <2>1. UNCHANGED <<pool, next_check, calls, strand, sent, up, expired>>  BY <1>4 DEF vars
  <2> QED  BY <1>0, <1>2, <2>1, LeftAlone
<1>5. ASSUME NEW t \in Txs, NEW r \in {"none", "local", "forward", "stem", "fluff"},
             handle_incoming_tx(t, r)
      PROVE  (up /\ expired = {} /\ next_check <= CHECK /\ \A u \in Txs : TxServed(u))'
  <2>1. UNCHANGED <<up, expired>>  BY <1>5 DEF handle_incoming_tx
  <2> QED  BY <1>2, <1>5, <2>1, IncomingServes
<1>6. ASSUME NEW t \in Txs, relay_tx(t)
      PROVE  (up /\ expired = {} /\ next_check <= CHECK /\ \A u \in Txs : TxServed(u))'
  <2>1. UNCHANGED <<up, expired, pool, next_check, strand, sent>> /\ calls \subseteq calls'
    BY <1>6 DEF relay_tx
  <2> QED  BY <1>0, <1>2, <2>1, LeftAlone
<1>7. ASSUME NEW t \in Txs, take_tx(t)
      PROVE  (up /\ expired = {} /\ next_check <= CHECK /\ \A u \in Txs : TxServed(u))'
  <2>1. /\ UNCHANGED <<up, expired, next_check, calls, strand, sent>>
        /\ pool' = [pool EXCEPT ![t] = Mined]
    BY <1>7 DEF take_tx
  <2>2. \A u \in Txs : pool'[u] = pool[u] \/ pool'[u] = Mined  BY <2>1 DEF RelayInv
  <2>3. ASSUME NEW u \in Txs  PROVE TxServed(u)'
    BY <1>0, <1>2, <2>1, <2>2, LeftAlone, GoneServed
  <2> QED  BY <1>2, <2>1, <2>3
<1>8. ASSUME NEW t \in Txs, add_tx_of_block(t)
      PROVE  (up /\ expired = {} /\ next_check <= CHECK /\ \A u \in Txs : TxServed(u))'
  <2>1. UNCHANGED <<up, expired, next_check, calls, strand>>
    BY <1>8 DEF add_tx_of_block
  <2>2. PICK last \in {Never, 0} : add_tx(t, "block", last, sent \cup {t})
    BY <1>8 DEF add_tx_of_block
  <2>3. /\ \A u \in Txs : \/ pool'[u] = Absent
                          \/ pool'[u] = pool[u]
                          \/ u = t /\ pool'[u] = [relay |-> "block", age |-> 0, last |-> last]
        /\ \A u \in Txs : pool'[u] # Absent /\ u \in sent \cup {t} => u \in sent'
    <3> DEFINE told == sent \cup {t}
               m == "block"
    <3>1. /\ add_tx(t, m, last, told) /\ last \in Int \cup {Never}
          /\ m \in {"none", "local", "forward", "stem", "fluff", "block"}
      BY <2>2
    <3> HIDE DEF told, m
    <3>2. Added(t, m, last, told)  BY <3>1, AddTx
    <3> QED  BY <3>2 DEF Added, told, m
  <2>4. ASSUME NEW u \in Txs, pool'[u] = pool[u], pool'[u] # Absent  PROVE TxServed(u)'
    BY <1>0, <1>2, <2>1, <2>3, <2>4, LeftAlone
  <2>5. ASSUME pool'[t] = [relay |-> "block", age |-> 0, last |-> last], pool'[t] # Absent
        PROVE  TxServed(t)'
    BY <1>2, <2>1, <2>3, <2>5, StoredServed
  <2> QED  BY <1>2, <2>1, <2>3, <2>4, <2>5, GoneServed
<1>14. CASE add_other_tx
  <2>1. /\ UNCHANGED <<up, expired, next_check, calls, strand>> /\ prune(pool, sent)
        /\ pool \in [Txs -> {Absent, Mined} \cup Meta]
    BY <1>14 DEF add_other_tx, RelayInv
  <2>2. /\ \A u \in Txs : pool'[u] = pool[u] \/ pool'[u] = Absent
        /\ \A u \in Txs : pool'[u] # Absent /\ u \in sent => u \in sent'
    BY <2>1, Prunes
  <2>3. ASSUME NEW u \in Txs  PROVE TxServed(u)'
    <3>1. CASE pool'[u] = Absent  BY <3>1, GoneServed
    <3>2. CASE pool'[u] # Absent  BY <1>0, <1>2, <2>1, <2>2, <3>2, LeftAlone
    <3> QED  BY <3>1, <3>2
  <2> QED  BY <1>2, <2>1, <2>3
<1>9. ASSUME NEW c \in calls, relay_transactions(c)
      PROVE  (up /\ expired = {} /\ next_check <= CHECK /\ \A u \in Txs : TxServed(u))'
  <2>1. UNCHANGED <<up, expired>>  BY <1>9 DEF relay_transactions
  <2> QED  BY <1>1, <1>2, <1>9, <2>1, CallServes
<1>10. ASSUME NEW s \in strand, dandelionpp_stem(s) \/ dandelionpp_fluff(s)
       PROVE  (up /\ expired = {} /\ next_check <= CHECK /\ \A u \in Txs : TxServed(u))'
  <2>1. UNCHANGED <<up, expired>>  BY <1>10 DEF dandelionpp_stem, dandelionpp_fluff
  <2> QED  BY <1>2, <1>10, <2>1, HandlerServes
<1>11. CASE relay_txpool_transactions
  <2>1. UNCHANGED <<up, expired>>  BY <1>11 DEF relay_txpool_transactions
  <2>2. next_check' <= CHECK  BY <1>11, IdleLooks
  <2> QED  BY <1>2, <1>11, <2>1, <2>2, IdleServes
<1>12. CASE remove_stuck_transactions
  <2>1. UNCHANGED <<up, next_check>>  BY <1>12 DEF remove_stuck_transactions
  <2> QED  BY <1>2, <1>12, <2>1, StuckServes
<1>13. CASE Tick
  <2>1. UNCHANGED <<up, expired>> /\ next_check' = Lower(next_check, 0)  BY <1>13 DEF Tick
  <2>2. next_check' <= CHECK  BY <1>0, <1>2, <2>1 DEF Lower
  <2> QED  BY <1>2, <1>13, <2>1, <2>2, TickServes
<1> QED
  BY <1>1, <1>3, <1>4, <1>5, <1>6, <1>7, <1>8, <1>9, <1>10, <1>11, <1>12, <1>13, <1>14 DEF Next

\* No transaction that is to be relayed grows too old in the pool while nobody
\* but the first hop could know of it, as long as the process does not die and
\* the node's own transactions have one network at most: whatever the peers
\* do, for any number of transactions and submissions.  The hypothesis says that a
\* wait and one more look fit in half of a transaction's life.
THEOREM NothingExpires ==
  ASSUME DelaysAreShort
  PROVE  Spec => []NothingExpiresUnsent
<1> DEFINE I == RelayInv /\ calls \subseteq Calls /\ strand \subseteq Handlers
           J == crashes \in Nat /\ ServedInv
<1>1. Init => I /\ J
  <2> SUFFICES ASSUME Init PROVE I /\ J  OBVIOUS
  <2>1. /\ pool = [t \in Txs |-> Absent] /\ next_check = 0 /\ calls = {} /\ strand = {}
        /\ crashes = 0 /\ expired = {} /\ up
    BY DEF Init
  <2>2. \A t \in Txs : pool[t] = Absent /\ pool[t].relay = "absent"  BY <2>1 DEF Absent
  <2>3. I  BY <2>1, <2>2 DEF RelayInv, EmbargoWatched, running
  <2>4. \A t \in Txs : TxServed(t)
    BY <2>2 DEF TxServed, ForwardServed, StemServed, Served, InPool
  <2>5. 0 <= CHECK  BY ConstantsAssumption
  <2> QED  BY <2>1, <2>3, <2>4, <2>5 DEF ServedInv
<1>2. I /\ [Next]_vars => I'  BY WatchStep, CallsTyped
<1>3. [Next]_vars => crashes' = crashes \/ crashes' = crashes + 1
  BY DEF Next, vars, handle_incoming_tx, relay_tx, take_tx, add_tx_of_block, add_other_tx,
         relay_transactions, dandelionpp_stem, dandelionpp_fluff, relay_txpool_transactions,
         remove_stuck_transactions, Tick, Restart, Crash
<1>4. I /\ J /\ I' /\ [Next]_vars => J'  BY <1>3, ServedStep
<1>5. J => NothingExpiresUnsent  BY DEF ServedInv, Regular, NothingExpiresUnsent
<1> HIDE DEF I, J
<1> QED  BY <1>1, <1>2, <1>4, <1>5, PTL DEF Spec
=============================================================================
