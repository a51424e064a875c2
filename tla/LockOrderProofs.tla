-------------------------- MODULE LockOrderProofs ---------------------------
(***************************************************************************)
(* The lock order for any number of threads.  What a thread holds is the   *)
(* state of a small automaton that its events drive; an operation is safe  *)
(* if there is a path of the automaton along its events, and paths are     *)
(* composed as the operations are: one after the other, or inside a lock.  *)
(* update_checkpoints is left out: it takes the lock of the chain first,   *)
(* and then has no path.                                                   *)
(***************************************************************************)
EXTENDS LockOrder, SequenceTheorems, TLAPS

Event == {lock(m) : m \in Mutex} \cup {unlock(m) : m \in Mutex}
         \cup {txn, batch_start, batch_try, batch_stop}

\* What a thread holds: how often each mutex, and whether the batch is its own.
Held == [count : [Mutex -> Nat], own : BOOLEAN]

Nothing == [count |-> [m \in Mutex |-> 0], own |-> FALSE]

took(g, m) == [count |-> [g.count EXCEPT ![m] = @ + 1], own |-> g.own]
owning(g, o) == [count |-> g.count, own |-> o]

\* The order is incoming, pool, chain.
MayLock(g, m) ==
    /\ m = "pool" => g.count["chain"] = 0 \/ g.count["pool"] > 0
    /\ m = "incoming" => g.count["incoming"] > 0 \/ (g.count["pool"] = 0 /\ g.count["chain"] = 0)

\* The event e takes a thread from g to h.  A batch is opened, used and closed
\* with the lock of the pool, and the lock is kept as long as it is open.
Moves(e, g, h) ==
    \/ \E m \in Mutex : e = lock(m) /\ MayLock(g, m) /\ h = took(g, m)
    \/ \E m \in Mutex : e = unlock(m) /\ g = took(h, m) /\ (h.own => h.count["pool"] > 0)
    \/ e = txn /\ g.count["pool"] > 0 /\ h = g
    \/ e \in {batch_start, batch_try} /\ g.count["pool"] > 0 /\ ~ g.own /\ h = owning(g, TRUE)
    \/ e = batch_stop /\ g.own /\ h = owning(g, FALSE)

\* The events of s take a thread from g to h.
Path(s, g, h) ==
    \E d \in [0 .. Len(s) -> Held] :
        /\ d[0] = g /\ d[Len(s)] = h
        /\ \A i \in 1 .. Len(s) : Moves(s[i], d[i - 1], d[i])

----------------------------------------------------------------------------
(* Paths.                                                                  *)

\* No event, no move.
LEMMA PathEmpty ==
  ASSUME NEW g \in Held
  PROVE  << >> \in Seq(Event) /\ Path(<< >>, g, g)
<1> DEFINE d == [i \in 0 .. 0 |-> g]
<1>1. Len(<< >>) = 0  OBVIOUS
<1>2. d \in [0 .. 0 -> Held] /\ d[0] = g  OBVIOUS
<1> HIDE DEF d
<1>3. Path(<< >>, g, g)  BY <1>1, <1>2 DEF Path
<1> QED  BY <1>3

\* One event.
LEMMA PathOne ==
  ASSUME NEW g \in Held, NEW h \in Held, NEW e \in Event, Moves(e, g, h)
  PROVE  <<e>> \in Seq(Event) /\ Path(<<e>>, g, h)
<1> DEFINE d == [i \in 0 .. 1 |-> IF i = 0 THEN g ELSE h]
<1>1. Len(<<e>>) = 1 /\ <<e>>[1] = e  OBVIOUS
<1>2. d \in [0 .. 1 -> Held] /\ d[0] = g /\ d[1] = h  OBVIOUS
<1> HIDE DEF d
<1>3. \A i \in 1 .. 1 : i = 1 /\ i - 1 = 0  OBVIOUS
<1>4. \A i \in 1 .. 1 : Moves(<<e>>[i], d[i - 1], d[i])  BY <1>1, <1>2, <1>3
<1> QED  BY <1>1, <1>2, <1>4 DEF Path

\* One operation after the other.
LEMMA PathConcat ==
  ASSUME NEW s \in Seq(Event), NEW t \in Seq(Event), NEW g, NEW h, NEW k,
         Path(s, g, h), Path(t, h, k)
  PROVE  s \o t \in Seq(Event) /\ Path(s \o t, g, k)
<1>1. PICK d \in [0 .. Len(s) -> Held] :
         /\ d[0] = g /\ d[Len(s)] = h
         /\ \A i \in 1 .. Len(s) : Moves(s[i], d[i - 1], d[i])
  BY DEF Path
<1>2. PICK c \in [0 .. Len(t) -> Held] :
         /\ c[0] = h /\ c[Len(t)] = k
         /\ \A i \in 1 .. Len(t) : Moves(t[i], c[i - 1], c[i])
  BY DEF Path
<1> DEFINE m == Len(s)
           n == Len(t)
           r == s \o t
           f == [i \in 0 .. m + n |-> IF i <= m THEN d[i] ELSE c[i - m]]
<1>3. m \in Nat /\ n \in Nat  BY LenProperties
<1>4. /\ r \in Seq(Event) /\ Len(r) = m + n
      /\ \A i \in 1 .. m + n : r[i] = IF i <= m THEN s[i] ELSE t[i - m]
  BY ConcatProperties
<1> HIDE DEF m, n, r
<1>5. f \in [0 .. m + n -> Held] /\ f[0] = g /\ f[m + n] = k
  BY <1>1, <1>2, <1>3 DEF m, n
<1>6. ASSUME NEW i \in 1 .. m + n  PROVE Moves(r[i], f[i - 1], f[i])
  <2>1. CASE i <= m
    <3>1. r[i] = s[i] /\ f[i - 1] = d[i - 1] /\ f[i] = d[i] /\ i \in 1 .. m
      BY <1>3, <1>4, <2>1
    <3> QED  BY <1>1, <3>1 DEF m
  <2>2. CASE i > m
    <3>1. r[i] = t[i - m] /\ f[i] = c[i - m] /\ i - m \in 1 .. n
      BY <1>3, <1>4, <2>2
    <3>2. f[i - 1] = c[(i - m) - 1]
      <4>1. CASE i - 1 = m
        <5>1. f[i - 1] = d[m] /\ (i - m) - 1 = 0  BY <1>3, <4>1
        <5> QED  BY <1>1, <1>2, <5>1 DEF m
      <4>2. CASE i - 1 > m
        <5>1. f[i - 1] = c[(i - 1) - m] /\ (i - 1) - m = (i - m) - 1  BY <1>3, <4>2
        <5> QED  BY <5>1
      <4> QED  BY <1>3, <2>2, <4>1, <4>2
    <3> QED  BY <1>2, <3>1, <3>2 DEF n
  <2> QED  BY <1>3, <2>1, <2>2
<1> HIDE DEF f
<1>7. Path(r, g, k)  BY <1>4, <1>5, <1>6 DEF Path
<1> QED  BY <1>4, <1>7 DEF r

\* The first event, and the path of the others.
LEMMA PathTail ==
  ASSUME NEW s \in Seq(Event), s # << >>, NEW g, NEW k, Path(s, g, k)
  PROVE  /\ Head(s) \in Event /\ Tail(s) \in Seq(Event)
         /\ \E h \in Held : Moves(Head(s), g, h) /\ Path(Tail(s), h, k)
<1>1. PICK d \in [0 .. Len(s) -> Held] :
         /\ d[0] = g /\ d[Len(s)] = k
         /\ \A i \in 1 .. Len(s) : Moves(s[i], d[i - 1], d[i])
  BY DEF Path
<1> DEFINE n == Len(s)
           r == Tail(s)
           f == [i \in 0 .. n - 1 |-> d[i + 1]]
<1>2. n \in Nat /\ n > 0 /\ Head(s) = s[1] /\ Head(s) \in Event
      /\ r \in Seq(Event) /\ Len(r) = n - 1 /\ \A i \in 1 .. n - 1 : r[i] = s[i + 1]
  BY HeadTailProperties, LenProperties, EmptySeq
<1> HIDE DEF r, n
<1>3. f \in [0 .. n - 1 -> Held] /\ f[0] = d[1] /\ f[n - 1] = k /\ d[1] \in Held
  <2>1. d \in [0 .. n -> Held] /\ d[n] = k  BY <1>1 DEF n
  <2>2. (n - 1) + 1 = n /\ n - 1 \in 0 .. n - 1 /\ 0 \in 0 .. n - 1 /\ 1 \in 0 .. n
        /\ \A i \in 0 .. n - 1 : i + 1 \in 0 .. n
    BY <1>2
  <2> QED  BY <2>1, <2>2
<1>4. Moves(Head(s), g, d[1])  BY <1>1, <1>2 DEF n
<1>5. ASSUME NEW i \in 1 .. n - 1  PROVE Moves(r[i], f[i - 1], f[i])
  <2>1. f[i - 1] = d[i] /\ f[i] = d[i + 1] /\ r[i] = s[i + 1] /\ i + 1 \in 1 .. n
        /\ (i + 1) - 1 = i
    BY <1>2
  <2> QED  BY <1>1, <2>1 DEF n
<1> HIDE DEF f
<1>6. Path(r, d[1], k)  BY <1>2, <1>3, <1>5 DEF Path
<1> QED  BY <1>2, <1>3, <1>4, <1>6 DEF r

\* A thread at the end of its operation has arrived.
LEMMA PathEnd ==
  ASSUME NEW g, NEW k, Path(<< >>, g, k)
  PROVE  g = k
<1>1. Len(<< >>) = 0  OBVIOUS
<1> QED  BY <1>1 DEF Path

\* An operation inside a lock: the lock may be taken, and a batch that is open
\* in the end is under the lock of the pool.
LEMMA PathLocked ==
  ASSUME NEW g \in Held, NEW h \in Held, NEW m \in Mutex, NEW s \in Seq(Event), MayLock(g, m),
         h.own => h.count["pool"] > 0, Path(s, took(g, m), took(h, m))
  PROVE  locked(m, s) \in Seq(Event) /\ Path(locked(m, s), g, h)
<1>1. took(g, m) \in Held /\ took(h, m) \in Held  BY DEF Held, took
<1>2. <<lock(m)>> \in Seq(Event) /\ Path(<<lock(m)>>, g, took(g, m))
  <2>1. lock(m) \in Event /\ Moves(lock(m), g, took(g, m))  BY DEF Event, Moves
  <2> QED  BY <1>1, <2>1, PathOne
<1>3. <<unlock(m)>> \in Seq(Event) /\ Path(<<unlock(m)>>, took(h, m), h)
  <2>1. unlock(m) \in Event /\ Moves(unlock(m), took(h, m), h)  BY DEF Event, Moves
  <2> QED  BY <1>1, <2>1, PathOne
<1>4. <<lock(m)>> \o s \in Seq(Event) /\ Path(<<lock(m)>> \o s, g, took(h, m))
  BY <1>2, PathConcat
<1>5. /\ (<<lock(m)>> \o s) \o <<unlock(m)>> \in Seq(Event)
      /\ Path((<<lock(m)>> \o s) \o <<unlock(m)>>, g, h)
  BY <1>3, <1>4, PathConcat
<1> QED  BY <1>5 DEF locked

----------------------------------------------------------------------------
(* The operations have a path.                                             *)

\* The counts after a lock.
LEMMA Took ==
  ASSUME NEW g \in Held, NEW m \in Mutex
  PROVE  /\ took(g, m) \in Held /\ took(g, m).own = g.own
         /\ g.count \in [Mutex -> Nat]
         /\ took(g, m).count[m] = g.count[m] + 1
         /\ \A n \in Mutex \ {m} : took(g, m).count[n] = g.count[n]
  BY DEF Held, took

\* A thread that may take the lock of the pool, and holds it if it has a batch.
Orderly(g) == /\ g \in Held /\ MayLock(g, "pool")
              /\ g.own => g.count["pool"] > 0

\* An orderly thread stays orderly with the pool's lock, and with the chain's
\* on top of that.
LEMMA OrderlyTook ==
  ASSUME NEW g, Orderly(g)
  PROVE  /\ Orderly(took(g, "pool")) /\ took(g, "pool").count["pool"] > 0
         /\ Orderly(took(took(g, "pool"), "chain"))
         /\ took(took(g, "pool"), "chain").count["pool"] > 0
<1> DEFINE p == took(g, "pool")
           q == took(p, "chain")
<1>1. "pool" \in Mutex /\ "chain" \in Mutex /\ "pool" # "chain" /\ g \in Held
  BY DEF Mutex, Orderly
<1>2. /\ p \in Held /\ p.own = g.own /\ p.count["pool"] = g.count["pool"] + 1
      /\ p.count["chain"] = g.count["chain"] /\ g.count["pool"] \in Nat
  BY <1>1, Took
<1> HIDE DEF p
<1>3. /\ q \in Held /\ q.own = p.own /\ q.count["pool"] = p.count["pool"]
  BY <1>1, <1>2, Took
<1> HIDE DEF q
<1>4. p.count["pool"] > 0 /\ q.count["pool"] > 0  BY <1>2, <1>3
<1>5. Orderly(p) /\ Orderly(q)  BY <1>2, <1>3, <1>4 DEF Orderly, MayLock
<1> QED  BY <1>4, <1>5 DEF p, q

\* A body under the locks of the pool and of the chain.
LEMMA PathBoth ==
  ASSUME NEW g, Orderly(g), NEW s \in Seq(Event),
         LET q == took(took(g, "pool"), "chain") IN Path(s, q, q)
  PROVE  LET r == locked("pool", locked("chain", s)) IN r \in Seq(Event) /\ Path(r, g, g)
<1> DEFINE p == took(g, "pool")
           c == locked("chain", s)
<1>1. Orderly(p) /\ "pool" \in Mutex /\ "chain" \in Mutex  BY OrderlyTook DEF Mutex
<1>2. MayLock(p, "chain") /\ MayLock(g, "pool")  BY DEF MayLock, Orderly
<1>3. c \in Seq(Event) /\ Path(c, p, p)
  <2> HIDE DEF p
  <2> QED  BY <1>1, <1>2, PathLocked DEF Orderly, p
<1> HIDE DEF c
<1>4. locked("pool", c) \in Seq(Event) /\ Path(locked("pool", c), g, g)
  BY <1>1, <1>2, <1>3, PathLocked DEF Orderly
<1> QED  BY <1>4 DEF c

\* pool_write: a LockedTXN under both locks.
LEMMA PoolWritePath ==
  ASSUME NEW g, Orderly(g)
  PROVE  pool_write \in Seq(Event) /\ Path(pool_write, g, g)
<1> DEFINE q == took(took(g, "pool"), "chain")
<1>1. Orderly(q) /\ q.count["pool"] > 0  BY OrderlyTook
<1> HIDE DEF q
<1>2. txn \in Event /\ Moves(txn, q, q)  BY <1>1 DEF Event, Moves
<1>3. <<txn>> \in Seq(Event) /\ Path(<<txn>>, q, q)  BY <1>1, <1>2, PathOne DEF Orderly
<1> QED  BY <1>3, PathBoth DEF pool_write, q

\* The lock of the pool for a moment.
LEMMA PoolTouchPath ==
  ASSUME NEW g, Orderly(g)
  PROVE  locked("pool", << >>) \in Seq(Event) /\ Path(locked("pool", << >>), g, g)
<1>1. took(g, "pool") \in Held /\ "pool" \in Mutex /\ MayLock(g, "pool")
  BY OrderlyTook DEF Orderly, Mutex
<1> QED  BY <1>1, PathEmpty, PathLocked DEF Orderly

\* pop_block_from_blockchain, by a thread that holds the pool's lock.
LEMMA PopPath ==
  ASSUME NEW g, Orderly(g), g.count["pool"] > 0
  PROVE  pop_block_from_blockchain \in Seq(Event) /\ Path(pop_block_from_blockchain, g, g)
<1> DEFINE c == took(g, "chain")
           s == pool_write \o locked("pool", << >>)
<1>1. /\ "pool" \in Mutex /\ "chain" \in Mutex /\ "pool" # "chain" /\ g \in Held
      /\ MayLock(g, "chain")
  BY DEF Mutex, Orderly, MayLock
<1>2. c \in Held /\ c.own = g.own /\ c.count["pool"] = g.count["pool"]  BY <1>1, Took
<1>3. Orderly(c)  BY <1>2 DEF Orderly, MayLock
<1>4. s \in Seq(Event) /\ Path(s, c, c)
  <2> HIDE DEF c
  <2> QED  BY <1>3, PoolWritePath, PoolTouchPath, PathConcat
<1> HIDE DEF s
<1>5. locked("chain", s) \in Seq(Event) /\ Path(locked("chain", s), g, g)
  BY <1>1, <1>4, PathLocked DEF Orderly
<1> QED  BY <1>5 DEF pop_block_from_blockchain, s

\* add_new_block.
LEMMA AddBlockPath ==
  ASSUME NEW g, Orderly(g)
  PROVE  add_new_block \in Seq(Event) /\ Path(add_new_block, g, g)
<1> DEFINE q == took(took(g, "pool"), "chain")
           s == (pop_block_from_blockchain \o pool_write) \o locked("pool", << >>)
<1>1. Orderly(q) /\ q.count["pool"] > 0  BY OrderlyTook
<1> HIDE DEF q
<1>2. /\ pop_block_from_blockchain \o pool_write \in Seq(Event)
      /\ Path(pop_block_from_blockchain \o pool_write, q, q)
  BY <1>1, PopPath, PoolWritePath, PathConcat
<1>3. s \in Seq(Event) /\ Path(s, q, q)  BY <1>1, <1>2, PoolTouchPath, PathConcat
<1> HIDE DEF s
<1>4. LET r == locked("pool", locked("chain", s)) IN r \in Seq(Event) /\ Path(r, g, g)
  BY <1>3, PathBoth DEF q
<1> QED  BY <1>4 DEF add_new_block, s

\* Opening and closing a batch with the lock of the pool.
LEMMA BatchPath ==
  ASSUME NEW g \in Held, ~ g.own, g.count["pool"] > 0
  PROVE  /\ owning(g, TRUE) \in Held /\ owning(g, TRUE).own
         /\ owning(g, TRUE).count = g.count
         /\ <<batch_start>> \in Seq(Event) /\ Path(<<batch_start>>, g, owning(g, TRUE))
         /\ <<batch_try>> \in Seq(Event) /\ Path(<<batch_try>>, g, owning(g, TRUE))
         /\ <<batch_stop>> \in Seq(Event) /\ Path(<<batch_stop>>, owning(g, TRUE), g)
<1>1. /\ owning(g, TRUE) \in Held /\ owning(g, TRUE).own /\ owning(g, TRUE).count = g.count
      /\ owning(owning(g, TRUE), FALSE) = g
  BY DEF Held, owning
<1>2. batch_start \in Event /\ batch_try \in Event /\ batch_stop \in Event  BY DEF Event
<1>3. /\ Moves(batch_start, g, owning(g, TRUE)) /\ Moves(batch_try, g, owning(g, TRUE))
      /\ Moves(batch_stop, owning(g, TRUE), g)
  BY <1>1 DEF Moves
<1> QED  BY <1>1, <1>2, <1>3, PathOne

\* pop_blocks.
LEMMA PopBlocksPath ==
  ASSUME NEW g, Orderly(g), ~ g.own
  PROVE  pop_blocks \in Seq(Event) /\ Path(pop_blocks, g, g)
<1> DEFINE q == took(took(g, "pool"), "chain")
           o == owning(q, TRUE)
           s == (<<batch_try>> \o pop_block_from_blockchain) \o <<batch_stop>>
<1>1. Orderly(q) /\ q.count["pool"] > 0 /\ ~ q.own  BY OrderlyTook DEF took
<1> HIDE DEF q
<1>2. Orderly(o) /\ o.count["pool"] > 0  BY <1>1, BatchPath DEF Orderly, MayLock
<1>3. /\ <<batch_try>> \in Seq(Event) /\ Path(<<batch_try>>, q, o)
      /\ <<batch_stop>> \in Seq(Event) /\ Path(<<batch_stop>>, o, q)
  BY <1>1, BatchPath DEF Orderly
<1> HIDE DEF o
<1>4. /\ <<batch_try>> \o pop_block_from_blockchain \in Seq(Event)
      /\ Path(<<batch_try>> \o pop_block_from_blockchain, q, o)
  BY <1>2, <1>3, PopPath, PathConcat
<1>5. s \in Seq(Event) /\ Path(s, q, q)  BY <1>3, <1>4, PathConcat
<1> HIDE DEF s
<1>6. LET r == locked("pool", locked("chain", s)) IN r \in Seq(Event) /\ Path(r, g, g)
  BY <1>5, PathBoth DEF q
<1> QED  BY <1>6 DEF pop_blocks, s

\* Four events in a row.
LEMMA PathFour ==
  ASSUME NEW x \in Event, NEW y \in Event, NEW z \in Event, NEW w \in Event,
         NEW g \in Held, NEW h \in Held, NEW i \in Held, NEW j \in Held, NEW k \in Held,
         Moves(x, g, h), Moves(y, h, i), Moves(z, i, j), Moves(w, j, k)
  PROVE  <<x, y, z, w>> \in Seq(Event) /\ Path(<<x, y, z, w>>, g, k)
<1> DEFINE s == <<x, y, z, w>>
           d == [n \in 0 .. 4 |-> IF n = 0 THEN g ELSE IF n = 1 THEN h ELSE IF n = 2 THEN i
                                  ELSE IF n = 3 THEN j ELSE k]
<1>1. /\ s \in Seq(Event) /\ Len(s) = 4
      /\ s[1] = x /\ s[2] = y /\ s[3] = z /\ s[4] = w
  OBVIOUS
<1>2. d \in [0 .. 4 -> Held] /\ d[0] = g /\ d[1] = h /\ d[2] = i /\ d[3] = j /\ d[4] = k
  OBVIOUS
<1> HIDE DEF s, d
<1>3. ASSUME NEW n \in 1 .. 4  PROVE Moves(s[n], d[n - 1], d[n])
  <2>1. n = 1 \/ n = 2 \/ n = 3 \/ n = 4  OBVIOUS
  <2>2. 1 - 1 = 0 /\ 2 - 1 = 1 /\ 3 - 1 = 2 /\ 4 - 1 = 3  OBVIOUS
  <2> QED  BY <1>1, <1>2, <2>1, <2>2
<1>4. Path(s, g, k)  BY <1>1, <1>2, <1>3 DEF Path
<1> QED  BY <1>1, <1>4 DEF s

\* prepare_handle_incoming_blocks keeps the lock of the pool and the batch.
LEMMA PreparePath ==
  ASSUME NEW g, Orderly(g), ~ g.own
  PROVE  LET h == owning(took(g, "pool"), TRUE)
         IN  /\ Orderly(h) /\ h.count["pool"] > 0
             /\ prepare_handle_incoming_blocks \in Seq(Event)
             /\ Path(prepare_handle_incoming_blocks, g, h)
<1> DEFINE p == took(g, "pool")
           c == took(p, "chain")
           o == owning(c, TRUE)
           h == owning(p, TRUE)
<1>1. /\ Orderly(p) /\ p.count["pool"] > 0 /\ ~ p.own
      /\ Orderly(c) /\ c.count["pool"] > 0 /\ ~ c.own
  BY OrderlyTook DEF took
<1>2. o = took(h, "chain")  BY DEF owning, took
<1>3. Moves(lock("pool"), g, p) /\ Moves(lock("chain"), p, c)
  <2>1. MayLock(g, "pool") /\ MayLock(p, "chain") /\ "pool" \in Mutex /\ "chain" \in Mutex
    BY DEF Orderly, MayLock, Mutex
  <2> QED  BY <2>1 DEF Moves
<1> HIDE DEF c
<1>4. o \in Held /\ Moves(batch_start, c, o)
  BY <1>1, BatchPath DEF Orderly, Moves
<1> HIDE DEF p, o
<1>5. Orderly(h) /\ h.count["pool"] > 0  BY <1>1, BatchPath DEF Orderly, MayLock
<1> HIDE DEF h
<1>6. Moves(unlock("chain"), o, h)  BY <1>2, <1>5 DEF Moves, Mutex
<1>7. {lock("pool"), lock("chain"), batch_start, unlock("chain")} \subseteq Event
  BY DEF Event, Mutex
<1>8. /\ prepare_handle_incoming_blocks \in Seq(Event)
      /\ Path(prepare_handle_incoming_blocks, g, h)
  BY <1>1, <1>3, <1>4, <1>5, <1>6, <1>7, PathFour DEF Orderly, prepare_handle_incoming_blocks
<1> QED  BY <1>5, <1>8 DEF h, p

\* cleanup_handle_incoming_blocks gives both back.
LEMMA CleanupPath ==
  ASSUME NEW g, Orderly(g), ~ g.own
  PROVE  /\ cleanup_handle_incoming_blocks \in Seq(Event)
         /\ Path(cleanup_handle_incoming_blocks, owning(took(g, "pool"), TRUE), g)
<1> DEFINE p == took(g, "pool")
           h == owning(p, TRUE)
           c == took(p, "chain")
           s == locked("chain", <<batch_stop>>)
           r == locked("pool", locked("chain", << >>))
<1>1. /\ Orderly(p) /\ p.count["pool"] > 0 /\ ~ p.own /\ Orderly(c) /\ c.count["pool"] > 0
      /\ ~ c.own
  BY OrderlyTook DEF took
<1>2. owning(c, TRUE) = took(h, "chain")  BY DEF owning, took
<1>3. h \in Held
  <2> HIDE DEF p
  <2> QED  BY <1>1, BatchPath DEF Orderly
<1>4. Path(<<batch_stop>>, took(h, "chain"), c) /\ <<batch_stop>> \in Seq(Event)
  <2> HIDE DEF c, h
  <2> QED  BY <1>1, <1>2, BatchPath DEF Orderly
<1> HIDE DEF h
<1>5. s \in Seq(Event) /\ Path(s, h, p)
  <2>1. MayLock(h, "chain") /\ "chain" \in Mutex  BY DEF MayLock, Mutex
  <2> HIDE DEF p
  <2> QED  BY <1>1, <1>3, <1>4, <2>1, PathLocked DEF Orderly, p
<1>6. <<unlock("pool")>> \in Seq(Event) /\ Path(<<unlock("pool")>>, p, g)
  <2>1. unlock("pool") \in Event /\ Moves(unlock("pool"), p, g)
    BY DEF Event, Moves, Mutex, Orderly
  <2> HIDE DEF p
  <2> QED  BY <1>1, <2>1, PathOne DEF Orderly
<1>7. r \in Seq(Event) /\ Path(r, g, g)
  <2>1. took(took(g, "pool"), "chain") \in Held  BY <1>1 DEF Orderly
  <2> QED  BY <2>1, PathEmpty, PathBoth
<1> HIDE DEF s, r, p
<1>8. s \o <<unlock("pool")>> \in Seq(Event) /\ Path(s \o <<unlock("pool")>>, h, g)
  BY <1>5, <1>6, PathConcat
<1>9. /\ (s \o <<unlock("pool")>>) \o r \in Seq(Event)
      /\ Path((s \o <<unlock("pool")>>) \o r, h, g)
  BY <1>7, <1>8, PathConcat
<1> QED  BY <1>9 DEF cleanup_handle_incoming_blocks, s, r, h, p

\* A thread that holds nothing, and one that holds the incoming lock only.
LEMMA StartsOrderly ==
  /\ Orderly(Nothing) /\ ~ Nothing.own
  /\ Orderly(took(Nothing, "incoming")) /\ ~ took(Nothing, "incoming").own
  /\ \A m \in Mutex : MayLock(Nothing, m)
<1>1. Nothing \in Held /\ ~ Nothing.own /\ \A m \in Mutex : Nothing.count[m] = 0
  BY DEF Nothing, Held
<1>2. "incoming" \in Mutex /\ "pool" \in Mutex /\ "chain" \in Mutex  BY DEF Mutex
<1> DEFINE i == took(Nothing, "incoming")
<1>3. /\ i \in Held /\ i.own = Nothing.own
      /\ i.count["chain"] = 0 /\ i.count["pool"] = 0
  BY <1>1, <1>2, Took
<1> HIDE DEF i
<1>4. Orderly(Nothing) /\ Orderly(i)  BY <1>1, <1>2, <1>3 DEF Orderly, MayLock
<1>5. \A m \in Mutex : MayLock(Nothing, m)  BY <1>1, <1>2 DEF MayLock
<1> QED  BY <1>1, <1>3, <1>4, <1>5 DEF i

\* Every operation takes a thread from nothing to nothing.
LEMMA ProgramPath ==
  ASSUME NEW o \in {"handle_incoming_tx", "handle_incoming_blocks", "create_block_template",
                    "flush_txes_from_pool", "pop_blocks", "get_blocks"}
  PROVE  Program[o] \in Seq(Event) /\ Path(Program[o], Nothing, Nothing)
<1> DEFINE i == took(Nothing, "incoming")
<1>0. /\ Orderly(Nothing) /\ ~ Nothing.own /\ Nothing \in Held
      /\ Orderly(i) /\ ~ i.own /\ i \in Held
      /\ "incoming" \in Mutex /\ "chain" \in Mutex /\ "pool" \in Mutex
      /\ \A m \in Mutex : MayLock(Nothing, m)
  BY StartsOrderly DEF Orderly, Mutex
<1>1. /\ handle_incoming_tx \in Seq(Event) /\ Path(handle_incoming_tx, Nothing, Nothing)
  <2>1. pool_write \in Seq(Event) /\ Path(pool_write, i, i)
    <3> HIDE DEF i
    <3> QED  BY <1>0, PoolWritePath
  <2> QED  BY <1>0, <2>1, PathLocked DEF handle_incoming_tx
<1>2. Blocks \in Seq(Event) /\ Path(Blocks, Nothing, Nothing)
  <2> DEFINE h == owning(took(i, "pool"), TRUE)
             s == (prepare_handle_incoming_blocks \o add_new_block) \o cleanup_handle_incoming_blocks
  <2>1. s \in Seq(Event) /\ Path(s, i, i)
    <3> HIDE DEF i
    <3>1. /\ Orderly(h) /\ prepare_handle_incoming_blocks \in Seq(Event)
          /\ Path(prepare_handle_incoming_blocks, i, h)
      BY <1>0, PreparePath
    <3>2. /\ cleanup_handle_incoming_blocks \in Seq(Event)
          /\ Path(cleanup_handle_incoming_blocks, h, i)
      BY <1>0, CleanupPath
    <3> HIDE DEF h
    <3>3. add_new_block \in Seq(Event) /\ Path(add_new_block, h, h)  BY <3>1, AddBlockPath
    <3>4. /\ prepare_handle_incoming_blocks \o add_new_block \in Seq(Event)
          /\ Path(prepare_handle_incoming_blocks \o add_new_block, i, h)
      BY <3>1, <3>3, PathConcat
    <3> QED  BY <3>2, <3>4, PathConcat
  <2> HIDE DEF s
  <2>2. locked("incoming", s) \in Seq(Event) /\ Path(locked("incoming", s), Nothing, Nothing)
    BY <1>0, <2>1, PathLocked
  <2> QED  BY <2>2 DEF Blocks, s
<1>3. create_block_template \in Seq(Event) /\ Path(create_block_template, Nothing, Nothing)
  <2> DEFINE q == took(took(Nothing, "pool"), "chain")
  <2>1. Orderly(q)  BY <1>0, OrderlyTook
  <2>2. pool_write \in Seq(Event) /\ Path(pool_write, q, q)
    <3> HIDE DEF q
    <3> QED  BY <2>1, PoolWritePath
  <2> QED  BY <1>0, <2>2, PathBoth DEF create_block_template
<1>4. /\ locked("pool", pool_write) \in Seq(Event)
      /\ Path(locked("pool", pool_write), Nothing, Nothing)
  <2> DEFINE p == took(Nothing, "pool")
  <2>1. Orderly(p)  BY <1>0, OrderlyTook
  <2>2. pool_write \in Seq(Event) /\ Path(pool_write, p, p)
    <3> HIDE DEF p
    <3> QED  BY <2>1, PoolWritePath
  <2> QED  BY <1>0, <2>2, PathLocked
<1>5. pop_blocks \in Seq(Event) /\ Path(pop_blocks, Nothing, Nothing)
  BY <1>0, PopBlocksPath
<1>6. locked("chain", << >>) \in Seq(Event) /\ Path(locked("chain", << >>), Nothing, Nothing)
  <2>1. took(Nothing, "chain") \in Held  BY <1>0, Took
  <2> QED  BY <1>0, <2>1, PathEmpty, PathLocked
<1> QED  BY <1>1, <1>2, <1>3, <1>4, <1>5, <1>6 DEF Program

----------------------------------------------------------------------------
(* The threads.                                                            *)

HeldBy(th) ==
    [count |-> [m \in Mutex |-> IF owner[m] = th THEN depth[m] ELSE 0], own |-> (batch = th)]

LockState ==
    /\ owner \in [Mutex -> Thread \cup {NoThread}]
    /\ depth \in [Mutex -> Nat]
    /\ batch \in Thread \cup {NoThread}
    /\ \A m \in Mutex : owner[m] = NoThread <=> depth[m] = 0
    /\ batch # NoThread => owner["pool"] = batch

\* Every thread is on a path that ends with nothing held.
LockInv ==
    /\ LockState
    /\ todo \in [Thread -> Seq(Event)]
    /\ \A th \in Thread : Path(todo[th], HeldBy(th), Nothing)

\* The kind of an event tells the move.
LEMMA MoveKinds ==
  ASSUME NEW e \in Event, NEW g, NEW h, Moves(e, g, h)
  PROVE  /\ e.kind = "lock" => /\ e.mutex \in Mutex /\ e = lock(e.mutex)
                               /\ MayLock(g, e.mutex) /\ h = took(g, e.mutex)
         /\ e.kind = "unlock" => /\ e.mutex \in Mutex /\ g = took(h, e.mutex)
                                 /\ h.own => h.count["pool"] > 0
         /\ e.kind = "txn" => g.count["pool"] > 0 /\ h = g
         /\ e.kind \in {"batch_start", "batch_try"} =>
               g.count["pool"] > 0 /\ ~ g.own /\ h = owning(g, TRUE)
         /\ e.kind = "batch_stop" => g.own /\ h = owning(g, FALSE)
<1>1. /\ \A m \in Mutex : lock(m).kind = "lock" /\ lock(m).mutex = m
      /\ \A m \in Mutex : unlock(m).kind = "unlock" /\ unlock(m).mutex = m
      /\ txn.kind = "txn" /\ batch_stop.kind = "batch_stop"
      /\ batch_start.kind = "batch_start" /\ batch_try.kind = "batch_try"
  BY DEF lock, unlock, txn, batch_start, batch_try, batch_stop
<1>2. ASSUME NEW m \in Mutex, e = lock(m), MayLock(g, m), h = took(g, m)
      PROVE  /\ e.kind = "lock" /\ e.mutex \in Mutex /\ e = lock(e.mutex)
             /\ MayLock(g, e.mutex) /\ h = took(g, e.mutex)
  BY <1>1, <1>2
<1>3. ASSUME NEW m \in Mutex, e = unlock(m), g = took(h, m), h.own => h.count["pool"] > 0
      PROVE  /\ e.kind = "unlock" /\ e.mutex \in Mutex /\ g = took(h, e.mutex)
             /\ h.own => h.count["pool"] > 0
  BY <1>1, <1>3
<1> QED  BY <1>1, <1>2, <1>3 DEF Moves

\* What a thread holds, mutex by mutex.
LEMMA HeldParts ==
  ASSUME LockState, NEW th \in Thread
  PROVE  /\ HeldBy(th) \in Held /\ (HeldBy(th).own <=> batch = th)
         /\ \A m \in Mutex : /\ HeldBy(th).count[m] = IF owner[m] = th THEN depth[m] ELSE 0
                             /\ HeldBy(th).count[m] > 0 <=> owner[m] = th
<1>1. \A m \in Mutex : depth[m] \in Nat /\ (owner[m] = th => depth[m] # 0)
  BY LockOrderAssumption DEF LockState
<1>2. /\ HeldBy(th).count = [m \in Mutex |-> IF owner[m] = th THEN depth[m] ELSE 0]
      /\ HeldBy(th).own = (batch = th)
      /\ HeldBy(th) = [count |-> HeldBy(th).count, own |-> HeldBy(th).own]
  BY DEF HeldBy
<1>3. HeldBy(th).count \in [Mutex -> Nat] /\ HeldBy(th).own \in BOOLEAN  BY <1>1, <1>2
<1>4. HeldBy(th) \in Held
  <2>1. \A c \in [Mutex -> Nat], o \in BOOLEAN : [count |-> c, own |-> o] \in Held  BY DEF Held
  <2> QED  BY <1>2, <1>3, <2>1
<1>5. HeldBy(th).own <=> batch = th  BY <1>2
<1>6. \A m \in Mutex : HeldBy(th).count[m] = IF owner[m] = th THEN depth[m] ELSE 0  BY <1>2
<1>7. \A m \in Mutex : HeldBy(th).count[m] > 0 <=> owner[m] = th  BY <1>1, <1>6
<1> QED  BY <1>4, <1>5, <1>6, <1>7

\* The next event of a thread that has one.
LEMMA NextEvent ==
  ASSUME LockInv, NEW th \in Thread, todo[th] # << >>
  PROVE  /\ Head(todo[th]) \in Event /\ Tail(todo[th]) \in Seq(Event)
         /\ \E h \in Held : Moves(Head(todo[th]), HeldBy(th), h) /\ Path(Tail(todo[th]), h, Nothing)
<1>1. todo[th] \in Seq(Event) /\ Path(todo[th], HeldBy(th), Nothing)  BY DEF LockInv
<1> QED  BY <1>1, PathTail

\* One thread moves along its path, the others hold what they held.
LEMMA ThreadMoves ==
  ASSUME LockInv, NEW th \in Thread, todo[th] # << >>, Advance(th), LockState',
         NEW h \in Held, Path(Tail(todo[th]), h, Nothing), HeldBy(th)' = h,
         \A u \in Thread \ {th} : HeldBy(u)' = HeldBy(u)
  PROVE  LockInv'
<1>1. Tail(todo[th]) \in Seq(Event)  BY NextEvent
<1>2. /\ todo' \in [Thread -> Seq(Event)] /\ todo'[th] = Tail(todo[th])
      /\ \A u \in Thread \ {th} : todo'[u] = todo[u]
  BY <1>1 DEF Advance, LockInv
<1>3. ASSUME NEW u \in Thread  PROVE Path(todo'[u], HeldBy(u)', Nothing)
  <2>1. CASE u = th  BY <1>2, <2>1
  <2>2. CASE u # th  BY <1>2, <2>2 DEF LockInv
  <2> QED  BY <2>1, <2>2
<1> QED  BY <1>2, <1>3 DEF LockInv

\* A mutex is taken.
LEMMA LockStep ==
  ASSUME LockInv, NEW th \in Thread, Lock(th)
  PROVE  LockInv'
<1> DEFINE e == Head(todo[th])
           m == e.mutex
<1>1. todo[th] # << >> /\ e.kind = "lock"  BY DEF Lock, Next1
<1>2. PICK h \in Held : e \in Event /\ Moves(e, HeldBy(th), h) /\ Path(Tail(todo[th]), h, Nothing)
  BY <1>1, NextEvent
<1> HIDE DEF e
<1>3. m \in Mutex /\ h = took(HeldBy(th), m)  BY <1>1, <1>2, MoveKinds
<1>4. /\ owner[m] \in {NoThread, th} /\ Advance(th) /\ batch' = batch
      /\ owner' = [owner EXCEPT ![m] = th] /\ depth' = [depth EXCEPT ![m] = @ + 1]
  BY DEF Lock, e
<1> HIDE DEF m
<1>5. LockState  BY DEF LockInv
<1>6. /\ owner'[m] = th /\ depth'[m] = depth[m] + 1 /\ depth[m] \in Nat
      /\ (owner[m] = th \/ depth[m] = 0)
      /\ \A n \in Mutex \ {m} : owner'[n] = owner[n] /\ depth'[n] = depth[n]
  BY <1>3, <1>4, <1>5 DEF LockState
<1>7. LockState'
  <2>1. owner' \in [Mutex -> Thread \cup {NoThread}] /\ depth' \in [Mutex -> Nat]
    BY <1>3, <1>4, <1>5 DEF LockState
  <2>2. \A n \in Mutex : owner'[n] = NoThread <=> depth'[n] = 0
    BY <1>5, <1>6, LockOrderAssumption DEF LockState
  <2>3. batch' # NoThread => owner'["pool"] = batch'
    BY <1>4, <1>5, <1>6 DEF LockState, Mutex
  <2> QED  BY <1>4, <1>5, <2>1, <2>2, <2>3 DEF LockState
<1>8. HeldBy(th)' = h
  <2>1. HeldBy(th)'.count = [HeldBy(th).count EXCEPT ![m] = @ + 1]
    BY <1>3, <1>6 DEF HeldBy
  <2>2. HeldBy(th)'.own = HeldBy(th).own  BY <1>4 DEF HeldBy
  <2>3. HeldBy(th)' = [count |-> HeldBy(th)'.count, own |-> HeldBy(th)'.own]  BY DEF HeldBy
  <2> QED  BY <1>3, <2>1, <2>2, <2>3 DEF took
<1>9. ASSUME NEW u \in Thread \ {th}  PROVE HeldBy(u)' = HeldBy(u)
  <2>1. \A n \in Mutex : (IF owner'[n] = u THEN depth'[n] ELSE 0) = (IF owner[n] = u THEN depth[n] ELSE 0)
    BY <1>3, <1>4, <1>6, LockOrderAssumption
  <2> QED  BY <1>4, <2>1 DEF HeldBy
<1> QED  BY <1>1, <1>2, <1>4, <1>7, <1>8, <1>9, ThreadMoves

\* A mutex is given back.
LEMMA UnlockStep ==
  ASSUME LockInv, NEW th \in Thread, Unlock(th)
  PROVE  LockInv'
<1> DEFINE e == Head(todo[th])
           m == e.mutex
<1>1. todo[th] # << >> /\ e.kind = "unlock"  BY DEF Unlock, Next1
<1>2. PICK h \in Held : e \in Event /\ Moves(e, HeldBy(th), h) /\ Path(Tail(todo[th]), h, Nothing)
  BY <1>1, NextEvent
<1> HIDE DEF e
<1>3. /\ m \in Mutex /\ HeldBy(th) = took(h, m)
      /\ h.own => h.count["pool"] > 0
  BY <1>1, <1>2, MoveKinds
<1>4. /\ Advance(th) /\ batch' = batch
      /\ depth' = [depth EXCEPT ![m] = @ - 1]
      /\ owner' = [owner EXCEPT ![m] = IF depth[m] = 1 THEN NoThread ELSE @]
  BY DEF Unlock, e
<1> HIDE DEF m
<1>5. LockState  BY DEF LockInv
<1>6. /\ HeldBy(th).own = h.own /\ HeldBy(th).count[m] = h.count[m] + 1
      /\ \A n \in Mutex \ {m} : HeldBy(th).count[n] = h.count[n]
      /\ h.count \in [Mutex -> Nat]
  BY <1>3, Took
<1>7. /\ owner[m] = th /\ depth[m] = h.count[m] + 1 /\ h.count[m] \in Nat
  BY <1>3, <1>5, <1>6, HeldParts
<1>8. /\ depth'[m] = h.count[m] /\ owner'[m] = (IF h.count[m] = 0 THEN NoThread ELSE th)
      /\ \A n \in Mutex \ {m} : owner'[n] = owner[n] /\ depth'[n] = depth[n]
  BY <1>3, <1>4, <1>5, <1>7 DEF LockState
<1>9. LockState'
  <2>1. owner' \in [Mutex -> Thread \cup {NoThread}] /\ depth' \in [Mutex -> Nat]
    BY <1>3, <1>4, <1>5, <1>7 DEF LockState
  <2>2. \A n \in Mutex : owner'[n] = NoThread <=> depth'[n] = 0
    BY <1>5, <1>7, <1>8, LockOrderAssumption DEF LockState
  <2>3. batch' # NoThread => owner'["pool"] = batch'
    <3>1. CASE m = "pool"
      <4>1. batch # NoThread => batch = th  BY <1>5, <1>7, <3>1 DEF LockState
      <4>2. batch = th => h.count[m] > 0  BY <1>3, <1>5, <1>6, <3>1, HeldParts
      <4> QED  BY <1>4, <1>8, <3>1, <4>1, <4>2
    <3>2. CASE m # "pool"  BY <1>4, <1>5, <1>8, <3>2 DEF LockState, Mutex
    <3> QED  BY <3>1, <3>2
  <2> QED  BY <1>4, <1>5, <2>1, <2>2, <2>3 DEF LockState
<1>10. HeldBy(th)' = h
  <2>1. \A n \in Mutex : (IF owner'[n] = th THEN depth'[n] ELSE 0) = h.count[n]
    BY <1>5, <1>6, <1>7, <1>8, HeldParts, LockOrderAssumption
  <2>2. HeldBy(th)'.count = h.count  BY <1>6, <2>1 DEF HeldBy
  <2>3. HeldBy(th)'.own = h.own  BY <1>4, <1>6 DEF HeldBy
  <2>4. HeldBy(th)' = [count |-> HeldBy(th)'.count, own |-> HeldBy(th)'.own]  BY DEF HeldBy
  <2>5. h = [count |-> h.count, own |-> h.own]  BY DEF Held
  <2> QED  BY <2>2, <2>3, <2>4, <2>5
<1>11. ASSUME NEW u \in Thread \ {th}  PROVE HeldBy(u)' = HeldBy(u)
  <2>1. \A n \in Mutex : (IF owner'[n] = u THEN depth'[n] ELSE 0) = (IF owner[n] = u THEN depth[n] ELSE 0)
    BY <1>3, <1>7, <1>8, LockOrderAssumption
  <2> QED  BY <1>4, <2>1 DEF HeldBy
<1> QED  BY <1>1, <1>2, <1>4, <1>9, <1>10, <1>11, ThreadMoves

\* A batch is opened, closed or used: with the lock of the pool, so that there
\* is none but the thread's own, and the loop that waits for one to end is
\* never entered.
LEMMA BatchStep ==
  ASSUME LockInv, NEW th \in Thread, BatchStart(th) \/ BatchTry(th) \/ BatchStop(th) \/ Txn(th)
  PROVE  LockInv'
<1> DEFINE e == Head(todo[th])
<1>1. todo[th] # << >> /\ UNCHANGED <<owner, depth>>
  BY DEF BatchStart, BatchTry, BatchStop, Txn, Next1
<1>2. PICK h \in Held : e \in Event /\ Moves(e, HeldBy(th), h) /\ Path(Tail(todo[th]), h, Nothing)
  BY <1>1, NextEvent
<1>3. LockState /\ "pool" \in Mutex  BY DEF LockInv, Mutex
<1>4. (HeldBy(th).own <=> batch = th) /\ (HeldBy(th).count["pool"] > 0 <=> owner["pool"] = th)
  BY <1>3, HeldParts
<1>5. /\ Advance(th)
      /\ \/ batch' = th /\ owner["pool"] = th /\ h = owning(HeldBy(th), TRUE)
         \/ batch' = NoThread /\ h = owning(HeldBy(th), FALSE)
         \/ batch' = batch /\ h = HeldBy(th)
      /\ batch \in {NoThread, th} \/ batch' = batch
  <2>1. CASE BatchStart(th)
    <3>1. e.kind = "batch_start"  BY <2>1 DEF BatchStart, Next1
    <3>2. owner["pool"] = th /\ batch # th /\ h = owning(HeldBy(th), TRUE)
      BY <1>2, <1>4, <3>1, MoveKinds
    <3>3. batch = NoThread  BY <1>3, <3>2 DEF LockState
    <3> QED  BY <2>1, <3>2, <3>3 DEF BatchStart
  <2>2. CASE BatchTry(th)
    <3>1. e.kind = "batch_try"  BY <2>2 DEF BatchTry, Next1
    <3>2. owner["pool"] = th /\ batch # th /\ h = owning(HeldBy(th), TRUE)
      BY <1>2, <1>4, <3>1, MoveKinds
    <3>3. batch = NoThread  BY <1>3, <3>2 DEF LockState
    <3> QED  BY <2>2, <3>2, <3>3 DEF BatchTry
  <2>3. CASE BatchStop(th)
    <3>1. e.kind = "batch_stop"  BY <2>3 DEF BatchStop, Next1
    <3>2. HeldBy(th).own /\ h = owning(HeldBy(th), FALSE)  BY <1>2, <3>1, MoveKinds
    <3>3. batch = th  BY <1>4, <3>2
    <3> QED  BY <2>3, <3>2, <3>3 DEF BatchStop
  <2>4. CASE Txn(th)
    <3>1. e.kind = "txn"  BY <2>4 DEF Txn, Next1
    <3>2. h = HeldBy(th)  BY <1>2, <3>1, MoveKinds
    <3> QED  BY <2>4, <3>2 DEF Txn
  <2> QED  BY <2>1, <2>2, <2>3, <2>4
<1>6. LockState'  BY <1>1, <1>3, <1>5 DEF LockState
<1>7. HeldBy(th)' = h
  BY <1>1, <1>4, <1>5, LockOrderAssumption DEF HeldBy, owning
<1>8. ASSUME NEW u \in Thread \ {th}  PROVE HeldBy(u)' = HeldBy(u)
  <2>1. /\ batch' = batch \/ (batch' \in {NoThread, th} /\ batch \in {NoThread, th})
        /\ u # NoThread /\ u # th
    BY <1>5, LockOrderAssumption
  <2> QED  BY <1>1, <2>1 DEF HeldBy
<1> HIDE DEF e
<1> QED  BY <1>1, <1>2, <1>5, <1>6, <1>7, <1>8, ThreadMoves

\* The operations that take the locks in order.
InOrder == {"handle_incoming_tx", "handle_incoming_blocks", "create_block_template",
            "flush_txes_from_pool", "pop_blocks", "get_blocks"}

\* Every thread stays on its path.
LEMMA LockInvariant ==
  ASSUME Operations \subseteq InOrder
  PROVE  Spec => []LockInv
<1>1. Init => LockInv
  <2> SUFFICES ASSUME Init PROVE LockInv  OBVIOUS
  <2>1. /\ owner = [m \in Mutex |-> NoThread] /\ depth = [m \in Mutex |-> 0] /\ batch = NoThread
        /\ todo \in [Thread -> {Program[o] : o \in Operations}]
    BY DEF Init
  <2>2. LockState  BY <2>1 DEF LockState
  <2>3. ASSUME NEW th \in Thread
        PROVE  todo[th] \in Seq(Event) /\ Path(todo[th], HeldBy(th), Nothing)
    <3>1. PICK o \in Operations : todo[th] = Program[o]  BY <2>1
    <3>2. HeldBy(th) = Nothing  BY <2>1, LockOrderAssumption DEF HeldBy, Nothing
    <3>3. o \in InOrder  OBVIOUS
    <3> QED  BY <3>1, <3>2, <3>3, ProgramPath DEF InOrder
  <2>4. todo \in [Thread -> Seq(Event)]  BY <2>1, <2>3
  <2> QED  BY <2>2, <2>3, <2>4 DEF LockInv
<1>2. LockInv /\ [Next]_vars => LockInv'
  <2> SUFFICES ASSUME LockInv, [Next]_vars PROVE LockInv'  OBVIOUS
  <2>1. CASE UNCHANGED vars
    BY <2>1 DEF vars, LockInv, LockState, HeldBy
  <2>2. ASSUME NEW th \in Thread, Step(th)  PROVE LockInv'
    BY <2>2, LockStep, UnlockStep, BatchStep DEF Step
  <2> QED  BY <2>1, <2>2 DEF Next
<1> QED  BY <1>1, <1>2, PTL DEF Spec

\* A thread that holds the lock of the chain asks for that of the pool only
\* when it has it already, for any number of threads.
THEOREM LockOrderIsKept ==
  ASSUME Operations \subseteq InOrder
  PROVE  Spec => []LockOrderKept
<1>1. LockInv => LockOrderKept
  <2> SUFFICES ASSUME LockInv, NEW th \in Thread, owner["chain"] = th, WantsLock(th, "pool")
               PROVE  owner["pool"] = th
    BY DEF LockOrderKept
  <2> DEFINE e == Head(todo[th])
  <2>1. todo[th] # << >> /\ e.kind = "lock" /\ e.mutex = "pool"  BY DEF WantsLock, Next1
  <2>2. PICK h \in Held : e \in Event /\ Moves(e, HeldBy(th), h)  BY <2>1, NextEvent
  <2> HIDE DEF e
  <2>3. MayLock(HeldBy(th), "pool")
    <3>1. MayLock(HeldBy(th), e.mutex)  BY <2>1, <2>2, MoveKinds
    <3> QED  BY <2>1, <3>1
  <2>4. LockState /\ "pool" \in Mutex /\ "chain" \in Mutex  BY DEF LockInv, Mutex
  <2>5. HeldBy(th).count["chain"] > 0  BY <2>4, HeldParts
  <2>6. HeldBy(th).count["pool"] > 0  BY <2>3, <2>5 DEF MayLock
  <2> QED  BY <2>4, <2>6, HeldParts
<1> QED  BY <1>1, LockInvariant, PTL

\* A LockedTXN finds no batch of another thread: it never joins, and never
\* aborts, a write transaction that is not its own.
THEOREM BatchIsAlwaysOwn ==
  ASSUME Operations \subseteq InOrder
  PROVE  Spec => []BatchIsOwn
<1>1. LockInv => BatchIsOwn
  <2> SUFFICES ASSUME LockInv, NEW th \in Thread, Next1(th, "txn")
               PROVE  batch \in {NoThread, th}
    BY DEF BatchIsOwn
  <2> DEFINE e == Head(todo[th])
  <2>1. todo[th] # << >> /\ e.kind = "txn"  BY DEF Next1
  <2>2. PICK h \in Held : e \in Event /\ Moves(e, HeldBy(th), h)  BY <2>1, NextEvent
  <2> HIDE DEF e
  <2>3. HeldBy(th).count["pool"] > 0  BY <2>1, <2>2, MoveKinds
  <2>4. LockState /\ "pool" \in Mutex  BY DEF LockInv, Mutex
  <2>5. owner["pool"] = th  BY <2>3, <2>4, HeldParts
  <2> QED  BY <2>4, <2>5 DEF LockState
<1> QED  BY <1>1, LockInvariant, PTL

\* As long as an operation is not finished, some thread can go on: it has an
\* event to go through, and the mutex it asks for, if any, is free or its own.
SomeoneCanGo ==
    Finished \/ \E th \in Thread : /\ todo[th] # << >>
                                   /\ \A m \in Mutex : WantsLock(th, m) => owner[m] \in {NoThread, th}

\* The mutexes are taken in one order, so any number of threads is free of
\* deadlock.  The thread that holds the last mutex of the order that anybody
\* holds can go on.
THEOREM NoDeadlock ==
  ASSUME Operations \subseteq InOrder
  PROVE  Spec => []SomeoneCanGo
<1>1. LockInv => SomeoneCanGo
  <2> SUFFICES ASSUME LockInv, ~ Finished
               PROVE  \E th \in Thread : /\ todo[th] # << >>
                         /\ \A m \in Mutex : WantsLock(th, m) => owner[m] \in {NoThread, th}
    BY DEF SomeoneCanGo
  <2>0. LockState /\ Mutex = {"incoming", "pool", "chain"}  BY DEF LockInv, Mutex
  <2>1. ASSUME NEW th \in Thread, NEW m \in Mutex, owner[m] = th  PROVE todo[th] # << >>
    <3>1. HeldBy(th).count[m] > 0  BY <2>0, <2>1, HeldParts
    <3>2. HeldBy(th) # Nothing  BY <3>1, <2>1 DEF Nothing
    <3>3. Path(todo[th], HeldBy(th), Nothing)  BY DEF LockInv
    <3> QED  BY <3>2, <3>3, PathEnd
  <2>2. ASSUME NEW th \in Thread, NEW m \in Mutex, WantsLock(th, m)
        PROVE  /\ m = "pool" => owner["chain"] # th \/ owner["pool"] = th
               /\ m = "incoming" => owner["incoming"] = th \/ (owner["pool"] # th /\ owner["chain"] # th)
    <3> DEFINE e == Head(todo[th])
    <3>1. todo[th] # << >> /\ e.kind = "lock" /\ e.mutex = m  BY <2>2 DEF WantsLock, Next1
    <3>2. PICK h \in Held : e \in Event /\ Moves(e, HeldBy(th), h)  BY <3>1, NextEvent
    <3> HIDE DEF e
    <3>3. MayLock(HeldBy(th), m)  BY <3>1, <3>2, MoveKinds
    <3>4. \A n \in Mutex : /\ HeldBy(th).count[n] \in Nat
                           /\ HeldBy(th).count[n] > 0 <=> owner[n] = th
      BY <2>0, HeldParts DEF Held
    <3> QED  BY <2>0, <3>3, <3>4 DEF MayLock
  <2>3. owner["chain"] \in Thread \cup {NoThread} /\ owner["pool"] \in Thread \cup {NoThread}
        /\ owner["incoming"] \in Thread \cup {NoThread}
    BY <2>0 DEF LockState
  <2>4. CASE owner["chain"] # NoThread
    <3>1. PICK th \in Thread : owner["chain"] = th  BY <2>3, <2>4
    <3> QED  BY <2>0, <2>1, <2>2, <3>1
  <2>5. CASE owner["chain"] = NoThread /\ owner["pool"] # NoThread
    <3>1. PICK th \in Thread : owner["pool"] = th  BY <2>3, <2>5
    <3> QED  BY <2>0, <2>1, <2>2, <2>5, <3>1
  <2>6. CASE owner["chain"] = NoThread /\ owner["pool"] = NoThread /\ owner["incoming"] # NoThread
    <3>1. PICK th \in Thread : owner["incoming"] = th  BY <2>3, <2>6
    <3> QED  BY <2>0, <2>1, <2>6, <3>1
  <2>7. CASE owner["chain"] = NoThread /\ owner["pool"] = NoThread /\ owner["incoming"] = NoThread
    <3>1. PICK th \in Thread : todo[th] # << >>  BY DEF Finished
    <3> QED  BY <2>0, <2>7, <3>1
  <2> QED  BY <2>4, <2>5, <2>6, <2>7
<1> QED  BY <1>1, LockInvariant, PTL
=============================================================================
