----------------------------- MODULE BlockQueue -----------------------------
(***************************************************************************)
(* The queue of block spans a syncing node downloads from its peers        *)
(* (src/cryptonote_protocol/block_queue.cpp).                              *)
(*                                                                         *)
(* A span is a run of consecutive heights given to one connection.  It is  *)
(* scheduled while its blocks are on order and filled once they have       *)
(* arrived.  The queue keeps, beside the spans, the set requested_hashes   *)
(* and the map have_blocks from a hash to its height, which the protocol   *)
(* handler consults to skip what it need not ask for again.                *)
(*                                                                         *)
(* Each action is one public member function; the queue's recursive mutex  *)
(* makes it atomic.  The handler's threads may call them in any order and  *)
(* with the data of any peer, so this module's Next is the most general    *)
(* client: any part of any peer's chain, at any time.                      *)
(***************************************************************************)
EXTENDS Pruning, Sequences

CONSTANTS Conn,        \* connection ids
          Hash,        \* block hashes
          MaxHeight,   \* bound on the heights of the peers' chains
          MaxSpan,     \* max_blocks, the value of get_block_sync_size
          Segments,    \* what each peer may announce: sets of [last, hashes] records
          Seed,        \* each peer's pruning seed
          LocalSeed,   \* this node's
          SyncPruned   \* whether pruned blocks may be asked for

ASSUME BlockQueueAssumption ==
    /\ MaxHeight \in Nat \ {0}
    /\ MaxSpan \in Nat \ {0}
    /\ Segments \in [Conn -> SUBSET [last : 1 .. MaxHeight, hashes : Seq(Hash)]]
    /\ \A c \in Conn : \A s \in Segments[c] :
          /\ Len(s.hashes) <= s.last
          /\ \A i, j \in DOMAIN s.hashes : s.hashes[i] = s.hashes[j] => i = j
    /\ Seed \in [Conn -> Seeds]
    /\ LocalSeed \in Seeds
    /\ SyncPruned \in BOOLEAN

VARIABLES blocks,            \* start height -> span (a std::set ordered by start)
          requested_hashes,
          have_blocks        \* hash -> height

vars == <<blocks, requested_hashes, have_blocks>>

Heights == 1 .. MaxHeight

Span == [hashes : Seq(Hash), blocks : Seq(Hash), nblocks : Nat \ {0}, connection_id : Conn]

TypeOK ==
    /\ DOMAIN blocks \subseteq Heights
    /\ blocks \in [DOMAIN blocks -> Span]
    /\ requested_hashes \subseteq Hash
    /\ DOMAIN have_blocks \subseteq Hash
    /\ have_blocks \in [DOMAIN have_blocks -> Nat]

Elems(s) == {s[i] : i \in DOMAIN s}

filled(span) == span.blocks # << >>

Without(f, S) == [x \in DOMAIN f \ S |-> f[x]]

------------------------------------------------------------------------------
Init ==
    /\ blocks = << >>
    /\ requested_hashes = {}
    /\ have_blocks = << >>

(* erase_block, for each of a set of spans: their hashes are forgotten.    *)
HashesOf(starts) == UNION {Elems(blocks[s].hashes) : s \in starts}

erase_blocks_leaving_requested(starts) ==   \* mutant
    /\ blocks' = Without(blocks, starts)
    /\ have_blocks' = Without(have_blocks, HashesOf(starts))
    /\ UNCHANGED requested_hashes

erase_blocks_leaving_have(starts) ==   \* mutant
    /\ blocks' = Without(blocks, starts)
    /\ requested_hashes' = requested_hashes \ HashesOf(starts)
    /\ UNCHANGED have_blocks

erase_blocks(starts) ==
    /\ blocks' = Without(blocks, starts)
    /\ requested_hashes' = requested_hashes \ HashesOf(starts)
    /\ have_blocks' = Without(have_blocks, HashesOf(starts))

flush_spans(c, all) ==
    erase_blocks({s \in DOMAIN blocks :
                     blocks[s].connection_id = c /\ (all \/ ~filled(blocks[s]))})

flush_stale_spans(live) ==
    erase_blocks({s \in DOMAIN blocks :
                     ~filled(blocks[s]) /\ blocks[s].connection_id \notin live})

remove_spans(c, height) ==
    erase_blocks({s \in DOMAIN blocks :
                     blocks[s].connection_id = c /\ s <= height})

(* add_blocks with the blocks themselves: whatever span starts at that     *)
(* height is removed and its hashes, if any, are given to the new one and  *)
(* marked as obtained (a chain entry holds no hash twice).                 *)
obtained(hashes, height) ==
    [h \in Elems(hashes) |-> height + (CHOOSE i \in DOMAIN hashes : hashes[i] = h) - 1]

add_filled(height, bcel, c) ==
    LET hashes == IF height \in DOMAIN blocks THEN blocks[height].hashes ELSE << >>
        new == [hashes |-> hashes, blocks |-> bcel,
                nblocks |-> Len(bcel), connection_id |-> c]
        got == obtained(hashes, height)
    IN  /\ blocks' = [s \in DOMAIN blocks \cup {height} |->
                         IF s = height THEN new ELSE blocks[s]]
        /\ requested_hashes' = requested_hashes \cup Elems(hashes)
        /\ have_blocks' = [h \in DOMAIN have_blocks \cup Elems(hashes) |->
                              IF h \in Elems(hashes) THEN got[h] ELSE have_blocks[h]]

(* reserve_span: the part of the announced hashes to order from this peer. *)
SkipRequested(seg, from) ==
    LET start == seg.last - Len(seg.hashes) + 1
        wanted(h) == h = seg.last + 1 \/ seg.hashes[h - start + 1] \notin requested_hashes
    IN  CHOOSE h \in from .. (seg.last + 1) :
            wanted(h) /\ \A g \in from .. (h - 1) : ~wanted(g)

NextStart(seg, chain_height, seed, sync_pruned) ==
    LET first == SkipRequested(seg, seg.last - Len(seg.hashes) + 1)
        unpruned == get_next_unpruned_block_height(first, chain_height, seed)
    IN  IF ~sync_pruned /\ unpruned > first /\ unpruned < first + StripeSize
        THEN unpruned
        ELSE first

SpanLength(seg, start, max, chain_height, seed, local_seed, sync_pruned) ==
    LET usable(h) ==
            IF sync_pruned
            THEN has_unpruned_block(h, chain_height, local_seed)
                     = has_unpruned_block(start, chain_height, local_seed)
            ELSE has_unpruned_block(h, chain_height, seed)
        lengths == {n \in 0 .. max : /\ start + n <= seg.last + 1
                                     /\ \A h \in start .. (start + n - 1) : usable(h)}
    IN  CHOOSE n \in lengths : \A m \in lengths : m <= n

(* The span is inserted unless one with this start exists already, and     *)
(* set_span_hashes then only finds it if it belongs to the same connection *)
(* (erasing what it held, but keeping its blocks and its length).          *)
schedule(start, length, hashes, c) ==
    LET there == start \in DOMAIN blocks
        old == IF there THEN blocks[start].hashes ELSE << >>
    IN  IF there /\ blocks[start].connection_id # c
        THEN UNCHANGED vars
        ELSE /\ blocks' = [s \in DOMAIN blocks \cup {start} |->
                              IF s # start THEN blocks[s]
                              ELSE IF there THEN [blocks[s] EXCEPT !.hashes = hashes]
                              ELSE [hashes |-> hashes, blocks |-> << >>,
                                    nblocks |-> length, connection_id |-> c]]
             /\ requested_hashes' =
                    (requested_hashes \ Elems(old)) \cup Elems(hashes)
             /\ have_blocks' = Without(have_blocks, Elems(old))

reserve_span(seg, max, c, seed, local_seed, chain_height, sync_pruned) ==
    LET first == seg.last - Len(seg.hashes) + 1
        next == NextStart(seg, chain_height, seed, sync_pruned)
    IN  /\ seg.hashes # << >>
        /\ next <= seg.last
        /\ \E start \in first .. seg.last : \E length \in 1 .. (seg.last - start + 1) :
              /\ start = SkipRequested(seg, next)
              /\ length = SpanLength(seg, start, max, chain_height,
                                     seed, local_seed, sync_pruned)
              /\ schedule(start, length,
                          SubSeq(seg.hashes, start - first + 1, start - first + length), c)

------------------------------------------------------------------------------
(* Queries the handler bases its decisions on.                             *)
requested(h) == h \in requested_hashes
have(h) == h \in DOMAIN have_blocks

Covered(start) == start .. (start + blocks[start].nblocks - 1)

(* get_next_needed_height walks the spans in order and stops at the first  *)
(* one that starts past what is covered so far.                            *)
reach_last(S, height) ==   \* mutant: the last span's end instead of the furthest
    IF S = {} THEN height
    ELSE LET last == CHOOSE s \in S : \A r \in S : r <= s IN last + blocks[last].nblocks

reach(S, height) ==
    LET ends == {height} \cup {s + blocks[s].nblocks : s \in S}
    IN  CHOOSE m \in ends : \A e \in ends : e <= m

get_next_needed_height(height) ==
    LET relevant == {s \in DOMAIN blocks : s + blocks[s].nblocks - 1 >= height}
        before(s) == {r \in relevant : r < s}
        gaps == {s \in relevant : s > reach(before(s), height)}
    IN  IF gaps = {} THEN reach(relevant, height)
        ELSE LET stop == CHOOSE s \in gaps : \A r \in gaps : s <= r
             IN  reach(before(stop), height)

get_next_span(need_filled) ==
    {s \in DOMAIN blocks :
        LET candidate(r) == ~need_filled \/ filled(blocks[r])
        IN  candidate(s) /\ \A r \in DOMAIN blocks : candidate(r) => s <= r}

get_last_known_hash(c) ==
    LET mine == {s \in DOMAIN blocks : /\ blocks[s].connection_id = c
                                       /\ Len(blocks[s].hashes) = blocks[s].nblocks}
        end(s) == s + blocks[s].nblocks - 1
    IN  {blocks[s].hashes[blocks[s].nblocks] :
            s \in {r \in mine : \A q \in mine : end(q) <= end(r)}}

------------------------------------------------------------------------------
Next ==
    \/ \E c \in Conn, all \in BOOLEAN : flush_spans(c, all)
    \/ \E live \in SUBSET Conn : flush_stale_spans(live)
    \/ \E c \in Conn, h \in Heights : remove_spans(c, h)
    \/ \E c \in Conn : \E seg \in Segments[c] :
          /\ Len(seg.hashes) \in 1 .. MaxSpan
          /\ add_filled(seg.last - Len(seg.hashes) + 1, seg.hashes, c)
    \/ \E c \in Conn : \E seg \in Segments[c] :
          reserve_span(seg, MaxSpan, c, Seed[c], LocalSeed, MaxHeight, SyncPruned)

Spec == Init /\ [][Next]_vars

------------------------------------------------------------------------------
(* Everything marked as requested is on order or held by some span: no     *)
(* hash can stay marked with nobody to deliver it, which would stop every  *)
(* peer from ever being asked for it (reserve_span skips it).              *)
RequestedBacked ==
    \A h \in requested_hashes :
        \E s \in DOMAIN blocks : h \in Elems(blocks[s].hashes)

(* have_blocks never outlives the filled span it was taken from and gives  *)
(* the height the hash has in it; a stale entry would make                 *)
(* skip_unneeded_hashes drop a block that nobody holds.                    *)
HaveBacked ==
    \A h \in DOMAIN have_blocks :
        \E s \in DOMAIN blocks :
            /\ filled(blocks[s])
            /\ \E i \in DOMAIN blocks[s].hashes :
                   blocks[s].hashes[i] = h /\ have_blocks[h] = s + i - 1

(* A hash that is held is also marked as requested, so that it is not      *)
(* ordered a second time while its span waits to be added to the chain.    *)
HaveIsRequested == DOMAIN have_blocks \subseteq requested_hashes

(* get_next_needed_height is the first height, from the chain's on, that   *)
(* no span covers, for any set of overlapping spans.                       *)
NextNeededIsFirstGap ==
    \A height \in 1 .. (MaxHeight + 1) :
        LET n == get_next_needed_height(height)
        IN  /\ n >= height
            /\ \A s \in DOMAIN blocks : n \notin Covered(s)
            /\ \A g \in height .. (n - 1) : \E s \in DOMAIN blocks : g \in Covered(s)
=============================================================================
