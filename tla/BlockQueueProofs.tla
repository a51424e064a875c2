-------------------------- MODULE BlockQueueProofs --------------------------
(***************************************************************************)
(* Proofs that the bookkeeping of the block queue is sound for any number  *)
(* of connections, any chains and any span size, and that the functions on *)
(* pruned heights it asks give the heights they are meant to, for any size *)
(* and number of stripes.                                                  *)
(***************************************************************************)
EXTENDS BlockQueue, SequenceTheorems, WellFoundedInduction, TLAPS

(* The inductive invariant: the three bookkeeping invariants and the types *)
(* of the queue they speak of.                                             *)
QueueInv == TypeOK /\ RequestedBacked /\ HaveBacked /\ HaveIsRequested

------------------------------------------------------------------------------
(* Erasing spans together with all their hashes cannot leave a mark behind. *)
LEMMA EraseKeepsInv ==
    ASSUME QueueInv, NEW starts \in SUBSET DOMAIN blocks, erase_blocks(starts)
    PROVE  QueueInv'
  <1>1. TypeOK'
    BY DEF QueueInv, TypeOK, erase_blocks, Without
  <1>2. \A s \in DOMAIN blocks \ starts : s \in DOMAIN blocks' /\ blocks'[s] = blocks[s]
    BY DEF erase_blocks, Without
  <1>3. \A s \in starts : Elems(blocks[s].hashes) \subseteq HashesOf(starts)
    BY DEF HashesOf
  <1>4. RequestedBacked'
    <2> SUFFICES ASSUME NEW h \in requested_hashes'
                 PROVE  \E s \in DOMAIN blocks' : h \in Elems(blocks'[s].hashes)
      BY DEF RequestedBacked, Elems
    <2>1. h \in requested_hashes /\ h \notin HashesOf(starts)
      BY DEF erase_blocks
    <2>2. PICK s \in DOMAIN blocks : h \in Elems(blocks[s].hashes)
      BY <2>1 DEF QueueInv, RequestedBacked
    <2> QED  BY <1>2, <1>3, <2>1, <2>2
  <1>5. HaveBacked'
    <2> SUFFICES ASSUME NEW h \in DOMAIN have_blocks'
                 PROVE  \E s \in DOMAIN blocks' :
                           /\ filled(blocks'[s])
                           /\ \E i \in DOMAIN blocks'[s].hashes :
                                 /\ blocks'[s].hashes[i] = h
                                 /\ have_blocks'[h] = s + i - 1
      BY DEF HaveBacked, filled
    <2>1. h \in DOMAIN have_blocks /\ h \notin HashesOf(starts) /\ have_blocks'[h] = have_blocks[h]
      BY DEF erase_blocks, Without
    <2>2. PICK s \in DOMAIN blocks :
              /\ filled(blocks[s])
              /\ \E i \in DOMAIN blocks[s].hashes :
                     blocks[s].hashes[i] = h /\ have_blocks[h] = s + i - 1
      BY <2>1 DEF QueueInv, HaveBacked
    <2>3. h \in Elems(blocks[s].hashes)
      BY <2>2 DEF Elems
    <2>4. s \notin starts
      BY <1>3, <2>1, <2>3
    <2> QED  BY <1>2, <2>1, <2>2, <2>4
  <1>6. HaveIsRequested'
    BY DEF QueueInv, HaveIsRequested, erase_blocks, Without
  <1> QED  BY <1>1, <1>4, <1>5, <1>6 DEF QueueInv

(* A filled span takes over the hashes of the span it replaces.            *)
LEMMA FillKeepsInv ==
    ASSUME QueueInv, NEW height \in Heights, NEW bcel \in Seq(Hash), bcel # << >>,
           NEW c \in Conn, add_filled(height, bcel, c)
    PROVE  QueueInv'
  <1> DEFINE hashes == IF height \in DOMAIN blocks THEN blocks[height].hashes ELSE << >>
             new == [hashes |-> hashes, blocks |-> bcel,
                     nblocks |-> Len(bcel), connection_id |-> c]
  <1>1. hashes \in Seq(Hash)
    BY DEF QueueInv, TypeOK, Span
  <1>2. /\ blocks' = [s \in DOMAIN blocks \cup {height} |->
                         IF s = height THEN new ELSE blocks[s]]
        /\ requested_hashes' = requested_hashes \cup Elems(hashes)
        /\ DOMAIN have_blocks' = DOMAIN have_blocks \cup Elems(hashes)
        /\ \A h \in Elems(hashes) : have_blocks'[h] = obtained(hashes, height)[h]
        /\ \A h \in DOMAIN have_blocks \ Elems(hashes) : have_blocks'[h] = have_blocks[h]
    BY DEF add_filled
  <1>3. new \in Span /\ filled(new)
    BY <1>1 DEF Span, filled
  <1>4. \A h \in Elems(hashes) :
            \E i \in DOMAIN hashes : hashes[i] = h /\ have_blocks'[h] = height + i - 1
    <2> SUFFICES ASSUME NEW h \in Elems(hashes)
                 PROVE  \E i \in DOMAIN hashes :
                            hashes[i] = h /\ have_blocks'[h] = height + i - 1
      OBVIOUS
    <2>1. \E i \in DOMAIN hashes : hashes[i] = h
      BY DEF Elems
    <2> DEFINE k == CHOOSE i \in DOMAIN hashes : hashes[i] = h
    <2>2. k \in DOMAIN hashes /\ hashes[k] = h
      BY <2>1
    <2>3. have_blocks'[h] = height + k - 1
      BY <1>2 DEF obtained
    <2> HIDE DEF hashes, k
    <2> QED  BY <2>2, <2>3
  <1>5. Elems(hashes) \subseteq Hash /\ DOMAIN hashes \subseteq Nat \ {0}
    BY <1>1 DEF Elems
  <1> HIDE DEF hashes
  <1>6. TypeOK'
    <2>1. /\ DOMAIN blocks' \subseteq Heights
          /\ blocks' \in [DOMAIN blocks' -> Span]
          /\ requested_hashes' \subseteq Hash
      BY <1>2, <1>3, <1>5 DEF QueueInv, TypeOK
    <2>2. DOMAIN have_blocks' \subseteq Hash
      BY <1>2, <1>5 DEF QueueInv, TypeOK
    <2>3. ASSUME NEW h \in DOMAIN have_blocks'  PROVE have_blocks'[h] \in Nat
      <3>1. CASE h \in Elems(hashes)
        <4>1. PICK i \in DOMAIN hashes : have_blocks'[h] = height + i - 1
          BY <1>4, <3>1
        <4>2. height \in Nat /\ i \in Nat \ {0}
          BY <1>5, BlockQueueAssumption DEF Heights
        <4> QED  BY <4>1, <4>2
      <3>2. CASE h \notin Elems(hashes)
        BY <1>2, <3>2 DEF QueueInv, TypeOK
      <3> QED  BY <3>1, <3>2
    <2>4. have_blocks' = [h \in DOMAIN have_blocks' |-> have_blocks'[h]]
      BY DEF add_filled
    <2> QED  BY <2>1, <2>2, <2>3, <2>4 DEF TypeOK
  <1>7. RequestedBacked'
    <2> SUFFICES ASSUME NEW h \in requested_hashes'
                 PROVE  \E s \in DOMAIN blocks' : h \in Elems(blocks'[s].hashes)
      BY DEF RequestedBacked, Elems
    <2>1. CASE h \in Elems(hashes)
      BY <1>2, <2>1
    <2>2. CASE h \notin Elems(hashes)
      <3>1. PICK s \in DOMAIN blocks : h \in Elems(blocks[s].hashes)
        BY <1>2, <2>2 DEF QueueInv, RequestedBacked
      <3>2. s # height
        BY <2>2, <3>1 DEF hashes
      <3> QED  BY <1>2, <3>1, <3>2
    <2> QED  BY <2>1, <2>2
  <1>8. HaveBacked'
    <2> SUFFICES ASSUME NEW h \in DOMAIN have_blocks'
                 PROVE  \E s \in DOMAIN blocks' :
                           /\ filled(blocks'[s])
                           /\ \E i \in DOMAIN blocks'[s].hashes :
                                 /\ blocks'[s].hashes[i] = h
                                 /\ have_blocks'[h] = s + i - 1
      BY DEF HaveBacked, filled
    <2>1. CASE h \in Elems(hashes)
      <3>1. blocks'[height] = new /\ height \in DOMAIN blocks'
        BY <1>2
      <3> QED  BY <1>3, <1>4, <2>1, <3>1
    <2>2. CASE h \notin Elems(hashes)
      <3>1. h \in DOMAIN have_blocks /\ have_blocks'[h] = have_blocks[h]
        BY <1>2, <2>2
      <3>2. PICK s \in DOMAIN blocks :
                /\ filled(blocks[s])
                /\ \E i \in DOMAIN blocks[s].hashes :
                       blocks[s].hashes[i] = h /\ have_blocks[h] = s + i - 1
        BY <3>1 DEF QueueInv, HaveBacked
      <3>3. s # height
        BY <2>2, <3>2 DEF hashes, Elems
      <3>4. s \in DOMAIN blocks' /\ blocks'[s] = blocks[s]
        BY <1>2, <3>3
      <3> QED  BY <3>1, <3>2, <3>4
    <2> QED  BY <2>1, <2>2
  <1>9. HaveIsRequested'
    BY <1>2 DEF QueueInv, HaveIsRequested
  <1> QED  BY <1>6, <1>7, <1>8, <1>9 DEF QueueInv

(* Scheduling a span over an old one of the same connection forgets what   *)
(* the old one had marked; over another connection's it changes nothing.   *)
LEMMA ScheduleKeepsInv ==
    ASSUME QueueInv, NEW start \in Heights, NEW length \in Nat \ {0},
           NEW hashes \in Seq(Hash), NEW c \in Conn,
           schedule(start, length, hashes, c)
    PROVE  QueueInv'
  <1>1. CASE start \in DOMAIN blocks /\ blocks[start].connection_id # c
    <2>1. UNCHANGED vars
      BY <1>1 DEF schedule
    <2> QED  BY <2>1 DEF QueueInv, vars, TypeOK, RequestedBacked, HaveBacked, HaveIsRequested
  <1>2. CASE ~(start \in DOMAIN blocks /\ blocks[start].connection_id # c)
    <2> DEFINE old == IF start \in DOMAIN blocks THEN blocks[start].hashes ELSE << >>
               new == IF start \in DOMAIN blocks
                      THEN [blocks[start] EXCEPT !.hashes = hashes]
                      ELSE [hashes |-> hashes, blocks |-> << >>,
                            nblocks |-> length, connection_id |-> c]
    <2>1. /\ blocks' = [s \in DOMAIN blocks \cup {start} |->
                           IF s = start THEN new ELSE blocks[s]]
          /\ requested_hashes' = (requested_hashes \ Elems(old)) \cup Elems(hashes)
          /\ have_blocks' = Without(have_blocks, Elems(old))
      BY <1>2 DEF schedule
    <2>2. new \in Span /\ new.hashes = hashes
      <3>1. CASE start \in DOMAIN blocks
        <4>1. blocks[start] \in Span
          BY <3>1 DEF QueueInv, TypeOK
        <4> QED  BY <3>1, <4>1 DEF Span
      <3>2. CASE start \notin DOMAIN blocks
        BY <3>2 DEF Span
      <3> QED  BY <3>1, <3>2
    <2>3. Elems(hashes) \subseteq Hash
      BY DEF Elems
    <2> HIDE DEF new
    <2>4. TypeOK'
      BY <2>1, <2>2, <2>3 DEF QueueInv, TypeOK, Without
    <2>5. RequestedBacked'
      <3> SUFFICES ASSUME NEW h \in requested_hashes'
                   PROVE  \E s \in DOMAIN blocks' : h \in Elems(blocks'[s].hashes)
        BY DEF RequestedBacked, Elems
      <3>1. CASE h \in Elems(hashes)
        BY <2>1, <2>2, <3>1
      <3>2. CASE h \notin Elems(hashes)
        <4>1. h \in requested_hashes /\ h \notin Elems(old)
          BY <2>1, <3>2
        <4>2. PICK s \in DOMAIN blocks : h \in Elems(blocks[s].hashes)
          BY <4>1 DEF QueueInv, RequestedBacked
        <4>3. s # start
          BY <4>1, <4>2
        <4> QED  BY <2>1, <4>2, <4>3
      <3> QED  BY <3>1, <3>2
    <2>6. HaveBacked'
      <3> SUFFICES ASSUME NEW h \in DOMAIN have_blocks'
                   PROVE  \E s \in DOMAIN blocks' :
                             /\ filled(blocks'[s])
                             /\ \E i \in DOMAIN blocks'[s].hashes :
                                   /\ blocks'[s].hashes[i] = h
                                   /\ have_blocks'[h] = s + i - 1
        BY DEF HaveBacked, filled
      <3>1. h \in DOMAIN have_blocks /\ h \notin Elems(old) /\ have_blocks'[h] = have_blocks[h]
        BY <2>1 DEF Without
      <3>2. PICK s \in DOMAIN blocks :
                /\ filled(blocks[s])
                /\ \E i \in DOMAIN blocks[s].hashes :
                       blocks[s].hashes[i] = h /\ have_blocks[h] = s + i - 1
        BY <3>1 DEF QueueInv, HaveBacked
      <3>3. s # start
        BY <3>1, <3>2 DEF Elems
      <3>4. s \in DOMAIN blocks' /\ blocks'[s] = blocks[s]
        BY <2>1, <3>3
      <3> QED  BY <3>1, <3>2, <3>4
    <2>7. HaveIsRequested'
      BY <2>1 DEF QueueInv, HaveIsRequested, Without
    <2> QED  BY <2>4, <2>5, <2>6, <2>7 DEF QueueInv
  <1> QED  BY <1>1, <1>2

------------------------------------------------------------------------------
(* The queue's bookkeeping invariant holds in every reachable state.       *)
THEOREM QueueInvariant == Spec => []QueueInv
  <1>1. Init => QueueInv
    BY DEF Init, QueueInv, TypeOK, RequestedBacked, HaveBacked, HaveIsRequested
  <1>2. QueueInv /\ [Next]_vars => QueueInv'
    <2> SUFFICES ASSUME QueueInv, [Next]_vars  PROVE QueueInv'
      OBVIOUS
    <2>1. ASSUME NEW c \in Conn, NEW all \in BOOLEAN, flush_spans(c, all)
          PROVE  QueueInv'
      BY <2>1, EraseKeepsInv DEF flush_spans
    <2>2. ASSUME NEW live \in SUBSET Conn, flush_stale_spans(live)
          PROVE  QueueInv'
      BY <2>2, EraseKeepsInv DEF flush_stale_spans
    <2>3. ASSUME NEW c \in Conn, NEW h \in Heights, remove_spans(c, h)
          PROVE  QueueInv'
      BY <2>3, EraseKeepsInv DEF remove_spans
    <2>4. ASSUME NEW c \in Conn, NEW seg \in Segments[c],
                 Len(seg.hashes) \in 1 .. MaxSpan,
                 add_filled(seg.last - Len(seg.hashes) + 1, seg.hashes, c)
          PROVE  QueueInv'
      <3>1. seg \in [last : 1 .. MaxHeight, hashes : Seq(Hash)] /\ Len(seg.hashes) <= seg.last
        BY BlockQueueAssumption
      <3>2. seg.hashes \in Seq(Hash) /\ seg.last \in 1 .. MaxHeight
        BY <3>1
      <3>3. seg.last - Len(seg.hashes) + 1 \in Heights /\ seg.hashes # << >>
        BY <2>4, <3>1, <3>2, BlockQueueAssumption DEF Heights
      <3> QED  BY <2>4, <3>2, <3>3, FillKeepsInv
    <2>5. ASSUME NEW c \in Conn, NEW seg \in Segments[c],
                 reserve_span(seg, MaxSpan, c, Seed[c], LocalSeed, MaxHeight, SyncPruned)
          PROVE  QueueInv'
      <3> DEFINE first == seg.last - Len(seg.hashes) + 1
      <3>1. seg \in [last : 1 .. MaxHeight, hashes : Seq(Hash)] /\ Len(seg.hashes) <= seg.last
        BY BlockQueueAssumption
      <3>2. /\ seg.hashes \in Seq(Hash) /\ seg.last \in 1 .. MaxHeight
            /\ Len(seg.hashes) \in Nat /\ MaxHeight \in Nat
        BY <3>1, BlockQueueAssumption
      <3>3a. PICK start \in first .. seg.last :
               \E length \in 1 .. (seg.last - start + 1) :
                  schedule(start, length,
                      SubSeq(seg.hashes, start - first + 1, start - first + length), c)
        BY <2>5 DEF reserve_span
      <3>3. PICK length \in 1 .. (seg.last - start + 1) :
               schedule(start, length,
                   SubSeq(seg.hashes, start - first + 1, start - first + length), c)
        BY <3>3a
      <3>4. start \in Heights /\ length \in Nat \ {0}
        BY <3>1, <3>2, <3>3 DEF Heights
      <3> DEFINE m == start - first + 1
                 n == start - first + length
      <3>5. m \in Int /\ n \in Int /\ m >= 1 /\ n <= Len(seg.hashes)
        BY <3>1, <3>2, <3>3, <3>4
      <3>6. \A i \in m .. n : seg.hashes[i] \in Hash
        BY <3>2, <3>5
      <3>7. SubSeq(seg.hashes, m, n) \in Seq(Hash)
        <4> HIDE DEF m, n
        <4> QED  BY <3>5, <3>6, SubSeqProperties
      <3> QED  BY <3>3, <3>4, <3>7, ScheduleKeepsInv
    <2>6. CASE UNCHANGED vars
      BY <2>6 DEF QueueInv, vars, TypeOK, RequestedBacked, HaveBacked, HaveIsRequested
    <2> QED  BY <2>1, <2>2, <2>3, <2>4, <2>5, <2>6 DEF Next
  <1> QED  BY <1>1, <1>2, PTL DEF Spec

(* The spans, the marks and the heights stay of their types: in particular *)
(* no span ever has no block.                                              *)
THEOREM QueueTypeCorrect == Spec => []TypeOK
  <1>1. QueueInv => TypeOK
    BY DEF QueueInv
  <1> QED  BY <1>1, QueueInvariant, PTL

(* Every hash the queue claims to have comes from a filled span, at the    *)
(* height the queue gives it: skip_unneeded_hashes never drops a block     *)
(* that no span holds.                                                     *)
THEOREM HaveIsBacked == Spec => []HaveBacked
  <1>1. QueueInv => HaveBacked
    BY DEF QueueInv
  <1> QED  BY <1>1, QueueInvariant, PTL

(* Every hash marked as requested is in a span, so no block is withheld    *)
(* from every peer with nobody to deliver it.                              *)
THEOREM RequestedIsBacked == Spec => []RequestedBacked
  <1>1. QueueInv => RequestedBacked
    BY DEF QueueInv
  <1> QED  BY <1>1, QueueInvariant, PTL

------------------------------------------------------------------------------
(* A non-empty set of naturals has a least element.                        *)
LEMMA LeastOf ==
    ASSUME NEW S \in SUBSET Nat, S # {}
    PROVE  \E m \in S : \A k \in S : m <= k
  <1> DEFINE R == {ss \in Nat \X Nat : ss[1] < ss[2]}
  <1>1. IsWellFoundedOn(R, Nat)
    BY NatLessThanWellFounded, Zenon DEF OpToRel
  <1> HIDE DEF R
  <1>2. PICK m \in S : \A y \in S : ~(<<y, m>> \in R)
    BY <1>1, WFMin
  <1>3. \A y \in S : ~(y < m)
    BY <1>2 DEF R
  <1> QED  BY <1>3

(* The height just past the span that starts at s.                         *)
EndOf(s) == s + blocks[s].nblocks

LEMMA SpanEnds ==
    ASSUME TypeOK
    PROVE  /\ DOMAIN blocks \subseteq Nat
           /\ \A s \in DOMAIN blocks :
                 /\ EndOf(s) \in Nat /\ s < EndOf(s)
                 /\ s + blocks[s].nblocks - 1 = EndOf(s) - 1
                 /\ Covered(s) = s .. (EndOf(s) - 1)
  <1>1. DOMAIN blocks \subseteq Nat
    BY BlockQueueAssumption DEF TypeOK, Heights
  <1>2. \A s \in DOMAIN blocks : blocks[s].nblocks \in Nat \ {0}
    BY DEF TypeOK, Span
  <1>3. \A s \in DOMAIN blocks :
            /\ EndOf(s) \in Nat /\ s < EndOf(s)
            /\ s + blocks[s].nblocks - 1 = EndOf(s) - 1
    BY <1>1, <1>2 DEF EndOf
  <1> QED  BY <1>1, <1>3 DEF Covered

(* There are finitely many spans, so their ends are bounded: a least start *)
(* below which they are not would have a bounded part below it.            *)
LEMMA EndsBounded ==
    ASSUME TypeOK
    PROVE  \E u \in Nat : \A s \in DOMAIN blocks : EndOf(s) <= u
  <1> DEFINE Bounded(n) == \E u \in Nat : \A s \in DOMAIN blocks : s <= n => EndOf(s) <= u
             Bad == {n \in Nat : ~Bounded(n)}
  <1>1. DOMAIN blocks \subseteq 1 .. MaxHeight /\ MaxHeight \in Nat
    BY BlockQueueAssumption DEF TypeOK, Heights
  <1>2. Bad = {}
    <2> SUFFICES ASSUME Bad # {}  PROVE FALSE
      OBVIOUS
    <2>1. PICK n \in Bad : \A k \in Bad : n <= k
      <3> HIDE DEF Bounded
      <3> QED  BY LeastOf
    <2>2. n # 0
      <3> SUFFICES Bounded(0)
        BY <2>1
      <3> QED  BY <1>1
    <2>3. n - 1 \in Nat /\ n - 1 \notin Bad
      <3> HIDE DEF Bounded
      <3> QED  BY <2>1, <2>2
    <2>4. PICK u \in Nat : \A s \in DOMAIN blocks : s <= n - 1 => EndOf(s) <= u
      BY <2>3
    <2>5. CASE n \in DOMAIN blocks
      <3>1. EndOf(n) \in Nat
        BY <2>5, SpanEnds
      <3>2. u + EndOf(n) \in Nat
        BY <3>1
      <3>3. ASSUME NEW s \in DOMAIN blocks, s <= n  PROVE EndOf(s) <= u + EndOf(n)
        <4>1. s \in Nat /\ EndOf(s) \in Nat /\ n \in Nat
          BY SpanEnds
        <4>2. CASE s = n
          BY <3>1, <4>2
        <4>3. CASE s # n
          <5>1. s <= n - 1
            BY <3>3, <4>1, <4>3
          <5> QED  BY <2>4, <3>1, <4>1, <5>1
        <4> QED  BY <4>2, <4>3
      <3> QED  BY <3>2, <3>3, <2>1
    <2>6. CASE n \notin DOMAIN blocks
      <3>1. ASSUME NEW s \in DOMAIN blocks, s <= n  PROVE EndOf(s) <= u
        <4>1. s \in Nat /\ n \in Nat /\ s # n
          BY <2>6, SpanEnds
        <4>2. s <= n - 1
          BY <3>1, <4>1
        <4> QED  BY <2>4, <4>2
      <3> QED  BY <3>1, <2>1
    <2> QED  BY <2>5, <2>6
  <1>3. Bounded(MaxHeight)
    BY <1>1, <1>2
  <1> QED  BY <1>1, <1>3

(* reach is the furthest of the ends, and none of the ends is past it.     *)
LEMMA ReachIsFurthest ==
    ASSUME TypeOK, NEW S \in SUBSET DOMAIN blocks, NEW height \in Nat
    PROVE  /\ reach(S, height) \in Nat
           /\ reach(S, height) >= height
           /\ \A s \in S : EndOf(s) <= reach(S, height)
           /\ reach(S, height) = height \/ \E s \in S : reach(S, height) = EndOf(s)
  <1> DEFINE ends == {height} \cup {s + blocks[s].nblocks : s \in S}
             above == {u \in Nat : \A e \in ends : e <= u}
  <1>1. ends \subseteq Nat
    BY SpanEnds DEF EndOf
  <1>2. above # {}
    <2>1. PICK u \in Nat : \A s \in DOMAIN blocks : EndOf(s) <= u
      BY EndsBounded
    <2>2. u + height \in Nat
      OBVIOUS
    <2>3. \A e \in ends : e <= u + height
      <3>1. \A s \in S : EndOf(s) \in Nat
        BY SpanEnds
      <3> QED  BY <2>1, <3>1 DEF EndOf
    <2> QED  BY <2>2, <2>3
  <1>3. PICK m \in above : \A k \in above : m <= k
    BY <1>2, LeastOf
  <1>4. m \in ends
    <2> SUFFICES ASSUME m \notin ends  PROVE FALSE
      OBVIOUS
    <2>1. m \in Nat /\ \A e \in ends : e <= m - 1
      <3>1. ASSUME NEW e \in ends  PROVE e <= m - 1
        <4>1. e \in Nat /\ e <= m /\ e # m /\ m \in Nat
          BY <1>1, <1>3
        <4> HIDE DEF ends
        <4> QED  BY <4>1
      <3> HIDE DEF ends
      <3> QED  BY <3>1
    <2>2. m - 1 \in Nat
      <3>1. height <= m - 1
        BY <2>1
      <3> QED  BY <2>1, <3>1
    <2> HIDE DEF ends
    <2> QED  BY <1>3, <2>1, <2>2
  <1>5. \A e \in ends : e <= m
    BY <1>3
  <1>6. reach(S, height) \in ends /\ \A e \in ends : e <= reach(S, height)
    <2>1. reach(S, height) = CHOOSE x \in ends : \A e \in ends : e <= x
      BY DEF reach
    <2> HIDE DEF ends
    <2> QED  BY <1>4, <1>5, <2>1
  <1> QED  BY <1>1, <1>6 DEF EndOf

(* The spans that matter when the chain is at a height, and those before s. *)
Relevant(height) == {s \in DOMAIN blocks : s + blocks[s].nblocks - 1 >= height}
Before(s, height) == {r \in Relevant(height) : r < s}

(* Spans walked without meeting a gap cover everything up to their reach:  *)
(* of the spans ending past an uncovered height, the first would start     *)
(* past it, and so past the reach of those before it.                      *)
LEMMA WalkedIsCovered ==
    ASSUME TypeOK, NEW height \in Nat, NEW S \in SUBSET Relevant(height),
           \A s \in S : Before(s, height) \subseteq S,
           \A s \in S : s <= reach(Before(s, height), height),
           NEW g \in Nat, height <= g, g < reach(S, height)
    PROVE  \E s \in S : g \in Covered(s)
  <1> SUFFICES ASSUME \A s \in S : g \notin Covered(s)  PROVE FALSE
    OBVIOUS
  <1>1. /\ S \subseteq DOMAIN blocks
        /\ \A s \in S : s \in Nat /\ EndOf(s) \in Nat /\ s < EndOf(s)
        /\ \A s \in S : Covered(s) = s .. (EndOf(s) - 1)
    <2>1. S \subseteq DOMAIN blocks
      BY DEF Relevant
    <2> QED  BY <2>1, SpanEnds
  <1> DEFINE past == {s \in S : g < EndOf(s)}
  <1>2. past # {}
    <2>1. reach(S, height) # height
      <3>1. reach(S, height) \in Nat
        BY <1>1, ReachIsFurthest
      <3> QED  BY <3>1
    <2>2. PICK s \in S : reach(S, height) = EndOf(s)
      BY <1>1, <2>1, ReachIsFurthest
    <2> QED  BY <2>2
  <1>3. PICK s \in past : \A r \in past : s <= r
    BY <1>1, <1>2, LeastOf
  <1>4. s \in Nat /\ EndOf(s) \in Nat /\ g < s
    BY <1>1, <1>3
  <1> DEFINE p == reach(Before(s, height), height)
  <1>5. p \in Nat /\ s <= p /\ (p = height \/ \E r \in Before(s, height) : p = EndOf(r))
    <2>1. Before(s, height) \in SUBSET DOMAIN blocks
      BY DEF Before, Relevant
    <2> QED  BY <1>3, <2>1, ReachIsFurthest
  <1> HIDE DEF p
  <1>6. p # height
    BY <1>4, <1>5
  <1>7. PICK r \in Before(s, height) : p = EndOf(r)
    BY <1>5, <1>6
  <1>8. r \in S /\ r < s
    BY <1>3 DEF Before
  <1>9. r \in past /\ r \in Nat
    BY <1>1, <1>4, <1>5, <1>7, <1>8
  <1> QED  BY <1>3, <1>4, <1>8, <1>9

(* The walk over the spans stops at the first height nobody covers.        *)
LEMMA WalkFindsFirstGap ==
    ASSUME TypeOK, NEW height \in Nat
    PROVE  LET n == get_next_needed_height(height)
           IN  /\ n >= height
               /\ \A s \in DOMAIN blocks : n \notin Covered(s)
               /\ \A g \in height .. (n - 1) : \E s \in DOMAIN blocks : g \in Covered(s)
  <1> DEFINE gaps == {s \in Relevant(height) : s > reach(Before(s, height), height)}
             stop == CHOOSE s \in gaps : \A r \in gaps : s <= r
             S == IF gaps = {} THEN Relevant(height) ELSE Before(stop, height)
             n == get_next_needed_height(height)
  <1>1. n = reach(S, height)
    BY DEF get_next_needed_height, Relevant, Before
  <1>2. /\ Relevant(height) \subseteq DOMAIN blocks
        /\ gaps \subseteq Nat
        /\ \A s \in DOMAIN blocks : /\ s \in Nat /\ EndOf(s) \in Nat /\ s < EndOf(s)
                                    /\ Covered(s) = s .. (EndOf(s) - 1)
                                    /\ s \notin Relevant(height) => EndOf(s) <= height
    <2>1. \A s \in DOMAIN blocks : s \in Nat /\ EndOf(s) \in Nat /\ s < EndOf(s)
      BY SpanEnds
    <2>2. Relevant(height) \subseteq DOMAIN blocks
      BY DEF Relevant
    <2>3. \A s \in DOMAIN blocks : Covered(s) = s .. (EndOf(s) - 1)
      BY SpanEnds
    <2>4. \A s \in DOMAIN blocks : s \notin Relevant(height) => EndOf(s) - 1 < height
      <3> SUFFICES ASSUME NEW s \in DOMAIN blocks, s \notin Relevant(height)
                   PROVE  EndOf(s) - 1 < height
        OBVIOUS
      <3>1. ~(EndOf(s) - 1 >= height)
        BY SpanEnds DEF Relevant
      <3> QED  BY <2>1, <3>1
    <2> QED  BY <2>1, <2>2, <2>3, <2>4
  <1>3. gaps # {} => stop \in gaps /\ \A r \in gaps : stop <= r
    <2> HIDE DEF gaps
    <2> QED  BY <1>2, LeastOf
  <1>4. S \subseteq Relevant(height) /\ \A s \in S : Before(s, height) \subseteq S
    <2>1. CASE gaps = {}
      BY <2>1 DEF Before
    <2>2. CASE gaps # {}
      <3>1. stop \in Nat
        BY <1>2, <1>3, <2>2
      <3>2. S = Before(stop, height)
        BY <2>2
      <3> HIDE DEF gaps, stop, S
      <3>3. ASSUME NEW s \in S, NEW r \in Before(s, height)  PROVE r \in S
        <4>1. r \in Relevant(height) /\ r < s /\ s < stop /\ s \in Relevant(height)
          BY <3>2, <3>3 DEF Before
        <4>2. r \in Nat /\ s \in Nat
          BY <1>2, <4>1
        <4>3. r < stop
          BY <3>1, <4>1, <4>2
        <4> QED  BY <3>2, <4>1, <4>3 DEF Before
      <3> QED  BY <3>2, <3>3 DEF Before
    <2> QED  BY <2>1, <2>2
  <1>5. \A s \in S : s <= reach(Before(s, height), height)
    <2> SUFFICES ASSUME NEW s \in S  PROVE s <= reach(Before(s, height), height)
      OBVIOUS
    <2>1. s \in Relevant(height) /\ s \in Nat /\ Before(s, height) \in SUBSET DOMAIN blocks
      BY <1>2, <1>4 DEF Before
    <2>2. reach(Before(s, height), height) \in Nat
      BY <2>1, ReachIsFurthest
    <2>3. s \notin gaps
      <3>1. CASE gaps = {}
        BY <3>1
      <3>2. CASE gaps # {}
        <4>1. s < stop /\ stop \in Nat
          BY <1>2, <1>3, <3>2 DEF Before
        <4> HIDE DEF gaps, stop
        <4> QED  BY <1>3, <2>1, <3>2, <4>1
      <3> QED  BY <3>1, <3>2
    <2> QED  BY <2>1, <2>2, <2>3
  <1>6. S \in SUBSET DOMAIN blocks
    BY <1>2, <1>4
  <1>7. n \in Nat /\ n >= height /\ \A s \in S : EndOf(s) <= n
    <2> HIDE DEF S, n
    <2> QED  BY <1>1, <1>6, ReachIsFurthest
  <1>8. \A s \in DOMAIN blocks : n \notin Covered(s)
    <2> SUFFICES ASSUME NEW s \in DOMAIN blocks, n \in Covered(s)  PROVE FALSE
      OBVIOUS
    <2>1. s \in Nat /\ EndOf(s) \in Nat /\ s <= n /\ n < EndOf(s)
      <3> HIDE DEF n
      <3> QED  BY <1>2, <1>7
    <2>2. s \in Relevant(height)
      <3> HIDE DEF n
      <3> QED  BY <1>2, <1>7, <2>1
    <2>3. s \notin S
      <3> HIDE DEF n, S
      <3> QED  BY <1>7, <2>1
    <2>4. gaps # {} /\ ~(s < stop)
      BY <2>2, <2>3 DEF Before
    <2>5. stop \in Nat /\ stop > reach(S, height)
      <3>1. S = Before(stop, height)
        BY <2>4
      <3> QED  BY <1>2, <1>3, <2>4, <3>1
    <2> HIDE DEF n, S, stop
    <2> QED  BY <1>1, <1>7, <2>1, <2>4, <2>5
  <1>9. ASSUME NEW g \in height .. (n - 1)
        PROVE  \E s \in DOMAIN blocks : g \in Covered(s)
    <2> HIDE DEF n, S
    <2>1. g \in Nat /\ height <= g /\ g < reach(S, height)
      BY <1>1, <1>7
    <2>2. \E s \in S : g \in Covered(s)
      BY <1>4, <1>5, <2>1, WalkedIsCovered
    <2> QED  BY <1>6, <2>2
  <1> QED  BY <1>7, <1>8, <1>9

(* get_next_needed_height gives the first height from the chain's on that  *)
(* no span covers, however the spans overlap: the walk over the ordered    *)
(* spans neither stops short of a covered height nor passes over a gap.    *)
THEOREM NextNeededIsRight == Spec => []NextNeededIsFirstGap
  <1>1. TypeOK => NextNeededIsFirstGap
    <2> SUFFICES ASSUME TypeOK, NEW height \in 1 .. (MaxHeight + 1)
                 PROVE  LET n == get_next_needed_height(height)
                        IN  /\ n >= height
                            /\ \A s \in DOMAIN blocks : n \notin Covered(s)
                            /\ \A g \in height .. (n - 1) :
                                  \E s \in DOMAIN blocks : g \in Covered(s)
      BY DEF NextNeededIsFirstGap
    <2>1. height \in Nat
      BY BlockQueueAssumption
    <2> QED  BY <2>1, WalkFindsFirstGap
  <1> QED  BY <1>1, QueueTypeCorrect, PTL

------------------------------------------------------------------------------
(* The stripes of pruning, by division with remainder: a height is written   *)
(* as its cycle, its stripe in the cycle and its place in the stripe.        *)

\* The inductive step of a proof about all numbers up to n, from a least
\* counterexample.
LEMMA NumbersUpto ==
    ASSUME NEW S, NEW n \in Nat, 0 \in S, \A k \in 0 .. n : k \in S /\ k < n => k + 1 \in S
    PROVE  0 .. n \subseteq S
  <1> DEFINE T == 0 .. n \ S
             R == {ss \in Nat \X Nat : ss[1] < ss[2]}
  <1> SUFFICES ASSUME T # {} PROVE FALSE  OBVIOUS
  <1>1. IsWellFoundedOn(R, Nat)  BY NatLessThanWellFounded, Zenon DEF OpToRel
  <1>2. T \in SUBSET Nat  OBVIOUS
  <1> HIDE DEF R, T
  <1>3. PICK m \in T : \A y \in T : ~ (<<y, m>> \in R)  BY <1>1, <1>2, WFMin
  <1>4. m \in Nat /\ m \in 0 .. n /\ m \notin S  BY <1>2, <1>3 DEF T
  <1>5. m # 0  BY <1>4
  <1>6. m - 1 \in 0 .. n /\ m - 1 < n /\ m - 1 + 1 = m /\ m - 1 < m /\ m - 1 \in Nat  BY <1>4, <1>5
  <1>7. m - 1 \notin T  BY <1>3, <1>4, <1>6 DEF R
  <1> QED  BY <1>4, <1>6, <1>7 DEF T

\* The powers of two, and that there are at least two stripes.
LEMMA StripesType == NumStripes \in Nat /\ NumStripes >= 2
  <1> DEFINE L == LogStripes
             U(f, j) == f = [k \in 0 .. j |-> IF k = 0 THEN 1 ELSE 2 * f[k - 1]]
             S == {j \in Nat : \E f : U(f, j)}
  <1>0. L \in Nat /\ L # 0  BY PruningAssumption
  <1>1. 0 \in S
    <2> DEFINE f == [k \in 0 .. 0 |-> 1]
    <2>1. U(f, 0)  OBVIOUS
    <2> QED  BY <2>1
  <1>2. ASSUME NEW j \in Nat, j \in S PROVE j + 1 \in S
    <2>1. PICK f : U(f, j)  BY <1>2
    <2> DEFINE g == [k \in 0 .. j + 1 |-> IF k = j + 1 THEN 2 * f[j] ELSE f[k]]
    <2>2. \A k \in 0 .. j : g[k] = f[k]  OBVIOUS
    <2>3. g[j + 1] = 2 * f[j]  OBVIOUS
    <2>4. f[0] = 1 /\ \A k \in 1 .. j : f[k] = 2 * f[k - 1]  BY <2>1
    <2>5. ASSUME NEW k \in 0 .. j + 1
          PROVE  g[k] = IF k = 0 THEN 1 ELSE 2 * g[k - 1]
      <3>1. CASE k = 0  BY <3>1, <2>2, <2>4
      <3>2. CASE k = j + 1
        <4>1. k - 1 = j /\ k # 0  BY <3>2
        <4> QED  BY <4>1, <3>2, <2>2, <2>3
      <3>3. CASE k # 0 /\ k # j + 1
        <4>1. k \in 1 .. j /\ k \in 0 .. j /\ k - 1 \in 0 .. j  BY <3>3
        <4> QED  BY <4>1, <3>3, <2>2, <2>4
      <3> QED  BY <3>1, <3>2, <3>3
    <2>6. g = [k \in 0 .. j + 1 |-> g[k]]  OBVIOUS
    <2> HIDE DEF g
    <2>7. U(g, j + 1)  BY <2>5, <2>6
    <2> HIDE DEF U
    <2>8. j + 1 \in Nat /\ \E h : U(h, j + 1)  BY <2>7
    <2> QED  BY <2>8
  <1>3. 0 .. L \subseteq S
    <2>1. \A k \in 0 .. L : k \in S /\ k < L => k + 1 \in S  BY <1>0, <1>2
    <2> HIDE DEF S
    <2> QED  BY <1>0, <1>1, <2>1, NumbersUpto
  <1>4. \E f : U(f, L)
    <2>1. L \in 0 .. L  BY <1>0
    <2>2. L \in S  BY <1>3, <2>1
    <2> QED  BY <2>2
  <1>5. shifted = CHOOSE f : U(f, L)  BY DEF shifted
  <1>6. U(shifted, L)  BY <1>4, <1>5
  <1>7. shifted[0] = 1 /\ \A k \in 1 .. L : shifted[k] = 2 * shifted[k - 1]  BY <1>0, <1>6
  <1> DEFINE P == {k \in 0 .. L : shifted[k] \in Nat /\ shifted[k] >= 1 /\ (k # 0 => shifted[k] >= 2)}
  <1>8. 0 .. L \subseteq P
    <2>1. 0 \in P  BY <1>0, <1>7
    <2>2. \A k \in 0 .. L : k \in P /\ k < L => k + 1 \in P
      <3> SUFFICES ASSUME NEW k \in 0 .. L, k \in P, k < L PROVE k + 1 \in P  OBVIOUS
      <3>1. k + 1 \in 1 .. L /\ k + 1 \in 0 .. L /\ k + 1 - 1 = k  BY <1>0
      <3>2. shifted[k + 1] = 2 * shifted[k]  BY <1>7, <3>1
      <3> QED  BY <3>1, <3>2
    <2> HIDE DEF P
    <2> QED  BY <1>0, <2>1, <2>2, NumbersUpto
  <1> QED  BY <1>0, <1>8 DEF NumStripes

\* A height by its cycle c, its stripe s and its place r in the stripe.
Placed(h, c, s, r) ==
    /\ c \in Nat /\ s \in 0 .. NumStripes - 1 /\ r \in 0 .. StripeSize - 1
    /\ h = StripeSize * (NumStripes * c + s) + r

\* Division with remainder, and its uniqueness.
LEMMA Division ==
    ASSUME NEW a \in Nat, NEW n \in Nat, n > 0
    PROVE  a \div n \in Nat /\ a % n \in 0 .. n - 1 /\ a = n * (a \div n) + (a % n)
  OBVIOUS

LEMMA Quotient ==
    ASSUME NEW q \in Nat, NEW n \in Nat, NEW r \in 0 .. n - 1
    PROVE  (n * q + r) \div n = q /\ (n * q + r) % n = r
  OBVIOUS

\* The place of a height gives its stripe and its cycle, and every height has one.
LEMMA PlacedStripe ==
    ASSUME NEW h \in Nat, NEW c, NEW s, NEW r, Placed(h, c, s, r)
    PROVE  stripe_of(h) = s + 1 /\ (h \div StripeSize) \div NumStripes = c
  <1> DEFINE q == NumStripes * c + s
  <1>1. StripeSize \in Nat /\ NumStripes \in Nat  BY PruningAssumption, StripesType
  <1>2. c \in Nat /\ s \in 0 .. NumStripes - 1 /\ r \in 0 .. StripeSize - 1 /\ h = StripeSize * q + r
    BY DEF Placed
  <1>3. q \div NumStripes = c /\ q % NumStripes = s  BY <1>1, <1>2, Quotient
  <1>4. q \in Nat  BY <1>1, <1>2
  <1> HIDE DEF q
  <1>5. h \div StripeSize = q  BY <1>1, <1>2, <1>4, Quotient
  <1> QED  BY <1>3, <1>5 DEF stripe_of

LEMMA HeightPlaced ==
    ASSUME NEW h \in Nat
    PROVE  \E c, s, r : Placed(h, c, s, r)
  <1> DEFINE q == h \div StripeSize
             c == q \div NumStripes
             s == q % NumStripes
             r == h % StripeSize
  <1>1. /\ StripeSize \in Nat /\ StripeSize > 0 /\ NumStripes \in Nat /\ NumStripes > 0
    BY PruningAssumption, StripesType
  <1>2. q \in Nat /\ r \in 0 .. StripeSize - 1 /\ h = StripeSize * q + r  BY <1>1, Division
  <1> HIDE DEF q
  <1>3. c \in Nat /\ s \in 0 .. NumStripes - 1 /\ q = NumStripes * c + s  BY <1>1, <1>2, Division
  <1>4. Placed(h, c, s, r)  BY <1>2, <1>3 DEF Placed
  <1> QED  BY <1>4

\* The stripe in which a height lies begins at or below it, the next one above.
LEMMA Between ==
    ASSUME NEW q \in Nat, NEW p \in Nat, NEW S \in Nat, NEW r \in 0 .. S - 1, NEW u \in 0 .. S - 1,
           S * q + r <= S * p + u
    PROVE  q <= p
  <1> SUFFICES ASSUME q > p PROVE FALSE  OBVIOUS
  <1>1. q - p - 1 \in Nat /\ q = p + 1 + (q - p - 1)  OBVIOUS
  <1>2. PICK d \in Nat : q = p + 1 + d  BY <1>1
  <1>3. S * q = S * p + S + S * d  BY <1>2
  <1>4. S * d \in Nat /\ S * p \in Nat  OBVIOUS
  <1> QED  BY <1>3, <1>4

\* Above one, and below the beginning of another: the quotient is below it.
LEMMA Below ==
    ASSUME NEW q \in Nat, NEW p \in Nat, NEW S \in Nat, NEW u \in 0 .. S - 1, S * p + u < S * q
    PROVE  p < q
  <1> SUFFICES ASSUME p >= q PROVE FALSE  OBVIOUS
  <1>1. p - q \in Nat /\ p = q + (p - q)  OBVIOUS
  <1>2. PICK d \in Nat : p = q + d  BY <1>1
  <1>3. S * p = S * q + S * d  BY <1>2
  <1>4. S * d \in Nat /\ S * q \in Nat  OBVIOUS
  <1> QED  BY <1>3, <1>4

\* The beginning of the next stripe with number e, from the height given by its
\* place on: it lies in that stripe, and no stripe with that number in between.
LEMMA NextStripe ==
    ASSUME NEW h \in Nat, NEW c, NEW s, NEW r, Placed(h, c, s, r),
           NEW e \in 1 .. NumStripes, e # s + 1, NEW d,
           d = c + (IF e > s + 1 THEN 0 ELSE 1)
    PROVE  LET x == d * (StripeSize * NumStripes) + (e - 1) * StripeSize
           IN  /\ x \in Nat /\ x > h /\ stripe_of(x) = e
               /\ \A y \in h .. x - 1 : stripe_of(y) # e
  <1> DEFINE S == StripeSize
             N == NumStripes
             Q == N * d + (e - 1)
             q == N * c + s
             x == d * (S * N) + (e - 1) * S
  <1>1. S \in Nat /\ S > 0 /\ N \in Nat /\ N >= 2  BY PruningAssumption, StripesType
  <1>2. c \in Nat /\ s \in 0 .. N - 1 /\ r \in 0 .. S - 1 /\ h = S * q + r  BY DEF Placed
  <1>3. d \in Nat /\ e \in 1 .. N  BY <1>2
  <1> HIDE DEF S, N
  <1>4. Q \in Nat /\ q \in Nat  BY <1>1, <1>2, <1>3
  <1>5. x = S * Q + 0  BY <1>1, <1>3
  <1>6. q < Q
    <2>1. CASE e > s + 1  BY <1>1, <1>2, <1>3, <2>1
    <2>2. CASE e < s + 1
      <3>1. d = c + 1  BY <1>2, <1>3, <2>2
      <3>2. N * d = N * c + N  BY <1>1, <1>2, <3>1
      <3> QED  BY <1>1, <1>2, <1>3, <3>2
    <2> QED  BY <1>2, <1>3, <2>1, <2>2
  <1> HIDE DEF Q, q
  <1>7. x > h
    <2> SUFFICES ASSUME S * Q + 0 <= S * q + r PROVE FALSE  BY <1>1, <1>2, <1>4, <1>5
    <2>1. 0 \in 0 .. S - 1  BY <1>1
    <2>2. Q <= q  BY <1>1, <1>2, <1>4, <2>1, Between
    <2> QED  BY <1>4, <1>6, <2>2
  <1>8. x \in Nat  BY <1>1, <1>4, <1>5
  <1>9. stripe_of(x) = e
    <2>1. Placed(x, d, e - 1, 0)  BY <1>1, <1>3, <1>5 DEF Placed, S, N, Q
    <2>2. stripe_of(x) = e - 1 + 1  BY <1>8, <2>1, PlacedStripe
    <2> QED  BY <1>3, <2>2
  <1>10. ASSUME NEW y \in h .. x - 1, stripe_of(y) = e PROVE FALSE
    <2>1. y \in Nat  BY <1>8
    <2>2. PICK cy, sy, ry : Placed(y, cy, sy, ry)  BY <2>1, HeightPlaced
    <2>3. stripe_of(y) = sy + 1  BY <2>1, <2>2, PlacedStripe
    <2>4. cy \in Nat /\ sy \in 0 .. N - 1 /\ ry \in 0 .. S - 1 /\ y = S * (N * cy + sy) + ry
      BY <2>2 DEF Placed, S, N
    <2>5. sy = e - 1  BY <1>3, <1>10, <2>3, <2>4
    <2> DEFINE p == N * cy + sy
    <2>6. p \in Nat /\ y = S * p + ry  BY <1>1, <2>4
    <2>7. S * q + r <= S * p + ry /\ S * p + ry < S * Q
      BY <1>1, <1>2, <1>4, <1>5, <2>1, <2>6
    <2> HIDE DEF p
    <2>8. q <= p /\ p < Q  BY <1>1, <1>2, <1>4, <2>4, <2>6, <2>7, Between, Below
    <2>9. N * cy + (e - 1) < N * d + (e - 1)  BY <2>5, <2>8 DEF p, Q
    <2>10. N * cy + 0 < N * d /\ 0 \in 0 .. N - 1  BY <1>1, <1>3, <2>4, <2>9
    <2>11. cy < d  BY <1>1, <1>3, <2>4, <2>10, Below
    <2>12. N * c + s <= N * cy + (e - 1)  BY <2>5, <2>8 DEF p, q
    <2>13. e - 1 \in 0 .. N - 1  BY <1>1, <1>3
    <2>14. c <= cy  BY <1>1, <1>2, <2>4, <2>12, <2>13, Between
    <2>15. cy = c /\ d = c + 1  BY <1>2, <1>3, <2>4, <2>11, <2>14
    <2>16. e <= s + 1  BY <1>2, <1>3, <2>15
    <2>17. s <= e - 1  BY <1>1, <1>2, <1>3, <2>12, <2>15
    <2> QED  BY <1>2, <1>3, <2>16, <2>17
  <1> QED  BY <1>7, <1>8, <1>9, <1>10 DEF S, N

\* For every size and number of stripes, every length of the tip and every
\* height: nothing that a peer could deliver is skipped, and it is never asked for
\* a block it has pruned.
THEOREM NextUnprunedIsRight ==
    \A height, chain_height \in Nat, seed \in Seeds :
        NextUnprunedIsFirst(height, chain_height, seed)
  <1> SUFFICES ASSUME NEW h \in Nat, NEW H \in Nat, NEW e \in Seeds
               PROVE  NextUnprunedIsFirst(h, H, e)
    OBVIOUS
  <1>1. TipBlocks \in Nat /\ NumStripes \in Nat  BY PruningAssumption, StripesType
  <1>2. e \in 0 .. NumStripes  BY DEF Seeds
  <1>3. CASE e = 0 \/ h + TipBlocks >= H \/ stripe_of(h) = e
    <2>1. get_next_unpruned_block_height(h, H, e) = h  BY <1>3 DEF get_next_unpruned_block_height
    <2>2. has_unpruned_block(h, H, e)  BY <1>3 DEF has_unpruned_block, get_pruning_stripe
    <2>3. \A y \in h .. h - 1 : FALSE  OBVIOUS
    <2> QED  BY <2>1, <2>2, <2>3 DEF NextUnprunedIsFirst
  <1>4. CASE ~ (e = 0 \/ h + TipBlocks >= H \/ stripe_of(h) = e)
    <2>1. PICK c, s, r : Placed(h, c, s, r)  BY HeightPlaced
    <2>2. stripe_of(h) = s + 1 /\ (h \div StripeSize) \div NumStripes = c  BY <2>1, PlacedStripe
    <2> DEFINE d == c + (IF e > s + 1 THEN 0 ELSE 1)
               x == d * (StripeSize * NumStripes) + (e - 1) * StripeSize
               n == get_next_unpruned_block_height(h, H, e)
    <2>3. n = IF x + TipBlocks > H THEN (IF H < TipBlocks THEN 0 ELSE H - TipBlocks) ELSE x
      BY <1>4, <2>2 DEF get_next_unpruned_block_height
    <2>4. e \in 1 .. NumStripes /\ e # s + 1  BY <1>1, <1>2, <1>4, <2>2
    <2>5. /\ x \in Nat /\ x > h /\ stripe_of(x) = e
          /\ \A y \in h .. x - 1 : stripe_of(y) # e
      BY <2>1, <2>4, NextStripe
    <2> HIDE DEF d, x, n
    <2>6. n \in Nat /\ n > h /\ n <= x /\ (n + TipBlocks >= H \/ n = x) /\ n + TipBlocks <= H
      BY <1>1, <1>4, <2>3, <2>5
    <2>7. has_unpruned_block(n, H, e)  BY <2>5, <2>6 DEF has_unpruned_block, get_pruning_stripe
    <2>8. ASSUME NEW y \in h .. n - 1 PROVE ~ has_unpruned_block(y, H, e)
      <3>1. y \in h .. x - 1 /\ ~ (y + TipBlocks >= H)  BY <1>1, <2>5, <2>6
      <3>2. stripe_of(y) # e  BY <2>5, <3>1
      <3>3. stripe_of(y) # 0
        <4>1. y \in Nat  OBVIOUS
        <4>2. PICK cy, sy, ry : Placed(y, cy, sy, ry)  BY <4>1, HeightPlaced
        <4>3. stripe_of(y) = sy + 1 /\ sy \in 0 .. NumStripes - 1  BY <4>1, <4>2, PlacedStripe DEF Placed
        <4> QED  BY <1>1, <4>3
      <3> QED  BY <2>4, <3>1, <3>2, <3>3 DEF has_unpruned_block, get_pruning_stripe
    <2>9. n >= h  BY <2>6
    <2> QED  BY <2>7, <2>8, <2>9 DEF NextUnprunedIsFirst, n
  <1> QED  BY <1>3, <1>4

\* The stripe of a number is one of 1 .. NumStripes.
LEMMA StripeNumber ==
    ASSUME NEW y \in Nat
    PROVE  stripe_of(y) \in 1 .. NumStripes
  <1>1. PICK c, s, r : Placed(y, c, s, r)  BY HeightPlaced
  <1>2. stripe_of(y) = s + 1 /\ s \in 0 .. NumStripes - 1  BY <1>1, PlacedStripe DEF Placed
  <1> QED  BY <1>2, StripesType

\* The stripe after the one of a height begins where that one ends.
LEMMA SameStripe ==
    ASSUME NEW h \in Nat, NEW c, NEW s, NEW r, Placed(h, c, s, r),
           NEW y \in h .. StripeSize * (NumStripes * c + s + 1) - 1
    PROVE  stripe_of(y) = stripe_of(h)
  <1> DEFINE S == StripeSize
             N == NumStripes
             q == N * c + s
  <1>1. S \in Nat /\ S > 0 /\ N \in Nat /\ N >= 2  BY PruningAssumption, StripesType
  <1>2. c \in Nat /\ s \in 0 .. N - 1 /\ r \in 0 .. S - 1 /\ h = S * q + r  BY DEF Placed
  <1>3. y \in h .. S * (q + 1) - 1  OBVIOUS
  <1> HIDE DEF S, N
  <1>4. q \in Nat  BY <1>1, <1>2
  <1>5. S * (q + 1) = S * q + S /\ S * q \in Nat  BY <1>1, <1>4
  <1> HIDE DEF q
  <1>6. y \in Nat /\ y - S * q \in 0 .. S - 1 /\ y = S * q + (y - S * q)  BY <1>1, <1>2, <1>3, <1>5
  <1>7. Placed(y, c, s, y - S * q)  BY <1>2, <1>6 DEF Placed, S, N, q
  <1> QED  BY <1>6, <1>7, PlacedStripe

\* For the same parameters: a run of blocks to ask a peer for ends where the
\* peer has pruned, or in the tip.
THEOREM NextPrunedIsRight ==
    \A height, chain_height \in Nat, seed \in Seeds :
        NextPrunedEndsRun(height, chain_height, seed)
  <1> SUFFICES ASSUME NEW h \in Nat, NEW H \in Nat, NEW e \in Seeds
               PROVE  NextPrunedEndsRun(h, H, e)
    OBVIOUS
  <1>1. TipBlocks \in Nat /\ NumStripes \in Nat /\ NumStripes >= 2 /\ StripeSize \in Nat
    BY PruningAssumption, StripesType
  <1>2. e \in 0 .. NumStripes  BY DEF Seeds
  <1>3. stripe_of(h) \in 1 .. NumStripes  BY StripeNumber
  <1>4. CASE e = 0 \/ h + TipBlocks >= H
    <2>1. get_next_pruned_block_height(h, H, e) = H  BY <1>4 DEF get_next_pruned_block_height
    <2>2. H + TipBlocks >= H  BY <1>1
    <2>3. ASSUME NEW y \in h .. H - 1 PROVE has_unpruned_block(y, H, e)
      <3>1. e = 0 \/ y + TipBlocks >= H  BY <1>1, <1>4
      <3> QED  BY <3>1 DEF has_unpruned_block, get_pruning_stripe
    <2> QED  BY <2>1, <2>2, <2>3 DEF NextPrunedEndsRun
  <1>5. CASE ~ (e = 0 \/ h + TipBlocks >= H) /\ stripe_of(h) # e
    <2>1. get_next_pruned_block_height(h, H, e) = h  BY <1>5 DEF get_next_pruned_block_height
    <2>2. ~ has_unpruned_block(h, H, e)  BY <1>3, <1>5 DEF has_unpruned_block, get_pruning_stripe
    <2>3. \A y \in h .. h - 1 : FALSE  OBVIOUS
    <2> QED  BY <2>1, <2>2, <2>3 DEF NextPrunedEndsRun
  <1>6. CASE ~ (e = 0 \/ h + TipBlocks >= H) /\ stripe_of(h) = e
    <2> DEFINE f == 1 + (e % NumStripes)
               n == get_next_unpruned_block_height(h, H, f)
    <2>1. get_next_pruned_block_height(h, H, e) = n  BY <1>6 DEF get_next_pruned_block_height
    <2>2. PICK c, s, r : Placed(h, c, s, r)  BY HeightPlaced
    <2>3. /\ e = s + 1 /\ (h \div StripeSize) \div NumStripes = c /\ c \in Nat
          /\ s \in 0 .. NumStripes - 1
      BY <1>6, <2>2, PlacedStripe DEF Placed
    <2>4. f \in 1 .. NumStripes /\ f # e /\ f = (IF s + 1 = NumStripes THEN 1 ELSE s + 2)
      <3>1. CASE s + 1 = NumStripes
        <4>1. e % NumStripes = 0  BY <1>1, <2>3, <3>1
        <4> QED  BY <1>1, <2>3, <3>1, <4>1
      <3>2. CASE s + 1 # NumStripes
        <4>1. e \in 0 .. NumStripes - 1  BY <1>1, <2>3, <3>2
        <4>2. e % NumStripes = e  BY <1>1, <4>1
        <4> QED  BY <1>1, <2>3, <3>2, <4>2
      <3> QED  BY <3>1, <3>2
    <2> DEFINE d == c + (IF f > s + 1 THEN 0 ELSE 1)
               x == d * (StripeSize * NumStripes) + (f - 1) * StripeSize
    <2> HIDE DEF f
    <2>5. n = IF x + TipBlocks > H THEN (IF H < TipBlocks THEN 0 ELSE H - TipBlocks) ELSE x
      <3>1. stripe_of(h) = s + 1 /\ ~ (f = 0 \/ h + TipBlocks >= H \/ stripe_of(h) = f)
        BY <1>6, <2>3, <2>4
      <3> QED  BY <2>3, <3>1 DEF get_next_unpruned_block_height
    <2>6. x \in Nat /\ x > h /\ stripe_of(x) = f  BY <2>2, <2>3, <2>4, NextStripe
    <2>7. x = StripeSize * (NumStripes * c + s + 1)
      <3>1. CASE s + 1 = NumStripes
        <4>1. f = 1 /\ d = c + 1  BY <1>1, <2>3, <2>4, <3>1
        <4>2. x = (c + 1) * (StripeSize * NumStripes)  BY <1>1, <2>3, <4>1
        <4>3. NumStripes * c + s + 1 = NumStripes * (c + 1)  BY <1>1, <2>3, <3>1
        <4> QED  BY <1>1, <2>3, <4>2, <4>3
      <3>2. CASE s + 1 # NumStripes
        <4>1. f = s + 2 /\ d = c  BY <1>1, <2>3, <2>4, <3>2
        <4>2. x = c * (StripeSize * NumStripes) + (s + 1) * StripeSize  BY <1>1, <2>3, <4>1
        <4> QED  BY <1>1, <2>3, <4>2
      <3> QED  BY <3>1, <3>2
    <2> HIDE DEF d, x, n
    <2>8. n \in Nat /\ n > h /\ n <= x /\ (n + TipBlocks >= H \/ n = x)
      BY <1>1, <1>6, <2>5, <2>6
    <2>9. ASSUME NEW y \in h .. n - 1 PROVE has_unpruned_block(y, H, e)
      <3>1. y \in h .. StripeSize * (NumStripes * c + s + 1) - 1  BY <2>6, <2>7, <2>8
      <3>2. stripe_of(y) = e  BY <1>6, <2>2, <3>1, SameStripe
      <3> QED  BY <3>2 DEF has_unpruned_block, get_pruning_stripe
    <2>10. n + TipBlocks >= H \/ (n >= h /\ ~ has_unpruned_block(n, H, e))
      <3> SUFFICES ASSUME ~ (n + TipBlocks >= H) PROVE n >= h /\ ~ has_unpruned_block(n, H, e)
        OBVIOUS
      <3>1. n = x /\ n >= h  BY <2>8
      <3>2. stripe_of(n) = f /\ f # 0 /\ f # e  BY <2>4, <2>6, <3>1
      <3> QED  BY <1>6, <3>1, <3>2 DEF has_unpruned_block, get_pruning_stripe
    <2> QED  BY <2>1, <2>9, <2>10 DEF NextPrunedEndsRun
  <1> QED  BY <1>4, <1>5, <1>6

=============================================================================
