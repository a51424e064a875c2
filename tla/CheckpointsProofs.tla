------------------------- MODULE CheckpointsProofs --------------------------
(***************************************************************************)
(* The checkpoints that a node has started with, and the later ones that   *)
(* an update could check in a batch of its own, hold on its chain: for     *)
(* every set of checkpoints, every chain the node starts with, every order *)
(* of the steps of the update and of the thread that brings blocks, and    *)
(* wherever the process dies.                                              *)
(***************************************************************************)
EXTENDS Checkpoints, WellFoundedInduction, TLAPS

ChainType == [height : 1 .. MaxHeight, fork : 1 .. NoFork]

\* The chain c passes the points of S.
AllPass(c, S) == \A pt \in S : ~ fails(c, pt)

PointsInv ==
    /\ file \in SUBSET Later /\ points \in SUBSET (1 .. MaxHeight)
    /\ todo \in SUBSET points /\ checked \in SUBSET points
    /\ seen \in Nat

\* When the process is down nothing is left in memory; while it starts there
\* is no other thread, so that the update of core::init has its own batch.
ProcessInv ==
    /\ up \in {"down", "init", "up", "ending"}
    /\ batch = "none" => chain = saved
    /\ up = "down" => todo = {} /\ at = "out" /\ checked = {} /\ batch = "none"
    /\ incoming # "out" => Running
    /\ incoming = "open" <=> batch = "blocks"
    /\ up # "down" /\ enabled => Default \subseteq points
    /\ Running /\ enabled => Default \subseteq checked
    /\ at = "pop" => batch = "update" /\ todo # {}
    /\ up = "init" => at \in {"load", "check", "loop", "pop"}
    /\ up = "init" /\ at \in {"load", "check"} => batch = "none"
    /\ up = "init" /\ at = "loop" => batch = "update"

\* In a batch of its own the loop has looked at the points that are not in
\* todo; a rollback only makes the chain shorter than the height that was read
\* before the loop.
LoopInv ==
    at \in {"loop", "pop"} /\ batch = "update" =>
        chain.height <= seen /\ AllPass(chain, points \ todo)

CheckInv ==
    /\ chain \in ChainType /\ saved \in ChainType
    /\ PointsInv /\ ProcessInv /\ LoopInv
    /\ AllPass(chain, checked) /\ AllPass(saved, checked)

----------------------------------------------------------------------------

\* Every nonempty set of natural numbers has a least element.
LEMMA LeastNumber ==
  ASSUME NEW S \in SUBSET Nat, S # {}
  PROVE  \E m \in S : \A k \in S : m <= k
<1> DEFINE R == {ss \in Nat \X Nat : ss[1] < ss[2]}
<1>1. IsWellFoundedOn(R, Nat)  BY NatLessThanWellFounded, Zenon DEF OpToRel
<1> HIDE DEF R
<1>2. PICK m \in S : \A y \in S : ~ (<<y, m>> \in R)  BY <1>1, WFMin
<1>3. \A y \in S : ~ (y < m)  BY <1>2 DEF R
<1> QED  BY <1>3

\* The loop takes the points in the order of their heights.
LEMMA NextPoint ==
  ASSUME PointsInv, todo # {}
  PROVE  next_point \in todo /\ \A pt \in todo : next_point <= pt
<1>1. todo \in SUBSET Nat  BY DEF PointsInv
<1>2. \E m \in todo : \A k \in todo : m <= k  BY <1>1, LeastNumber
<1> QED  BY <1>2 DEF next_point, Min

\* The parts of a chain that ends below n.
LEMMA ChainParts ==
  ASSUME NEW n \in 1 .. MaxHeight, NEW wrong \in 1 .. NoFork
  PROVE  /\ Chain(n, wrong) \in ChainType
         /\ Chain(n, wrong).height = n
         /\ Chain(n, wrong).fork = IF wrong < n THEN wrong ELSE NoFork
  BY CheckpointsAssumption DEF Chain, ChainType, NoFork

\* The numbers of a state.
LEMMA Numbers ==
  ASSUME CheckInv
  PROVE  /\ MaxHeight \in Nat /\ NoFork = MaxHeight + 1
         /\ chain.height \in 1 .. MaxHeight /\ chain.fork \in 1 .. NoFork
         /\ saved.height \in 1 .. MaxHeight
         /\ points \in SUBSET (1 .. MaxHeight) /\ checked \in SUBSET points
         /\ todo \in SUBSET points /\ seen \in Nat
  BY CheckpointsAssumption DEF CheckInv, ChainType, PointsInv, NoFork

\* The initial chain may be wrong, but nothing runs on it.
LEMMA CheckInit == Init => CheckInv
<1> SUFFICES ASSUME Init PROVE CheckInv  OBVIOUS
<1>1. PICK n \in Lengths, wrong \in 1 .. NoFork : chain = Chain(n, wrong)  BY DEF Init
<1>2. n \in 1 .. MaxHeight  BY CheckpointsAssumption
<1>3. chain \in ChainType  BY <1>1, <1>2, ChainParts
<1> QED
  BY <1>3, CheckpointsAssumption
  DEF Init, CheckInv, PointsInv, ProcessInv, LoopInv, AllPass, Running

\* A step of add_new_block keeps everything but the chain of its batch.
LEMMA CheckBatch ==
  ASSUME CheckInv, incoming = "open", chain' \in ChainType, AllPass(chain, checked)',
         UNCHANGED <<saved, batch, incoming, loaded, progress, outside>>
  PROVE  CheckInv'
<1>1. batch = "blocks" /\ batch' = "blocks"  BY DEF CheckInv, ProcessInv
<1>2. PointsInv' /\ ProcessInv'
  BY DEF CheckInv, PointsInv, ProcessInv, Running, loaded, progress, outside
<1>3. LoopInv'  BY <1>1 DEF LoopInv
<1>4. AllPass(saved, checked)'  BY DEF CheckInv, AllPass, fails, loaded
<1> QED  BY <1>2, <1>3, <1>4 DEF CheckInv

\* A block on the tip: the one at a checkpoint is of the right chain.
LEMMA CheckAddBlock ==
  ASSUME CheckInv, NEW wrong \in BOOLEAN, add_new_block(wrong)
  PROVE  CheckInv'
<1> DEFINE first == IF wrong THEN IF chain.fork = NoFork THEN chain.height ELSE chain.fork
                    ELSE NoFork
<1>1. /\ incoming = "open" /\ chain.height < MaxHeight
      /\ UNCHANGED <<saved, batch, incoming, loaded, progress, outside>>
      /\ chain.height \in points => ~ wrong
      /\ chain' = Chain(chain.height + 1, first)
      /\ checked' = checked
  BY DEF add_new_block, loaded
<1>2. first \in 1 .. NoFork /\ chain.height + 1 \in 1 .. MaxHeight  BY <1>1, Numbers
<1>3. /\ chain' \in ChainType /\ chain'.height = chain.height + 1
      /\ chain'.fork = IF first < chain.height + 1 THEN first ELSE NoFork
  BY <1>1, <1>2, ChainParts
<1>4. ASSUME NEW pt \in checked  PROVE ~ fails(chain', pt)
  <2>1. ~ fails(chain, pt) /\ pt \in points  BY Numbers DEF CheckInv, AllPass
  <2> QED  BY <1>1, <1>3, <2>1, Numbers DEF fails
<1>5. AllPass(chain, checked)'  BY <1>1, <1>4 DEF AllPass, fails
<1> QED  BY <1>1, <1>3, <1>5, CheckBatch

\* A reorganisation stays above the checkpoints that the chain has passed.
LEMMA CheckReorganize ==
  ASSUME CheckInv, NEW split \in 1 .. MaxHeight, NEW wrong \in BOOLEAN, reorganize(split, wrong)
  PROVE  CheckInv'
<1> DEFINE first == IF wrong THEN split ELSE NoFork
<1>1. /\ incoming = "open" /\ chain.height < MaxHeight /\ split < chain.height
      /\ UNCHANGED <<saved, batch, incoming, loaded, progress, outside>>
      /\ \A pt \in points : pt <= chain.height => pt < split
      /\ chain' = Chain(chain.height + 1, first)
      /\ checked' = checked
  BY Numbers DEF reorganize, is_alternative_block_allowed, loaded
<1>2. first \in 1 .. NoFork /\ chain.height + 1 \in 1 .. MaxHeight  BY <1>1, Numbers
<1>3. /\ chain' \in ChainType /\ chain'.height = chain.height + 1
      /\ chain'.fork = IF first < chain.height + 1 THEN first ELSE NoFork
  BY <1>1, <1>2, ChainParts
<1>4. ASSUME NEW pt \in checked  PROVE ~ fails(chain', pt)
  <2>1. pt \in points  BY Numbers
  <2> QED  BY <1>1, <1>3, <2>1, Numbers DEF fails
<1>5. AllPass(chain, checked)'  BY <1>1, <1>4 DEF AllPass, fails
<1> QED  BY <1>1, <1>3, <1>5, CheckBatch

\* The process ends.
LEMMA CheckExit == CheckInv /\ Exit => CheckInv'
  BY DEF CheckInv, PointsInv, ProcessInv, LoopInv, AllPass, Running, Exit

\* The other steps of the thread that brings blocks.
LEMMA CheckBlocks ==
  ASSUME CheckInv, prepare \/ batch_start \/ cleanup
  PROVE  CheckInv'
<1>1. CASE prepare
  BY <1>1 DEF prepare, CheckInv, PointsInv, ProcessInv, LoopInv, AllPass, fails, Running,
              loaded, progress, outside
<1>2. CASE batch_start
  BY <1>2 DEF batch_start, ChainLockFree, CheckInv, PointsInv, ProcessInv, LoopInv, AllPass,
              fails, Running, loaded, progress, outside
<1>3. CASE cleanup
  <2>1. /\ at \notin {"loop", "pop"} /\ incoming = "open"
        /\ chain' \in {chain, saved} /\ saved' = chain'
        /\ batch' = "none" /\ incoming' = "out"
        /\ UNCHANGED <<points, checked, enabled, updating, up, at, todo, seen, file>>
    BY <1>3 DEF cleanup, ChainLockFree, loaded, progress, outside
  <2>2. PointsInv' /\ ProcessInv' /\ LoopInv'
    BY <2>1 DEF CheckInv, PointsInv, ProcessInv, LoopInv, Running
  <2>3. AllPass(chain, checked)' /\ AllPass(saved, checked)'
    BY <2>1 DEF CheckInv, AllPass, fails
  <2> QED  BY <2>1, <2>2, <2>3 DEF CheckInv
<1> QED  BY <1>1, <1>2, <1>3

\* The steps of the update outside the loop.
LEMMA CheckOutside ==
  ASSUME CheckInv,
         init \/ begin_update \/ load_checkpoints \/ load_fails \/ check_against_checkpoints
  PROVE  CheckInv'
<1>1. CASE init
  <2>1. /\ up = "down" /\ points' \in {Default, {}} /\ (enabled' => points' = Default)
        /\ enabled' \in BOOLEAN
        /\ up' = IF enabled' THEN "init" ELSE "up"
        /\ at' = IF enabled' THEN "load" ELSE "out"
        /\ UNCHANGED <<chain, saved, batch, incoming, checked, todo, seen, file>>
    BY <1>1 DEF init, outside
  <2>2. todo = {} /\ checked = {} /\ at = "out" /\ batch = "none" /\ incoming = "out"
    BY <2>1 DEF CheckInv, ProcessInv, Running
  <2>3. PointsInv'  BY <2>1, <2>2, CheckpointsAssumption DEF CheckInv, PointsInv
  <2>4. ProcessInv'  BY <2>1, <2>2 DEF CheckInv, ProcessInv, Running
  <2> QED  BY <2>1, <2>2, <2>3, <2>4 DEF CheckInv, LoopInv, AllPass
<1>2. CASE begin_update
  BY <1>2 DEF CheckInv, PointsInv, ProcessInv, LoopInv, AllPass, fails, Running,
              begin_update, loaded, outside
<1>3. CASE load_checkpoints
  <2>1. /\ points \subseteq points' /\ points' \subseteq points \cup file
        /\ UNCHANGED <<chain, saved, batch, incoming, checked, enabled, todo, seen, file, up>>
        /\ at = "load" /\ at' = "check"
    BY <1>3 DEF load_checkpoints, new_points, outside
  <2>2. PointsInv'  BY <2>1, CheckpointsAssumption DEF CheckInv, PointsInv
  <2>3. ProcessInv'  BY <2>1 DEF CheckInv, ProcessInv, Running
  <2> QED  BY <2>1, <2>2, <2>3 DEF CheckInv, LoopInv, AllPass, fails
<1>4. CASE load_fails
  <2>1. CASE up = "init"  BY <1>4, <2>1, CheckExit DEF load_fails
  <2>2. CASE up # "init"
    <3>1. /\ points \subseteq points' /\ points' \subseteq points \cup file
          /\ UNCHANGED <<chain, saved, batch, incoming, checked, enabled, todo, seen, file>>
          /\ at = "load" /\ at' = "out" /\ up' = "ending"
      BY <1>4, <2>2 DEF load_fails, new_points, outside
    <3>2. PointsInv'  BY <3>1, CheckpointsAssumption DEF CheckInv, PointsInv
    <3>3. Running  BY <2>2, <3>1 DEF CheckInv, ProcessInv, Running
    <3>4. ProcessInv'  BY <3>1, <3>3 DEF CheckInv, ProcessInv, Running
    <3> QED  BY <3>1, <3>2, <3>4 DEF CheckInv, LoopInv, AllPass, fails
  <2> QED  BY <2>1, <2>2
<1>5. CASE check_against_checkpoints
  <2>1. /\ at = "check" /\ at' = "loop" /\ todo' = points /\ seen' = view.height
        /\ batch' = IF batch = "none" THEN "update" ELSE batch
        /\ UNCHANGED <<chain, saved, incoming, points, checked, enabled, up, file>>
    BY <1>5 DEF check_against_checkpoints, loaded, outside
  <2>2. seen' \in Nat /\ (batch' = "update" => seen' = chain.height)
    BY <2>1, Numbers DEF view, CheckInv, ProcessInv
  <2>3. PointsInv'  BY <2>1, <2>2 DEF CheckInv, PointsInv
  <2>4. ProcessInv'  BY <2>1 DEF CheckInv, ProcessInv, Running
  <2>5. LoopInv'
    <3>1. ASSUME batch' = "update"
          PROVE  chain'.height <= seen' /\ AllPass(chain, points \ todo)'
      BY <2>1, <2>2, <3>1, Numbers DEF AllPass
    <3> QED  BY <3>1 DEF LoopInv
  <2> QED  BY <2>1, <2>3, <2>4, <2>5 DEF CheckInv, AllPass, fails
<1> QED  BY <1>1, <1>2, <1>3, <1>4, <1>5

\* The end of the loop: nothing is left to be looked at.
LEMMA CheckEnd == CheckInv /\ end_update => CheckInv'
<1> SUFFICES ASSUME CheckInv, end_update PROVE CheckInv'  OBVIOUS
<1>1. /\ at = "loop" /\ todo = {} /\ at' = "out" /\ seen' = 0
      /\ up' = IF up = "init" THEN "up" ELSE up
      /\ UNCHANGED <<chain, incoming, points, enabled, todo, file>>
  BY DEF end_update, outside
<1>2. CASE batch = "update"
  <2>1. saved' = chain /\ batch' = "none" /\ checked' = points
    BY <1>2 DEF end_update
  <2>2. AllPass(chain, points)  BY <1>1, <1>2 DEF CheckInv, LoopInv, AllPass
  <2>3. PointsInv' /\ ProcessInv' /\ LoopInv'
    BY <1>1, <1>2, <2>1 DEF CheckInv, PointsInv, ProcessInv, LoopInv, Running
  <2>4. AllPass(chain, checked)' /\ AllPass(saved, checked)'
    BY <1>1, <2>1, <2>2 DEF AllPass, fails
  <2> QED  BY <1>1, <2>1, <2>3, <2>4 DEF CheckInv
<1>3. CASE batch # "update"
  <2>1. UNCHANGED <<saved, batch, checked>> /\ up' = up
    BY <1>1, <1>3 DEF end_update, CheckInv, ProcessInv
  <2>2. PointsInv' /\ ProcessInv' /\ LoopInv'
    BY <1>1, <1>3, <2>1 DEF CheckInv, PointsInv, ProcessInv, LoopInv, Running
  <2> QED  BY <1>1, <2>1, <2>2 DEF CheckInv, AllPass, fails
<1> QED  BY <1>2, <1>3

\* The loop.
LEMMA CheckLoop ==
  ASSUME CheckInv, point_passes \/ point_fails \/ rolled_back \/ pop_block \/ throw_in_handler
  PROVE  CheckInv'
<1>1. CASE point_passes
  <2>1. /\ UNCHANGED <<chain, saved, batch, incoming, points, checked, enabled, up, at, seen, file>>
        /\ todo' = todo \ {next_point} /\ todo # {} /\ at = "loop"
    BY <1>1 DEF point_passes, Rest, loaded, outside
  <2>2. next_point \in todo  BY <2>1, NextPoint DEF CheckInv
  <2>3. PointsInv' /\ ProcessInv'  BY <2>1 DEF CheckInv, PointsInv, ProcessInv, Running
  <2>4. ASSUME batch = "update"
        PROVE  chain.height <= seen /\ AllPass(chain, points \ todo) /\ ~ fails(chain, next_point)
    BY <1>1, <2>1, <2>2, <2>4, Numbers DEF CheckInv, LoopInv, point_passes, fails, view
  <2>5. LoopInv'  BY <2>1, <2>4 DEF LoopInv, AllPass, fails
  <2> QED  BY <2>1, <2>3, <2>5 DEF CheckInv, AllPass, fails
<1>2. CASE point_fails
  <2>1. /\ UNCHANGED <<chain, saved, batch, incoming, points, checked, enabled, up, todo, seen, file>>
        /\ at = "loop" /\ at' = "pop" /\ batch = "update" /\ todo # {}
    BY <1>2 DEF point_fails, loaded, outside
  <2>2. PointsInv' /\ ProcessInv'  BY <2>1 DEF CheckInv, PointsInv, ProcessInv, Running
  <2> QED  BY <2>1, <2>2 DEF CheckInv, LoopInv, AllPass, fails
<1>3. CASE rolled_back
  <2>1. /\ UNCHANGED <<chain, saved, batch, incoming, points, checked, enabled, up, seen, file>>
        /\ todo' = todo \ {next_point} /\ at = "pop" /\ at' = "loop"
        /\ chain.height = rollback_height
    BY <1>3 DEF rolled_back, Rest, loaded, outside
  <2>2. batch = "update" /\ todo # {}  BY <2>1 DEF CheckInv, ProcessInv
  <2>3. next_point \in 1 .. MaxHeight  BY <2>2, NextPoint, Numbers DEF CheckInv
  <2>4. ~ fails(chain, next_point)  BY <2>1, <2>3, Numbers DEF rollback_height, fails
  <2>5. PointsInv' /\ ProcessInv'
    BY <2>1, <2>2 DEF CheckInv, PointsInv, ProcessInv, Running
  <2>6. LoopInv'  BY <2>1, <2>2, <2>4 DEF CheckInv, LoopInv, AllPass, fails
  <2> QED  BY <2>1, <2>5, <2>6 DEF CheckInv, AllPass, fails
<1>4. CASE pop_block
  <2>1. /\ UNCHANGED <<saved, batch, incoming, points, checked, enabled, up, at, todo, seen, file>>
        /\ at = "pop" /\ chain.height > 1 /\ chain' = Chain(chain.height - 1, chain.fork)
    BY <1>4 DEF pop_block, loaded, progress, outside
  <2>2. batch = "update"  BY <2>1 DEF CheckInv, ProcessInv
  <2>3. chain.height - 1 \in 1 .. MaxHeight  BY <2>1, Numbers
  <2>4. /\ chain' \in ChainType /\ chain'.height = chain.height - 1
        /\ chain'.fork = IF chain.fork < chain.height - 1 THEN chain.fork ELSE NoFork
    BY <2>1, <2>3, Numbers, ChainParts
  <2>5. \A pt \in points : fails(chain', pt) => fails(chain, pt)
    BY <2>4, Numbers DEF fails
  <2>6. PointsInv' /\ ProcessInv'
    BY <2>1, <2>2 DEF CheckInv, PointsInv, ProcessInv, Running
  <2>7. chain.height <= seen /\ AllPass(chain, points \ todo)
    BY <2>1, <2>2 DEF CheckInv, LoopInv
  <2>8. chain'.height <= seen  BY <2>4, <2>7, Numbers
  <2>9. LoopInv'  BY <2>1, <2>5, <2>7, <2>8 DEF LoopInv, AllPass, fails
  <2>10. AllPass(chain, checked)' /\ AllPass(saved, checked)'
    BY <2>1, <2>5, Numbers DEF CheckInv, AllPass, fails
  <2> QED  BY <2>1, <2>4, <2>6, <2>9, <2>10 DEF CheckInv
<1>5. CASE throw_in_handler
  BY <1>5 DEF throw_in_handler, CheckInv, PointsInv, ProcessInv, LoopInv, AllPass, fails, Running,
              loaded, outside
<1> QED  BY <1>1, <1>2, <1>3, <1>4, <1>5

\* Every step keeps the invariant.
LEMMA CheckStep == CheckInv /\ [Next]_vars => CheckInv'
<1> SUFFICES ASSUME CheckInv, [Next]_vars PROVE CheckInv'  OBVIOUS
<1>1. CASE UNCHANGED vars
  BY <1>1 DEF vars, CheckInv, PointsInv, ProcessInv, LoopInv, AllPass, fails, Running
<1>2. ASSUME NEW pt \in Later, publish(pt)  PROVE CheckInv'
  BY <1>2 DEF publish, CheckInv, PointsInv, ProcessInv, LoopInv, AllPass, fails, Running,
              loaded, progress
<1>3. CASE edit
  BY <1>3 DEF edit, CheckInv, PointsInv, ProcessInv, LoopInv, AllPass, fails, Running,
              loaded, progress
<1>4. CASE crash \/ shutdown  BY <1>4, CheckExit DEF crash, shutdown
<1>5. CASE update_checkpoints
  BY <1>5, CheckOutside, CheckLoop, CheckEnd, CheckExit DEF update_checkpoints, throw_in_init
<1> QED
  BY <1>1, <1>2, <1>3, <1>4, <1>5, CheckOutside, CheckBlocks, CheckAddBlock, CheckReorganize
  DEF Next

\* In a running node the checkpoints it has started with, and every later one
\* that an update could check in a batch of its own, hold on the chain and in
\* an open batch.  The loop of check_against_checkpoints leaves nothing behind
\* it that fails, and neither a new block nor a reorganisation, a batch that
\* is aborted or an update that races with a batch brings a wrong one in.
THEOREM CheckpointsEnforced == Spec => []Enforced
<1>1. CheckInv => Enforced  BY DEF CheckInv, ProcessInv, AllPass, Enforced
<1> QED  BY <1>1, CheckInit, CheckStep, PTL DEF Spec
=============================================================================
