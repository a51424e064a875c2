-------------------------- MODULE ConsensusProofs ---------------------------
(***************************************************************************)
(* Theorems about the state that is derived from the chain, for every set  *)
(* of blocks, every table of hard forks and every bound.  The emission     *)
(* never exceeds MONEY_SUPPLY.  In ConsensusState the weight limit, the    *)
(* rolling median, the difficulty cache, the hard fork object and the data *)
(* stored with each block are what the rules compute from the chain,       *)
(* through batches, reorganisations, rollbacks, pops and starts with a     *)
(* newer release; what becomes stale when the database throws is stated    *)
(* where it does.                                                          *)
(*                                                                         *)
(* Core is what holds whatever the database does; Calm, CoinsRight and     *)
(* the verdicts need that it has not thrown; FairRight is what is left of  *)
(* them when it has.  Whole puts them together.                            *)
(***************************************************************************)
EXTENDS ConsensusState, Emission, FiniteSetTheorems, SequenceTheorems,
        WellFoundedInduction, TLAPS

----------------------------------------------------------------------------
(* Numbers and functions by recursion.                                     *)

\* Every nonempty set of natural numbers has a least element.
LEMMA LeastNumber ==
  ASSUME NEW S \in SUBSET Nat, S # {}
  PROVE  \E m \in S : \A k \in S : m <= k
<1> DEFINE R == {ss \in Nat \X Nat : ss[1] < ss[2]}
<1>1. IsWellFoundedOn(R, Nat)  BY NatLessThanWellFounded, Zenon DEF OpToRel
<1> HIDE DEF R
<1>2. PICK m \in S : \A y \in S : ~ (<<y, m>> \in R)  BY <1>1, WFMin
<1>3. \A y \in S : ~ (y < m)  BY <1>2 DEF R
<1> QED  BY <1>3

\* A set of numbers that has 0 and with every number the next one has them all.
LEMMA Induction ==
  ASSUME NEW S, 0 \in S, \A n \in Nat : n \in S => n + 1 \in S
  PROVE  Nat \subseteq S
<1> DEFINE T == Nat \ S
<1> SUFFICES ASSUME T # {} PROVE FALSE  OBVIOUS
<1>1. PICK m \in T : \A y \in T : m <= y  BY LeastNumber
<1>2. m \in Nat /\ m \notin S /\ m # 0  OBVIOUS
<1>3. m - 1 \in Nat /\ ~(m <= m - 1) /\ (m - 1) + 1 = m  BY <1>2
<1>4. m - 1 \notin T  BY <1>1, <1>3
<1> QED  BY <1>2, <1>3, <1>4

\* The steps of a recursion, and what it computes from x.
Steps(V, N) == [1 .. N -> [V -> V]]

\* The functions that follow the steps from x.
Results(V, x, N, step) ==
  {f \in [0 .. N -> V] : f[0] = x /\ \A k \in 1 .. N : f[k] = step[k][f[k - 1]]}

\* A recursion over numbers has a result.
LEMMA Recursion ==
  ASSUME NEW V, NEW x \in V, NEW N \in Nat, NEW step \in Steps(V, N)
  PROVE  \E f : f \in Results(V, x, N, step)
<1> USE DEF Steps, Results
<1> DEFINE Good(n, f) == f[0] = x /\ \A k \in 1 .. n : f[k] = step[k][f[k - 1]]
           S == {n \in Nat : n <= N => \E f \in [0 .. n -> V] : Good(n, f)}
<1>1. 0 \in S
  <2> DEFINE f == [k \in 0 .. 0 |-> x]
  <2>1. f \in [0 .. 0 -> V] /\ f[0] = x /\ 1 .. 0 = {}  OBVIOUS
  <2>2. Good(0, f)  BY <2>1
  <2> QED  BY <2>1, <2>2
<1>2. ASSUME NEW n \in Nat, n \in S PROVE n + 1 \in S
  <2> SUFFICES ASSUME n + 1 <= N PROVE \E f \in [0 .. n + 1 -> V] : Good(n + 1, f)
    OBVIOUS
  <2>1. PICK f \in [0 .. n -> V] : Good(n, f)  BY <1>2
  <2> DEFINE g == [k \in 0 .. n + 1 |-> IF k = n + 1 THEN step[n + 1][f[n]] ELSE f[k]]
  <2>2. f[n] \in V /\ n + 1 \in 1 .. N  OBVIOUS
  <2>3. step[n + 1][f[n]] \in V  BY <2>2
  <2>4. g \in [0 .. n + 1 -> V]  BY <2>3
  <2>5. \A k \in 0 .. n : g[k] = f[k]  OBVIOUS
  <2>6. g[n + 1] = step[n + 1][f[n]] /\ g[n] = f[n] /\ g[0] = x  BY <2>1
  <2>7. ASSUME NEW k \in 1 .. n + 1 PROVE g[k] = step[k][g[k - 1]]
    <3>1. CASE k = n + 1
      <4>1. k - 1 = n  BY <3>1
      <4> QED  BY <3>1, <4>1, <2>6
    <3>2. CASE k # n + 1
      <4>1. k \in 1 .. n /\ k \in 0 .. n /\ k - 1 \in 0 .. n  BY <3>2
      <4>2. f[k] = step[k][f[k - 1]]  BY <4>1, <2>1
      <4> QED  BY <4>1, <4>2, <2>5
    <3> QED  BY <3>1, <3>2
  <2> QED  BY <2>4, <2>6, <2>7
<1>3. Nat \subseteq S  BY <1>1, <1>2, Induction
<1> QED  BY <1>3

----------------------------------------------------------------------------
(* The emission.                                                           *)

\* The reward of an era, halved k times.
LEMMA PeriodReward ==
  /\ period_reward \in [Turns -> Nat]
  /\ period_reward[0] = INITIAL_REWARD
  /\ \A k \in 1 .. INITIAL_REWARD + 1 : period_reward[k] = period_reward[k - 1] \div 2
<1> DEFINE N == INITIAL_REWARD + 1
           step == [k \in 1 .. N |-> [n \in Nat |-> n \div 2]]
           Def(f) == f = [k \in Turns |-> IF k = 0 THEN INITIAL_REWARD ELSE f[k - 1] \div 2]
<1>1. N \in Nat /\ INITIAL_REWARD \in Nat /\ Turns = 0 .. N  BY RewardAssumption DEF Turns
<1>2. \A n \in Nat : n \div 2 \in Nat  OBVIOUS
<1>3. step \in Steps(Nat, N)  BY <1>2 DEF Steps
<1>4. \A k \in 1 .. N, n \in Nat : step[k][n] = n \div 2  OBVIOUS
<1> HIDE DEF step, N
<1>5. PICK f : f \in Results(Nat, INITIAL_REWARD, N, step)  BY <1>1, <1>3, Recursion
<1> USE DEF Results
<1>6. ASSUME NEW k \in 1 .. N PROVE f[k] = f[k - 1] \div 2
  <2>1. k - 1 \in 0 .. N  BY <1>1
  <2>2. f[k - 1] \in Nat  BY <2>1, <1>5
  <2> QED  BY <2>2, <1>4, <1>5
<1>7. Def(f)
  <2>1. \A k \in 0 .. N : k # 0 => k \in 1 .. N  BY <1>1
  <2> QED  BY <1>1, <1>5, <1>6, <2>1
<1>8. period_reward = CHOOSE g : Def(g)  BY DEF period_reward
<1>9. Def(period_reward)  BY <1>7, <1>8
<1>10. DOMAIN period_reward = 0 .. N  BY <1>9, <1>1
<1>11. /\ period_reward[0] = INITIAL_REWARD
       /\ \A k \in 1 .. N : period_reward[k] = period_reward[k - 1] \div 2
  BY <1>9, <1>1
<1> DEFINE S == {n \in Nat : n <= N => period_reward[n] \in Nat}
<1>12. 0 \in S  BY <1>11, <1>1
<1>13. ASSUME NEW n \in Nat, n \in S PROVE n + 1 \in S
  <2> SUFFICES ASSUME n + 1 <= N PROVE period_reward[n + 1] \in Nat  OBVIOUS
  <2>1. n + 1 \in 1 .. N /\ (n + 1) - 1 = n /\ period_reward[n] \in Nat  BY <1>1, <1>13
  <2> QED  BY <2>1, <1>11, <1>2
<1>14. Nat \subseteq S  BY <1>12, <1>13, Induction
<1>15. \A k \in Turns : period_reward[k] \in Nat  BY <1>14, <1>1
<1>16. period_reward = [k \in Turns |-> period_reward[k]]  BY <1>9
<1> QED  BY <1>15, <1>16, <1>11 DEF N

\* The coins of the first k eras.
LEMMA ErasSum ==
  /\ eras \in [Turns -> Nat]
  /\ eras[0] = 0
  /\ \A k \in 1 .. INITIAL_REWARD + 1 : eras[k] = eras[k - 1] + period_reward[k - 1] * HALVING_INTERVAL
<1> DEFINE N == INITIAL_REWARD + 1
           step == [k \in 1 .. N |-> [n \in Nat |-> n + period_reward[k - 1] * HALVING_INTERVAL]]
           Def(f) == f = [k \in Turns |-> IF k = 0 THEN 0
                                          ELSE f[k - 1] + period_reward[k - 1] * HALVING_INTERVAL]
<1>1. N \in Nat /\ Turns = 0 .. N /\ 0 \in Nat  BY RewardAssumption DEF Turns
<1>2. \A k \in 1 .. N : period_reward[k - 1] * HALVING_INTERVAL \in Nat
  <2>1. \A k \in 1 .. N : k - 1 \in Turns  BY <1>1
  <2>2. \A a, b \in Nat : a * b \in Nat  OBVIOUS
  <2> QED  BY <2>1, <2>2, PeriodReward, RewardAssumption
<1>3. step \in Steps(Nat, N)  BY <1>2 DEF Steps
<1>4. \A k \in 1 .. N, n \in Nat : step[k][n] = n + period_reward[k - 1] * HALVING_INTERVAL
  OBVIOUS
<1> HIDE DEF step, N
<1>5. PICK f : f \in Results(Nat, 0, N, step)  BY <1>1, <1>3, Recursion
<1> USE DEF Results
<1>6. ASSUME NEW k \in 1 .. N PROVE f[k] = f[k - 1] + period_reward[k - 1] * HALVING_INTERVAL
  <2>1. k - 1 \in 0 .. N  BY <1>1
  <2>2. f[k - 1] \in Nat  BY <2>1, <1>5
  <2> QED  BY <2>2, <1>4, <1>5
<1>7. Def(f)
  <2>1. \A k \in 0 .. N : k # 0 => k \in 1 .. N  BY <1>1
  <2>2. f = [k \in 0 .. N |-> f[k]]  BY <1>5
  <2> QED  BY <1>1, <1>5, <1>6, <2>1, <2>2
<1>8. eras = CHOOSE g : Def(g)  BY DEF eras
<1>9. Def(eras)  BY <1>7, <1>8
<1>11. /\ eras[0] = 0
       /\ \A k \in 1 .. N : eras[k] = eras[k - 1] + period_reward[k - 1] * HALVING_INTERVAL
  BY <1>9, <1>1
<1> DEFINE S == {n \in Nat : n <= N => eras[n] \in Nat}
<1>12. 0 \in S  BY <1>11, <1>1
<1>13. ASSUME NEW n \in Nat, n \in S PROVE n + 1 \in S
  <2> SUFFICES ASSUME n + 1 <= N PROVE eras[n + 1] \in Nat  OBVIOUS
  <2>1. n + 1 \in 1 .. N /\ (n + 1) - 1 = n /\ eras[n] \in Nat  BY <1>1, <1>13
  <2> QED  BY <2>1, <1>11, <1>2
<1>14. Nat \subseteq S  BY <1>12, <1>13, Induction
<1>15. \A k \in Turns : eras[k] \in Nat  BY <1>14, <1>1
<1>16. eras = [k \in Turns |-> eras[k]]  BY <1>9
<1> QED  BY <1>15, <1>16, <1>11 DEF N

\* coins_counted follows the loop.
LEMMA CountedTurns ==
  /\ coins_counted \in [Turns -> Int]
  /\ coins_counted[0] = 0
  /\ \A k \in 1 .. INITIAL_REWARD + 1 :
       coins_counted[k] = wrap(coins_counted[k - 1] + wrap(period_reward[k - 1] * HALVING_INTERVAL))
<1> DEFINE N == INITIAL_REWARD + 1
           more(n, k) == wrap(n + wrap(period_reward[k - 1] * HALVING_INTERVAL))
           step == [k \in 1 .. N |-> [n \in Int |-> more(n, k)]]
           Def(f) == f = [k \in Turns |-> IF k = 0 THEN 0 ELSE more(f[k - 1], k)]
<1>1. N \in Nat /\ Turns = 0 .. N /\ 0 \in Int  BY RewardAssumption DEF Turns
<1>2. \A k \in 1 .. N, n \in Int : more(n, k) \in Int
  <2>1. \A k \in 1 .. N : k - 1 \in Turns  BY <1>1
  <2>2. \A a, b \in Nat : a * b \in Int  OBVIOUS
  <2>3. \A a \in Int : wrap(a) \in Int  BY RewardAssumption DEF wrap
  <2>4. \A k \in 1 .. N : period_reward[k - 1] * HALVING_INTERVAL \in Int
    BY <2>1, <2>2, PeriodReward, RewardAssumption
  <2> QED  BY <2>3, <2>4
<1> HIDE DEF more
<1>3. step \in Steps(Int, N)  BY <1>2 DEF Steps
<1>4. \A k \in 1 .. N, n \in Int : step[k][n] = more(n, k)  OBVIOUS
<1> HIDE DEF step, N
<1>5. PICK f : f \in Results(Int, 0, N, step)  BY <1>1, <1>3, Recursion
<1> USE DEF Results
<1>6. ASSUME NEW k \in 1 .. N PROVE f[k] = more(f[k - 1], k)
  <2>1. k - 1 \in 0 .. N  BY <1>1
  <2>2. f[k - 1] \in Int  BY <2>1, <1>5
  <2> QED  BY <2>2, <1>4, <1>5
<1>7. Def(f)
  <2>1. \A k \in 0 .. N : k # 0 => k \in 1 .. N  BY <1>1
  <2>2. f = [k \in 0 .. N |-> f[k]]  BY <1>5
  <2> QED  BY <1>1, <1>5, <1>6, <2>1, <2>2
<1>8. coins_counted = CHOOSE g : Def(g)  BY DEF coins_counted, more
<1>9. Def(coins_counted)  BY <1>7, <1>8
<1>11. /\ coins_counted[0] = 0
       /\ \A k \in 1 .. N : coins_counted[k] = more(coins_counted[k - 1], k)
  BY <1>9, <1>1
<1> DEFINE S == {n \in Nat : n <= N => coins_counted[n] \in Int}
<1>12. 0 \in S  BY <1>11, <1>1
<1>13. ASSUME NEW n \in Nat, n \in S PROVE n + 1 \in S
  <2> SUFFICES ASSUME n + 1 <= N PROVE coins_counted[n + 1] \in Int  OBVIOUS
  <2>1. n + 1 \in 1 .. N /\ (n + 1) - 1 = n /\ coins_counted[n] \in Int  BY <1>1, <1>13
  <2> QED  BY <2>1, <1>11, <1>2
<1>14. Nat \subseteq S  BY <1>12, <1>13, Induction
<1>15. \A k \in Turns : coins_counted[k] \in Int  BY <1>14, <1>1
<1>16. coins_counted = [k \in Turns |-> coins_counted[k]]  BY <1>9
<1> QED  BY <1>15, <1>16, <1>11 DEF N, more

\* The reward is used up after INITIAL_REWARD turns.
LEMMA RewardUsedUp == period_reward[INITIAL_REWARD] = 0
<1> DEFINE S == {n \in Nat : n \in Turns => period_reward[n] = 0 \/ period_reward[n] + n <= INITIAL_REWARD}
<1>1. INITIAL_REWARD \in Nat /\ INITIAL_REWARD > 0  BY RewardAssumption
<1>2. 0 \in S  BY <1>1, PeriodReward
<1>3. ASSUME NEW n \in Nat, n \in S PROVE n + 1 \in S
  <2> SUFFICES ASSUME n + 1 \in Turns
               PROVE  period_reward[n + 1] = 0 \/ period_reward[n + 1] + (n + 1) <= INITIAL_REWARD
    OBVIOUS
  <2>1. n \in Turns /\ n + 1 \in 1 .. INITIAL_REWARD + 1 /\ (n + 1) - 1 = n  BY <1>1 DEF Turns
  <2>2. period_reward[n] \in Nat /\ period_reward[n + 1] = period_reward[n] \div 2
    BY <2>1, PeriodReward
  <2>3. period_reward[n] = 0 \/ period_reward[n] + n <= INITIAL_REWARD  BY <1>3, <2>1
  <2>4. \A r \in Nat : r \div 2 = 0 \/ r \div 2 + 1 <= r  OBVIOUS
  <2>5. 0 \div 2 = 0  OBVIOUS
  <2>6. \A r \in Nat : r \div 2 \in Nat  OBVIOUS
  <2> QED  BY <1>1, <2>2, <2>3, <2>4, <2>5, <2>6
<1>4. Nat \subseteq S  BY <1>2, <1>3, Induction
<1>5. INITIAL_REWARD \in Turns  BY <1>1 DEF Turns
<1>6. period_reward[INITIAL_REWARD] \in Nat  BY <1>5, PeriodReward
<1> QED  BY <1>1, <1>4, <1>5, <1>6

\* The loop ends, whatever the coins, and halvings is its first end.
LEMMA HalvingsFound ==
  ASSUME NEW c
  PROVE  /\ halvings(c) \in 0 .. INITIAL_REWARD
         /\ stops(halvings(c), c)
         /\ \A j \in 0 .. halvings(c) - 1 : ~stops(j, c)
<1> DEFINE S == {n \in Nat : \A j \in 0 .. n : j \in 0 .. INITIAL_REWARD => ~stops(j, c)}
           P(k) == stops(k, c) /\ \A j \in 0 .. (k - 1) : ~stops(j, c)
<1>1. INITIAL_REWARD \in Nat  BY RewardAssumption
<1>2. stops(INITIAL_REWARD, c)  BY RewardUsedUp DEF stops
<1> HIDE DEF P
<1>3. \E k \in 0 .. INITIAL_REWARD : P(k)
  <2> SUFFICES ASSUME \A k \in 0 .. INITIAL_REWARD : ~P(k) PROVE FALSE  OBVIOUS
  <2>1. 0 \in S
    <3>1. 0 \in 0 .. INITIAL_REWARD /\ 0 .. 0 - 1 = {} /\ 0 .. 0 = {0}  BY <1>1
    <3> QED  BY <3>1 DEF P
  <2>2. ASSUME NEW n \in Nat, n \in S PROVE n + 1 \in S
    <3> SUFFICES ASSUME NEW j \in 0 .. n + 1, j \in 0 .. INITIAL_REWARD, stops(j, c) PROVE FALSE
      OBVIOUS
    <3>1. \A i \in 0 .. j - 1 : i \in 0 .. n /\ i \in 0 .. INITIAL_REWARD  BY <1>1
    <3> QED  BY <3>1, <2>2 DEF P
  <2>3. Nat \subseteq S  BY <2>1, <2>2, Induction
  <2> QED  BY <1>1, <1>2, <2>3
<1>4. halvings(c) = CHOOSE k \in 0 .. INITIAL_REWARD : P(k)  BY DEF halvings, P
<1>5. halvings(c) \in 0 .. INITIAL_REWARD /\ P(halvings(c))  BY <1>3, <1>4
<1> QED  BY <1>5 DEF P

----------------------------------------------------------------------------
(* The reward of a block.                                                  *)

\* A penalty takes away from the reward and never adds to it.
LEMMA PenaltyShrinks ==
  ASSUME NEW base \in Nat, NEW m \in Nat, NEW w \in Nat, m < w, w <= 2 * m
  PROVE  penalized(base, m, w) \in 0 .. base
<1> DEFINE x == (2 * m - w) * w
           a == base * x
           q == a \div m
           r == q \div m
<1>1. m > 0 /\ 2 * m - w \in Nat  OBVIOUS
<1>2. x \in Nat
  <2>1. \A i, j \in Nat : i * j \in Nat  OBVIOUS
  <2> QED  BY <1>1, <2>1
<1>3. x <= m * m
  <2> DEFINE d == w - m
  <2>1. d \in Int /\ w = m + d  OBVIOUS
  <2>2. 2 * m - w = m - d  OBVIOUS
  <2>3. x = (m - d) * (m + d)  BY <2>1, <2>2
  <2> HIDE DEF d
  <2>4. (m - d) * (m + d) = m * m - d * d  BY <2>1
  <2>5. d * d >= 0  BY <2>1
  <2> QED  BY <2>3, <2>4, <2>5, <2>1
<1> HIDE DEF x
<1>4. a \in Nat /\ a <= base * (m * m)
  <2>1. \A i, j \in Nat : i * j \in Nat  OBVIOUS
  <2>2. m * m \in Nat  BY <2>1
  <2>3. \A i, j, k \in Nat : j <= k => i * j <= i * k  OBVIOUS
  <2> QED  BY <1>2, <1>3, <2>1, <2>2, <2>3
<1> HIDE DEF a
<1>5. q \in Nat /\ q * m <= a  BY <1>1, <1>4
<1> HIDE DEF q
<1>6. r \in Nat /\ r * m <= q  BY <1>1, <1>5
<1> HIDE DEF r
<1>7. r <= base
  <2> SUFFICES ASSUME r >= base + 1 PROVE FALSE  BY <1>6
  <2>1. \A i, j, k \in Nat : j <= k => j * i <= k * i  OBVIOUS
  <2>2. (base + 1) * m <= q  BY <2>1, <1>6, <1>5
  <2>3. (base + 1) * m \in Nat  BY <2>1
  <2>4. ((base + 1) * m) * m <= a  BY <2>1, <2>2, <2>3, <1>5, <1>4
  <2>5. ((base + 1) * m) * m = base * (m * m) + m * m  OBVIOUS
  <2>6. m * m > 0  BY <1>1
  <2> QED  BY <2>4, <2>5, <2>6, <1>4
<1>8. penalized(base, m, w) = r  BY DEF penalized, r, q, a, x
<1> QED  BY <1>6, <1>7, <1>8

\* No block mints more than the reward of its era, or more than is left.
LEMMA RewardBound ==
  ASSUME NEW c \in 0 .. MONEY_SUPPLY
  PROVE  /\ base_reward(c) \in Nat
         /\ base_reward(c) <= period_reward[halvings(c)]
         /\ c + base_reward(c) <= MONEY_SUPPLY
<1> DEFINE full == period_reward[halvings(c)]
<1>1. halvings(c) \in Turns /\ halvings(c) \in 0 .. INITIAL_REWARD
  BY HalvingsFound, RewardAssumption DEF Turns
<1>2. full \in Nat  BY <1>1, PeriodReward
<1>3. full <= INITIAL_REWARD
  <2> DEFINE S == {n \in Nat : n \in Turns => period_reward[n] <= INITIAL_REWARD}
  <2>1. 0 \in S  BY PeriodReward, RewardAssumption
  <2>2. ASSUME NEW n \in Nat, n \in S PROVE n + 1 \in S
    <3> SUFFICES ASSUME n + 1 \in Turns PROVE period_reward[n + 1] <= INITIAL_REWARD  OBVIOUS
    <3>1. n \in Turns /\ n + 1 \in 1 .. INITIAL_REWARD + 1 /\ (n + 1) - 1 = n
      BY RewardAssumption DEF Turns
    <3>2. period_reward[n] \in Nat /\ period_reward[n + 1] = period_reward[n] \div 2
      BY <3>1, PeriodReward
    <3>3. period_reward[n] <= INITIAL_REWARD  BY <3>1, <2>2
    <3>4. \A r \in Nat : r \div 2 <= r /\ r \div 2 \in Nat  OBVIOUS
    <3> QED  BY <3>2, <3>3, <3>4, RewardAssumption
  <2>3. Nat \subseteq S  BY <2>1, <2>2, Induction
  <2> QED  BY <1>1, <2>3, RewardAssumption
<1> HIDE DEF full
<1>4. c \in Nat /\ c <= MONEY_SUPPLY /\ MONEY_SUPPLY \in Nat /\ INITIAL_REWARD \in Nat
      /\ UINT64 \in Nat /\ c + full < UINT64
  BY <1>2, <1>3, RewardAssumption
<1>5. \A i, j \in Nat : i < j => i % j = i  OBVIOUS
<1>6. wrap(c + full) = c + full  BY <1>2, <1>4, <1>5 DEF wrap
<1>7. base_reward(c) = IF c >= MONEY_SUPPLY THEN 0
                       ELSE IF c + full > MONEY_SUPPLY THEN MONEY_SUPPLY - c ELSE full
  BY <1>6 DEF base_reward, full
<1>8. full = period_reward[halvings(c)]  BY DEF full
<1>9. CASE c >= MONEY_SUPPLY  BY <1>9, <1>2, <1>4, <1>7, <1>8
<1>10. CASE c < MONEY_SUPPLY  BY <1>10, <1>2, <1>4, <1>7, <1>8
<1> QED  BY <1>4, <1>9, <1>10

\* get_block_reward pays at most the base reward.
LEMMA BlockRewardBound ==
  ASSUME NEW m \in Nat, NEW w \in Nat, NEW c \in 0 .. MONEY_SUPPLY
  PROVE  /\ get_block_reward(m, w, c).ok \in BOOLEAN
         /\ get_block_reward(m, w, c).reward \in 0 .. base_reward(c)
<1> DEFINE base == base_reward(c)
           zone == largest(m, FULL_REWARD_ZONE)
<1>1. base \in Nat  BY RewardBound
<1>2. zone \in Nat  BY WeightAssumption DEF largest
<1> HIDE DEF base, zone
<1>3. get_block_reward(m, w, c) =
        IF base = 0 THEN [ok |-> TRUE, reward |-> 0]
        ELSE IF w <= zone THEN [ok |-> TRUE, reward |-> base]
        ELSE IF w > 2 * zone THEN [ok |-> FALSE, reward |-> 0]
        ELSE [ok |-> TRUE, reward |-> penalized(base, zone, w)]
  BY DEF get_block_reward, base, zone
<1>4. ~(w <= zone) /\ ~(w > 2 * zone) => penalized(base, zone, w) \in 0 .. base
  BY <1>1, <1>2, PenaltyShrinks
<1>5. /\ get_block_reward(m, w, c).ok \in BOOLEAN
      /\ get_block_reward(m, w, c).reward \in 0 .. base
  BY <1>1, <1>3, <1>4
<1> QED  BY <1>5 DEF base

\* already_generated_coins stays below the cap, and counts the reward.
LEMMA CoinsAdded ==
  ASSUME NEW c \in 0 .. MONEY_SUPPLY, NEW r \in Nat
  PROVE  /\ add_coins(c, r) \in 0 .. MONEY_SUPPLY
         /\ add_coins(c, r) <= c + r
  BY RewardAssumption DEF add_coins

\* Later eras only add coins, and no era has more than the cap.
LEMMA ErasGrow ==
  \A j, k \in Turns : j <= k => eras[j] <= eras[k]
<1> DEFINE S == {n \in Nat : \A j \in Turns : j + n \in Turns => eras[j] <= eras[j + n]}
<1>1. 0 \in S
  <2>1. \A j \in Turns : j \in Int /\ eras[j] \in Nat  BY ErasSum, RewardAssumption DEF Turns
  <2>2. \A j \in Turns : eras[j] <= eras[j + 0]  BY <2>1
  <2> QED  BY <2>2
<1>2. ASSUME NEW n \in Nat, n \in S PROVE n + 1 \in S
  <2> SUFFICES ASSUME NEW j \in Turns, j + (n + 1) \in Turns PROVE eras[j] <= eras[j + (n + 1)]
    OBVIOUS
  <2> DEFINE k == j + (n + 1)
  <2>1. k \in 1 .. INITIAL_REWARD + 1 /\ k - 1 = j + n /\ j + n \in Turns
    BY RewardAssumption DEF Turns
  <2> HIDE DEF k
  <2>2. eras[j] <= eras[k - 1]  BY <1>2, <2>1
  <2>3. eras[k] = eras[k - 1] + period_reward[k - 1] * HALVING_INTERVAL  BY <2>1, ErasSum
  <2>4. \A a, b \in Nat : a * b \in Nat  OBVIOUS
  <2>5. period_reward[k - 1] * HALVING_INTERVAL \in Nat
    BY <2>1, <2>4, PeriodReward, RewardAssumption
  <2>6. eras[j] \in Nat /\ eras[k - 1] \in Nat  BY <2>1, ErasSum
  <2>7. eras[j] <= eras[k]  BY <2>2, <2>3, <2>5, <2>6
  <2> QED  BY <2>7 DEF k
<1>3. Nat \subseteq S  BY <1>1, <1>2, Induction
<1> SUFFICES ASSUME NEW j \in Turns, NEW k \in Turns, j <= k PROVE eras[j] <= eras[k]
  OBVIOUS
<1>4. k - j \in Nat /\ j + (k - j) = k  BY RewardAssumption DEF Turns
<1> QED  BY <1>3, <1>4

\* The sums of the loop do not wrap around: coins_counted is the true sum.
LEMMA CountedExact == \A k \in Turns : coins_counted[k] = eras[k]
<1> DEFINE S == {n \in Nat : n \in Turns => coins_counted[n] = eras[n]}
<1>1. 0 \in S  BY ErasSum, CountedTurns
<1>2. ASSUME NEW n \in Nat, n \in S PROVE n + 1 \in S
  <2> SUFFICES ASSUME n + 1 \in Turns PROVE coins_counted[n + 1] = eras[n + 1]  OBVIOUS
  <2> DEFINE p == period_reward[n] * HALVING_INTERVAL
  <2>1. n \in Turns /\ n + 1 \in 1 .. INITIAL_REWARD + 1 /\ (n + 1) - 1 = n
        /\ INITIAL_REWARD + 1 \in Turns /\ n + 1 <= INITIAL_REWARD + 1
    BY RewardAssumption DEF Turns
  <2>2. \A a, b \in Nat : a * b \in Nat  OBVIOUS
  <2>3. p \in Nat  BY <2>1, <2>2, PeriodReward, RewardAssumption
  <2>4. eras[n + 1] = eras[n] + p /\ eras[n] \in Nat  BY <2>1, ErasSum
  <2>5. coins_counted[n + 1] = wrap(eras[n] + wrap(p))
    BY <2>1, <1>2, CountedTurns
  <2> HIDE DEF p
  <2>6. eras[n + 1] <= Total  BY <2>1, ErasGrow DEF Total
  <2>7. Total \in Nat  BY <2>1, ErasSum DEF Total
  <2>8. eras[n] + p < UINT64 /\ p < UINT64 /\ UINT64 \in Nat
    BY <2>3, <2>4, <2>6, <2>7, RewardAssumption, EmissionAssumption
  <2>9. \A i, j \in Nat : i < j => i % j = i  OBVIOUS
  <2>10. wrap(p) = p /\ wrap(eras[n] + p) = eras[n] + p  BY <2>3, <2>4, <2>8, <2>9 DEF wrap
  <2> QED  BY <2>4, <2>5, <2>10
<1>3. Nat \subseteq S  BY <1>1, <1>2, Induction
<1> QED  BY <1>3, RewardAssumption DEF Turns

\* What a block takes beyond its era, the next era gives: coins that have not
\* reached the end of an era, and the reward of the era, are within the total.
LEMMA OneMoreReward ==
  ASSUME NEW c \in Nat, c <= Total
  PROVE  c + period_reward[halvings(c)] <= Total
<1> DEFINE k == halvings(c)
           r == period_reward[k]
<1>1. k \in 0 .. INITIAL_REWARD /\ stops(k, c)  BY HalvingsFound
<1> HIDE DEF k
<1>2. /\ k \in Turns /\ k + 1 \in Turns /\ k + 1 \in 1 .. INITIAL_REWARD + 1
      /\ (k + 1) - 1 = k /\ INITIAL_REWARD + 1 \in Turns /\ k + 1 <= INITIAL_REWARD + 1
  BY <1>1, RewardAssumption DEF Turns
<1>3. r \in Nat  BY <1>2, PeriodReward
<1>4. Total \in Nat  BY <1>2, ErasSum DEF Total
<1>5. CASE r = 0  BY <1>4, <1>5 DEF k
<1>6. CASE r # 0
  <2>1. c < eras[k + 1]
    <3>1. coins_counted[k + 1] > c  BY <1>1, <1>6 DEF stops
    <3> QED  BY <3>1, <1>2, CountedExact, ErasSum
  <2>2. k # INITIAL_REWARD  BY <1>6, RewardUsedUp
  <2>3. /\ k + 2 \in Turns /\ k + 2 \in 1 .. INITIAL_REWARD + 1 /\ (k + 2) - 1 = k + 1
        /\ k + 2 <= INITIAL_REWARD + 1
    BY <1>1, <2>2, RewardAssumption DEF Turns
  <2> DEFINE s == period_reward[k + 1]
  <2>4. s = r \div 2 /\ s \in Nat  BY <1>2, PeriodReward
  <2>5. eras[k + 2] = eras[k + 1] + s * HALVING_INTERVAL  BY <2>3, ErasSum
  <2> HIDE DEF s, r
  <2>6. \A a, b \in Nat : b >= 2 => a * b >= 2 * a  OBVIOUS
  <2>7. s * HALVING_INTERVAL >= 2 * s
    BY <2>4, <2>6, EmissionAssumption, RewardAssumption
  <2>8. \A n \in Nat : n <= 2 * (n \div 2) + 1 /\ n \div 2 \in Nat  OBVIOUS
  <2>9. r <= 2 * s + 1  BY <1>3, <2>4, <2>8
  <2>10. eras[k + 1] \in Nat /\ eras[k + 2] \in Nat  BY <1>2, <2>3, ErasSum
  <2>11. eras[k + 2] <= Total  BY <1>2, <2>3, ErasGrow DEF Total
  <2>12. s * HALVING_INTERVAL \in Int  BY <2>4, RewardAssumption
  <2>13. c + r <= Total
    BY <2>1, <2>4, <2>5, <2>7, <2>9, <2>10, <2>11, <2>12, <1>3, <1>4
  <2> QED  BY <2>13 DEF r, k
<1> QED  BY <1>5, <1>6

\* The coins never exceed the sum of the eras, whatever the weights of the
\* blocks and the medians, for every reward, length of an era and cap: a
\* penalty moves the end of an era to the middle of a reward, and what a block
\* takes beyond the end is less than what its next era pays out.
THEOREM EmissionBounded == EmissionSpec => []NeverAboveTotal
<1> DEFINE I == coins \in Nat /\ coins <= Total
<1>1. EmissionInit => I
  <2>1. INITIAL_REWARD + 1 \in Turns  BY RewardAssumption DEF Turns
  <2> QED  BY <2>1, ErasSum DEF EmissionInit, Total
<1>2. I /\ [EmissionNext]_coins => I'
  <2> SUFFICES ASSUME I, EmissionNext PROVE I'  OBVIOUS
  <2>1. PICK m \in Medians, w \in Weights : mine(m, w)  BY DEF EmissionNext
  <2> DEFINE r == get_block_reward(m, w, coins).reward
  <2>2. m \in Nat /\ w \in Nat /\ coins \in 0 .. MONEY_SUPPLY /\ Total \in Int
    <3>1. INITIAL_REWARD + 1 \in Turns  BY RewardAssumption DEF Turns
    <3>2. Total \in Nat  BY <3>1, ErasSum DEF Total
    <3> QED  BY <3>2, EmissionAssumption, RewardAssumption
  <2>3. coins' = add_coins(coins, r)  BY <2>1 DEF mine
  <2>4. r \in 0 .. base_reward(coins)  BY <2>2, BlockRewardBound
  <2> HIDE DEF r
  <2>5. base_reward(coins) \in Nat /\ base_reward(coins) <= period_reward[halvings(coins)]
    BY <2>2, RewardBound
  <2>6. halvings(coins) \in Turns  BY HalvingsFound, RewardAssumption DEF Turns
  <2>7. period_reward[halvings(coins)] \in Nat  BY <2>6, PeriodReward
  <2>8. coins + period_reward[halvings(coins)] <= Total  BY OneMoreReward
  <2>9. r \in Nat /\ coins + r <= Total  BY <2>2, <2>4, <2>5, <2>7, <2>8
  <2>10. coins' \in 0 .. MONEY_SUPPLY /\ coins' <= coins + r  BY <2>2, <2>3, <2>9, CoinsAdded
  <2> QED  BY <2>2, <2>9, <2>10, RewardAssumption
<1>3. I => NeverAboveTotal  BY DEF NeverAboveTotal
<1> HIDE DEF I
<1> QED  BY <1>1, <1>2, <1>3, PTL DEF EmissionSpec

----------------------------------------------------------------------------
(* Sorting, medians and windows.                                           *)

\* There is an n-th smallest element.
LEMMA Ranked ==
  ASSUME NEW s \in Seq(Nat), NEW n \in 1 .. Len(s)
  PROVE  \E x \in {s[i] : i \in DOMAIN s} :
           /\ Cardinality({i \in DOMAIN s : s[i] < x}) < n
           /\ n <= Cardinality({i \in DOMAIN s : s[i] <= x})
<1> DEFINE upto(x) == {i \in DOMAIN s : s[i] <= x}
           below(x) == {i \in DOMAIN s : s[i] < x}
           L == Len(s)
<1>1. L \in Nat /\ DOMAIN s = 1 .. L  OBVIOUS
<1>2. \A i \in 1 .. L : s[i] \in Nat  OBVIOUS
<1>3. IsFiniteSet(1 .. L) /\ Cardinality(1 .. L) = L
  <2>1. 1 \in Int /\ L \in Int  BY <1>1
  <2>2. /\ IsFiniteSet(1 .. L)
        /\ Cardinality(1 .. L) = IF 1 > L THEN 0 ELSE L - 1 + 1
    BY <2>1, FS_Interval
  <2> QED  BY <2>2, <1>1
<1>4. ASSUME NEW x PROVE Cardinality(upto(x)) \in Nat
  <2>1. upto(x) \subseteq 1 .. L  BY <1>1
  <2>2. IsFiniteSet(upto(x))  BY <2>1, <1>3, FS_Subset
  <2> QED  BY <2>2, FS_CardinalityType
<1>5. PICK B \in Nat : \A i \in 1 .. L : s[i] <= B
  <2> DEFINE S == {k \in Nat : k <= L => \E B \in Nat : \A i \in 1 .. k : s[i] <= B}
  <2>1. 0 \in S
    <3>1. 0 \in Nat /\ \A i \in 1 .. 0 : s[i] <= 0  OBVIOUS
    <3> QED  BY <3>1
  <2>2. ASSUME NEW k \in Nat, k \in S PROVE k + 1 \in S
    <3> SUFFICES ASSUME k + 1 <= L PROVE \E B \in Nat : \A i \in 1 .. k + 1 : s[i] <= B
      OBVIOUS
    <3>1. PICK B \in Nat : \A i \in 1 .. k : s[i] <= B  BY <2>2, <1>1
    <3>2. s[k + 1] \in Nat  BY <1>1, <1>2
    <3>3. B + s[k + 1] \in Nat  BY <3>2
    <3>4. \A i \in 1 .. k + 1 : s[i] <= B + s[k + 1]
      <4> SUFFICES ASSUME NEW i \in 1 .. k + 1 PROVE s[i] <= B + s[k + 1]  OBVIOUS
      <4>1. CASE i = k + 1  BY <4>1, <3>2
      <4>2. CASE i # k + 1
        <5>1. i \in 1 .. k /\ i \in 1 .. L  BY <4>2, <1>1
        <5>2. s[i] <= B /\ s[i] \in Nat  BY <5>1, <3>1, <1>2
        <5> QED  BY <5>2, <3>2
      <4> QED  BY <4>1, <4>2
    <3> QED  BY <3>3, <3>4
  <2> HIDE DEF S
  <2>3. Nat \subseteq S  BY <2>1, <2>2, Induction
  <2>4. L \in S  BY <1>1, <2>3
  <2> QED  BY <2>4, <1>1 DEF S
<1> DEFINE S == {x \in Nat : n <= Cardinality(upto(x))}
<1>6. B \in S
  <2>1. upto(B) = 1 .. L  BY <1>1, <1>5
  <2> HIDE DEF upto
  <2>2. n <= Cardinality(upto(B))  BY <2>1, <1>3, <1>1
  <2> QED  BY <2>2
<1>7. PICK x \in S : \A y \in S : x <= y  BY <1>6, LeastNumber
<1>8. x \in Nat /\ n <= Cardinality(upto(x)) /\ n \in Nat /\ n > 0  BY <1>7, <1>1
<1>9. Cardinality(below(x)) < n
  <2>1. CASE x = 0
    <3>1. below(x) = {}  BY <2>1, <1>1, <1>2
    <3> QED  BY <3>1, <1>8, FS_EmptySet
  <2>2. CASE x # 0
    <3>1. x - 1 \in Nat /\ ~(x <= x - 1)  BY <2>2, <1>8
    <3>2. x - 1 \notin S  BY <3>1, <1>7
    <3>3. below(x) = upto(x - 1)  BY <1>1, <1>2, <1>8
    <3>4. ~(n <= Cardinality(upto(x - 1)))  BY <3>1, <3>2
    <3>5. Cardinality(upto(x - 1)) \in Nat  BY <1>4
    <3> HIDE DEF upto, below
    <3> QED  BY <3>3, <3>4, <3>5, <1>8
  <2> QED  BY <2>1, <2>2
<1>10. x \in {s[i] : i \in DOMAIN s}
  <2> SUFFICES ASSUME \A i \in DOMAIN s : s[i] # x PROVE FALSE  OBVIOUS
  <2>1. upto(x) = below(x)  BY <1>1, <1>2, <1>8
  <2>2. Cardinality(upto(x)) \in Nat  BY <1>4
  <2> HIDE DEF upto, below
  <2> QED  BY <2>1, <2>2, <1>8, <1>9
<1> QED  BY <1>8, <1>9, <1>10

\* sort returns the elements in ascending order.
LEMMA SortAscends ==
  ASSUME NEW s \in Seq(Nat)
  PROVE  /\ sort(s) \in Seq(Nat) /\ Len(sort(s)) = Len(s)
         /\ \A a, b \in 1 .. Len(s) : a <= b => sort(s)[a] <= sort(s)[b]
<1> DEFINE V == {s[i] : i \in DOMAIN s}
           P(x, n) == /\ Cardinality({i \in DOMAIN s : s[i] < x}) < n
                      /\ n <= Cardinality({i \in DOMAIN s : s[i] <= x})
           L == Len(s)
<1>1. L \in Nat /\ DOMAIN s = 1 .. L  OBVIOUS
<1>2. V \subseteq Nat  BY <1>1
<1>3. \A n \in 1 .. L : \E x \in V : P(x, n)  BY Ranked
<1>4. sort(s) = [n \in 1 .. L |-> CHOOSE x \in V : P(x, n)]  BY <1>1 DEF sort
<1> HIDE DEF V, P
<1>5. \A n \in 1 .. L : sort(s)[n] \in V /\ P(sort(s)[n], n)  BY <1>3, <1>4
<1>6. sort(s) \in [1 .. L -> Nat]  BY <1>2, <1>4, <1>5
<1>7. sort(s) \in Seq(Nat) /\ Len(sort(s)) = L  BY <1>1, <1>6
<1>8. ASSUME NEW a \in 1 .. L, NEW b \in 1 .. L, a <= b, ~(sort(s)[a] <= sort(s)[b])
      PROVE  FALSE
  <2> DEFINE x == sort(s)[a]
             y == sort(s)[b]
             X == {i \in DOMAIN s : s[i] < x}
             Y == {i \in DOMAIN s : s[i] <= y}
  <2>1. x \in Nat /\ y \in Nat /\ y < x  BY <1>6, <1>8
  <2>2. P(x, a) /\ P(y, b)  BY <1>5
  <2> HIDE DEF x, y
  <2>3. Cardinality(X) < a /\ b <= Cardinality(Y)  BY <2>2 DEF P
  <2>4. Y \subseteq X  BY <2>1, <1>1
  <2>5. X \subseteq 1 .. L /\ IsFiniteSet(1 .. L)  BY <1>1, FS_Interval
  <2>6. IsFiniteSet(X)  BY <2>5, FS_Subset
  <2>7. IsFiniteSet(Y) /\ Cardinality(Y) <= Cardinality(X)  BY <2>4, <2>6, FS_Subset
  <2>8. Cardinality(X) \in Nat /\ Cardinality(Y) \in Nat  BY <2>6, <2>7, FS_CardinalityType
  <2> HIDE DEF X, Y
  <2> QED  BY <2>3, <2>7, <2>8, <1>8, <1>1
<1> QED  BY <1>7, <1>8

\* The median of natural numbers is one.
LEMMA MedianType ==
  ASSUME NEW s \in Seq(Nat)
  PROVE  median(s) \in Nat
<1> DEFINE n == Len(s) \div 2
<1>1. Len(s) \in Nat  OBVIOUS
<1>2. \A i \in 1 .. Len(s) : sort(s)[i] \in Nat  BY SortAscends
<1>3. CASE s = << >>  BY <1>3 DEF median
<1>4. CASE s # << >> /\ Len(s) % 2 = 1
  <2>1. n + 1 \in 1 .. Len(s)  BY <1>1, <1>4
  <2>2. median(s) = sort(s)[n + 1]  BY <1>4 DEF median
  <2> QED  BY <2>1, <2>2, <1>2
<1>5. CASE s # << >> /\ Len(s) % 2 # 1
  <2>0. Len(s) > 0  BY <1>1, <1>5
  <2>1. n \in 1 .. Len(s) /\ n + 1 \in 1 .. Len(s)  BY <1>1, <1>5, <2>0
  <2>2. median(s) = (sort(s)[n] + sort(s)[n + 1]) \div 2  BY <1>5 DEF median, get_mid
  <2>3. \A a, b \in Nat : (a + b) \div 2 \in Nat  OBVIOUS
  <2> QED  BY <2>1, <2>2, <2>3, <1>2
<1> QED  BY <1>3, <1>4, <1>5

\* Two sequences with the same elements are the same.
LEMMA SameSeq ==
  ASSUME NEW A, NEW B, NEW s \in Seq(A), NEW t \in Seq(B), Len(s) = Len(t),
         \A i \in 1 .. Len(s) : s[i] = t[i]
  PROVE  s = t
  OBVIOUS

\* t is the young end of s, of n elements at most.
End(t, s, n, A) ==
  /\ t \in Seq(A) /\ Len(t) = least(Len(s), n)
  /\ \A i \in 1 .. Len(t) : t[i] = s[Len(s) - Len(t) + i]

\* youngest is the end of a sequence.
LEMMA YoungestSeq ==
  ASSUME NEW A, NEW s \in Seq(A), NEW n \in Nat
  PROVE  End(youngest(s, n), s, n, A)
<1> USE DEF End
<1>1. Len(s) \in Nat  OBVIOUS
<1>2. CASE Len(s) <= n
  <2>1. youngest(s, n) = s /\ least(Len(s), n) = Len(s)  BY <1>1, <1>2 DEF youngest, least
  <2> QED  BY <2>1, <1>1
<1>3. CASE Len(s) > n
  <2>1. youngest(s, n) = SubSeq(s, Len(s) - n + 1, Len(s)) /\ least(Len(s), n) = n
    BY <1>1, <1>3 DEF youngest, least
  <2>2. Len(s) - n + 1 \in Int /\ Len(s) - n + 1 >= 1  BY <1>1, <1>3
  <2>3. SubSeq(s, Len(s) - n + 1, Len(s)) \in Seq(A)  BY <1>1, <2>2
  <2>4. Len(SubSeq(s, Len(s) - n + 1, Len(s))) = n  BY <1>1, <1>3
  <2>5. \A i \in 1 .. n : SubSeq(s, Len(s) - n + 1, Len(s))[i] = s[Len(s) - n + i]
    BY <1>1, <1>3
  <2> QED  BY <2>1, <2>3, <2>4, <2>5
<1> QED  BY <1>1, <1>2, <1>3

\* A window that is pushed into is the window of the longer sequence.
LEMMA Pushed ==
  ASSUME NEW A, NEW s \in Seq(A), NEW x \in A, NEW n \in Nat
  PROVE  youngest(Append(s, x), n) = push(youngest(s, n), x, n)
<1> DEFINE a == Append(s, x)
           y == youngest(s, n)
           b == Append(y, x)
           L == Len(s)
           l == Len(y)
<1>1. L \in Nat /\ a \in Seq(A) /\ Len(a) = L + 1 /\ a[L + 1] = x /\ \A i \in 1 .. L : a[i] = s[i]
  OBVIOUS
<1>2. y \in Seq(A) /\ l = least(L, n) /\ \A i \in 1 .. l : y[i] = s[L - l + i]
  <2>1. End(y, s, n, A)  BY YoungestSeq
  <2> QED  BY <2>1 DEF End
<1> HIDE DEF y
<1>3. l \in Nat /\ b \in Seq(A) /\ Len(b) = l + 1 /\ b[l + 1] = x /\ \A i \in 1 .. l : b[i] = y[i]
  BY <1>2
<1> HIDE DEF a, b
<1> DEFINE u == youngest(a, n)
           v == youngest(b, n)
<1>4. End(u, a, n, A)  BY <1>1, YoungestSeq
<1>5. End(v, b, n, A)  BY <1>3, YoungestSeq
<1> HIDE DEF u, v
<1> USE DEF End
<1>6. Len(u) = Len(v) /\ Len(u) \in Nat /\ Len(u) <= l + 1 /\ Len(u) <= n
  BY <1>1, <1>2, <1>3, <1>4, <1>5 DEF least
<1>7. ASSUME NEW i \in 1 .. Len(u) PROVE u[i] = v[i]
  <2> DEFINE j == L + 1 - Len(u) + i
             k == l + 1 - Len(u) + i
  <2>1. u[i] = a[j]  BY <1>1, <1>4
  <2>4. v[i] = b[k]  BY <1>3, <1>5, <1>6
  <2>2. CASE i = Len(u)
    <3>1. j = L + 1 /\ k = l + 1  BY <2>2, <1>1, <1>3, <1>6
    <3> QED  BY <2>1, <2>4, <3>1, <1>1, <1>3
  <2>3. CASE i # Len(u)
    <3>0. l <= L  BY <1>1, <1>2 DEF least
    <3>1. k \in 1 .. l /\ j \in 1 .. L /\ L - l + k = j
      BY <3>0, <2>3, <1>1, <1>3, <1>6
    <3>2. b[k] = s[L - l + k] /\ a[j] = s[j]  BY <3>1, <1>1, <1>2, <1>3
    <3> QED  BY <2>1, <2>4, <3>1, <3>2
  <2> QED  BY <2>2, <2>3
<1>8. u = v  BY <1>4, <1>5, <1>6, <1>7, SameSeq
<1> QED  BY <1>8 DEF u, v, a, b, y, push

\* Field f of every record of A is in B.
Field(A, f, B) == \A x \in A : x[f] \in B

\* c is field f of every element of s.
IsColumn(c, s, f, B) ==
  c \in Seq(B) /\ Len(c) = Len(s) /\ \A i \in 1 .. Len(s) : c[i] = s[i][f]

\* Column is a field of the records of a sequence.
LEMMA ColumnSeq ==
  ASSUME NEW A, NEW B, NEW f, NEW s \in Seq(A), Field(A, f, B)
  PROVE  IsColumn(Column(s, f), s, f, B)
<1> USE DEF IsColumn
<1>1. Len(s) \in Nat /\ DOMAIN s = 1 .. Len(s)  OBVIOUS
<1>2. \A i \in 1 .. Len(s) : s[i] \in A  OBVIOUS
<1>3. Column(s, f) = [i \in 1 .. Len(s) |-> s[i][f]]  BY <1>1 DEF Column
<1>4. Column(s, f) \in [1 .. Len(s) -> B]  BY <1>2, <1>3 DEF Field
<1>5. Column(s, f) \in Seq(B)  BY <1>1, <1>4
<1>6. Len(Column(s, f)) = Len(s)  BY <1>1, <1>3
<1> QED  BY <1>3, <1>5, <1>6

\* Appending a record appends its field to the column.
LEMMA ColumnAppend ==
  ASSUME NEW A, NEW B, NEW f, NEW s \in Seq(A), NEW x \in A, Field(A, f, B)
  PROVE  Column(Append(s, x), f) = Append(Column(s, f), x[f])
<1> DEFINE a == Append(s, x)
           c == Column(s, f)
<1>1. Len(s) \in Nat /\ a \in Seq(A) /\ Len(a) = Len(s) + 1
      /\ a[Len(s) + 1] = x /\ \A i \in 1 .. Len(s) : a[i] = s[i]
  OBVIOUS
<1>2. IsColumn(c, s, f, B)  BY ColumnSeq
<1>3. IsColumn(Column(a, f), a, f, B)  BY <1>1, ColumnSeq
<1> USE DEF IsColumn
<1>4. x[f] \in B  BY DEF Field
<1> HIDE DEF a, c
<1>5. Append(c, x[f]) \in Seq(B) /\ Len(Append(c, x[f])) = Len(s) + 1
      /\ Append(c, x[f])[Len(s) + 1] = x[f] /\ \A i \in 1 .. Len(s) : Append(c, x[f])[i] = c[i]
  BY <1>2, <1>4
<1>6. ASSUME NEW i \in 1 .. Len(s) + 1 PROVE Column(a, f)[i] = Append(c, x[f])[i]
  <2>1. CASE i = Len(s) + 1  BY <2>1, <1>1, <1>3, <1>5
  <2>2. CASE i # Len(s) + 1
    <3>1. i \in 1 .. Len(s)  BY <2>2, <1>1
    <3> QED  BY <3>1, <1>1, <1>2, <1>3, <1>5
  <2> QED  BY <2>1, <2>2
<1>7. Column(a, f) = Append(c, x[f])  BY <1>1, <1>3, <1>5, <1>6, SameSeq
<1> QED  BY <1>7 DEF a, c

\* The column of the first k elements is the beginning of the column.
PrefixColumn(s, f, k) == Column(SubSeq(s, 1, k), f) = SubSeq(Column(s, f), 1, k)

\* The column of a beginning is the beginning of the column.
LEMMA ColumnPrefix ==
  ASSUME NEW A, NEW B, NEW f, NEW s \in Seq(A), Field(A, f, B), NEW k \in 0 .. Len(s)
  PROVE  PrefixColumn(s, f, k)
<1> DEFINE t == SubSeq(s, 1, k)
           c == Column(s, f)
<1>1. Len(s) \in Nat  OBVIOUS
<1>2. t \in Seq(A) /\ Len(t) = k /\ \A i \in 1 .. k : t[i] = s[i]  BY <1>1
<1>3. IsColumn(c, s, f, B)  BY ColumnSeq
<1>4. IsColumn(Column(t, f), t, f, B)  BY <1>2, ColumnSeq
<1> USE DEF IsColumn
<1> HIDE DEF t, c
<1> DEFINE d == SubSeq(c, 1, k)
<1>5. d \in Seq(B) /\ Len(d) = k /\ \A i \in 1 .. k : d[i] = c[i]  BY <1>1, <1>3
<1> HIDE DEF d
<1>6. \A i \in 1 .. k : i \in 1 .. Len(s)  BY <1>1
<1>7. \A i \in 1 .. k : Column(t, f)[i] = d[i]  BY <1>2, <1>3, <1>4, <1>5, <1>6
<1>8. Column(t, f) = d  BY <1>2, <1>4, <1>5, <1>7, SameSeq
<1> QED  BY <1>8 DEF t, c, d, PrefixColumn

\* The difficulty is a number.
LEMMA DifficultyType ==
  ASSUME NEW ts \in Seq(Nat), NEW ds \in Seq(Int), Len(ts) = Len(ds)
  PROVE  next_difficulty(ts, ds) \in Int
<1> DEFINE length == IF Len(ts) > DIFFICULTY_WINDOW THEN DIFFICULTY_WINDOW ELSE Len(ts)
           sorted == sort(SubSeq(ts, 1, length))
           kept == DIFFICULTY_WINDOW - 2 * DIFFICULTY_CUT
           cut_begin == IF length <= kept THEN 0 ELSE (length - kept + 1) \div 2
           cut_end == IF length <= kept THEN length ELSE cut_begin + kept
           span == sorted[cut_end] - sorted[cut_begin + 1]
           time_span == IF span = 0 THEN 1 ELSE span
           total_work == ds[cut_end] - ds[cut_begin + 1]
<1>1. Len(ts) \in Nat /\ DIFFICULTY_WINDOW \in Nat /\ DIFFICULTY_CUT \in Nat
      /\ DIFFICULTY_TARGET \in Nat /\ kept \in Nat /\ kept >= 2
  BY DifficultyAssumption
<1>2. length \in 0 .. Len(ts)  BY <1>1
<1>3. SubSeq(ts, 1, length) \in Seq(Nat) /\ Len(SubSeq(ts, 1, length)) = length  BY <1>1, <1>2
<1>4. /\ sorted \in Seq(Nat) /\ Len(sorted) = length
      /\ \A a, b \in 1 .. length : a <= b => sorted[a] <= sorted[b]
  BY <1>3, SortAscends
<1> HIDE DEF length, sorted, kept
<1>5. CASE length <= 1
  <2>1. next_difficulty(ts, ds) = 1
    BY <1>5 DEF next_difficulty, length
  <2> QED  BY <2>1
<1>6. CASE ~(length <= 1)
  <2>1. cut_begin + 1 \in 1 .. length /\ cut_end \in 1 .. length /\ cut_begin + 1 <= cut_end
    <3>1. CASE length <= kept  BY <3>1, <1>1, <1>2, <1>6
    <3>2. CASE ~(length <= kept)
      <4>1. length - kept \in Nat /\ length - kept >= 1  BY <3>2, <1>1, <1>2
      <4>2. \A d \in Nat : d >= 1 => (d + 1) \div 2 <= d /\ (d + 1) \div 2 \in Nat  OBVIOUS
      <4>3. (length - kept + 1) \div 2 <= length - kept /\ (length - kept + 1) \div 2 \in Nat
        BY <4>1, <4>2
      <4> QED  BY <4>3, <3>2, <1>1, <1>2
    <3> QED  BY <3>1, <3>2
  <2> HIDE DEF cut_begin, cut_end
  <2>2. span \in Nat
    <3>1. sorted[cut_begin + 1] \in Nat /\ sorted[cut_end] \in Nat  BY <2>1, <1>4
    <3>2. sorted[cut_begin + 1] <= sorted[cut_end]  BY <2>1, <1>4
    <3> QED  BY <3>1, <3>2
  <2> HIDE DEF span
  <2>3. time_span \in Nat /\ time_span > 0  BY <2>2
  <2>4. total_work \in Int
    <3>1. cut_end \in 1 .. Len(ds) /\ cut_begin + 1 \in 1 .. Len(ds)  BY <2>1, <1>1, <1>2
    <3> QED  BY <3>1
  <2> HIDE DEF time_span, total_work
  <2>5. total_work * DIFFICULTY_TARGET \in Int  BY <2>4, <1>1
  <2>6. \A a \in Int, b \in Nat : b > 0 => a \div b \in Int  OBVIOUS
  <2>7. (total_work * DIFFICULTY_TARGET + time_span - 1) \div time_span \in Int
    BY <2>3, <2>5, <2>6
  <2>8. next_difficulty(ts, ds) = (total_work * DIFFICULTY_TARGET + time_span - 1) \div time_span
    BY <1>6 DEF next_difficulty, total_work, time_span, span, cut_end, cut_begin, kept, sorted, length
  <2> QED  BY <2>7, <2>8
<1> QED  BY <1>5, <1>6

----------------------------------------------------------------------------
(* The data the rules attach to blocks.                                    *)

\* The blocks of a chain, and what the database stores about one.
AnyBlock == Block \cup {Genesis}
Data == [ltw : Nat, cum : Int, coins : 0 .. MONEY_SUPPLY]

\* The fields of a block, from BlockAssumption.
LEMMA BlockFields ==
  ASSUME NEW b \in AnyBlock
  PROVE  /\ b.v \in Versions /\ b.vote \in Versions
         /\ b.ts \in Nat /\ b.w \in Nat /\ b.fee \in Nat /\ b.bad \in Nat
  BY BlockAssumption DEF AnyBlock

\* The columns the rules read.
LEMMA Fields ==
  /\ Field(AnyBlock, "w", Nat) /\ Field(AnyBlock, "ts", Nat)
  /\ Field(Data, "ltw", Nat) /\ Field(Data, "cum", Int)
<1>1. \A b \in AnyBlock : b["w"] \in Nat /\ b["ts"] \in Nat  BY BlockAssumption DEF AnyBlock
<1>2. \A d \in Data : d["ltw"] \in Nat /\ d["cum"] \in Int  BY DEF Data
<1> QED  BY <1>1, <1>2 DEF Field

\* The weights that the limits are computed from are numbers.
LEMMA LongTermMedianType ==
  ASSUME NEW m \in Seq(Data)
  PROVE  long_term_median(m) \in Nat
<1> DEFINE c == Column(m, "ltw")
<1>1. IsColumn(c, m, "ltw", Nat)  BY ColumnSeq, Fields
<1>2. LONG_TERM_WINDOW \in Nat  BY WeightAssumption
<1> HIDE DEF c
<1>3. c \in Seq(Nat)  BY <1>1 DEF IsColumn
<1>4. End(youngest(c, LONG_TERM_WINDOW), c, LONG_TERM_WINDOW, Nat)  BY <1>2, <1>3, YoungestSeq
<1>5. youngest(c, LONG_TERM_WINDOW) \in Seq(Nat)  BY <1>4 DEF End
<1> QED  BY <1>5, MedianType DEF long_term_median, c

\* The operators of the rules stay in the natural numbers.
LEMMA NextWeightType ==
  ASSUME NEW w \in Nat, NEW x \in Nat
  PROVE  get_next_long_term_block_weight(w, x) \in Nat
<1> DEFINE e == long_term_effective_median(x)
<1>1. e \in Nat  BY WeightAssumption DEF long_term_effective_median, largest
<1> HIDE DEF e
<1>2. (e * 10) \div 17 \in Nat /\ e + (e * 7) \div 10 \in Nat  BY <1>1
<1>3. get_next_long_term_block_weight(w, x) = least(largest(w, (e * 10) \div 17), e + (e * 7) \div 10)
  BY DEF get_next_long_term_block_weight, e
<1> QED  BY <1>2, <1>3 DEF least, largest

LEMMA EffectiveMedianType ==
  ASSUME NEW blocks \in Seq(AnyBlock), NEW x \in Nat
  PROVE  effective_median(Column(blocks, "w"), x) \in Nat
<1> DEFINE c == Column(blocks, "w")
           e == long_term_effective_median(x)
           y == median(youngest(c, REWARD_WINDOW))
<1>1. IsColumn(c, blocks, "w", Nat)  BY ColumnSeq, Fields
<1>2. REWARD_WINDOW \in Nat /\ SURGE_FACTOR \in Nat /\ FULL_REWARD_ZONE \in Nat  BY WeightAssumption
<1> HIDE DEF c
<1>3. c \in Seq(Nat)  BY <1>1 DEF IsColumn
<1>4. End(youngest(c, REWARD_WINDOW), c, REWARD_WINDOW, Nat)  BY <1>2, <1>3, YoungestSeq
<1>5. youngest(c, REWARD_WINDOW) \in Seq(Nat)  BY <1>4 DEF End
<1>6. y \in Nat  BY <1>5, MedianType
<1>7. e \in Nat  BY <1>2 DEF long_term_effective_median, largest
<1>8. SURGE_FACTOR * e \in Nat  BY <1>2, <1>7
<1> HIDE DEF e, y
<1>9. effective_median(c, x) = largest(least(largest(e, y), SURGE_FACTOR * e), FULL_REWARD_ZONE)
  BY DEF effective_median, e, y
<1>10. effective_median(c, x) \in Nat  BY <1>2, <1>6, <1>7, <1>8, <1>9 DEF least, largest
<1> QED  BY <1>10 DEF c

LEMMA RuleMedianType ==
  ASSUME NEW blocks \in Seq(AnyBlock), NEW m \in Seq(Data)
  PROVE  RuleMedian(blocks, m) \in Nat
  BY LongTermMedianType, EffectiveMedianType DEF RuleMedian

\* The window of the difficulty leaves out the first block.
LEMMA RecentSeq ==
  ASSUME NEW A, NEW s \in Seq(A), s # << >>
  PROVE  /\ recent(s) \in Seq(A)
         /\ Len(recent(s)) = least(Len(s) - 1, DIFFICULTY_BLOCKS_COUNT)
         /\ \A i \in 1 .. Len(recent(s)) : recent(s)[i] = s[Len(s) - Len(recent(s)) + i]
<1> DEFINE t == Tail(s)
           D == DIFFICULTY_BLOCKS_COUNT
           r == youngest(t, D)
<1>1. Len(s) \in Nat /\ Len(s) > 0  OBVIOUS
<1>2. t \in Seq(A) /\ Len(t) = Len(s) - 1 /\ \A i \in 1 .. Len(s) - 1 : t[i] = s[i + 1]  BY <1>1
<1>3. D \in Nat  BY DifficultyAssumption DEF DIFFICULTY_BLOCKS_COUNT
<1> HIDE DEF t, D
<1>4. End(r, t, D, A)  BY <1>2, <1>3, YoungestSeq
<1>5. recent(s) = r  BY DEF recent, r, t, D
<1> HIDE DEF r
<1>6. r \in Seq(A) /\ Len(r) = least(Len(s) - 1, D)  BY <1>2, <1>4 DEF End
<1>7. ASSUME NEW i \in 1 .. Len(r) PROVE r[i] = s[Len(s) - Len(r) + i]
  <2>1. r[i] = t[Len(t) - Len(r) + i]  BY <1>4 DEF End
  <2>2. Len(r) \in Nat /\ Len(r) <= Len(s) - 1  BY <1>1, <1>3, <1>6 DEF least
  <2>3. Len(t) - Len(r) + i \in 1 .. Len(s) - 1 /\ Len(t) - Len(r) + i + 1 = Len(s) - Len(r) + i
    BY <1>1, <1>2, <2>2
  <2> QED  BY <2>1, <2>3, <1>2
<1> QED  BY <1>5, <1>6, <1>7 DEF D

\* Differences of cumulative difficulties make the difficulty an integer.
LEMMA RuleDifficultyType ==
  ASSUME NEW blocks \in Seq(AnyBlock), NEW m \in Seq(Data), blocks # << >>, Len(m) = Len(blocks)
  PROVE  RuleDifficulty(blocks, m) \in Int
<1> DEFINE a == Column(blocks, "ts")
           c == Column(m, "cum")
<1>1. IsColumn(a, blocks, "ts", Nat) /\ IsColumn(c, m, "cum", Int)  BY ColumnSeq, Fields
<1> HIDE DEF a, c
<1>2. a \in Seq(Nat) /\ c \in Seq(Int) /\ Len(a) = Len(blocks) /\ Len(c) = Len(blocks)
  BY <1>1 DEF IsColumn
<1>3. Len(blocks) > 0 /\ a # << >> /\ c # << >>  BY <1>2
<1>4. recent(a) \in Seq(Nat) /\ Len(recent(a)) = least(Len(a) - 1, DIFFICULTY_BLOCKS_COUNT)
  BY <1>2, <1>3, RecentSeq
<1>5. recent(c) \in Seq(Int) /\ Len(recent(c)) = least(Len(c) - 1, DIFFICULTY_BLOCKS_COUNT)
  BY <1>2, <1>3, RecentSeq
<1>6. next_difficulty(recent(a), recent(c)) \in Int  BY <1>2, <1>4, <1>5, DifficultyType
<1> QED  BY <1>6 DEF RuleDifficulty, a, c

\* The data of the tip.
LEMMA LastData ==
  ASSUME NEW m \in Seq(Data), m # << >>
  PROVE  last(m) \in Data /\ last(m).cum \in Int /\ last(m).coins \in 0 .. MONEY_SUPPLY
         /\ last(m).ltw \in Nat
<1>1. Len(m) \in 1 .. Len(m)  OBVIOUS
<1>2. last(m) \in Data  BY <1>1 DEF last
<1> QED  BY <1>2 DEF Data

LEMMA RuleRewardType ==
  ASSUME NEW blocks \in Seq(AnyBlock), NEW m \in Seq(Data), m # << >>, NEW b \in AnyBlock
  PROVE  RuleReward(blocks, m, b).ok \in BOOLEAN /\ RuleReward(blocks, m, b).reward \in Nat
<1>1. RuleMedian(blocks, m) \in Nat /\ b.w \in Nat /\ last(m).coins \in 0 .. MONEY_SUPPLY
  BY RuleMedianType, BlockFields, LastData
<1>2. base_reward(last(m).coins) \in Nat  BY <1>1, RewardBound
<1> QED  BY <1>1, <1>2, BlockRewardBound DEF RuleReward

\* The rules give data to a block on any chain.
LEMMA RuleDataType ==
  ASSUME NEW blocks \in Seq(AnyBlock), NEW m \in Seq(Data), Len(m) = Len(blocks), NEW b \in AnyBlock
  PROVE  RuleData(blocks, m, b) \in Data
<1>1. b.w \in Nat  BY BlockFields
<1>2. CASE blocks = << >>
  <2>1. RuleData(blocks, m, b) = [ltw |-> b.w, cum |-> 1, coins |-> 0]  BY <1>2 DEF RuleData
  <2> QED  BY <2>1, <1>1, RewardAssumption DEF Data
<1>3. CASE blocks # << >>
  <2>0. m # << >>  BY <1>3
  <2>1. get_next_long_term_block_weight(b.w, long_term_median(m)) \in Nat
    BY <1>1, LongTermMedianType, NextWeightType
  <2>2. last(m).cum + RuleDifficulty(blocks, m) \in Int
    BY <1>3, <2>0, LastData, RuleDifficultyType
  <2>3. RuleReward(blocks, m, b).reward \in Nat  BY <2>0, RuleRewardType
  <2>4. add_coins(last(m).coins, RuleReward(blocks, m, b).reward) \in 0 .. MONEY_SUPPLY
    BY <2>0, <2>3, LastData, CoinsAdded
  <2> QED  BY <1>3, <2>1, <2>2, <2>4 DEF RuleData, Data
<1> QED  BY <1>2, <1>3

\* f unrolls the recursion of RuleMeta.
Unrolled(f, blocks, n) ==
  f = [k \in 0 .. n |->
         IF k = 0 THEN << >>
         ELSE Append(f[k - 1], RuleData(SubSeq(blocks, 1, k - 1), f[k - 1], blocks[k]))]

\* RuleUpto, a recursive function, exists for every chain.
LEMMA UnrolledExists ==
  ASSUME NEW blocks, NEW n \in Nat
  PROVE  \E f : Unrolled(f, blocks, n)
<1> DEFINE E(k, m) == Append(m, RuleData(SubSeq(blocks, 1, k - 1), m, blocks[k]))
           U(f, j) == f = [k \in 0 .. j |-> IF k = 0 THEN << >> ELSE E(k, f[k - 1])]
           S == {j \in Nat : \E f : U(f, j)}
<1> HIDE DEF E
<1>1. 0 \in S
  <2> DEFINE f == [k \in 0 .. 0 |-> << >>]
  <2>1. U(f, 0)  OBVIOUS
  <2> QED  BY <2>1
<1>2. ASSUME NEW j \in Nat, j \in S PROVE j + 1 \in S
  <2>1. PICK f : U(f, j)  BY <1>2
  <2> DEFINE g == [k \in 0 .. j + 1 |-> IF k = j + 1 THEN E(j + 1, f[j]) ELSE f[k]]
  <2>2. \A k \in 0 .. j : g[k] = f[k]  OBVIOUS
  <2>3. g[j + 1] = E(j + 1, f[j])  OBVIOUS
  <2>4. f[0] = << >> /\ \A k \in 1 .. j : f[k] = E(k, f[k - 1])  BY <2>1
  <2>5. ASSUME NEW k \in 0 .. j + 1
        PROVE  g[k] = IF k = 0 THEN << >> ELSE E(k, g[k - 1])
    <3>1. CASE k = 0  BY <3>1, <2>2, <2>4
    <3>2. CASE k = j + 1
      <4>1. k - 1 = j /\ k # 0  BY <3>2
      <4> QED  BY <4>1, <3>2, <2>2, <2>3
    <3>3. CASE k # 0 /\ k # j + 1
      <4>1. k \in 1 .. j /\ k \in 0 .. j /\ k - 1 \in 0 .. j  BY <3>3
      <4> QED  BY <4>1, <3>3, <2>2, <2>4
    <3> QED  BY <3>1, <3>2, <3>3
  <2>6. g = [k \in 0 .. j + 1 |-> g[k]]  OBVIOUS
  <2> HIDE DEF g
  <2>7. U(g, j + 1)  BY <2>5, <2>6
  <2> QED  BY <2>7
<1>3. Nat \subseteq S  BY <1>1, <1>2, Induction
<1>4. PICK f : U(f, n)  BY <1>3
<1> QED  BY <1>4 DEF Unrolled, E

\* What the recursion has computed after k blocks.
RuleUpto(blocks) == CHOOSE f : Unrolled(f, blocks, Len(blocks))

\* The data of a chain is the data of one block less and that of the last.
LEMMA RuleUptoSteps ==
  ASSUME NEW s \in Seq(AnyBlock)
  PROVE  /\ RuleMeta(s) = RuleUpto(s)[Len(s)]
         /\ RuleUpto(s)[0] = << >>
         /\ \A k \in 1 .. Len(s) :
              RuleUpto(s)[k] = Append(RuleUpto(s)[k - 1],
                                      RuleData(SubSeq(s, 1, k - 1), RuleUpto(s)[k - 1], s[k]))
<1>1. Len(s) \in Nat  OBVIOUS
<1>2. Unrolled(RuleUpto(s), s, Len(s))  BY <1>1, UnrolledExists DEF RuleUpto
<1>3. RuleMeta(s) = RuleUpto(s)[Len(s)]  BY DEF RuleMeta, RuleUpto, Unrolled
<1> DEFINE U == RuleUpto(s)
           E(k, m) == Append(m, RuleData(SubSeq(s, 1, k - 1), m, s[k]))
<1>4. U = [k \in 0 .. Len(s) |-> IF k = 0 THEN << >> ELSE E(k, U[k - 1])]  BY <1>2 DEF Unrolled
<1> HIDE DEF U, E
<1>5. U[0] = << >> /\ \A k \in 1 .. Len(s) : U[k] = E(k, U[k - 1])  BY <1>1, <1>4
<1> QED  BY <1>3, <1>5 DEF U, E

\* Two chains that agree on k blocks agree on their data.
LEMMA UptoAgrees ==
  ASSUME NEW s \in Seq(AnyBlock), NEW t \in Seq(AnyBlock), NEW n \in Nat,
         n <= Len(s), n <= Len(t), \A i \in 1 .. n : s[i] = t[i]
  PROVE  RuleUpto(s)[n] = RuleUpto(t)[n]
<1> DEFINE S == {k \in Nat : k <= n => RuleUpto(s)[k] = RuleUpto(t)[k]}
<1>1. 0 \in S  BY RuleUptoSteps
<1>2. ASSUME NEW k \in Nat, k \in S PROVE k + 1 \in S
  <2> SUFFICES ASSUME k + 1 <= n PROVE RuleUpto(s)[k + 1] = RuleUpto(t)[k + 1]  OBVIOUS
  <2>1. k + 1 \in 1 .. Len(s) /\ k + 1 \in 1 .. Len(t) /\ (k + 1) - 1 = k /\ k <= n  OBVIOUS
  <2>2. RuleUpto(s)[k] = RuleUpto(t)[k]  BY <1>2, <2>1
  <2>3. s[k + 1] = t[k + 1]  BY <2>1
  <2>4. SubSeq(s, 1, k) = SubSeq(t, 1, k)
    <3>1. SubSeq(s, 1, k) \in Seq(AnyBlock) /\ Len(SubSeq(s, 1, k)) = k
          /\ \A i \in 1 .. k : SubSeq(s, 1, k)[i] = s[i]
      BY <2>1
    <3>2. SubSeq(t, 1, k) \in Seq(AnyBlock) /\ Len(SubSeq(t, 1, k)) = k
          /\ \A i \in 1 .. k : SubSeq(t, 1, k)[i] = t[i]
      BY <2>1
    <3>3. \A i \in 1 .. k : s[i] = t[i]  BY <2>1
    <3> QED  BY <3>1, <3>2, <3>3, SameSeq
  <2>5. RuleUpto(s)[k + 1] = Append(RuleUpto(s)[k], RuleData(SubSeq(s, 1, k), RuleUpto(s)[k], s[k + 1]))
    BY <2>1, RuleUptoSteps
  <2>6. RuleUpto(t)[k + 1] = Append(RuleUpto(t)[k], RuleData(SubSeq(t, 1, k), RuleUpto(t)[k], t[k + 1]))
    BY <2>1, RuleUptoSteps
  <2> QED  BY <2>2, <2>3, <2>4, <2>5, <2>6
<1> HIDE DEF S
<1>3. Nat \subseteq S  BY <1>1, <1>2, Induction
<1>4. n \in S  BY <1>3
<1> QED  BY <1>4 DEF S

\* No block, no data.
LEMMA RuleMetaEmpty == RuleMeta(<< >>) = << >>
<1>1. << >> \in Seq(AnyBlock) /\ Len(<< >>) = 0  OBVIOUS
<1> QED  BY <1>1, RuleUptoSteps

\* The data of the first k blocks is the data of a chain that ends there.
LEMMA RuleUptoPrefix ==
  ASSUME NEW s \in Seq(AnyBlock), NEW k \in 0 .. Len(s)
  PROVE  RuleMeta(SubSeq(s, 1, k)) = RuleUpto(s)[k]
<1> DEFINE t == SubSeq(s, 1, k)
<1>1. t \in Seq(AnyBlock) /\ Len(t) = k /\ \A i \in 1 .. k : t[i] = s[i]  OBVIOUS
<1>2. k \in Nat /\ k <= Len(s) /\ k <= Len(t)  BY <1>1
<1> HIDE DEF t
<1>3. RuleUpto(t)[k] = RuleUpto(s)[k]  BY <1>1, <1>2, UptoAgrees
<1>4. RuleMeta(t) = RuleUpto(t)[Len(t)]  BY <1>1, RuleUptoSteps
<1>5. RuleMeta(t) = RuleUpto(s)[k]  BY <1>1, <1>3, <1>4
<1> QED  BY <1>5 DEF t

\* One more block has one more record.
LEMMA RuleMetaAppend ==
  ASSUME NEW s \in Seq(AnyBlock), NEW b \in AnyBlock
  PROVE  RuleMeta(Append(s, b)) = Append(RuleMeta(s), RuleData(s, RuleMeta(s), b))
<1> DEFINE t == Append(s, b)
           n == Len(s)
<1>1. /\ n \in Nat /\ t \in Seq(AnyBlock) /\ Len(t) = n + 1 /\ t[n + 1] = b
      /\ n + 1 \in 1 .. Len(t) /\ (n + 1) - 1 = n /\ n \in 0 .. Len(t)
  OBVIOUS
<1>2. SubSeq(t, 1, n) = s
  <2>1. SubSeq(t, 1, n) \in Seq(AnyBlock) /\ Len(SubSeq(t, 1, n)) = n
        /\ \A i \in 1 .. n : SubSeq(t, 1, n)[i] = t[i]
    BY <1>1
  <2>2. \A i \in 1 .. n : t[i] = s[i]  OBVIOUS
  <2> QED  BY <2>1, <2>2, SameSeq
<1> HIDE DEF t
<1>3. RuleUpto(t)[n] = RuleMeta(s)  BY <1>1, <1>2, RuleUptoPrefix
<1>4. RuleUpto(t)[n + 1] = Append(RuleUpto(t)[n], RuleData(SubSeq(t, 1, n), RuleUpto(t)[n], t[n + 1]))
  BY <1>1, RuleUptoSteps
<1>5. RuleMeta(t) = RuleUpto(t)[n + 1]  BY <1>1, RuleUptoSteps
<1>6. RuleMeta(t) = Append(RuleMeta(s), RuleData(s, RuleMeta(s), b))
  BY <1>1, <1>2, <1>3, <1>4, <1>5
<1> QED  BY <1>6 DEF t

\* Every chain is its front and its last block.
LEMMA FrontLast ==
  ASSUME NEW A, NEW s \in Seq(A), s # << >>
  PROVE  /\ front(s) \in Seq(A) /\ Len(front(s)) = Len(s) - 1
         /\ last(s) \in A /\ s = Append(front(s), last(s))
         /\ \A i \in 1 .. Len(s) - 1 : front(s)[i] = s[i]
<1> DEFINE n == Len(s)
           f == front(s)
           a == Append(f, last(s))
<1>1. n \in Nat /\ n > 0 /\ n \in 1 .. n  OBVIOUS
<1>2. f \in Seq(A) /\ Len(f) = n - 1 /\ \A i \in 1 .. n - 1 : f[i] = s[i]
  <2> DEFINE k == n - 1
  <2>1. f = SubSeq(s, 1, k) /\ k \in 0 .. Len(s)  BY <1>1 DEF front
  <2> HIDE DEF f, k
  <2>2. f \in Seq(A) /\ Len(f) = k /\ \A i \in 1 .. k : f[i] = s[i]  BY <2>1
  <2> QED  BY <2>2 DEF k
<1>3. last(s) \in A /\ last(s) = s[n]  BY <1>1 DEF last
<1> HIDE DEF f
<1>4. a \in Seq(A) /\ Len(a) = n /\ a[n] = s[n] /\ \A i \in 1 .. n - 1 : a[i] = f[i]
  BY <1>1, <1>2, <1>3
<1>5. \A i \in 1 .. n : a[i] = s[i]
  <2> SUFFICES ASSUME NEW i \in 1 .. n PROVE a[i] = s[i]  OBVIOUS
  <2>1. CASE i = n  BY <2>1, <1>4
  <2>2. CASE i # n
    <3>1. i \in 1 .. n - 1  BY <2>2, <1>1
    <3> QED  BY <3>1, <1>2, <1>4
  <2> QED  BY <2>1, <2>2
<1>6. a = s  BY <1>4, <1>5, SameSeq
<1> QED  BY <1>2, <1>3, <1>6 DEF f

\* The data has a record for every block.
LEMMA RuleMetaType ==
  ASSUME NEW s \in Seq(AnyBlock)
  PROVE  RuleMeta(s) \in Seq(Data) /\ Len(RuleMeta(s)) = Len(s)
<1> DEFINE P(t) == RuleMeta(t) \in Seq(Data) /\ Len(RuleMeta(t)) = Len(t)
           S == {n \in Nat : \A t \in Seq(AnyBlock) : Len(t) = n => P(t)}
<1>1. 0 \in S
  <2> SUFFICES ASSUME NEW t \in Seq(AnyBlock), Len(t) = 0 PROVE P(t)  OBVIOUS
  <2>1. t = << >>  OBVIOUS
  <2>2. << >> \in Seq(Data) /\ Len(<< >>) = 0  OBVIOUS
  <2> QED  BY <2>1, <2>2, RuleMetaEmpty
<1>2. ASSUME NEW n \in Nat, n \in S PROVE n + 1 \in S
  <2> SUFFICES ASSUME NEW t \in Seq(AnyBlock), Len(t) = n + 1 PROVE P(t)  OBVIOUS
  <2>1. t # << >>  OBVIOUS
  <2> DEFINE f == front(t)
             b == last(t)
  <2>2. f \in Seq(AnyBlock) /\ Len(f) = n /\ b \in AnyBlock /\ t = Append(f, b)
    BY <2>1, FrontLast
  <2> HIDE DEF f, b
  <2>3. P(f)  BY <2>2, <1>2
  <2>4. RuleData(f, RuleMeta(f), b) \in Data  BY <2>2, <2>3, RuleDataType
  <2>5. RuleMeta(t) = Append(RuleMeta(f), RuleData(f, RuleMeta(f), b))  BY <2>2, RuleMetaAppend
  <2> QED  BY <2>2, <2>3, <2>4, <2>5
<1> HIDE DEF S
<1>3. Nat \subseteq S  BY <1>1, <1>2, Induction
<1>4. Len(s) \in S  BY <1>3
<1> QED  BY <1>4 DEF S

\* The data of a prefix is a prefix of the data.
LEMMA RuleMetaPrefix ==
  ASSUME NEW s \in Seq(AnyBlock), NEW k \in 0 .. Len(s)
  PROVE  RuleMeta(SubSeq(s, 1, k)) = SubSeq(RuleMeta(s), 1, k)
<1> DEFINE pre(t, j) == RuleMeta(SubSeq(t, 1, j)) = SubSeq(RuleMeta(t), 1, j)
           S == {n \in Nat : \A t \in Seq(AnyBlock) : Len(t) = n => \A j \in 0 .. n : pre(t, j)}
<1>1. 0 \in S
  <2> SUFFICES ASSUME NEW t \in Seq(AnyBlock), Len(t) = 0, NEW j \in 0 .. 0 PROVE pre(t, j)
    OBVIOUS
  <2>1. t = << >> /\ j = 0  OBVIOUS
  <2>2. SubSeq(t, 1, 0) = << >>  BY <2>1
  <2> QED  BY <2>1, <2>2, RuleMetaEmpty
<1>2. ASSUME NEW n \in Nat, n \in S PROVE n + 1 \in S
  <2> SUFFICES ASSUME NEW t \in Seq(AnyBlock), Len(t) = n + 1, NEW j \in 0 .. n + 1
               PROVE  pre(t, j)
    OBVIOUS
  <2>1. t # << >>  OBVIOUS
  <2> DEFINE f == front(t)
             b == last(t)
             d == RuleData(f, RuleMeta(f), b)
  <2>2. /\ f \in Seq(AnyBlock) /\ Len(f) = n /\ b \in AnyBlock /\ t = Append(f, b)
        /\ \A i \in 1 .. n : f[i] = t[i]
    BY <2>1, FrontLast
  <2> HIDE DEF f, b
  <2>3. RuleMeta(t) = Append(RuleMeta(f), d)  BY <2>2, RuleMetaAppend
  <2>4. RuleMeta(f) \in Seq(Data) /\ Len(RuleMeta(f)) = n  BY <2>2, RuleMetaType
  <2>5. d \in Data  BY <2>2, <2>4, RuleDataType
  <2> HIDE DEF d
  <2>6. RuleMeta(t) \in Seq(Data) /\ Len(RuleMeta(t)) = n + 1  BY <2>3, <2>4, <2>5
  <2>7. CASE j = n + 1
    <3>1. SubSeq(t, 1, n + 1) = t  BY <2>2
    <3>2. SubSeq(RuleMeta(t), 1, n + 1) = RuleMeta(t)  BY <2>6
    <3> QED  BY <2>7, <3>1, <3>2
  <2>8. CASE j # n + 1
    <3>1. j \in 0 .. n  BY <2>8
    <3>2. SubSeq(t, 1, j) = SubSeq(f, 1, j)
      <4>1. SubSeq(t, 1, j) \in Seq(AnyBlock) /\ Len(SubSeq(t, 1, j)) = j
            /\ \A i \in 1 .. j : SubSeq(t, 1, j)[i] = t[i]
        BY <3>1
      <4>2. SubSeq(f, 1, j) \in Seq(AnyBlock) /\ Len(SubSeq(f, 1, j)) = j
            /\ \A i \in 1 .. j : SubSeq(f, 1, j)[i] = f[i]
        BY <3>1, <2>2
      <4>3. \A i \in 1 .. j : f[i] = t[i]  BY <2>2, <3>1
      <4> QED  BY <4>1, <4>2, <4>3, SameSeq
    <3>3. SubSeq(RuleMeta(t), 1, j) = SubSeq(RuleMeta(f), 1, j)
      <4> DEFINE M == RuleMeta(t)
                 F == RuleMeta(f)
      <4> HIDE DEF M, F
      <4>0. M = Append(F, d) /\ F \in Seq(Data) /\ Len(F) = n /\ M \in Seq(Data) /\ Len(M) = n + 1
        BY <2>3, <2>4, <2>6 DEF M, F
      <4>1. SubSeq(M, 1, j) \in Seq(Data) /\ Len(SubSeq(M, 1, j)) = j
            /\ \A i \in 1 .. j : SubSeq(M, 1, j)[i] = M[i]
        BY <3>1, <4>0
      <4>2. SubSeq(F, 1, j) \in Seq(Data) /\ Len(SubSeq(F, 1, j)) = j
            /\ \A i \in 1 .. j : SubSeq(F, 1, j)[i] = F[i]
        BY <3>1, <4>0
      <4>3. \A i \in 1 .. j : M[i] = F[i]  BY <4>0, <3>1, <2>5
      <4>4. SubSeq(M, 1, j) = SubSeq(F, 1, j)  BY <4>1, <4>2, <4>3, SameSeq
      <4> QED  BY <4>4 DEF M, F
    <3>4. pre(f, j)  BY <1>2, <2>2, <3>1
    <3> QED  BY <3>2, <3>3, <3>4
  <2> QED  BY <2>7, <2>8
<1> HIDE DEF S
<1>3. Nat \subseteq S  BY <1>1, <1>2, Induction
<1>4. Len(s) \in S  BY <1>3
<1> QED  BY <1>4 DEF S

----------------------------------------------------------------------------
(* The caches.                                                             *)

\* The weights and the work that are stored are the ones of the rules.
Exact(m, blocks) ==
  /\ m \in Seq(Data) /\ Len(m) = Len(blocks)
  /\ Column(m, "ltw") = Column(RuleMeta(blocks), "ltw")
  /\ Column(m, "cum") = Column(RuleMeta(blocks), "cum")

\* What the rules read of the data is right, so what they compute is.
LEMMA ExactRules ==
  ASSUME NEW blocks \in Seq(AnyBlock), NEW m, Exact(m, blocks)
  PROVE  /\ long_term_median(m) = long_term_median(RuleMeta(blocks))
         /\ RuleMedian(blocks, m) = RuleMedian(blocks, RuleMeta(blocks))
         /\ RuleDifficulty(blocks, m) = RuleDifficulty(blocks, RuleMeta(blocks))
  BY DEF Exact, long_term_median, RuleMedian, RuleDifficulty

\* Position by position.
LEMMA ExactAt ==
  ASSUME NEW blocks \in Seq(AnyBlock), NEW m, Exact(m, blocks), NEW i \in 1 .. Len(blocks)
  PROVE  m[i].ltw = RuleMeta(blocks)[i].ltw /\ m[i].cum = RuleMeta(blocks)[i].cum
<1> DEFINE M == RuleMeta(blocks)
<1>1. m \in Seq(Data) /\ Len(m) = Len(blocks) /\ M \in Seq(Data) /\ Len(M) = Len(blocks)
  BY RuleMetaType DEF Exact
<1> HIDE DEF M
<1>2. /\ IsColumn(Column(m, "ltw"), m, "ltw", Nat) /\ IsColumn(Column(M, "ltw"), M, "ltw", Nat)
      /\ IsColumn(Column(m, "cum"), m, "cum", Int) /\ IsColumn(Column(M, "cum"), M, "cum", Int)
  BY <1>1, ColumnSeq, Fields
<1>3. Column(m, "ltw") = Column(M, "ltw") /\ Column(m, "cum") = Column(M, "cum")  BY DEF Exact, M
<1>4. m[i]["ltw"] = M[i]["ltw"] /\ m[i]["cum"] = M[i]["cum"]
  BY <1>1, <1>2, <1>3 DEF IsColumn
<1> QED  BY <1>4 DEF M

\* The data the rules give is exact.
LEMMA ExactSelf ==
  ASSUME NEW blocks \in Seq(AnyBlock)
  PROVE  Exact(RuleMeta(blocks), blocks)
  BY RuleMetaType DEF Exact

\* Exact data stays exact when blocks are taken off.
LEMMA ExactPrefix ==
  ASSUME NEW blocks \in Seq(AnyBlock), NEW m, Exact(m, blocks), NEW k \in 0 .. Len(blocks)
  PROVE  Exact(SubSeq(m, 1, k), SubSeq(blocks, 1, k))
<1> DEFINE M == RuleMeta(blocks)
<1>1. m \in Seq(Data) /\ Len(m) = Len(blocks) /\ M \in Seq(Data) /\ Len(M) = Len(blocks)
  BY RuleMetaType DEF Exact
<1>2. Column(m, "ltw") = Column(M, "ltw") /\ Column(m, "cum") = Column(M, "cum")  BY DEF Exact
<1>3. RuleMeta(SubSeq(blocks, 1, k)) = SubSeq(M, 1, k)  BY RuleMetaPrefix
<1> HIDE DEF M
<1>4. k \in 0 .. Len(m) /\ k \in 0 .. Len(M)
  BY <1>1
<1>5. PrefixColumn(m, "ltw", k) /\ PrefixColumn(m, "cum", k)  BY <1>1, <1>4, Fields, ColumnPrefix
<1>6. PrefixColumn(M, "ltw", k) /\ PrefixColumn(M, "cum", k)  BY <1>1, <1>4, Fields, ColumnPrefix
<1>9. SubSeq(m, 1, k) \in Seq(Data) /\ Len(SubSeq(m, 1, k)) = k /\ Len(SubSeq(blocks, 1, k)) = k
  BY <1>1
<1> QED  BY <1>2, <1>3, <1>5, <1>6, <1>9 DEF Exact, PrefixColumn

\* Exact data stays exact when a block comes with weight and difficulty by
\* the rules; the coins are another matter.
LEMMA ExactAppend ==
  ASSUME NEW blocks \in Seq(AnyBlock), NEW m, Exact(m, blocks), NEW b \in AnyBlock, NEW d \in Data,
         d.ltw = RuleData(blocks, RuleMeta(blocks), b).ltw,
         d.cum = RuleData(blocks, RuleMeta(blocks), b).cum
  PROVE  Exact(Append(m, d), Append(blocks, b))
<1> DEFINE M == RuleMeta(blocks)
           D == RuleData(blocks, M, b)
<1>1. m \in Seq(Data) /\ Len(m) = Len(blocks) /\ M \in Seq(Data) /\ Len(M) = Len(blocks)
  BY RuleMetaType DEF Exact
<1>2. Column(m, "ltw") = Column(M, "ltw") /\ Column(m, "cum") = Column(M, "cum")  BY DEF Exact
<1>3. D \in Data  BY <1>1, RuleDataType
<1>4. RuleMeta(Append(blocks, b)) = Append(M, D)  BY RuleMetaAppend
<1>5. d["ltw"] = D["ltw"] /\ d["cum"] = D["cum"]  OBVIOUS
<1> HIDE DEF M, D
<1>6. /\ Column(Append(m, d), "ltw") = Append(Column(m, "ltw"), d["ltw"])
      /\ Column(Append(m, d), "cum") = Append(Column(m, "cum"), d["cum"])
  BY <1>1, ColumnAppend, Fields
<1>7. /\ Column(Append(M, D), "ltw") = Append(Column(M, "ltw"), D["ltw"])
      /\ Column(Append(M, D), "cum") = Append(Column(M, "cum"), D["cum"])
  BY <1>1, <1>3, ColumnAppend, Fields
<1>8. Append(m, d) \in Seq(Data) /\ Len(Append(m, d)) = Len(Append(blocks, b))  BY <1>1
<1> QED  BY <1>2, <1>4, <1>5, <1>6, <1>7, <1>8 DEF Exact

\* The long term weight cache holds the window of its tip.
LtRight(c) ==
  /\ c \in [tip : Seq(AnyBlock), window : Seq(Nat)]
  /\ c.window = youngest(Column(RuleMeta(c.tip), "ltw"), LONG_TERM_WINDOW)

\* get_long_term_block_weight_median: whatever chain the rolling median was
\* filled for, asking it about another one gives the median of that one.
LEMMA LongTermCache ==
  ASSUME NEW c, LtRight(c), NEW blocks \in Seq(AnyBlock), blocks # << >>, NEW m, Exact(m, blocks)
  PROVE  /\ LtRight(long_term_cache(c, blocks, m))
         /\ long_term_cache(c, blocks, m).tip = blocks
         /\ long_term_cache(c, blocks, m).window = youngest(Column(m, "ltw"), LONG_TERM_WINDOW)
         /\ median(long_term_cache(c, blocks, m).window) = long_term_median(m)
<1> DEFINE W == LONG_TERM_WINDOW
           h == Len(blocks)
           col == Column(m, "ltw")
           M == RuleMeta(blocks)
           new == long_term_cache(c, blocks, m)
           right == [tip |-> blocks, window |-> youngest(col, W)]
<1>1. m \in Seq(Data) /\ Len(m) = h /\ M \in Seq(Data) /\ Len(M) = h /\ col = Column(M, "ltw")
  BY RuleMetaType DEF Exact
<1>2. h \in Nat /\ h > 0 /\ W \in Nat  BY WeightAssumption
<1>3. IsColumn(col, m, "ltw", Nat)  BY <1>1, ColumnSeq, Fields
<1>4. col \in Seq(Nat)  BY <1>3 DEF IsColumn
<1>5. End(youngest(col, W), col, W, Nat)  BY <1>2, <1>4, YoungestSeq
<1>6. youngest(col, W) \in Seq(Nat)  BY <1>5 DEF End
<1>7. LtRight(right) /\ right.tip = blocks /\ right.window = youngest(col, W)
  <2>1. right \in [tip : Seq(AnyBlock), window : Seq(Nat)]  BY <1>6
  <2>2. right.tip = blocks /\ right.window = youngest(col, W)  OBVIOUS
  <2> HIDE DEF right, col, M
  <2>3. right.window = youngest(Column(RuleMeta(right.tip), "ltw"), W)  BY <2>2, <1>1 DEF M
  <2> QED  BY <2>1, <2>2, <2>3 DEF LtRight
<1>8. new = right
  <2> DEFINE count == least(LONG_TERM_WINDOW, h)
             size == Len(c.window)
  <2>1. CASE count = size /\ c.tip = blocks
    <3>1. new = c  BY <2>1 DEF long_term_cache
    <3>2. c = [tip |-> c.tip, window |-> c.window]  BY DEF LtRight
    <3>3. c.window = youngest(col, W)  BY <2>1, <1>1 DEF LtRight
    <3> QED  BY <2>1, <3>1, <3>2, <3>3
  <2>2. CASE /\ ~(count = size /\ c.tip = blocks)
             /\ h > 1 /\ (count = size \/ (count = size + 1 /\ size < LONG_TERM_WINDOW))
             /\ c.tip = SubSeq(blocks, 1, h - 1)
    <3>1. new = [tip |-> blocks, window |-> push(c.window, m[h].ltw, W)]
      BY <2>2 DEF long_term_cache
    <3> DEFINE f == front(blocks)
               F == RuleMeta(f)
               d == RuleData(f, F, last(blocks))
    <3>2. f \in Seq(AnyBlock) /\ last(blocks) \in AnyBlock /\ blocks = Append(f, last(blocks))
          /\ Len(f) = h - 1
      BY FrontLast
    <3>3. c.tip = f  BY <2>2 DEF front
    <3> HIDE DEF f
    <3>4. M = Append(F, d) /\ F \in Seq(Data) /\ Len(F) = h - 1 /\ d \in Data
      BY <3>2, RuleMetaAppend, RuleMetaType, RuleDataType
    <3>5. M[h] = d  BY <3>4, <1>2
    <3>6. m[h].ltw = d["ltw"]
      <4>1. h \in 1 .. Len(blocks)  BY <1>2
      <4> QED  BY <4>1, <3>5, ExactAt
    <3> HIDE DEF M, F, d
    <3>7. Column(M, "ltw") = Append(Column(F, "ltw"), d["ltw"])  BY <3>4, ColumnAppend, Fields
    <3>8. c.window = youngest(Column(F, "ltw"), W)  BY <3>3 DEF LtRight, F
    <3>9. IsColumn(Column(F, "ltw"), F, "ltw", Nat)  BY <3>4, ColumnSeq, Fields
    <3>10. Column(F, "ltw") \in Seq(Nat) /\ d["ltw"] \in Nat  BY <3>4, <3>9 DEF IsColumn, Data
    <3>11. youngest(col, W) = push(c.window, d["ltw"], W)
      BY <1>1, <1>2, <3>7, <3>8, <3>10, Pushed
    <3> QED  BY <3>1, <3>6, <3>11
  <2>3. CASE /\ ~(count = size /\ c.tip = blocks)
             /\ ~(/\ h > 1 /\ (count = size \/ (count = size + 1 /\ size < LONG_TERM_WINDOW))
                  /\ c.tip = SubSeq(blocks, 1, h - 1))
    <3> HIDE DEF count, size
    <3> QED  BY <2>3 DEF long_term_cache, count, size
  <2> QED  BY <2>1, <2>2, <2>3
<1> HIDE DEF new, right
<1>9. LtRight(new) /\ new.tip = blocks /\ new.window = youngest(col, W)  BY <1>7, <1>8
<1>10. median(new.window) = long_term_median(m)  BY <1>9 DEF long_term_median
<1> QED  BY <1>9, <1>10 DEF new

\* One more block enters the window of the difficulty.
LEMMA RecentAppend ==
  ASSUME NEW A, NEW s \in Seq(A), s # << >>, NEW x \in A
  PROVE  recent(Append(s, x)) = push(recent(s), x, DIFFICULTY_BLOCKS_COUNT)
<1> DEFINE D == DIFFICULTY_BLOCKS_COUNT
<1>1. D \in Nat  BY DifficultyAssumption DEF DIFFICULTY_BLOCKS_COUNT
<1>2. Tail(s) \in Seq(A)  OBVIOUS
<1>3. Tail(Append(s, x)) = Append(Tail(s), x)
  <2> DEFINE t == Tail(Append(s, x))
             u == Append(Tail(s), x)
             n == Len(s)
  <2>1. n \in Nat /\ n > 0  OBVIOUS
  <2>2. t \in Seq(A) /\ Len(t) = n /\ \A i \in 1 .. n : t[i] = Append(s, x)[i + 1]  BY <2>1
  <2>3. u \in Seq(A) /\ Len(u) = n /\ u[n] = x /\ \A i \in 1 .. n - 1 : u[i] = s[i + 1]  BY <2>1
  <2>4. \A i \in 1 .. n : t[i] = u[i]
    <3> SUFFICES ASSUME NEW i \in 1 .. n PROVE t[i] = u[i]  OBVIOUS
    <3>1. CASE i = n
      <4>1. Append(s, x)[n + 1] = x  BY <2>1
      <4> QED  BY <3>1, <4>1, <2>2, <2>3
    <3>2. CASE i # n
      <4>1. i \in 1 .. n - 1 /\ i + 1 \in 1 .. n  BY <3>2, <2>1
      <4>2. Append(s, x)[i + 1] = s[i + 1]  BY <4>1
      <4> QED  BY <4>1, <4>2, <2>2, <2>3
    <3> QED  BY <3>1, <3>2
  <2> HIDE DEF t, u
  <2>5. t = u  BY <2>2, <2>3, <2>4, SameSeq
  <2> QED  BY <2>5 DEF t, u
<1>4. youngest(Append(Tail(s), x), D) = push(youngest(Tail(s), D), x, D)  BY <1>1, <1>2, Pushed
<1> QED  BY <1>3, <1>4 DEF recent

\* s is the beginning of t.
Prefix(s, t) == Len(s) <= Len(t) /\ s = SubSeq(t, 1, Len(s))

\* What the difficulty cache knows of its top block.
DcCaches == [height : Nat, reset : BOOLEAN, ts : Seq(Nat), cum : Seq(Int), top : Seq(AnyBlock), next : Int]

\* The timestamps and difficulties of the difficulty cache may be used.
DcWindow(c) == ~c.reset /\ c.height # 0

\* The difficulty cache is about the chain it names.
DcRight(c) ==
  /\ c \in DcCaches
  /\ c.top # << >> => c.next = RuleDifficulty(c.top, RuleMeta(c.top))
  /\ DcWindow(c) =>
       /\ c.top # << >> /\ c.height = Len(c.top)
       /\ c.ts = recent(Column(c.top, "ts")) /\ c.cum = recent(Column(RuleMeta(c.top), "cum"))

\* The window of the cache is of use for a chain.
DcFits(c, blocks) == DcWindow(c) /\ Len(c.top) < Len(blocks) => Prefix(c.top, blocks)

\* What get_difficulty_for_next_block leaves behind is right for its chain.
DcAsked(c, d, blocks) ==
  /\ DcRight(d) /\ d.top = blocks /\ d.reset = c.reset
  /\ d.next = RuleDifficulty(blocks, RuleMeta(blocks))

\* get_difficulty_for_next_block: asked about a chain that its answer can be
\* about, the cache gives the difficulty by the rules.
LEMMA DifficultyCache ==
  ASSUME NEW c, DcRight(c), NEW blocks \in Seq(AnyBlock), blocks # << >>, NEW m, Exact(m, blocks),
         DcFits(c, blocks)
  PROVE  DcAsked(c, difficulty_cache(c, blocks, m), blocks)
<1> DEFINE h == Len(blocks)
           D == DIFFICULTY_BLOCKS_COUNT
           M == RuleMeta(blocks)
           a == recent(Column(blocks, "ts"))
           w == recent(Column(M, "cum"))
           new == [height |-> h, reset |-> c.reset, ts |-> a, cum |-> w, top |-> blocks,
                   next |-> next_difficulty(a, w)]
<1>1. m \in Seq(Data) /\ Len(m) = h /\ M \in Seq(Data) /\ Len(M) = h
      /\ Column(m, "cum") = Column(M, "cum") /\ h \in Nat /\ h > 0 /\ blocks # << >>
  BY RuleMetaType DEF Exact
<1>2. CASE c.top = blocks
  <2>1. difficulty_cache(c, blocks, m) = c  BY <1>2 DEF difficulty_cache
  <2> QED  BY <2>1, <1>2 DEF DcAsked, DcRight
<1>3. CASE c.top # blocks
  <2>1. next_difficulty(a, w) = RuleDifficulty(blocks, M)  BY DEF RuleDifficulty
  <2>2. DcAsked(c, new, blocks)
    <3>1. RuleDifficulty(blocks, M) \in Int  BY <1>1, RuleDifficultyType
    <3>2. IsColumn(Column(blocks, "ts"), blocks, "ts", Nat) /\ IsColumn(Column(M, "cum"), M, "cum", Int)
      BY <1>1, ColumnSeq, Fields
    <3>3. /\ Column(blocks, "ts") \in Seq(Nat) /\ Column(blocks, "ts") # << >>
          /\ Column(M, "cum") \in Seq(Int) /\ Column(M, "cum") # << >>
      BY <3>2, <1>1 DEF IsColumn
    <3>4. a \in Seq(Nat) /\ w \in Seq(Int)  BY <3>3, RecentSeq
    <3> HIDE DEF a, w, M
    <3>5. c.reset \in BOOLEAN  BY DEF DcRight, DcCaches
    <3>6. new \in DcCaches  BY <1>1, <2>1, <3>1, <3>4, <3>5 DEF DcCaches
    <3>7. /\ new.top = blocks /\ new.reset = c.reset /\ new.height = Len(blocks)
          /\ new.ts = a /\ new.cum = w /\ new.next = RuleDifficulty(blocks, M)
      BY <2>1
    <3> HIDE DEF new
    <3>8. DcRight(new)  BY <1>1, <3>6, <3>7 DEF DcRight, a, w, M
    <3> QED  BY <3>7, <3>8 DEF DcAsked, M
  <2>3. difficulty_cache(c, blocks, m) = new
    <3> DEFINE cached == IF c.reset THEN 0 ELSE c.height
               step == cached # 0 /\ h - cached = 1 /\ Len(c.ts) >= D
    <3>1. CASE ~step
      <4>1. difficulty_cache(c, blocks, m) =
              [height |-> h, reset |-> c.reset, ts |-> recent(Column(blocks, "ts")),
               cum |-> recent(Column(m, "cum")), top |-> blocks,
               next |-> next_difficulty(recent(Column(blocks, "ts")), recent(Column(m, "cum")))]
        BY <1>3, <3>1 DEF difficulty_cache
      <4> QED  BY <4>1, <1>1
    <3>2. CASE step
      <4>1. c \in DcCaches  BY DEF DcRight
      <4>2. DcWindow(c) /\ h - c.height = 1  BY <3>2, <4>1 DEF DcCaches, DcWindow
      <4>3. c.top # << >> /\ c.height = Len(c.top) /\ c.ts = recent(Column(c.top, "ts"))
            /\ c.cum = recent(Column(RuleMeta(c.top), "cum")) /\ c.top \in Seq(AnyBlock)
        BY <4>1, <4>2 DEF DcRight, DcCaches
      <4>4. Len(c.top) = h - 1 /\ Len(c.top) < h  BY <4>2, <4>3, <1>1
      <4>5. c.top = SubSeq(blocks, 1, h - 1)  BY <4>2, <4>4 DEF DcFits, Prefix
      <4> DEFINE f == front(blocks)
                 b == last(blocks)
                 F == RuleMeta(f)
                 d == RuleData(f, F, b)
      <4>6. f \in Seq(AnyBlock) /\ b \in AnyBlock /\ blocks = Append(f, b) /\ Len(f) = h - 1
            /\ b = blocks[h]
        BY <1>1, FrontLast DEF last
      <4>7. f = c.top /\ f # << >>  BY <4>3, <4>5 DEF front
      <4> HIDE DEF f, b
      <4>8. M = Append(F, d) /\ F \in Seq(Data) /\ Len(F) = h - 1 /\ d \in Data
        BY <4>6, RuleMetaAppend, RuleMetaType, RuleDataType
      <4>9. M[h] = d  BY <4>8, <1>1
      <4>10. m[h].cum = d["cum"]
        <5>1. h \in 1 .. Len(blocks)  BY <1>1
        <5> QED  BY <5>1, <4>9, ExactAt
      <4> HIDE DEF M, F, d
      <4>11. Column(M, "cum") = Append(Column(F, "cum"), d["cum"])  BY <4>8, ColumnAppend, Fields
      <4>12. Column(blocks, "ts") = Append(Column(f, "ts"), b["ts"])  BY <4>6, ColumnAppend, Fields
      <4>13. IsColumn(Column(F, "cum"), F, "cum", Int) /\ IsColumn(Column(f, "ts"), f, "ts", Nat)
        BY <4>6, <4>8, ColumnSeq, Fields
      <4>14. /\ Column(F, "cum") \in Seq(Int) /\ Column(F, "cum") # << >> /\ d["cum"] \in Int
             /\ Column(f, "ts") \in Seq(Nat) /\ Column(f, "ts") # << >> /\ b["ts"] \in Nat
        <5>1. Len(f) > 0  BY <4>6, <4>7
        <5>2. d["cum"] \in Int /\ b["ts"] \in Nat  BY <4>6, <4>8, BlockFields DEF Data
        <5> QED  BY <5>1, <5>2, <4>6, <4>8, <4>13 DEF IsColumn
      <4>15. w = push(recent(Column(F, "cum")), d["cum"], D)  BY <4>11, <4>14, RecentAppend
      <4>16. a = push(recent(Column(f, "ts")), b["ts"], D)  BY <4>12, <4>14, RecentAppend
      <4>17. w = push(c.cum, m[h].cum, D) /\ a = push(c.ts, blocks[h].ts, D)
        BY <4>3, <4>6, <4>7, <4>10, <4>15, <4>16 DEF F
      <4> HIDE DEF a, w
      <4> DEFINE ts == IF step THEN push(c.ts, blocks[h].ts, D) ELSE recent(Column(blocks, "ts"))
                 cum == IF step THEN push(c.cum, m[h].cum, D) ELSE recent(Column(m, "cum"))
      <4>18. difficulty_cache(c, blocks, m) =
               [height |-> h, reset |-> c.reset, ts |-> ts, cum |-> cum, top |-> blocks,
                next |-> next_difficulty(ts, cum)]
        <5> HIDE DEF D, h
        <5> QED  BY <1>3 DEF difficulty_cache, D, h
      <4>19. ts = a /\ cum = w  BY <3>2, <4>17
      <4> HIDE DEF ts, cum
      <4> QED  BY <4>18, <4>19
    <3> QED  BY <3>1, <3>2
  <2> HIDE DEF new
  <2> QED  BY <2>2, <2>3
<1> QED  BY <1>2, <1>3

----------------------------------------------------------------------------
(* Alternative blocks.                                                     *)

\* How much of the window of a branch the main chain below it gives.
LEMMA AltLengths ==
  ASSUME NEW r \in Nat, r >= 1, NEW n \in Nat, NEW D \in Nat,
         NEW start, start = largest(1, r - least(D - least(D, n), r))
  PROVE  /\ start \in 1 .. r
         /\ (r - start) + least(n, D) = least(r + n - 1, D)
         /\ start < r => least(n, D) = n
<1>1. CASE D <= n
  <2>1. least(D, n) = D /\ least(n, D) = D /\ least(r + n - 1, D) = D  BY <1>1 DEF least
  <2>2. start = r  BY <2>1 DEF largest, least
  <2> QED  BY <2>1, <2>2
<1>2. CASE n < D /\ D - n < r
  <2>1. least(D, n) = n /\ least(n, D) = n /\ least(r + n - 1, D) = D  BY <1>2 DEF least
  <2>2. least(D - n, r) = D - n  BY <1>2 DEF least
  <2>3. start = r - (D - n)
    <3>1. r - (D - n) \in Nat /\ r - (D - n) >= 1  BY <1>2
    <3>2. start = largest(1, r - (D - n))  BY <2>1, <2>2
    <3> QED  BY <3>1, <3>2 DEF largest
  <2>4. r - (r - (D - n)) = D - n /\ (D - n) + n = D  OBVIOUS
  <2>5. r - (D - n) \in 1 .. r  BY <1>2
  <2> QED  BY <2>1, <2>3, <2>4, <2>5
<1>3. CASE n < D /\ ~(D - n < r)
  <2>1. least(D, n) = n /\ least(n, D) = n /\ least(r + n - 1, D) = r + n - 1  BY <1>3 DEF least
  <2>2. least(D - n, r) = r  BY <1>3 DEF least
  <2>3. start = 1  BY <2>1, <2>2 DEF largest
  <2> QED  BY <2>1, <2>3
<1> QED  BY <1>1, <1>2, <1>3

\* p are the elements of a chain z above start and below the branch, q the
\* ones of the branch, of n blocks on top of r.
AltParts(A, z, r, n, start, p, q) ==
  /\ r \in Nat /\ r >= 1 /\ n \in Nat /\ z \in Seq(A) /\ Len(z) = r + n
  /\ start = largest(1, r - least(DIFFICULTY_BLOCKS_COUNT - least(DIFFICULTY_BLOCKS_COUNT, n), r))
  /\ p \in Seq(A) /\ Len(p) = r - start /\ \A i \in 1 .. r - start : p[i] = z[start + i]
  /\ q \in Seq(A) /\ Len(q) = n /\ \A i \in 1 .. n : q[i] = z[r + i]

\* The window of a branch, completed from the main chain, is the window of
\* the chain that the branch would make.
LEMMA AltWindow ==
  ASSUME NEW A, NEW z, NEW r, NEW n, NEW start, NEW p, NEW q, AltParts(A, z, r, n, start, p, q)
  PROVE  p \o youngest(q, DIFFICULTY_BLOCKS_COUNT) = recent(z)
<1> USE DEF AltParts
<1> DEFINE D == DIFFICULTY_BLOCKS_COUNT
           y == youngest(q, D)
           R == recent(z)
           x == p \o y
           lp == Len(p)
           ly == Len(y)
<1>1. D \in Nat  BY DifficultyAssumption DEF DIFFICULTY_BLOCKS_COUNT
<1>2. End(y, q, D, A)  BY <1>1, YoungestSeq
<1>3. z # << >>  OBVIOUS
<1>4. R \in Seq(A) /\ Len(R) = least(Len(z) - 1, D)
      /\ \A i \in 1 .. Len(R) : R[i] = z[Len(z) - Len(R) + i]
  BY <1>3, RecentSeq
<1> HIDE DEF R, y
<1>5. y \in Seq(A) /\ ly = least(n, D) /\ \A i \in 1 .. ly : y[i] = q[n - ly + i]
  BY <1>2 DEF End
<1>6. /\ x \in Seq(A) /\ Len(x) = lp + ly
      /\ \A i \in 1 .. Len(x) : x[i] = IF i <= lp THEN p[i] ELSE y[i - lp]
  BY <1>5
<1> HIDE DEF x, D
<1>7. start \in 1 .. r /\ (r - start) + least(n, D) = least(r + n - 1, D)
      /\ (start < r => least(n, D) = n)
  BY <1>1, AltLengths DEF D
<1>8. lp \in Nat /\ ly \in Nat  BY <1>5
<1>9. lp = r - start /\ ly = least(n, D) /\ Len(R) = lp + ly
  BY <1>4, <1>5, <1>7
<1> HIDE DEF lp, ly
<1>10. Len(x) = Len(R)  BY <1>6, <1>9
<1>11. ASSUME NEW i \in 1 .. lp + ly PROVE x[i] = R[i]
  <2>1. i \in Nat /\ i >= 1 /\ i <= lp + ly  BY <1>8
  <2>2. R[i] = z[(r + n) - (lp + ly) + i]  BY <1>4, <1>9
  <2>3. CASE i <= lp
    <3>1. i \in 1 .. lp  BY <2>1, <2>3, <1>8
    <3>2. x[i] = z[start + i]  BY <1>6, <2>3, <3>1 DEF lp
    <3>3. ly = n  BY <1>7, <1>9, <2>1, <2>3
    <3>4. (r + n) - ((r - start) + n) + i = start + i  BY <1>7, <2>1
    <3> QED  BY <2>2, <3>2, <3>3, <3>4, <1>9
  <2>4. CASE ~(i <= lp)
    <3> DEFINE j == i - lp
               k == n - ly + j
    <3>1. \A a, b, c \in Nat : a <= b + c /\ ~(a <= b) => a - b \in 1 .. c  OBVIOUS
    <3>2. j \in 1 .. ly  BY <1>8, <2>1, <2>4, <3>1
    <3> HIDE DEF j
    <3>3. k \in 1 .. n
      <4>1. ly <= n  BY <1>1, <1>9 DEF least
      <4> QED  BY <4>1, <3>2, <1>8
    <3>4. \A a, b, c, d, e \in Int : a + (b - d + (e - c)) = (a + b) - (c + d) + e  OBVIOUS
    <3>5. r + (n - ly + (i - lp)) = (r + n) - (lp + ly) + i  BY <3>4, <1>8, <2>1
    <3>6. x[i] = y[j]  BY <1>6, <2>4 DEF j
    <3>7. y[j] = q[k] /\ q[k] = z[r + k]  BY <1>5, <3>2, <3>3
    <3>8. r + k = (r + n) - (lp + ly) + i  BY <3>5 DEF j
    <3> HIDE DEF k
    <3> QED  BY <2>2, <3>6, <3>7, <3>8
  <2> QED  BY <2>3, <2>4
<1>12. x = R  BY <1>4, <1>6, <1>10, <1>11, SameSeq
<1> QED  BY <1>12 DEF x, R, y, D

\* What an alternative block carries.
AltData == [cum : Int, coins : 0 .. MONEY_SUPPLY]

\* The work of a branch is the work it has once it is the main chain.
AltRight(a) ==
  /\ a \in [root : Seq(AnyBlock), blocks : Seq(AnyBlock), meta : Seq(AltData)]
  /\ Len(a.meta) = Len(a.blocks)
  /\ Len(a.root) + Len(a.blocks) <= MaxHeight + 1
  /\ a.blocks # << >> => a.root # << >>
  /\ \A i \in 1 .. Len(a.blocks) :
       a.meta[i].cum = RuleMeta(a.root \o a.blocks)[Len(a.root) + i].cum

\* The data of a prefix, record by record.
LEMMA PrefixData ==
  ASSUME NEW s \in Seq(AnyBlock), NEW t \in Seq(AnyBlock), Prefix(s, t), NEW i \in 1 .. Len(s)
  PROVE  RuleMeta(s)[i] = RuleMeta(t)[i]
<1> DEFINE k == Len(s)
           T == RuleMeta(t)
<1>1. k \in 0 .. Len(t) /\ s = SubSeq(t, 1, k)  BY DEF Prefix
<1>2. RuleMeta(s) = SubSeq(T, 1, k)  BY <1>1, RuleMetaPrefix
<1>3. T \in Seq(Data) /\ Len(T) = Len(t)  BY RuleMetaType
<1> HIDE DEF T
<1>4. SubSeq(T, 1, k)[i] = T[i]  BY <1>1, <1>3
<1> QED  BY <1>2, <1>4 DEF T

\* Sequences joined, cut and extended.
LEMMA PrefixOfConcat ==
  ASSUME NEW A, NEW s \in Seq(A), NEW t \in Seq(A)
  PROVE  Prefix(s, s \o t)
<1> DEFINE c == s \o t
           u == SubSeq(c, 1, Len(s))
<1>1. /\ Len(s) \in Nat /\ Len(t) \in Nat /\ c \in Seq(A) /\ Len(c) = Len(s) + Len(t)
      /\ \A i \in 1 .. Len(s) : c[i] = s[i]
  OBVIOUS
<1> HIDE DEF c
<1>2. u \in Seq(A) /\ Len(u) = Len(s) /\ \A i \in 1 .. Len(s) : u[i] = c[i]  BY <1>1
<1> HIDE DEF u
<1>3. \A i \in 1 .. Len(s) : u[i] = s[i]  BY <1>1, <1>2
<1>4. u = s  BY <1>2, <1>3, SameSeq
<1> QED  BY <1>1, <1>4 DEF Prefix, u, c

LEMMA ConcatAppend ==
  ASSUME NEW A, NEW s \in Seq(A), NEW t \in Seq(A), NEW x \in A
  PROVE  s \o Append(t, x) = Append(s \o t, x)
<1> DEFINE u == s \o Append(t, x)
           v == Append(s \o t, x)
           n == Len(s) + Len(t)
<1>1. Len(s) \in Nat /\ Len(t) \in Nat  OBVIOUS
<1>2. /\ u \in Seq(A) /\ Len(u) = n + 1
      /\ \A i \in 1 .. n + 1 : u[i] = IF i <= Len(s) THEN s[i] ELSE Append(t, x)[i - Len(s)]
  OBVIOUS
<1>3. /\ v \in Seq(A) /\ Len(v) = n + 1
      /\ \A i \in 1 .. n + 1 : v[i] = IF i = n + 1 THEN x ELSE (s \o t)[i]
  OBVIOUS
<1>4. \A i \in 1 .. n : (s \o t)[i] = IF i <= Len(s) THEN s[i] ELSE t[i - Len(s)]  OBVIOUS
<1>5. Append(t, x)[Len(t) + 1] = x /\ \A i \in 1 .. Len(t) : Append(t, x)[i] = t[i]  OBVIOUS
<1> HIDE DEF u, v
<1>6. ASSUME NEW i \in 1 .. n + 1 PROVE u[i] = v[i]
  <2>1. CASE i = n + 1
    <3>1. i - Len(s) = Len(t) + 1 /\ ~(i <= Len(s))  BY <2>1, <1>1
    <3> QED  BY <2>1, <3>1, <1>2, <1>3, <1>5
  <2>2. CASE i # n + 1 /\ i <= Len(s)
    <3>1. i \in 1 .. n  BY <2>2, <1>1
    <3> QED  BY <2>2, <3>1, <1>2, <1>3, <1>4
  <2>3. CASE i # n + 1 /\ ~(i <= Len(s))
    <3>1. i \in 1 .. n /\ i - Len(s) \in 1 .. Len(t)  BY <2>3, <1>1
    <3> QED  BY <2>3, <3>1, <1>2, <1>3, <1>4, <1>5
  <2> QED  BY <2>1, <2>2, <2>3
<1>7. u = v  BY <1>2, <1>3, <1>6, SameSeq
<1> QED  BY <1>7 DEF u, v

\* The parts of a sequence that two others make up, and a stretch of one.
Joined(u, s, t, A) ==
  /\ u \in Seq(A) /\ Len(u) = Len(s) + Len(t)
  /\ \A i \in 1 .. Len(s) : u[i] = s[i]
  /\ \A i \in 1 .. Len(t) : u[Len(s) + i] = t[i]

\* u is the part of s after position i up to position j.
Stretch(u, s, i, j, A) ==
  /\ u \in Seq(A) /\ Len(u) = j - i
  /\ \A k \in 1 .. j - i : u[k] = s[i + k]

LEMMA JoinedSeq ==
  ASSUME NEW A, NEW s \in Seq(A), NEW t \in Seq(A)
  PROVE  Joined(s \o t, s, t, A)
<1> DEFINE u == s \o t
<1>1. Len(s) \in Nat /\ Len(t) \in Nat  OBVIOUS
<1>2. /\ u \in Seq(A) /\ Len(u) = Len(s) + Len(t)
      /\ \A i \in 1 .. Len(s) + Len(t) : u[i] = IF i <= Len(s) THEN s[i] ELSE t[i - Len(s)]
  OBVIOUS
<1> HIDE DEF u
<1>3. ASSUME NEW i \in 1 .. Len(t) PROVE u[Len(s) + i] = t[i]
  <2>1. Len(s) + i \in 1 .. Len(s) + Len(t) /\ ~(Len(s) + i <= Len(s)) /\ Len(s) + i - Len(s) = i
    BY <1>1
  <2> QED  BY <2>1, <1>2
<1>4. ASSUME NEW i \in 1 .. Len(s) PROVE u[i] = s[i]
  <2>1. i \in 1 .. Len(s) + Len(t) /\ i <= Len(s)  BY <1>1
  <2> QED  BY <2>1, <1>2
<1> QED  BY <1>2, <1>3, <1>4 DEF Joined, u

LEMMA StretchSeq ==
  ASSUME NEW A, NEW s \in Seq(A), NEW i \in Nat, NEW j \in Nat, i <= j, j <= Len(s)
  PROVE  Stretch(SubSeq(s, i + 1, j), s, i, j, A)
<1> DEFINE u == SubSeq(s, i + 1, j)
<1>1. Len(s) \in Nat /\ i + 1 \in 1 .. Len(s) + 1 /\ j \in i .. Len(s)  OBVIOUS
<1>2. u \in Seq(A) /\ Len(u) = j - i  BY <1>1
<1>3. ASSUME NEW k \in 1 .. j - i PROVE u[k] = s[i + k]
  <2>1. i + k = (i + 1) + k - 1 /\ k \in 1 .. j - (i + 1) + 1  BY <1>1
  <2> QED  BY <1>1, <2>1
<1> QED  BY <1>2, <1>3 DEF Stretch

\* The difficulty of a branch is the one of the chain it would make.
LEMMA AltDifficulty ==
  ASSUME chain \in Seq(AnyBlock), Exact(meta, chain), NEW a, AltRight(a), a.root # << >>,
         Prefix(a.root, chain)
  PROVE  alt_difficulty(a) = RuleDifficulty(a.root \o a.blocks, RuleMeta(a.root \o a.blocks))
<1> DEFINE D == DIFFICULTY_BLOCKS_COUNT
           full == a.root \o a.blocks
           M == RuleMeta(full)
           n == Len(a.blocks)
           r == Len(a.root)
           start == largest(1, r - least(D - least(D, n), r))
           c == SubSeq(chain, start + 1, r)
           m == SubSeq(meta, start + 1, r)
           pt == Column(c, "ts")
           qt == Column(a.blocks, "ts")
           zt == Column(full, "ts")
           pc == Column(m, "cum")
           qc == Column(a.meta, "cum")
           zc == Column(M, "cum")
<1>1. /\ a.root \in Seq(AnyBlock) /\ a.blocks \in Seq(AnyBlock) /\ a.meta \in Seq(AltData)
      /\ Len(a.meta) = n /\ \A i \in 1 .. n : a.meta[i].cum = M[r + i].cum
  BY DEF AltRight
<1>2. D \in Nat /\ n \in Nat /\ r \in Nat /\ r >= 1
  BY <1>1, DifficultyAssumption DEF DIFFICULTY_BLOCKS_COUNT
<1>3. /\ full \in Seq(AnyBlock) /\ Len(full) = r + n
      /\ \A i \in 1 .. r : full[i] = a.root[i]
      /\ \A i \in 1 .. n : full[r + i] = a.blocks[i]
  <2>1. Joined(full, a.root, a.blocks, AnyBlock)  BY <1>1, JoinedSeq
  <2> HIDE DEF full
  <2> QED  BY <2>1, <1>2 DEF Joined
<1>4. M \in Seq(Data) /\ Len(M) = r + n  BY <1>3, RuleMetaType
<1>5. start \in 1 .. r  BY <1>2, AltLengths
<1>6. meta \in Seq(Data) /\ Len(meta) = Len(chain) /\ r <= Len(chain)
  BY DEF Exact, Prefix
<1>7. alt_difficulty(a) = next_difficulty(pt \o youngest(qt, D), pc \o youngest(qc, D))
  BY DEF alt_difficulty
<1> HIDE DEF start
<1>8. /\ c \in Seq(AnyBlock) /\ Len(c) = r - start /\ \A i \in 1 .. r - start : c[i] = chain[start + i]
      /\ m \in Seq(Data) /\ Len(m) = r - start /\ \A i \in 1 .. r - start : m[i] = meta[start + i]
  <2>1. start \in Nat /\ start <= r  BY <1>2, <1>5
  <2>2. Stretch(c, chain, start, r, AnyBlock) /\ Stretch(m, meta, start, r, Data)
    BY <1>2, <1>6, <2>1, StretchSeq
  <2> HIDE DEF c, m
  <2> QED  BY <2>2 DEF Stretch
<1>9. \A i \in 1 .. r - start : start + i \in 1 .. r /\ start + i \in 1 .. Len(chain)
  BY <1>2, <1>5, <1>6
<1>10. \A i \in 1 .. r : chain[i] = a.root[i] /\ meta[i].cum = M[i].cum
  <2> SUFFICES ASSUME NEW i \in 1 .. r PROVE chain[i] = a.root[i] /\ meta[i].cum = M[i].cum  OBVIOUS
  <2>1. i \in 1 .. Len(chain)  BY <1>2, <1>6
  <2>2. a.root = SubSeq(chain, 1, r)  BY DEF Prefix
  <2>3. SubSeq(chain, 1, r)[i] = chain[i]  BY <1>2, <1>6
  <2>4. meta[i].cum = RuleMeta(chain)[i].cum  BY <2>1, ExactAt
  <2>5. RuleMeta(a.root)[i] = RuleMeta(chain)[i]  BY <1>1, PrefixData
  <2>6. RuleMeta(a.root)[i] = M[i]
    <3>1. Prefix(a.root, full)  BY <1>1, PrefixOfConcat
    <3> QED  BY <3>1, <1>1, <1>3, PrefixData
  <2> QED  BY <2>2, <2>3, <2>4, <2>5, <2>6
<1> HIDE DEF full, M, c, m, n, r
<1>11. /\ IsColumn(pt, c, "ts", Nat) /\ IsColumn(qt, a.blocks, "ts", Nat) /\ IsColumn(zt, full, "ts", Nat)
       /\ IsColumn(pc, m, "cum", Int) /\ IsColumn(qc, a.meta, "cum", Int) /\ IsColumn(zc, M, "cum", Int)
  <2>1. Field(AltData, "cum", Int)  BY DEF Field, AltData
  <2> QED  BY <2>1, <1>1, <1>3, <1>4, <1>8, ColumnSeq, Fields
<1> HIDE DEF pt, qt, zt, pc, qc, zc
<1>12. pt \o youngest(qt, D) = recent(zt)
  <2>1. zt \in Seq(Nat) /\ Len(zt) = r + n /\ \A i \in 1 .. r + n : zt[i] = full[i].ts
    BY <1>11, <1>3 DEF IsColumn
  <2>2. pt \in Seq(Nat) /\ Len(pt) = r - start /\ \A i \in 1 .. r - start : pt[i] = c[i].ts
    BY <1>11, <1>8 DEF IsColumn
  <2>3. qt \in Seq(Nat) /\ Len(qt) = n /\ \A i \in 1 .. n : qt[i] = a.blocks[i].ts
    BY <1>11, <1>1 DEF IsColumn, n
  <2>4. \A i \in 1 .. r - start : pt[i] = zt[start + i]
    <3> SUFFICES ASSUME NEW i \in 1 .. r - start PROVE pt[i] = zt[start + i]  OBVIOUS
    <3>1. start + i \in 1 .. r /\ start + i \in 1 .. r + n  BY <1>2, <1>5
    <3>2. pt[i] = chain[start + i].ts  BY <2>2, <1>8
    <3>3. chain[start + i] = full[start + i]  BY <3>1, <1>3, <1>10
    <3>4. zt[start + i] = full[start + i].ts  BY <3>1, <2>1
    <3> QED  BY <3>2, <3>3, <3>4
  <2>5. \A i \in 1 .. n : qt[i] = zt[r + i]
    <3> SUFFICES ASSUME NEW i \in 1 .. n PROVE qt[i] = zt[r + i]  OBVIOUS
    <3>1. r + i \in 1 .. r + n  BY <1>2
    <3> QED  BY <3>1, <2>1, <2>3, <1>3
  <2>6. AltParts(Nat, zt, r, n, start, pt, qt)
    BY <1>2, <2>1, <2>2, <2>3, <2>4, <2>5 DEF start, AltParts
  <2> QED  BY <2>6, AltWindow
<1>13. pc \o youngest(qc, D) = recent(zc)
  <2>1. zc \in Seq(Int) /\ Len(zc) = r + n /\ \A i \in 1 .. r + n : zc[i] = M[i].cum
    BY <1>11, <1>4 DEF IsColumn
  <2>2. pc \in Seq(Int) /\ Len(pc) = r - start /\ \A i \in 1 .. r - start : pc[i] = m[i].cum
    BY <1>11, <1>8 DEF IsColumn
  <2>3. qc \in Seq(Int) /\ Len(qc) = n /\ \A i \in 1 .. n : qc[i] = a.meta[i].cum
    BY <1>11, <1>1 DEF IsColumn, n
  <2>4. \A i \in 1 .. r - start : pc[i] = zc[start + i]
    <3> SUFFICES ASSUME NEW i \in 1 .. r - start PROVE pc[i] = zc[start + i]  OBVIOUS
    <3>1. start + i \in 1 .. r /\ start + i \in 1 .. r + n  BY <1>2, <1>5
    <3> QED  BY <3>1, <2>1, <2>2, <1>8, <1>10
  <2>5. \A i \in 1 .. n : qc[i] = zc[r + i]
    <3> SUFFICES ASSUME NEW i \in 1 .. n PROVE qc[i] = zc[r + i]  OBVIOUS
    <3>1. r + i \in 1 .. r + n  BY <1>2
    <3> QED  BY <3>1, <2>1, <2>3, <1>1
  <2>6. AltParts(Int, zc, r, n, start, pc, qc)
    BY <1>2, <2>1, <2>2, <2>3, <2>4, <2>5 DEF start, AltParts
  <2> QED  BY <2>6, AltWindow
<1> QED  BY <1>7, <1>12, <1>13 DEF RuleDifficulty, zt, zc, M, full

\* The reward an alternative chain counts is a natural number.
LEMMA MoneyType ==
  ASSUME NEW blocks \in Seq(AnyBlock), blocks # << >>, NEW b \in AnyBlock
  PROVE  money_in_use(blocks, b) \in Nat
<1>1. RuleMeta(blocks) \in Seq(Data) /\ Len(RuleMeta(blocks)) = Len(blocks)  BY RuleMetaType
<1>2. RuleMeta(blocks) # << >>  BY <1>1
<1>3. RuleReward(blocks, RuleMeta(blocks), b).reward \in Nat  BY <1>1, <1>2, RuleRewardType
<1> QED  BY <1>3, BlockFields DEF money_in_use

\* The work below the next block of a branch.
LEMMA AltParent ==
  ASSUME chain \in Seq(AnyBlock), Exact(meta, chain), NEW a, AltRight(a), a.root # << >>,
         Prefix(a.root, chain),
         NEW parent, parent = IF a.blocks = << >> THEN meta[Len(a.root)] ELSE last(a.meta)
  PROVE  /\ parent.cum = last(RuleMeta(a.root \o a.blocks)).cum
         /\ parent.coins \in 0 .. MONEY_SUPPLY
<1> DEFINE full == a.root \o a.blocks
           M == RuleMeta(full)
           n == Len(a.blocks)
           r == Len(a.root)
<1>1. /\ a.root \in Seq(AnyBlock) /\ a.blocks \in Seq(AnyBlock) /\ a.meta \in Seq(AltData)
      /\ Len(a.meta) = n /\ \A i \in 1 .. n : a.meta[i].cum = M[r + i].cum
  BY DEF AltRight
<1>2. n \in Nat /\ r \in Nat /\ r >= 1  BY <1>1
<1>3. Joined(full, a.root, a.blocks, AnyBlock) /\ Prefix(a.root, full)
  BY <1>1, JoinedSeq, PrefixOfConcat
<1>4. full \in Seq(AnyBlock) /\ Len(full) = r + n  BY <1>3 DEF Joined
<1>5. M \in Seq(Data) /\ Len(M) = r + n  BY <1>4, RuleMetaType
<1>6. last(M) = M[r + n]  BY <1>5 DEF last
<1> HIDE DEF full, M
<1>7. CASE a.blocks = << >>
  <2>1. parent = meta[r] /\ n = 0 /\ r + n = r  BY <1>7, <1>2
  <2>2. meta \in Seq(Data) /\ Len(meta) = Len(chain) /\ r <= Len(chain)  BY DEF Exact, Prefix
  <2>3. r \in 1 .. Len(chain) /\ r \in 1 .. r  BY <1>2, <2>2
  <2>4. meta[r] \in Data  BY <2>2, <2>3
  <2>5. meta[r].cum = RuleMeta(chain)[r].cum  BY <2>3, ExactAt
  <2>6. RuleMeta(a.root)[r] = RuleMeta(chain)[r]  BY <1>1, <2>3, PrefixData
  <2>7. RuleMeta(a.root)[r] = M[r]  BY <1>1, <1>3, <1>4, <2>3, PrefixData DEF M
  <2> QED  BY <1>6, <2>1, <2>4, <2>5, <2>6, <2>7 DEF Data, M, full
<1>8. CASE a.blocks # << >>
  <2>1. n \in 1 .. n  BY <1>2, <1>8, <1>1
  <2>2. parent = a.meta[n]  BY <1>1, <1>8 DEF last
  <2>3. a.meta[n] \in AltData  BY <1>1, <2>1
  <2>4. a.meta[n].cum = M[r + n].cum  BY <1>1, <2>1
  <2> QED  BY <1>6, <2>2, <2>3, <2>4 DEF AltData, M, full
<1> QED  BY <1>7, <1>8

\* A branch that a block is added to.
LEMMA ExtendAlt ==
  ASSUME chain \in Seq(AnyBlock), Exact(meta, chain), NEW a, AltRight(a), a.root # << >>,
         Prefix(a.root, chain), NEW b \in AnyBlock, Len(a.root) + Len(a.blocks) <= MaxHeight
  PROVE  /\ AltRight(extend_alt(a, b))
         /\ extend_alt(a, b).root = a.root
         /\ extend_alt(a, b).blocks = Append(a.blocks, b)
<1> DEFINE full == a.root \o a.blocks
           M == RuleMeta(full)
           n == Len(a.blocks)
           r == Len(a.root)
           parent == IF a.blocks = << >> THEN meta[Len(a.root)] ELSE last(a.meta)
           d == [cum |-> parent.cum + alt_difficulty(a),
                 coins |-> add_coins(parent.coins, money_in_use(full, b))]
           e == extend_alt(a, b)
           D == RuleData(full, M, b)
<1>1. /\ a \in [root : Seq(AnyBlock), blocks : Seq(AnyBlock), meta : Seq(AltData)]
      /\ a.root \in Seq(AnyBlock) /\ a.blocks \in Seq(AnyBlock) /\ a.meta \in Seq(AltData)
      /\ Len(a.meta) = n /\ \A i \in 1 .. n : a.meta[i].cum = M[r + i].cum
  BY DEF AltRight
<1>2. n \in Nat /\ r \in Nat /\ r >= 1  BY <1>1
<1>3. Joined(full, a.root, a.blocks, AnyBlock)  BY <1>1, JoinedSeq
<1>4. full \in Seq(AnyBlock) /\ Len(full) = r + n  BY <1>3 DEF Joined
<1>5. M \in Seq(Data) /\ Len(M) = r + n  BY <1>4, RuleMetaType
<1>6. full # << >> /\ M # << >>
  <2> HIDE DEF full, M, n, r
  <2> QED  BY <1>2, <1>4, <1>5
<1>7. parent.cum = last(M).cum /\ parent.coins \in 0 .. MONEY_SUPPLY  BY AltParent
<1>8. money_in_use(full, b) \in Nat  BY <1>4, <1>6, MoneyType
<1>9. alt_difficulty(a) = RuleDifficulty(full, M)  BY AltDifficulty
<1>10. RuleDifficulty(full, M) \in Int /\ last(M).cum \in Int
  BY <1>4, <1>5, <1>6, RuleDifficultyType, LastData
<1>11. e = [a EXCEPT !.blocks = Append(@, b), !.meta = Append(@, d)]  BY DEF extend_alt
<1> HIDE DEF parent, full, M, n, r
<1>12. d \in AltData /\ d.cum = last(M).cum + RuleDifficulty(full, M)
  <2>1. add_coins(parent.coins, money_in_use(full, b)) \in 0 .. MONEY_SUPPLY  BY <1>7, <1>8, CoinsAdded
  <2> QED  BY <2>1, <1>7, <1>9, <1>10 DEF AltData
<1>13. D.cum = last(M).cum + RuleDifficulty(full, M) /\ D \in Data
  <2>1. D.cum = last(M).cum + RuleDifficulty(full, M)  BY <1>6 DEF RuleData
  <2> QED  BY <2>1, <1>4, <1>5, RuleDataType
<1>14. RuleMeta(Append(full, b)) = Append(M, D)  BY <1>4, RuleMetaAppend DEF M
<1>15. a.root \o Append(a.blocks, b) = Append(full, b)  BY <1>1, ConcatAppend DEF full
<1> HIDE DEF d, D, e
<1>16. /\ e.root = a.root /\ e.blocks = Append(a.blocks, b) /\ e.meta = Append(a.meta, d)
       /\ e \in [root : Seq(AnyBlock), blocks : Seq(AnyBlock), meta : Seq(AltData)]
  <2>1. a = [root |-> a.root, blocks |-> a.blocks, meta |-> a.meta]  BY <1>1
  <2>2. e = [root |-> a.root, blocks |-> Append(a.blocks, b), meta |-> Append(a.meta, d)]
    BY <1>11, <2>1
  <2>3. Append(a.blocks, b) \in Seq(AnyBlock) /\ Append(a.meta, d) \in Seq(AltData)  BY <1>1, <1>12
  <2> QED  BY <1>1, <2>2, <2>3
<1>17. Len(e.blocks) = n + 1 /\ Len(e.meta) = n + 1 /\ e.blocks # << >> /\ Len(e.root) = r
  <2>1. Len(a.blocks) = n /\ Len(a.root) = r  BY DEF n, r
  <2>2. Len(Append(a.blocks, b)) = n + 1 /\ Len(Append(a.meta, d)) = n + 1
    BY <2>1, <1>1, <1>12
  <2>3. Append(a.blocks, b) # << >>  BY <2>2, <1>2
  <2> QED  BY <2>1, <2>2, <2>3, <1>16
<1>18. ASSUME NEW i \in 1 .. n + 1
       PROVE e.meta[i].cum = RuleMeta(e.root \o e.blocks)[Len(e.root) + i].cum
  <2>1. RuleMeta(e.root \o e.blocks) = Append(M, D)  BY <1>14, <1>15, <1>16
  <2>2. CASE i = n + 1
    <3>1. e.meta[i] = d  BY <2>2, <1>1, <1>2, <1>16
    <3>2. Append(M, D)[r + n + 1] = D  BY <1>2, <1>5
    <3>3. Len(e.root) + i = r + n + 1  BY <2>2, <1>2, <1>17
    <3> QED  BY <2>1, <3>1, <3>2, <3>3, <1>12, <1>13
  <2>3. CASE i # n + 1
    <3>1. i \in 1 .. n /\ r + i \in 1 .. r + n  BY <2>3, <1>2
    <3>2. e.meta[i] = a.meta[i]  BY <3>1, <1>1, <1>16
    <3>3. Append(M, D)[r + i] = M[r + i]  BY <3>1, <1>5
    <3> QED  BY <2>1, <3>1, <3>2, <3>3, <1>1, <1>17
  <2> QED  BY <2>2, <2>3
<1>19. Len(e.root) + Len(e.blocks) <= MaxHeight + 1
  <2>1. r + n <= MaxHeight  BY DEF r, n
  <2> QED  BY <2>1, <1>2, <1>17, BoundsAssumption
<1>20. AltRight(e)
  <2>1. e.root # << >>  BY <1>16
  <2>2. \A i \in 1 .. Len(e.blocks) : e.meta[i].cum = RuleMeta(e.root \o e.blocks)[Len(e.root) + i].cum
    BY <1>17, <1>18
  <2> QED  BY <2>1, <2>2, <1>16, <1>17, <1>19 DEF AltRight
<1> QED  BY <1>16, <1>20 DEF e

----------------------------------------------------------------------------
(* Chains and their beginnings.                                            *)

\* A chain begins with itself, and with what it began with when it grows.
LEMMA PrefixSelf ==
  ASSUME NEW s \in Seq(AnyBlock)
  PROVE  Prefix(s, s)
<1>1. Len(s) \in Nat  OBVIOUS
<1>2. SubSeq(s, 1, Len(s)) \in Seq(AnyBlock) /\ Len(SubSeq(s, 1, Len(s))) = Len(s)
      /\ \A i \in 1 .. Len(s) : SubSeq(s, 1, Len(s))[i] = s[i]
  BY <1>1
<1>3. SubSeq(s, 1, Len(s)) = s  BY <1>2, SameSeq
<1> QED  BY <1>3 DEF Prefix

\* A beginning, element by element.
LEMMA PrefixElements ==
  ASSUME NEW s \in Seq(AnyBlock), NEW t \in Seq(AnyBlock)
  PROVE  Prefix(s, t) <=> Len(s) <= Len(t) /\ \A i \in 1 .. Len(s) : s[i] = t[i]
<1> DEFINE u == SubSeq(t, 1, Len(s))
<1>1. Len(s) \in Nat /\ Len(t) \in Nat  OBVIOUS
<1> SUFFICES ASSUME Len(s) <= Len(t) PROVE s = u <=> \A i \in 1 .. Len(s) : s[i] = t[i]
  BY DEF Prefix
<1>2. u \in Seq(AnyBlock) /\ Len(u) = Len(s) /\ \A i \in 1 .. Len(s) : u[i] = t[i]  BY <1>1
<1> HIDE DEF u
<1>3. ASSUME \A i \in 1 .. Len(s) : s[i] = t[i] PROVE s = u
  <2>1. \A i \in 1 .. Len(s) : s[i] = u[i]  BY <1>2, <1>3
  <2> QED  BY <1>2, <2>1, SameSeq
<1> QED  BY <1>2, <1>3

LEMMA PrefixAppend ==
  ASSUME NEW s \in Seq(AnyBlock), NEW t \in Seq(AnyBlock), NEW b \in AnyBlock, Prefix(s, t)
  PROVE  Prefix(s, Append(t, b))
<1> DEFINE u == Append(t, b)
<1>1. /\ Len(s) \in Nat /\ Len(t) \in Nat /\ u \in Seq(AnyBlock) /\ Len(u) = Len(t) + 1
      /\ \A i \in 1 .. Len(t) : u[i] = t[i]
  OBVIOUS
<1>2. Len(s) <= Len(t) /\ \A i \in 1 .. Len(s) : s[i] = t[i]  BY PrefixElements
<1> HIDE DEF u
<1>3. \A i \in 1 .. Len(s) : i \in 1 .. Len(t)  BY <1>1, <1>2
<1>4. Len(s) <= Len(u) /\ \A i \in 1 .. Len(s) : s[i] = u[i]  BY <1>1, <1>2, <1>3
<1>5. Prefix(s, u)  BY <1>1, <1>4, PrefixElements
<1> QED  BY <1>5 DEF u

\* A chain that is longer than one of its beginnings still begins with it
\* when it loses its last block.
LEMMA PrefixFront ==
  ASSUME NEW s \in Seq(AnyBlock), NEW t \in Seq(AnyBlock), Prefix(s, t), s # t, t # << >>
  PROVE  Len(s) < Len(t) /\ Prefix(s, front(t))
<1> DEFINE f == front(t)
<1>1. Len(s) \in Nat /\ Len(t) \in Nat  OBVIOUS
<1>2. Len(s) <= Len(t) /\ \A i \in 1 .. Len(s) : s[i] = t[i]  BY PrefixElements
<1>3. Len(s) # Len(t)  BY <1>2, SameSeq
<1>4. f \in Seq(AnyBlock) /\ Len(f) = Len(t) - 1 /\ \A i \in 1 .. Len(t) - 1 : f[i] = t[i]
  BY FrontLast
<1> HIDE DEF f
<1>5. \A i \in 1 .. Len(s) : i \in 1 .. Len(t) - 1  BY <1>1, <1>2, <1>3
<1>6. Len(s) <= Len(f) /\ \A i \in 1 .. Len(s) : s[i] = f[i]
  BY <1>1, <1>2, <1>3, <1>4, <1>5
<1>7. Prefix(s, f)  BY <1>4, <1>6, PrefixElements
<1> QED  BY <1>1, <1>2, <1>3, <1>7 DEF f

\* A chain is taken apart from above.
LEMMA TakeOff ==
  ASSUME NEW s \in Seq(AnyBlock), s # << >>, NEW t \in Seq(AnyBlock)
  PROVE  /\ front(s) \o (<<last(s)>> \o t) = s \o t
         /\ <<last(s)>> \o t \in Seq(AnyBlock)
<1> DEFINE f == front(s)
           l == <<last(s)>>
           p == l \o t
           q == f \o p
           n == Len(s)
           k == Len(t)
<1>1. f \in Seq(AnyBlock) /\ Len(f) = n - 1 /\ last(s) \in AnyBlock
      /\ \A i \in 1 .. n - 1 : f[i] = s[i]
  BY FrontLast
<1>2. n \in Nat /\ n >= 1 /\ k \in Nat /\ last(s) = s[n]  BY DEF last
<1>3. l \in Seq(AnyBlock) /\ Len(l) = 1 /\ l[1] = s[n]  BY <1>1, <1>2
<1> HIDE DEF f, l
<1>4. Joined(p, l, t, AnyBlock) /\ Joined(s \o t, s, t, AnyBlock)  BY <1>3, JoinedSeq
<1> HIDE DEF p, n, k
<1>5. p \in Seq(AnyBlock) /\ Len(p) = k + 1 /\ p[1] = s[n] /\ \A i \in 1 .. k : p[1 + i] = t[i]
  <2>1. 1 \in 1 .. 1 /\ Len(t) = k  BY DEF k
  <2>2. p \in Seq(AnyBlock) /\ Len(p) = Len(l) + Len(t) /\ p[1] = l[1]
        /\ \A i \in 1 .. Len(t) : p[Len(l) + i] = t[i]
    BY <1>4, <1>3, <2>1 DEF Joined
  <2> QED  BY <1>2, <1>3, <2>1, <2>2
<1>6. Joined(q, f, p, AnyBlock)  BY <1>1, <1>5, JoinedSeq
<1> HIDE DEF q
<1> DEFINE v == s \o t
<1>7. /\ v \in Seq(AnyBlock) /\ Len(v) = n + k
      /\ \A i \in 1 .. n : v[i] = s[i]
      /\ \A i \in 1 .. k : v[n + i] = t[i]
  BY <1>4 DEF Joined, n, k
<1> HIDE DEF v
<1>8. /\ q \in Seq(AnyBlock) /\ Len(q) = (n - 1) + (k + 1)
      /\ \A i \in 1 .. n - 1 : q[i] = f[i]
      /\ \A i \in 1 .. k + 1 : q[(n - 1) + i] = p[i]
  BY <1>6, <1>1, <1>5 DEF Joined
<1>9. Len(q) = n + k  BY <1>2, <1>8
<1>10. ASSUME NEW i \in 1 .. n + k PROVE q[i] = v[i]
  <2>1. CASE i \in 1 .. n - 1
    <3>1. i \in 1 .. n  BY <2>1, <1>2
    <3> QED  BY <2>1, <3>1, <1>1, <1>7, <1>8
  <2>2. CASE i = n
    <3>1. i \in 1 .. n /\ 1 \in 1 .. k + 1 /\ (n - 1) + 1 = n  BY <2>2, <1>2
    <3>2. q[n] = p[1]  BY <3>1, <1>8
    <3> QED  BY <2>2, <3>1, <3>2, <1>5, <1>7
  <2>3. CASE i > n
    <3> DEFINE j == i - n
    <3>1. j \in 1 .. k /\ 1 + j \in 1 .. k + 1 /\ i = n + j /\ i = (n - 1) + (1 + j)  BY <2>3, <1>2
    <3> HIDE DEF j
    <3>2. q[i] = p[1 + j]  BY <3>1, <1>8
    <3>3. v[i] = t[j]  BY <3>1, <1>7
    <3> QED  BY <3>1, <3>2, <3>3, <1>5
  <2> QED  BY <2>1, <2>2, <2>3, <1>2
<1>11. q = v  BY <1>7, <1>8, <1>9, <1>10, SameSeq
<1> QED  BY <1>11, <1>5 DEF q, v, p, f, l

\* root with the first k blocks of bs on top.
Built(root, bs, k) == root \o SubSeq(bs, 1, k)

\* A chain is put together from below.
LEMMA PutOn ==
  ASSUME NEW root \in Seq(AnyBlock), NEW bs \in Seq(AnyBlock), NEW k \in 0 .. Len(bs)
  PROVE  /\ Built(root, bs, k) \in Seq(AnyBlock) /\ Len(Built(root, bs, k)) = Len(root) + k
         /\ k < Len(bs) => bs[k + 1] \in AnyBlock
                           /\ Append(Built(root, bs, k), bs[k + 1]) = Built(root, bs, k + 1)
         /\ k = Len(bs) => Built(root, bs, k) = root \o bs
         /\ k = 0 => Built(root, bs, k) = root
         /\ Prefix(root, Built(root, bs, k))
<1> DEFINE u == SubSeq(bs, 1, k)
           n == Len(bs)
<1>0. n \in Nat /\ k \in Nat /\ k <= n  OBVIOUS
<1>1. u \in Seq(AnyBlock) /\ Len(u) = k /\ \A i \in 1 .. k : u[i] = bs[i]  BY <1>0
<1> HIDE DEF u
<1>2. Joined(root \o u, root, u, AnyBlock) /\ Prefix(root, root \o u)
  BY <1>1, JoinedSeq, PrefixOfConcat
<1>3. Built(root, bs, k) \in Seq(AnyBlock) /\ Len(Built(root, bs, k)) = Len(root) + k
  BY <1>1, <1>2 DEF Joined, Built, u
<1>4. ASSUME k < n PROVE bs[k + 1] \in AnyBlock /\ Append(Built(root, bs, k), bs[k + 1]) = Built(root, bs, k + 1)
  <2>1. k + 1 \in 1 .. n  BY <1>4, <1>0
  <2>2. bs[k + 1] \in AnyBlock  BY <2>1
  <2> DEFINE v == SubSeq(bs, 1, k + 1)
             w == Append(u, bs[k + 1])
  <2>3. v \in Seq(AnyBlock) /\ Len(v) = k + 1 /\ \A i \in 1 .. k + 1 : v[i] = bs[i]  BY <1>0, <2>1
  <2>4. w \in Seq(AnyBlock) /\ Len(w) = k + 1 /\ w[k + 1] = bs[k + 1] /\ \A i \in 1 .. k : w[i] = u[i]
    BY <1>0, <1>1, <2>2
  <2> HIDE DEF v, w
  <2>5. ASSUME NEW i \in 1 .. k + 1 PROVE v[i] = w[i]
    <3>1. CASE i = k + 1  BY <3>1, <2>3, <2>4
    <3>2. CASE i # k + 1
      <4>1. i \in 1 .. k  BY <3>2, <1>0
      <4> QED  BY <4>1, <2>3, <2>4, <1>1
    <3> QED  BY <3>1, <3>2
  <2>6. v = w  BY <2>3, <2>4, <2>5, SameSeq
  <2>7. root \o Append(u, bs[k + 1]) = Append(root \o u, bs[k + 1])  BY <1>1, <2>2, ConcatAppend
  <2> QED  BY <2>2, <2>6, <2>7 DEF Built, u, v, w
<1>5. ASSUME k = n PROVE Built(root, bs, k) = root \o bs
  <2>1. u = bs  BY <1>1, <1>5, SameSeq
  <2> QED  BY <2>1 DEF Built, u
<1>6. ASSUME k = 0 PROVE Built(root, bs, k) = root
  <2>1. u = << >>  BY <1>1, <1>6
  <2>2. root \o << >> = root  OBVIOUS
  <2> QED  BY <2>1, <2>2 DEF Built, u
<1> QED  BY <1>2, <1>3, <1>4, <1>5, <1>6 DEF Built, u

----------------------------------------------------------------------------
(* The invariant without the hard forks: the database, what a batch keeps, *)
(* the caches and the reorganisation in progress.                          *)

\* The chains the database may hold.
Chains == {s \in Seq(AnyBlock) : s # << >> /\ s[1] = Genesis /\ Len(s) <= MaxHeight + 1}

\* The tables: chain, data and alternative blocks agree.
DbRight(c, m, a) == c \in Chains /\ Exact(m, c) /\ AltRight(a)

\* What an abort of the batch would go back to is as right.
BatchRight ==
  \/ batch = NoBatch
  \/ /\ batch = [open |-> TRUE, db |-> batch.db, ok |-> batch.ok, goes_on |-> batch.goes_on]
     /\ DbRight(batch.db.chain, batch.db.meta, batch.db.alt)

\* What another thread asks for while a batch is open does no harm.
BatchFits(d, c, t) ==
  t.open => DcFits(d, t.db.chain) /\ (d.reset \/ Prefix(t.db.chain, c))

\* The caches are about chains they fit, this one and the batch's.
CachesRight ==
  /\ median_weight \in Nat /\ LtRight(lt)
  /\ DcRight(dc) /\ DcFits(dc, chain) /\ BatchFits(dc, chain, batch)

\* The reorganisation in progress, by the loop it is in: what has been taken
\* off, put together with what is left, is the chain it began with.
Disconnecting ==
  /\ job = [at |-> "disconnect", off |-> job.off, was |-> job.was, cum |-> job.cum]
  /\ alt.blocks # << >> /\ Prefix(alt.root, chain) /\ last(alt.meta).cum > job.cum
  /\ job.off \in Seq(AnyBlock) /\ job.was = chain \o job.off /\ Len(job.was) <= MaxHeight + 1

Connecting ==
  /\ job = [at |-> "connect", off |-> job.off, was |-> job.was, cum |-> job.cum]
  /\ alt.blocks # << >> /\ last(alt.meta).cum > job.cum
  /\ done \in 0 .. Len(alt.blocks) /\ chain = Built(alt.root, alt.blocks, done)
  /\ job.off \in Seq(AnyBlock) /\ job.was = alt.root \o job.off /\ Len(job.was) <= MaxHeight + 1

Pushing ==
  /\ job = [at |-> "push", off |-> job.off, cum |-> job.cum, was |-> job.was, split |-> job.split]
  /\ alt.root # << >> /\ Prefix(alt.root, chain) /\ last(meta).cum > job.cum
  /\ job.off \in Seq(AnyBlock) /\ job.split = Len(alt.root)
  /\ Len(alt.root) + Len(alt.blocks) + Len(job.off) <= MaxHeight + 1

Undoing(at) ==
  /\ job = [at |-> at, off |-> job.off, was |-> job.was, failed |-> job.failed]
  /\ alt.root # << >> /\ job.failed \in 1 .. Len(alt.blocks)
  /\ job.off \in Seq(AnyBlock) /\ job.was = alt.root \o job.off /\ Len(job.was) <= MaxHeight + 1

\* A rollback takes alternative blocks off down to the split; the restoring
\* loop puts the old blocks back.
RollingBack == Undoing("rollback") /\ Prefix(alt.root, chain)

Restoring ==
  Undoing("restore") /\ done \in 0 .. Len(job.off) /\ chain = Built(alt.root, job.off, done)

\* pop_blocks has job.left blocks to go.
Popping == job = [at |-> "pops", left |-> job.left] /\ job.left \in Nat

\* No reorganisation, or one inside a batch.
JobRight ==
  \/ job = Idle
  \/ /\ batch.open
     /\ \/ Disconnecting \/ Connecting \/ Pushing
        \/ RollingBack \/ Restoring \/ Undoing("panic") \/ Popping

\* The invariant.
Core == DbRight(chain, meta, alt) /\ BatchRight /\ CachesRight /\ JobRight

\* What Chains says of a chain.
LEMMA ChainType ==
  ASSUME NEW c \in Chains
  PROVE  c \in Seq(AnyBlock) /\ c # << >> /\ c[1] = Genesis /\ Len(c) <= MaxHeight + 1
         /\ Len(c) \in Nat /\ Len(c) >= 1
  BY DEF Chains

LEMMA ChainAppend ==
  ASSUME NEW c \in Chains, Len(c) <= MaxHeight, NEW b \in AnyBlock
  PROVE  Append(c, b) \in Chains
<1>1. c \in Seq(AnyBlock) /\ Len(c) \in Nat /\ Len(c) >= 1 /\ c[1] = Genesis  BY ChainType
<1>2. Append(c, b) \in Seq(AnyBlock) /\ Len(Append(c, b)) = Len(c) + 1  BY <1>1
<1>3. 1 \in 1 .. Len(c)  BY <1>1
<1>4. Append(c, b)[1] = Genesis  BY <1>1, <1>3
<1>5. Append(c, b) # << >> /\ Len(Append(c, b)) <= MaxHeight + 1  BY <1>1, <1>2, BoundsAssumption
<1> QED  BY <1>2, <1>4, <1>5 DEF Chains

\* What is stored with a block is what the rules say, but for the coins.
LEMMA StoredData ==
  ASSUME chain \in Chains, Exact(meta, chain), median_weight \in Nat, NEW b \in AnyBlock,
         NEW d, DcAsked(dc, d, chain), NEW c, median(c.window) = long_term_median(meta)
  PROVE  /\ stored_data(b, d, c) \in Data
         /\ stored_data(b, d, c).ltw = RuleData(chain, RuleMeta(chain), b).ltw
         /\ stored_data(b, d, c).cum = RuleData(chain, RuleMeta(chain), b).cum
<1> DEFINE M == RuleMeta(chain)
           n == Len(chain)
           r == get_block_reward(median_weight, b.w, last(meta).coins).reward
<1>1. chain \in Seq(AnyBlock) /\ chain # << >> /\ n \in Nat /\ n >= 1  BY ChainType
<1>2. meta \in Seq(Data) /\ Len(meta) = n /\ M \in Seq(Data) /\ Len(M) = n
  BY <1>1, RuleMetaType DEF Exact
<1> HIDE DEF M, n
<1>3. meta # << >> /\ M # << >> /\ n \in 1 .. n  BY <1>1, <1>2
<1>4. /\ last(meta).cum \in Int /\ last(meta).coins \in 0 .. MONEY_SUPPLY
      /\ last(meta) = meta[n] /\ last(M) = M[n]
  BY <1>2, <1>3, LastData DEF last
<1>5. last(meta).cum = last(M).cum  BY <1>1, <1>3, <1>4, ExactAt DEF n, M
<1>6. b.w \in Nat  BY BlockFields
<1>7. long_term_median(meta) \in Nat /\ long_term_median(meta) = long_term_median(M)
  BY <1>1, <1>2, LongTermMedianType, ExactRules DEF M
<1>8. get_next_long_term_block_weight(b.w, long_term_median(meta)) \in Nat
  BY <1>6, <1>7, NextWeightType
<1>9. d.next = RuleDifficulty(chain, M) /\ RuleDifficulty(chain, M) \in Int
  BY <1>1, <1>2, RuleDifficultyType DEF DcAsked, M, n
<1>10. r \in Nat
  <2>1. base_reward(last(meta).coins) \in Nat  BY <1>4, RewardBound
  <2>2. r \in 0 .. base_reward(last(meta).coins)  BY <1>4, <1>6, BlockRewardBound
  <2> QED  BY <2>1, <2>2
<1>11. add_coins(last(meta).coins, r) \in 0 .. MONEY_SUPPLY  BY <1>4, <1>10, CoinsAdded
<1>12. stored_data(b, d, c) =
         [ltw |-> get_next_long_term_block_weight(b.w, long_term_median(meta)),
          cum |-> last(meta).cum + d.next, coins |-> add_coins(last(meta).coins, r)]
  BY DEF stored_data
<1>13. /\ RuleData(chain, M, b).ltw = get_next_long_term_block_weight(b.w, long_term_median(M))
       /\ RuleData(chain, M, b).cum = last(M).cum + RuleDifficulty(chain, M)
  BY <1>1 DEF RuleData
<1> HIDE DEF r
<1>14. stored_data(b, d, c) \in Data  BY <1>4, <1>8, <1>9, <1>11, <1>12 DEF Data
<1> QED  BY <1>5, <1>7, <1>9, <1>12, <1>13, <1>14 DEF M

\* The window that belongs to the tip of a chain is of no use below it.
LEMMA FitsTop ==
  ASSUME NEW t \in Seq(AnyBlock), NEW d, d.top = t, NEW s \in Seq(AnyBlock), Len(s) <= Len(t)
  PROVE  DcFits(d, s)
  BY DEF DcFits

\* What BatchRight says of an open batch.
LEMMA BatchChain ==
  ASSUME BatchRight, batch.open
  PROVE  /\ batch = [open |-> TRUE, db |-> batch.db, ok |-> batch.ok, goes_on |-> batch.goes_on]
         /\ DbRight(batch.db.chain, batch.db.meta, batch.db.alt)
         /\ batch.db.chain \in Seq(AnyBlock)
<1>1. batch # NoBatch  BY DEF NoBatch
<1> QED  BY <1>1, ChainType DEF BatchRight, DbRight

\* The cache after a question about the tip still fits a batch.
LEMMA BatchFitsTop ==
  ASSUME BatchRight, NEW c, NEW s \in Seq(AnyBlock), BatchFits(c, s, batch),
         NEW t \in Seq(AnyBlock), t = s \/ \E b \in AnyBlock : t = Append(s, b),
         NEW d, d.top = t, d.reset = c.reset
  PROVE  BatchFits(d, t, batch)
<1> SUFFICES ASSUME batch.open PROVE DcFits(d, batch.db.chain) /\ (d.reset \/ Prefix(batch.db.chain, t))
  BY DEF BatchFits
<1>1. batch.db.chain \in Seq(AnyBlock)  BY BatchChain
<1>2. c.reset \/ Prefix(batch.db.chain, s)  BY DEF BatchFits
<1>3. CASE c.reset  BY <1>3 DEF DcFits, DcWindow
<1>4. CASE Prefix(batch.db.chain, s)
  <2>1. Prefix(batch.db.chain, t)  BY <1>1, <1>4, PrefixAppend
  <2>2. Len(batch.db.chain) <= Len(t)  BY <2>1 DEF Prefix
  <2> QED  BY <1>1, <2>1, <2>2, FitsTop
<1> QED  BY <1>2, <1>3, <1>4

\* get_difficulty_for_next_block, asked for the chain of the batch's owner.
LEMMA AskedHere ==
  ASSUME chain \in Chains, Exact(meta, chain), BatchRight, CachesRight,
         NEW d, d = difficulty_cache(dc, chain, meta)
  PROVE  /\ DcAsked(dc, d, chain) /\ DcRight(d) /\ DcFits(d, chain) /\ BatchFits(d, chain, batch)
         /\ d.top = chain /\ d.reset = dc.reset
<1>1. chain \in Seq(AnyBlock) /\ chain # << >> /\ Len(chain) \in Nat  BY ChainType
<1>2. DcRight(dc) /\ DcFits(dc, chain) /\ BatchFits(dc, chain, batch)  BY DEF CachesRight
<1>3. DcAsked(dc, d, chain)  BY <1>1, <1>2, DifficultyCache
<1>4. DcRight(d) /\ d.top = chain /\ d.reset = dc.reset  BY <1>3 DEF DcAsked
<1>5. DcFits(d, chain)  BY <1>1, <1>4, FitsTop
<1>6. BatchFits(d, chain, batch)  BY <1>1, <1>2, <1>4, BatchFitsTop
<1> QED  BY <1>3, <1>4, <1>5, <1>6

\* The batch itself stays as it is, whatever becomes of its verdict.
SameBatch == batch'.open = batch.open /\ (batch.open => batch'.db = batch.db)

\* A batch that keeps its tables fits what it fitted.
LEMMA SameFits ==
  ASSUME SameBatch, NEW d, NEW c, BatchFits(d, c, batch)
  PROVE  BatchFits(d, c, batch')
  BY DEF BatchFits, SameBatch

\* update_next_cumulative_weight_limit.
LEMMA LimitSet ==
  ASSUME NEW c \in Chains, NEW m, Exact(m, c), LtRight(lt), update_limit(c, m)
  PROVE  LtRight(lt') /\ median_weight' \in Nat /\ median_weight' = RuleMedian(c, m)
<1>1. c \in Seq(AnyBlock) /\ c # << >>  BY ChainType
<1>2. LtRight(long_term_cache(lt, c, m)) /\ median(long_term_cache(lt, c, m).window) = long_term_median(m)
  BY <1>1, LongTermCache
<1>3. lt' = long_term_cache(lt, c, m)  BY DEF update_limit
<1>4. median_weight' = effective_median(Column(c, "w"), long_term_median(m))
  BY <1>2, <1>3 DEF update_limit
<1>5. m \in Seq(Data)  BY DEF Exact
<1> QED  BY <1>1, <1>2, <1>3, <1>4, <1>5, RuleMedianType DEF RuleMedian

\* add_block keeps chain, data and caches right, and the weight limit it
\* leaves is that of the new chain.
LEMMA AddBlock ==
  ASSUME chain \in Chains, Exact(meta, chain), BatchRight, CachesRight, Len(chain) <= MaxHeight,
         NEW b \in AnyBlock, add_block(b), SameBatch
  PROVE  /\ chain' \in Chains /\ Exact(meta, chain)' /\ CachesRight'
         /\ chain' = Append(chain, b)
         /\ median_weight' = RuleMedian(chain', meta')
<1> DEFINE d == difficulty_cache(dc, chain, meta)
           c == long_term_cache(lt, chain, meta)
           e == stored_data(b, d, c)
           blocks == Append(chain, b)
           m == Append(meta, e)
<1>1. chain \in Seq(AnyBlock) /\ chain # << >> /\ Len(chain) \in Nat  BY ChainType
<1>2. DcAsked(dc, d, chain) /\ DcRight(d) /\ BatchFits(d, chain, batch) /\ d.top = chain
  BY AskedHere
<1>3. LtRight(c) /\ median(c.window) = long_term_median(meta)  BY <1>1, LongTermCache DEF CachesRight
<1>4. median_weight \in Nat  BY DEF CachesRight
<1> HIDE DEF d, c
<1>5. /\ e \in Data /\ e.ltw = RuleData(chain, RuleMeta(chain), b).ltw
      /\ e.cum = RuleData(chain, RuleMeta(chain), b).cum
  BY <1>2, <1>3, <1>4, StoredData
<1>6. blocks \in Chains  BY ChainAppend
<1>7. blocks \in Seq(AnyBlock) /\ blocks # << >> /\ Prefix(chain, blocks)
  BY <1>1, <1>6, ChainType, PrefixSelf, PrefixAppend
<1> HIDE DEF e
<1>8. Exact(m, blocks)  BY <1>1, <1>5, ExactAppend
<1> DEFINE d2 == difficulty_cache(d, blocks, m)
           c2 == long_term_cache(c, blocks, m)
<1>9. /\ chain' = blocks /\ meta' = m /\ lt' = c2 /\ dc' = d2
      /\ median_weight' = effective_median(Column(blocks, "w"), median(c2.window))
  BY DEF add_block, d, c, e
<1> HIDE DEF blocks, m
<1>10. LtRight(c2) /\ median(c2.window) = long_term_median(m)  BY <1>3, <1>7, <1>8, LongTermCache
<1>11. m \in Seq(Data)  BY <1>8 DEF Exact
<1>12. median_weight' = RuleMedian(blocks, m) /\ median_weight' \in Nat
  BY <1>7, <1>9, <1>10, <1>11, RuleMedianType DEF RuleMedian
<1>13. DcFits(d, blocks)  BY <1>2, <1>7 DEF DcFits
<1>14. DcAsked(d, d2, blocks)  BY <1>2, <1>7, <1>8, <1>13, DifficultyCache
<1>15. DcRight(d2) /\ d2.top = blocks /\ d2.reset = d.reset  BY <1>14 DEF DcAsked
<1> HIDE DEF d2, c2
<1>16. DcFits(d2, blocks)
  <2>1. Len(blocks) \in Nat  BY <1>7
  <2> QED  BY <1>7, <1>15, <2>1, FitsTop
<1>17. BatchFits(d2, blocks, batch)
  <2>1. \E x \in AnyBlock : blocks = Append(chain, x)  BY DEF blocks
  <2> QED  BY <1>1, <1>2, <1>7, <1>15, <2>1, BatchFitsTop
<1>18. BatchFits(d2, blocks, batch')  BY <1>17, SameFits
<1>19. CachesRight'  BY <1>9, <1>10, <1>12, <1>15, <1>16, <1>18 DEF CachesRight
<1> QED  BY <1>6, <1>8, <1>9, <1>12, <1>19 DEF blocks

\* A block that is refused, or that the database cannot store.
LEMMA KeptOut ==
  ASSUME chain \in Chains, Exact(meta, chain), BatchRight, CachesRight,
         NEW b \in AnyBlock, refuse_block(b) \/ add_block_throws(b), SameBatch
  PROVE  chain' = chain /\ meta' = meta /\ hfv' = hfv /\ hf' = hf /\ median_weight' = median_weight /\ CachesRight'
<1>1. chain \in Seq(AnyBlock) /\ chain # << >>  BY ChainType
<1> DEFINE d == difficulty_cache(dc, chain, meta)
           c == long_term_cache(lt, chain, meta)
<1>2. DcRight(d) /\ DcFits(d, chain) /\ BatchFits(d, chain, batch)  BY AskedHere
<1>3. LtRight(c)  BY <1>1, LongTermCache DEF CachesRight
<1>4. /\ chain' = chain /\ meta' = meta /\ hfv' = hfv /\ hf' = hf /\ median_weight' = median_weight
      /\ dc' = dc \/ dc' = d
      /\ lt' = lt \/ lt' = c
  BY DEF refuse_block, add_block_throws
<1> HIDE DEF d, c
<1>5. DcRight(dc') /\ DcFits(dc', chain) /\ BatchFits(dc', chain, batch)
  BY <1>2, <1>4 DEF CachesRight
<1>6. LtRight(lt') /\ median_weight' \in Nat  BY <1>3, <1>4 DEF CachesRight
<1>7. BatchFits(dc', chain', batch')  BY <1>4, <1>5, SameFits
<1> QED  BY <1>4, <1>5, <1>6, <1>7 DEF CachesRight

\* A cache that was reset is right for every chain and every batch.
LEMMA ResetRight ==
  ASSUME NEW c, DcRight(c)
  PROVE  /\ DcRight(reset_difficulties(c))
         /\ \A s : DcFits(reset_difficulties(c), s)
         /\ \A s, t : BatchFits(reset_difficulties(c), s, t)
<1> DEFINE d == reset_difficulties(c)
<1>1. c \in DcCaches  BY DEF DcRight
<1>2. d \in DcCaches /\ d.reset = TRUE /\ d.top = c.top /\ d.next = c.next
  BY <1>1 DEF reset_difficulties, DcCaches
<1> HIDE DEF d
<1>3. ~DcWindow(d)  BY <1>2 DEF DcWindow
<1>4. DcRight(d)  BY <1>2, <1>3 DEF DcRight
<1>5. \A s : DcFits(d, s)  BY <1>3 DEF DcFits
<1>6. \A s, t : BatchFits(d, s, t)  BY <1>2, <1>5 DEF BatchFits
<1> QED  BY <1>4, <1>5, <1>6 DEF d

\* A chain without its tip is a chain.
LEMMA ChainFront ==
  ASSUME NEW c \in Chains, Len(c) > 1
  PROVE  front(c) \in Chains /\ Len(front(c)) = Len(c) - 1
<1>1. c \in Seq(AnyBlock) /\ c # << >> /\ c[1] = Genesis /\ Len(c) \in Nat /\ Len(c) <= MaxHeight + 1
  BY ChainType
<1>2. front(c) \in Seq(AnyBlock) /\ Len(front(c)) = Len(c) - 1
      /\ \A i \in 1 .. Len(c) - 1 : front(c)[i] = c[i]
  BY <1>1, FrontLast
<1>3. 1 \in 1 .. Len(c) - 1  BY <1>1
<1>4. front(c)[1] = Genesis  BY <1>1, <1>2, <1>3
<1>5. front(c) # << >> /\ Len(front(c)) <= MaxHeight + 1  BY <1>1, <1>2, BoundsAssumption
<1> QED  BY <1>2, <1>4, <1>5 DEF Chains

LEMMA ExactFront ==
  ASSUME NEW c \in Chains, NEW m, Exact(m, c)
  PROVE  Exact(front(m), front(c))
<1>1. c \in Seq(AnyBlock) /\ c # << >> /\ Len(c) \in Nat /\ Len(c) >= 1  BY ChainType
<1>2. Len(m) = Len(c)  BY DEF Exact
<1> DEFINE k == Len(c) - 1
<1>3. k \in 0 .. Len(c)  BY <1>1
<1>4. front(m) = SubSeq(m, 1, k) /\ front(c) = SubSeq(c, 1, k)  BY <1>2 DEF front
<1> HIDE DEF k
<1> QED  BY <1>1, <1>3, <1>4, ExactPrefix

\* pop_block keeps chain, data and caches right.  The weight limit is stale
\* until the caller computes it again.
LEMMA PopBlock ==
  ASSUME chain \in Chains, Exact(meta, chain), CachesRight, pop_block
  PROVE  /\ chain' \in Chains /\ Exact(meta, chain)' /\ CachesRight'
         /\ chain' = front(chain) /\ Len(chain') = Len(chain) - 1
<1>1. Len(chain) > 1 /\ chain' = front(chain) /\ meta' = front(meta)
      /\ dc' = reset_difficulties(dc) /\ median_weight' = median_weight /\ lt' = lt
  BY DEF pop_block
<1>2. chain' \in Chains /\ Len(chain') = Len(chain) - 1  BY <1>1, ChainFront
<1>3. Exact(meta, chain)'  BY <1>1, ExactFront
<1>4. DcRight(dc') /\ DcFits(dc', chain') /\ BatchFits(dc', chain', batch')
  BY <1>1, ResetRight DEF CachesRight
<1>5. CachesRight'  BY <1>1, <1>4 DEF CachesRight
<1> QED  BY <1>1, <1>2, <1>3, <1>5

\* The difficulty cache alone is reset.
LEMMA OnlyReset ==
  ASSUME CachesRight, dc' = reset_difficulties(dc), median_weight' = median_weight, lt' = lt
  PROVE  CachesRight'
<1>1. DcRight(dc') /\ DcFits(dc', chain') /\ BatchFits(dc', chain', batch')
  BY ResetRight DEF CachesRight
<1> QED  BY <1>1 DEF CachesRight

\* The parts of a branch's data that stay: the first k blocks of it.
LEMMA ShorterAlt ==
  ASSUME NEW a, AltRight(a), NEW k \in 0 .. Len(a.blocks), NEW e,
         e = [a EXCEPT !.blocks = SubSeq(@, 1, k), !.meta = SubSeq(@, 1, k)]
  PROVE  AltRight(e) /\ e.root = a.root /\ Len(e.blocks) = k
<1> DEFINE n == Len(a.blocks)
           r == Len(a.root)
           bs == SubSeq(a.blocks, 1, k)
           ms == SubSeq(a.meta, 1, k)
           full == a.root \o a.blocks
           part == a.root \o bs
<1>1. /\ a = [root |-> a.root, blocks |-> a.blocks, meta |-> a.meta]
      /\ a.root \in Seq(AnyBlock) /\ a.blocks \in Seq(AnyBlock) /\ a.meta \in Seq(AltData)
      /\ Len(a.meta) = n /\ r + n <= MaxHeight + 1
      /\ n \in Nat /\ r \in Nat /\ (a.blocks # << >> => a.root # << >>)
      /\ \A i \in 1 .. n : a.meta[i].cum = RuleMeta(full)[r + i].cum
  BY DEF AltRight
<1>2. e = [root |-> a.root, blocks |-> bs, meta |-> ms]  BY <1>1
<1>3. /\ bs \in Seq(AnyBlock) /\ Len(bs) = k /\ ms \in Seq(AltData) /\ Len(ms) = k
      /\ \A i \in 1 .. k : bs[i] = a.blocks[i]
      /\ \A i \in 1 .. k : ms[i] = a.meta[i]
  <2>1. k \in Nat /\ k <= n  BY <1>1
  <2>2. Len(a.blocks) = n  OBVIOUS
  <2> QED  BY <1>1, <2>1, <2>2
<1>4. Joined(full, a.root, a.blocks, AnyBlock)  BY <1>1, JoinedSeq
<1> HIDE DEF bs, ms, full
<1>5. Joined(part, a.root, bs, AnyBlock)  BY <1>1, <1>3, JoinedSeq
<1> HIDE DEF part, r, n
<1>6. /\ full \in Seq(AnyBlock) /\ Len(full) = r + n
      /\ \A i \in 1 .. r : full[i] = a.root[i]
      /\ \A i \in 1 .. n : full[r + i] = a.blocks[i]
  BY <1>4 DEF Joined, r, n
<1>7. /\ part \in Seq(AnyBlock) /\ Len(part) = r + k
      /\ \A i \in 1 .. r : part[i] = a.root[i]
      /\ \A i \in 1 .. k : part[r + i] = bs[i]
  BY <1>3, <1>5 DEF Joined, r
<1>8. k \in Nat /\ k <= n  BY <1>1 DEF n
<1>9. Prefix(part, full)
  <2>1. ASSUME NEW i \in 1 .. r + k PROVE part[i] = full[i]
    <3>1. CASE i <= r
      <4>1. i \in 1 .. r  BY <3>1, <1>1, <1>8
      <4> QED  BY <4>1, <1>6, <1>7
    <3>2. CASE i > r
      <4> DEFINE j == i - r
      <4>1. j \in 1 .. k /\ j \in 1 .. n /\ i = r + j  BY <3>2, <1>1, <1>8
      <4> HIDE DEF j
      <4>2. part[i] = bs[j] /\ full[i] = a.blocks[j] /\ bs[j] = a.blocks[j]
        BY <4>1, <1>3, <1>6, <1>7
      <4> QED  BY <4>2
    <3> QED  BY <3>1, <3>2, <1>1, <1>8
  <2>2. Len(part) <= Len(full)  BY <1>1, <1>6, <1>7, <1>8
  <2> QED  BY <1>6, <1>7, <2>1, <2>2, PrefixElements
<1>10. ASSUME NEW i \in 1 .. k PROVE ms[i].cum = RuleMeta(part)[r + i].cum
  <2>1. r + i \in 1 .. Len(part) /\ i \in 1 .. n  BY <1>1, <1>7, <1>8
  <2>2. RuleMeta(part)[r + i] = RuleMeta(full)[r + i]  BY <2>1, <1>6, <1>7, <1>9, PrefixData
  <2> QED  BY <2>1, <2>2, <1>1, <1>3
<1>11. bs # << >> => a.root # << >>
  <2>1. bs # << >> => k # 0  BY <1>3
  <2>2. k # 0 => n # 0  BY <1>8, <1>1
  <2>3. n # 0 => a.blocks # << >>  BY DEF n
  <2> QED  BY <2>1, <2>2, <2>3, <1>1
<1>12. r + k <= MaxHeight + 1  BY <1>1, <1>8, BoundsAssumption
<1>13. e.root = a.root /\ e.blocks = bs /\ e.meta = ms /\ Len(e.root) = r
      /\ e \in [root : Seq(AnyBlock), blocks : Seq(AnyBlock), meta : Seq(AltData)]
  <2>1. e.root = a.root /\ e.blocks = bs /\ e.meta = ms
    <3> DEFINE E == [root |-> a.root, blocks |-> bs, meta |-> ms]
    <3>1. E.root = a.root /\ E.blocks = bs /\ E.meta = ms  OBVIOUS
    <3>2. e = E  BY <1>2
    <3> HIDE DEF E
    <3> QED  BY <3>1, <3>2
  <2>2. e \in [root : Seq(AnyBlock), blocks : Seq(AnyBlock), meta : Seq(AltData)]
    BY <1>1, <1>2, <1>3
  <2> QED  BY <2>1, <2>2 DEF r
<1>14. AltRight(e)  BY <1>3, <1>10, <1>11, <1>12, <1>13 DEF AltRight, part
<1> QED  BY <1>3, <1>13, <1>14

\* No alternative block, or one with a root and nothing on it yet.
LEMMA NoAltRight ==
  /\ AltRight(NoAlt)
  /\ \A s \in Chains : AltRight([NoAlt EXCEPT !.root = s]) /\ [NoAlt EXCEPT !.root = s].root = s
                       /\ [NoAlt EXCEPT !.root = s].blocks = << >>
<1>1. MaxHeight \in Nat  BY BoundsAssumption
<1>2. AltRight(NoAlt)
  <2>1. NoAlt \in [root : Seq(AnyBlock), blocks : Seq(AnyBlock), meta : Seq(AltData)]  BY DEF NoAlt
  <2>2. NoAlt.root = << >> /\ NoAlt.blocks = << >> /\ NoAlt.meta = << >>  BY DEF NoAlt
  <2> QED  BY <1>1, <2>1, <2>2 DEF AltRight
<1>3. ASSUME NEW s \in Chains
      PROVE  AltRight([NoAlt EXCEPT !.root = s]) /\ [NoAlt EXCEPT !.root = s].root = s
             /\ [NoAlt EXCEPT !.root = s].blocks = << >>
  <2> DEFINE e == [NoAlt EXCEPT !.root = s]
  <2>1. s \in Seq(AnyBlock) /\ Len(s) <= MaxHeight + 1 /\ Len(s) \in Nat  BY ChainType
  <2>2. e = [root |-> s, blocks |-> << >>, meta |-> << >>]  BY DEF NoAlt
  <2> HIDE DEF e
  <2>3. e \in [root : Seq(AnyBlock), blocks : Seq(AnyBlock), meta : Seq(AltData)]  BY <2>1, <2>2
  <2>4. e.root = s /\ e.blocks = << >> /\ e.meta = << >>  BY <2>2
  <2>5. AltRight(e)  BY <1>1, <2>1, <2>3, <2>4 DEF AltRight
  <2> QED  BY <2>4, <2>5 DEF e
<1> QED  BY <1>2, <1>3

\* The flags of a batch may change, its tables do not.
LEMMA BatchKept ==
  ASSUME BatchRight, batch.open,
         \/ batch' = batch
         \/ \E x : batch' = [batch EXCEPT !.goes_on = x]
         \/ batch' = [batch EXCEPT !.ok = FALSE]
         \/ batch' = [batch EXCEPT !.goes_on = FALSE, !.ok = FALSE]
  PROVE  SameBatch /\ BatchRight' /\ batch'.open
<1>1. /\ batch = [open |-> TRUE, db |-> batch.db, ok |-> batch.ok, goes_on |-> batch.goes_on]
      /\ DbRight(batch.db.chain, batch.db.meta, batch.db.alt)
  BY BatchChain
<1>2. PICK x, y : batch' = [open |-> TRUE, db |-> batch.db, ok |-> x, goes_on |-> y]
  <2>1. CASE batch' = batch  BY <1>1, <2>1
  <2>2. CASE \E z : batch' = [batch EXCEPT !.goes_on = z]
    <3>1. PICK z : batch' = [batch EXCEPT !.goes_on = z]  BY <2>2
    <3>2. batch' = [open |-> TRUE, db |-> batch.db, ok |-> batch.ok, goes_on |-> z]  BY <1>1, <3>1
    <3> QED  BY <3>2
  <2>3. CASE batch' = [batch EXCEPT !.ok = FALSE]
    <3>1. batch' = [open |-> TRUE, db |-> batch.db, ok |-> FALSE, goes_on |-> batch.goes_on]
      BY <1>1, <2>3
    <3> QED  BY <3>1
  <2>4. CASE batch' = [batch EXCEPT !.goes_on = FALSE, !.ok = FALSE]
    <3>1. batch' = [open |-> TRUE, db |-> batch.db, ok |-> FALSE, goes_on |-> FALSE]  BY <1>1, <2>4
    <3> QED  BY <3>1
  <2> QED  BY <2>1, <2>2, <2>3, <2>4
<1>3. /\ batch'.open = TRUE /\ batch'.db = batch.db
      /\ batch' = [open |-> TRUE, db |-> batch'.db, ok |-> batch'.ok, goes_on |-> batch'.goes_on]
  BY <1>2
<1>4. batch.open = TRUE  BY <1>1
<1> QED  BY <1>1, <1>3, <1>4 DEF SameBatch, BatchRight

\* The phase of the job.
LEMMA JobAt ==
  ASSUME JobRight
  PROVE  /\ job = Idle => job.at = "idle"
         /\ job.at = "disconnect" => batch.open /\ Disconnecting
         /\ job.at = "connect" => batch.open /\ Connecting
         /\ job.at = "push" => batch.open /\ Pushing
         /\ job.at = "rollback" => batch.open /\ RollingBack
         /\ job.at = "restore" => batch.open /\ Restoring
         /\ job.at = "panic" => batch.open /\ Undoing("panic")
         /\ job.at = "pops" => batch.open /\ Popping
<1>1. job = Idle => job.at = "idle"  BY DEF Idle
<1>2. ASSUME Disconnecting PROVE job.at = "disconnect"
  <2>1. job = [at |-> "disconnect", off |-> job.off, was |-> job.was, cum |-> job.cum]  BY <1>2, Zenon DEF Disconnecting
  <2> QED  BY <2>1
<1>3. ASSUME Connecting PROVE job.at = "connect"
  <2>1. job = [at |-> "connect", off |-> job.off, was |-> job.was, cum |-> job.cum]  BY <1>3, Zenon DEF Connecting
  <2> QED  BY <2>1
<1>4. ASSUME Pushing PROVE job.at = "push"
  <2>1. job = [at |-> "push", off |-> job.off, cum |-> job.cum, was |-> job.was, split |-> job.split]  BY <1>4, Zenon DEF Pushing
  <2> QED  BY <2>1
<1>5. ASSUME RollingBack PROVE job.at = "rollback"
  <2>1. job = [at |-> "rollback", off |-> job.off, was |-> job.was, failed |-> job.failed]  BY <1>5, Zenon DEF RollingBack, Undoing
  <2> QED  BY <2>1
<1>6. ASSUME Restoring PROVE job.at = "restore"
  <2>1. job = [at |-> "restore", off |-> job.off, was |-> job.was, failed |-> job.failed]  BY <1>6, Zenon DEF Restoring, Undoing
  <2> QED  BY <2>1
<1>7. ASSUME Undoing("panic") PROVE job.at = "panic"
  <2>1. job = [at |-> "panic", off |-> job.off, was |-> job.was, failed |-> job.failed]  BY <1>7, Zenon DEF Undoing
  <2> QED  BY <2>1
<1>8. Popping => job.at = "pops"  BY DEF Popping
<1> QED  BY <1>1, <1>2, <1>3, <1>4, <1>5, <1>6, <1>7, <1>8 DEF JobRight

----------------------------------------------------------------------------
(* Every action keeps the invariant.                                       *)

\* A batch is opened.
LEMMA BatchOpened ==
  ASSUME Core, ~batch.open, batch' = [open |-> TRUE, db |-> Saved, ok |-> TRUE, goes_on |-> TRUE],
         UNCHANGED <<db, caches>>
  PROVE  (DbRight(chain, meta, alt) /\ BatchRight /\ CachesRight)'
<1>1. chain' = chain /\ meta' = meta /\ alt' = alt /\ dc' = dc /\ lt' = lt /\ median_weight' = median_weight
  BY DEF db, caches
<1>2. DbRight(chain, meta, alt)  BY DEF Core
<1>3. Saved.chain = chain /\ Saved.meta = meta /\ Saved.alt = alt  BY DEF Saved
<1>4. /\ batch'.open = TRUE /\ batch'.db = Saved
      /\ batch' = [open |-> TRUE, db |-> batch'.db, ok |-> batch'.ok, goes_on |-> batch'.goes_on]
  OBVIOUS
<1> HIDE DEF Saved
<1>5. BatchRight'  BY <1>2, <1>3, <1>4 DEF BatchRight
<1>6. chain \in Seq(AnyBlock)  BY <1>2, ChainType DEF DbRight
<1>7. DcFits(dc, chain) /\ Prefix(chain, chain)  BY <1>6, PrefixSelf DEF Core, CachesRight
<1>8. BatchFits(dc, chain, batch')  BY <1>3, <1>4, <1>7 DEF BatchFits
<1>9. CachesRight'  BY <1>1, <1>8 DEF CachesRight, Core
<1> QED  BY <1>1, <1>2, <1>5, <1>9

LEMMA PrepareCore ==
  ASSUME Core, prepare
  PROVE  Core'
<1>1. ~batch.open /\ batch' = [open |-> TRUE, db |-> Saved, ok |-> TRUE, goes_on |-> TRUE]
      /\ UNCHANGED <<db, caches>> /\ job' = job /\ job = Idle
  BY DEF prepare
<1>2. (DbRight(chain, meta, alt) /\ BatchRight /\ CachesRight)'  BY <1>1, BatchOpened
<1>3. JobRight'  BY <1>1 DEF JobRight
<1> QED  BY <1>2, <1>3 DEF Core

LEMMA PopBlocksCore ==
  ASSUME Core, NEW n \in 1 .. MaxPop, pop_blocks(n)
  PROVE  Core'
<1>1. ~batch.open /\ batch' = [open |-> TRUE, db |-> Saved, ok |-> TRUE, goes_on |-> TRUE]
      /\ UNCHANGED <<db, caches>> /\ job' = [at |-> "pops", left |-> least(n, Len(chain) - 1)]
  BY DEF pop_blocks
<1>2. (DbRight(chain, meta, alt) /\ BatchRight /\ CachesRight)'  BY <1>1, BatchOpened
<1>3. Len(chain) \in Nat /\ Len(chain) >= 1  BY ChainType DEF Core, DbRight
<1>4. least(n, Len(chain) - 1) \in Nat  BY <1>3 DEF least
<1>5. batch'.open = TRUE  BY <1>1
<1>6. Popping'  BY <1>1, <1>4 DEF Popping
<1>7. JobRight'  BY <1>5, <1>6 DEF JobRight
<1> QED  BY <1>2, <1>7 DEF Core

LEMMA CleanupCore ==
  ASSUME Core, cleanup
  PROVE  Core'
<1>1. /\ batch.open /\ job = Idle /\ (commit \/ abort) /\ batch' = NoBatch /\ job' = job
      /\ median_weight' = median_weight /\ lt' = lt
  BY DEF cleanup
<1>2. DbRight(batch.db.chain, batch.db.meta, batch.db.alt)  BY <1>1, BatchChain DEF Core
<1>3. DbRight(chain, meta, alt) /\ DcRight(dc) /\ DcFits(dc, chain) /\ BatchFits(dc, chain, batch)
  BY DEF Core, CachesRight
<1>4. DbRight(chain, meta, alt)' /\ DcRight(dc') /\ DcFits(dc', chain')
  <2>1. CASE commit
    <3>1. /\ chain' = chain /\ meta' = meta /\ alt' = alt
          /\ dc' = IF dc.reset THEN [dc EXCEPT !.height = 0, !.reset = FALSE] ELSE dc
      BY <2>1 DEF commit, db
    <3>2. CASE ~dc.reset  BY <3>1, <3>2, <1>3
    <3>3. CASE dc.reset
      <4>1. dc \in DcCaches  BY <1>3 DEF DcRight
      <4>2. dc' \in DcCaches /\ dc'.height = 0 /\ dc'.top = dc.top /\ dc'.next = dc.next
        BY <3>1, <3>3, <4>1 DEF DcCaches
      <4>3. ~DcWindow(dc')  BY <4>2 DEF DcWindow
      <4>4. DcRight(dc')  BY <1>3, <4>2, <4>3 DEF DcRight
      <4>5. DcFits(dc', chain')  BY <4>3 DEF DcFits
      <4> QED  BY <1>3, <3>1, <4>4, <4>5
    <3> QED  BY <3>2, <3>3
  <2>2. CASE abort
    <3>1. chain' = batch.db.chain /\ meta' = batch.db.meta /\ alt' = batch.db.alt /\ dc' = dc
      BY <2>2 DEF abort, Restore
    <3>2. DcFits(dc, batch.db.chain)  BY <1>1, <1>3 DEF BatchFits
    <3> QED  BY <1>2, <1>3, <3>1, <3>2
  <2> QED  BY <1>1, <2>1, <2>2
<1>5. BatchFits(dc', chain', batch')  BY <1>1 DEF BatchFits, NoBatch
<1>6. CachesRight'  BY <1>1, <1>4, <1>5 DEF CachesRight, Core
<1>7. BatchRight' /\ JobRight'  BY <1>1 DEF BatchRight, JobRight
<1> QED  BY <1>4, <1>6, <1>7 DEF Core

LEMMA IncomingCore ==
  ASSUME Core, NEW b \in Block, incoming(b)
  PROVE  Core'
<1>1. Handling /\ alt' = alt /\ job' = job  BY DEF incoming
<1>2. batch.open /\ job = Idle  BY <1>1 DEF Handling
<1>3. b \in AnyBlock  BY DEF AnyBlock
<1>4. chain \in Chains /\ Exact(meta, chain) /\ AltRight(alt) /\ BatchRight /\ CachesRight
  BY DEF Core, DbRight
<1>5. JobRight'  BY <1>1, <1>2 DEF JobRight
<1>6. CASE Len(chain) <= MaxHeight /\ add_block(b) /\ UNCHANGED batch
  <2>1. SameBatch /\ BatchRight'  BY <1>2, <1>4, <1>6, BatchKept
  <2>2. chain' \in Chains /\ Exact(meta, chain)' /\ CachesRight'  BY <1>3, <1>4, <1>6, <2>1, AddBlock
  <2> QED  BY <1>1, <1>4, <1>5, <2>1, <2>2 DEF Core, DbRight
<1>7. CASE \/ refuse_block(b) /\ batch' = [batch EXCEPT !.goes_on = FALSE]
           \/ add_block_throws(b) /\ batch' = [batch EXCEPT !.goes_on = FALSE, !.ok = FALSE]
  <2>1. SameBatch /\ BatchRight'  BY <1>2, <1>4, <1>7, BatchKept
  <2>2. chain' = chain /\ meta' = meta /\ CachesRight'  BY <1>3, <1>4, <1>7, <2>1, KeptOut
  <2> QED  BY <1>1, <1>4, <1>5, <2>1, <2>2 DEF Core, DbRight
<1> QED  BY <1>6, <1>7 DEF incoming

LEMMA AlternativeCore ==
  ASSUME Core, NEW b \in Block, NEW a, AltRight(a), a.root # << >>, alternative(a, b)
  PROVE  Core'
<1> DEFINE longer == extend_alt(a, b)
<1>1. /\ Handling /\ connected(a) /\ Len(a.root) + Len(a.blocks) <= MaxHeight
      /\ dc' = reset_difficulties(dc) /\ chain' = chain /\ meta' = meta
      /\ median_weight' = median_weight /\ lt' = lt
  BY DEF alternative
<1>2. batch.open /\ job = Idle  BY <1>1 DEF Handling
<1>3. b \in AnyBlock  BY DEF AnyBlock
<1>4. chain \in Chains /\ Exact(meta, chain) /\ AltRight(alt) /\ BatchRight /\ CachesRight
  BY DEF Core, DbRight
<1>5. CachesRight'  BY <1>1, <1>4, OnlyReset
<1>6. chain \in Seq(AnyBlock) /\ Len(chain) \in Nat /\ Len(chain) <= MaxHeight + 1  BY <1>4, ChainType
<1>7. a.root \in Seq(AnyBlock)  BY DEF AltRight
<1>8. Prefix(a.root, chain)  BY <1>1, <1>6, <1>7 DEF connected, Prefix
<1>9. AltRight(longer) /\ longer.root = a.root /\ longer.blocks = Append(a.blocks, b)
  BY <1>1, <1>3, <1>4, <1>6, <1>8, ExtendAlt
<1>10. \/ batch' = [batch EXCEPT !.goes_on = FALSE] /\ alt' = alt /\ job' = job
       \/ /\ alt' = longer /\ batch' = batch
          /\ job' = IF last(meta).cum < last(longer.meta).cum
                    THEN [at |-> "disconnect", off |-> << >>, was |-> chain, cum |-> last(meta).cum]
                    ELSE Idle
  BY DEF alternative
<1> HIDE DEF longer
<1>11. SameBatch /\ BatchRight' /\ batch'.open  BY <1>2, <1>4, <1>10, BatchKept
<1>12. AltRight(alt')  BY <1>4, <1>9, <1>10
<1>13. JobRight'
  <2>1. CASE job' = Idle  BY <2>1 DEF JobRight
  <2>2. CASE /\ alt' = longer /\ last(meta).cum < last(longer.meta).cum
             /\ job' = [at |-> "disconnect", off |-> << >>, was |-> chain, cum |-> last(meta).cum]
    <3>1. job'.off = << >> /\ job'.was = chain /\ job'.cum = last(meta).cum
          /\ job' = [at |-> "disconnect", off |-> job'.off, was |-> job'.was, cum |-> job'.cum]
      BY <2>2
    <3>2. chain \o << >> = chain /\ << >> \in Seq(AnyBlock)  BY <1>6
    <3>3. longer.blocks # << >>
      <4>1. a.blocks \in Seq(AnyBlock)  BY DEF AltRight
      <4>2. Len(Append(a.blocks, b)) = Len(a.blocks) + 1 /\ Len(a.blocks) \in Nat  BY <4>1, <1>3
      <4>3. Append(a.blocks, b) # << >>
        <5> DEFINE u == Append(a.blocks, b)
        <5>1. Len(u) # 0  BY <4>2
        <5> HIDE DEF u
        <5>2. u # << >>  BY <5>1
        <5> QED  BY <5>2 DEF u
      <4> QED  BY <4>3, <1>9
    <3>4. last(longer.meta).cum > last(meta).cum
      <4>1. longer.meta \in Seq(AltData) /\ Len(longer.meta) = Len(longer.blocks)
            /\ longer.blocks \in Seq(AnyBlock)
        BY <1>9 DEF AltRight
      <4>2. longer.meta # << >>  BY <4>1, <3>3
      <4>3. last(longer.meta).cum \in Int
        <5>1. last(longer.meta) \in AltData  BY <4>1, <4>2, FrontLast
        <5> QED  BY <5>1 DEF AltData
      <4>4. meta \in Seq(Data) /\ Len(meta) = Len(chain)  BY <1>4 DEF Exact
      <4>5. meta # << >>  BY <4>4, <1>4, ChainType
      <4>6. last(meta).cum \in Int  BY <4>4, <4>5, LastData
      <4> QED  BY <2>2, <4>3, <4>6
    <3>5. Disconnecting'
      BY <1>1, <1>6, <1>8, <1>9, <2>2, <3>1, <3>2, <3>3, <3>4 DEF Disconnecting
    <3> QED  BY <1>11, <3>5 DEF JobRight
  <2> QED  BY <1>2, <1>10, <2>1, <2>2
<1> QED  BY <1>1, <1>4, <1>5, <1>11, <1>12, <1>13 DEF Core, DbRight

LEMMA AlternativeBlockCore ==
  ASSUME Core, NEW b \in Block, alternative_block(b)
  PROVE  Core'
<1>1. chain \in Chains /\ AltRight(alt)  BY DEF Core, DbRight
<1>2. CASE alt.blocks # << >> /\ alternative(alt, b)
  <2>1. alt.root # << >>  BY <1>1, <1>2 DEF AltRight
  <2> QED  BY <1>1, <1>2, <2>1, AlternativeCore
<1>3. CASE \E h \in 1 .. (Len(chain) - 1) :
             b # chain[h + 1] /\ alternative([NoAlt EXCEPT !.root = SubSeq(chain, 1, h)], b)
  <2>1. PICK h \in 1 .. (Len(chain) - 1) : alternative([NoAlt EXCEPT !.root = SubSeq(chain, 1, h)], b)
    BY <1>3
  <2> DEFINE s == SubSeq(chain, 1, h)
             a == [NoAlt EXCEPT !.root = s]
  <2>2. chain \in Seq(AnyBlock) /\ chain[1] = Genesis /\ Len(chain) \in Nat /\ Len(chain) <= MaxHeight + 1
    BY <1>1, ChainType
  <2>3. h \in Nat /\ h >= 1 /\ h <= Len(chain)  BY <2>2
  <2>4. s \in Seq(AnyBlock) /\ Len(s) = h /\ s[1] = chain[1]  BY <2>2, <2>3
  <2> HIDE DEF s
  <2>5. s # << >> /\ Len(s) <= MaxHeight + 1  BY <2>2, <2>3, <2>4, BoundsAssumption
  <2>6. s \in Chains  BY <2>2, <2>4, <2>5 DEF Chains
  <2>7. AltRight(a) /\ a.root = s  BY <2>6, NoAltRight
  <2>8. alternative(a, b)  BY <2>1 DEF s
  <2> HIDE DEF a
  <2> QED  BY <2>5, <2>7, <2>8, AlternativeCore
<1> QED  BY <1>2, <1>3 DEF alternative_block

LEMMA StrandedCore ==
  ASSUME Core, NEW b \in Block, stranded(b)
  PROVE  Core'
<1>1. /\ Handling /\ dc' = reset_difficulties(dc) /\ chain' = chain /\ meta' = meta /\ alt' = alt
      /\ median_weight' = median_weight /\ lt' = lt /\ job' = job
      /\ \E x : batch' = [batch EXCEPT !.goes_on = x]
  BY DEF stranded, db
<1>2. batch.open /\ job = Idle  BY <1>1 DEF Handling
<1>3. CachesRight'  BY <1>1, OnlyReset DEF Core
<1>4. BatchRight'  BY <1>1, <1>2, BatchKept DEF Core
<1>5. JobRight'  BY <1>1, <1>2 DEF JobRight
<1> QED  BY <1>1, <1>3, <1>4, <1>5 DEF Core, DbRight

LEMMA AskCore ==
  ASSUME Core, ask_difficulty
  PROVE  Core'
<1> DEFINE view == Committed
           d == difficulty_cache(dc, view.chain, view.meta)
<1>1. /\ job = Idle /\ dc' = d /\ chain' = chain /\ meta' = meta /\ alt' = alt
      /\ median_weight' = median_weight /\ lt' = lt /\ batch' = batch /\ job' = job
  BY DEF ask_difficulty, db
<1>2. /\ chain \in Chains /\ Exact(meta, chain) /\ BatchRight /\ CachesRight
      /\ DcRight(dc) /\ DcFits(dc, chain) /\ BatchFits(dc, chain, batch)
  BY DEF Core, DbRight, CachesRight
<1>3. CASE ~batch.open
  <2>1. view.chain = chain /\ view.meta = meta  BY <1>3 DEF Saved, Committed
  <2>2. DcRight(d) /\ DcFits(d, chain)  BY <1>2, <2>1, AskedHere
  <2>3. CachesRight'  BY <1>1, <1>2, <1>3, <2>2 DEF CachesRight, BatchFits
  <2> QED  BY <1>1, <2>3 DEF Core, DbRight, BatchRight, JobRight
<1>4. CASE batch.open
  <2> DEFINE c == batch.db.chain
             m == batch.db.meta
  <2>1. view.chain = c /\ view.meta = m  BY <1>4 DEF Committed
  <2>2. c \in Chains /\ Exact(m, c)  BY <1>2, <1>4, BatchChain DEF DbRight
  <2>3. chain \in Seq(AnyBlock) /\ c \in Seq(AnyBlock) /\ c # << >> /\ Len(c) \in Nat
    BY <1>2, <2>2, ChainType
  <2>4. DcFits(dc, c) /\ (dc.reset \/ Prefix(c, chain))  BY <1>2, <1>4 DEF BatchFits
  <2>5. DcAsked(dc, d, c)  BY <1>2, <2>1, <2>2, <2>3, <2>4, DifficultyCache
  <2> HIDE DEF d
  <2>6. DcRight(d) /\ d.top = c /\ d.reset = dc.reset  BY <2>5 DEF DcAsked
  <2>7. DcFits(d, c)  BY <2>3, <2>6, FitsTop
  <2>8. DcFits(d, chain)  BY <2>4, <2>6 DEF DcFits, DcWindow
  <2>9. BatchFits(d, chain, batch)  BY <2>4, <2>6, <2>7 DEF BatchFits
  <2>10. CachesRight'  BY <1>1, <1>2, <2>6, <2>8, <2>9 DEF CachesRight
  <2> QED  BY <1>1, <2>10 DEF Core, DbRight, BatchRight, JobRight
<1> QED  BY <1>3, <1>4

LEMMA DisconnectCore ==
  ASSUME Core, disconnect
  PROVE  Core'
<1>1. /\ job.at = "disconnect" /\ chain # alt.root /\ pop_block
      /\ job' = [job EXCEPT !.off = <<last(chain)>> \o @] /\ alt' = alt /\ batch' = batch
  BY DEF disconnect
<1>2. /\ chain \in Chains /\ Exact(meta, chain) /\ AltRight(alt) /\ BatchRight /\ CachesRight
      /\ batch.open /\ Disconnecting
  BY <1>1, JobAt DEF Core, DbRight
<1>3. chain' \in Chains /\ Exact(meta, chain)' /\ CachesRight' /\ chain' = front(chain)
  BY <1>1, <1>2, PopBlock
<1>4. chain \in Seq(AnyBlock) /\ chain # << >> /\ alt.root \in Seq(AnyBlock)
  BY <1>2, ChainType DEF AltRight
<1>5. /\ alt.blocks # << >> /\ Prefix(alt.root, chain) /\ last(alt.meta).cum > job.cum
      /\ job.off \in Seq(AnyBlock) /\ job.was = chain \o job.off /\ Len(job.was) <= MaxHeight + 1
      /\ job = [at |-> "disconnect", off |-> job.off, was |-> job.was, cum |-> job.cum]
  BY <1>2 DEF Disconnecting
<1> DEFINE o == <<last(chain)>> \o job.off
<1>6. front(chain) \o o = chain \o job.off /\ o \in Seq(AnyBlock)  BY <1>4, <1>5, TakeOff
<1>7. job' = [at |-> "disconnect", off |-> o, was |-> job.was, cum |-> job.cum]  BY <1>1, <1>5
<1> HIDE DEF o
<1>8. /\ job'.off = o /\ job'.was = job.was /\ job'.cum = job.cum
      /\ job' = [at |-> "disconnect", off |-> job'.off, was |-> job'.was, cum |-> job'.cum]
  BY <1>7
<1>9. Prefix(alt.root, front(chain))  BY <1>1, <1>4, <1>5, PrefixFront
<1>10. Disconnecting'  BY <1>1, <1>3, <1>5, <1>6, <1>8, <1>9 DEF Disconnecting
<1>11. BatchRight' /\ JobRight'  BY <1>1, <1>2, <1>10 DEF BatchRight, JobRight
<1> QED  BY <1>1, <1>2, <1>3, <1>11 DEF Core, DbRight

\* The limit and the long term cache are set for the current chain.
LEMMA LimitCaches ==
  ASSUME chain \in Chains, Exact(meta, chain), CachesRight, update_limit(chain, meta), chain' = chain,
         \/ dc' = dc /\ (batch' = batch \/ batch' = NoBatch)
         \/ dc' = reset_difficulties(dc)
  PROVE  CachesRight' /\ median_weight' = RuleMedian(chain, meta)
<1>1. LtRight(lt') /\ median_weight' \in Nat /\ median_weight' = RuleMedian(chain, meta)
  BY LimitSet DEF CachesRight
<1>2. DcRight(dc') /\ DcFits(dc', chain') /\ BatchFits(dc', chain', batch')
  <2>1. CASE dc' = dc /\ batch' = batch  BY <2>1 DEF CachesRight
  <2>2. CASE dc' = dc /\ batch' = NoBatch  BY <2>2 DEF CachesRight, BatchFits, NoBatch
  <2>3. CASE dc' = reset_difficulties(dc)  BY <2>3, ResetRight DEF CachesRight
  <2> QED  BY <2>1, <2>2, <2>3
<1> QED  BY <1>1, <1>2 DEF CachesRight

\* The end of the disconnecting loop computes the weight limit again.
LEMMA DisconnectedCore ==
  ASSUME Core, disconnected
  PROVE  Core' /\ Connecting' /\ median_weight' = RuleMedian(chain, meta)
<1>1. /\ job.at = "disconnect" /\ chain = alt.root /\ update_limit(chain, meta)
      /\ job' = [job EXCEPT !.at = "connect"] /\ chain' = chain /\ meta' = meta /\ alt' = alt
      /\ dc' = dc /\ batch' = batch
  BY DEF disconnected, db
<1>2. /\ chain \in Chains /\ Exact(meta, chain) /\ AltRight(alt) /\ BatchRight /\ CachesRight
      /\ batch.open /\ Disconnecting
  BY <1>1, JobAt DEF Core, DbRight
<1>3. CachesRight' /\ median_weight' = RuleMedian(chain, meta)  BY <1>1, <1>2, LimitCaches
<1>4. /\ alt.blocks # << >> /\ Prefix(alt.root, chain) /\ last(alt.meta).cum > job.cum
      /\ job.off \in Seq(AnyBlock) /\ job.was = chain \o job.off /\ Len(job.was) <= MaxHeight + 1
      /\ job = [at |-> "disconnect", off |-> job.off, was |-> job.was, cum |-> job.cum]
  BY <1>2 DEF Disconnecting
<1>5. job' = [at |-> "connect", off |-> job.off, was |-> job.was, cum |-> job.cum]  BY <1>1, <1>4
<1>6. /\ job'.off = job.off /\ job'.was = job.was /\ job'.cum = job.cum
      /\ job' = [at |-> "connect", off |-> job'.off, was |-> job'.was, cum |-> job'.cum]
  BY <1>5
<1>7. alt.root \in Seq(AnyBlock) /\ alt.blocks \in Seq(AnyBlock) /\ Len(alt.blocks) \in Nat
      /\ Len(alt.root) \in Nat
  BY <1>2 DEF AltRight
<1>8. 0 \in 0 .. Len(alt.blocks) /\ Len(chain) - Len(alt.root) = 0  BY <1>1, <1>7
<1>9. Built(alt.root, alt.blocks, 0) = alt.root  BY <1>7, <1>8, PutOn
<1>10. done' = 0  BY <1>1, <1>8 DEF done
<1>11. Connecting'
  BY <1>1, <1>4, <1>6, <1>8, <1>9, <1>10 DEF Connecting
<1>12. BatchRight' /\ JobRight'  BY <1>1, <1>2, <1>11 DEF BatchRight, JobRight
<1> QED  BY <1>1, <1>2, <1>3, <1>11, <1>12 DEF Core, DbRight

\* The place of the next block while blocks are put back on a root.
LEMMA NextOn ==
  ASSUME chain \in Chains, NEW root \in Seq(AnyBlock), NEW bs \in Seq(AnyBlock),
         NEW k, k = Len(chain) - Len(root), k \in 0 .. Len(bs), chain = Built(root, bs, k), k < Len(bs),
         Len(root) + Len(bs) <= MaxHeight + 1
  PROVE  /\ Len(chain) <= MaxHeight /\ bs[k + 1] \in AnyBlock
         /\ Append(chain, bs[k + 1]) = Built(root, bs, k + 1)
         /\ Len(Append(chain, bs[k + 1])) - Len(root) = k + 1 /\ k + 1 \in 0 .. Len(bs)
<1>1. chain \in Seq(AnyBlock) /\ Len(chain) \in Nat /\ Len(root) \in Nat /\ Len(bs) \in Nat
  BY ChainType
<1>2. bs[k + 1] \in AnyBlock /\ Append(chain, bs[k + 1]) = Built(root, bs, k + 1)
  <2>1. \A j \in 0 .. Len(bs) : j < Len(bs) =>
          bs[j + 1] \in AnyBlock /\ Append(Built(root, bs, j), bs[j + 1]) = Built(root, bs, j + 1)
    BY PutOn, Zenon
  <2> QED  BY <2>1, Zenon
<1>3. Len(Append(chain, bs[k + 1])) = Len(chain) + 1  BY <1>1, <1>2
<1>4. Len(chain) <= MaxHeight /\ k + 1 \in 0 .. Len(bs) /\ Len(chain) + 1 - Len(root) = k + 1
  BY <1>1, BoundsAssumption
<1> QED  BY <1>2, <1>3, <1>4

LEMMA ConnectCore ==
  ASSUME Core, connect
  PROVE  Core'
<1> DEFINE b == alt.blocks[done + 1]
<1>1. job.at = "connect" /\ done < Len(alt.blocks) /\ alt' = alt  BY DEF connect
<1>2. /\ chain \in Chains /\ Exact(meta, chain) /\ AltRight(alt) /\ BatchRight /\ CachesRight
      /\ batch.open /\ Connecting
  BY <1>1, JobAt DEF Core, DbRight
<1>3. /\ alt.root \in Seq(AnyBlock) /\ alt.blocks \in Seq(AnyBlock) /\ Len(alt.blocks) \in Nat
      /\ Len(alt.root) + Len(alt.blocks) <= MaxHeight + 1 /\ (alt.blocks # << >> => alt.root # << >>)
  BY <1>2 DEF AltRight
<1>4. /\ alt.blocks # << >> /\ last(alt.meta).cum > job.cum
      /\ done \in 0 .. Len(alt.blocks) /\ chain = Built(alt.root, alt.blocks, done)
      /\ job.off \in Seq(AnyBlock) /\ job.was = alt.root \o job.off /\ Len(job.was) <= MaxHeight + 1
      /\ job = [at |-> "connect", off |-> job.off, was |-> job.was, cum |-> job.cum]
  BY <1>2 DEF Connecting
<1>5. done = Len(chain) - Len(alt.root)  BY DEF done
<1>6. /\ Len(chain) <= MaxHeight /\ b \in AnyBlock
      /\ Append(chain, b) = Built(alt.root, alt.blocks, done + 1)
      /\ Len(Append(chain, b)) - Len(alt.root) = done + 1 /\ done + 1 \in 0 .. Len(alt.blocks)
  BY <1>1, <1>2, <1>3, <1>4, <1>5, NextOn
<1>7. Prefix(alt.root, chain)  BY <1>3, <1>4, PutOn
<1>8. CASE add_block(b) /\ UNCHANGED <<batch, job>>
  <2>1. SameBatch /\ BatchRight' /\ batch'.open  BY <1>2, <1>8, BatchKept
  <2>2. chain' \in Chains /\ Exact(meta, chain)' /\ CachesRight' /\ chain' = Append(chain, b)
    BY <1>2, <1>6, <1>8, <2>1, AddBlock
  <2>3. done' = done + 1  BY <1>1, <1>6, <2>2 DEF done
  <2>4. Connecting'  BY <1>1, <1>4, <1>6, <1>8, <2>2, <2>3 DEF Connecting
  <2>5. JobRight'  BY <2>1, <2>4 DEF JobRight
  <2> QED  BY <1>1, <1>2, <2>1, <2>2, <2>5 DEF Core, DbRight
<1>9. CASE /\ \/ refuse_block(b) /\ batch' = [batch EXCEPT !.goes_on = FALSE]
              \/ add_block_throws(b) /\ batch' = [batch EXCEPT !.goes_on = FALSE, !.ok = FALSE]
           /\ job' = [at |-> "rollback", off |-> job.off, was |-> job.was, failed |-> done + 1]
  <2>1. SameBatch /\ BatchRight' /\ batch'.open  BY <1>2, <1>9, BatchKept
  <2>2. chain' = chain /\ meta' = meta /\ CachesRight'  BY <1>2, <1>6, <1>9, <2>1, KeptOut
  <2>3. /\ job'.off = job.off /\ job'.was = job.was /\ job'.failed = done + 1
        /\ job' = [at |-> "rollback", off |-> job'.off, was |-> job'.was, failed |-> job'.failed]
    BY <1>9
  <2>4. done + 1 \in 1 .. Len(alt.blocks)  BY <1>1, <1>3, <1>4
  <2>5. Undoing("rollback")'  BY <1>1, <1>3, <1>4, <2>3, <2>4 DEF Undoing
  <2>6. RollingBack'  BY <1>1, <1>7, <2>2, <2>5 DEF RollingBack
  <2>7. JobRight'  BY <2>1, <2>6 DEF JobRight
  <2> QED  BY <1>1, <1>2, <2>1, <2>2, <2>7 DEF Core, DbRight
<1> QED  BY <1>8, <1>9 DEF connect

\* A branch that was connected has the work it promised.
LEMMA BranchWork ==
  ASSUME chain \in Chains, Exact(meta, chain), AltRight(alt), alt.blocks # << >>,
         chain = alt.root \o alt.blocks
  PROVE  last(meta).cum = last(alt.meta).cum
<1> DEFINE n == Len(alt.blocks)
           r == Len(alt.root)
           M == RuleMeta(chain)
<1>1. /\ alt.root \in Seq(AnyBlock) /\ alt.blocks \in Seq(AnyBlock) /\ alt.meta \in Seq(AltData)
      /\ Len(alt.meta) = n /\ \A i \in 1 .. n : alt.meta[i].cum = RuleMeta(alt.root \o alt.blocks)[r + i].cum
  BY DEF AltRight
<1>2. n \in Nat /\ n >= 1 /\ r \in Nat  BY <1>1
<1>3. chain \in Seq(AnyBlock)  BY ChainType
<1>4. Joined(alt.root \o alt.blocks, alt.root, alt.blocks, AnyBlock)  BY <1>1, JoinedSeq
<1>5. Len(chain) = r + n  BY <1>4 DEF Joined
<1>6. meta \in Seq(Data) /\ Len(meta) = r + n  BY <1>5 DEF Exact
<1> HIDE DEF n, r
<1>7. last(meta) = meta[r + n] /\ last(alt.meta) = alt.meta[n]  BY <1>1, <1>6 DEF last
<1>8. r + n \in 1 .. Len(chain) /\ n \in 1 .. n  BY <1>2, <1>5
<1>9. meta[r + n].cum = M[r + n].cum  BY <1>3, <1>8, ExactAt
<1>10. alt.meta[n].cum = M[r + n].cum  BY <1>1, <1>8
<1> QED  BY <1>7, <1>9, <1>10

LEMMA ConnectedAllCore ==
  ASSUME Core, connected_all
  PROVE  Core'
<1>1. /\ job.at = "connect" /\ done = Len(alt.blocks)
      /\ alt' = [alt EXCEPT !.blocks = << >>, !.meta = << >>]
      /\ job' = [at |-> "push", off |-> job.off, cum |-> job.cum, was |-> job.was, split |-> Len(alt.root)]
      /\ chain' = chain /\ meta' = meta /\ batch' = batch
      /\ dc' = dc /\ lt' = lt /\ median_weight' = median_weight
  BY DEF connected_all, caches
<1>2. /\ chain \in Chains /\ Exact(meta, chain) /\ AltRight(alt) /\ BatchRight /\ CachesRight
      /\ batch.open /\ Connecting
  BY <1>1, JobAt DEF Core, DbRight
<1>3. /\ alt.root \in Seq(AnyBlock) /\ alt.blocks \in Seq(AnyBlock) /\ Len(alt.blocks) \in Nat
      /\ alt.meta \in Seq(AltData) /\ (alt.blocks # << >> => alt.root # << >>)
  BY <1>2 DEF AltRight
<1>4. /\ alt.blocks # << >> /\ last(alt.meta).cum > job.cum
      /\ done \in 0 .. Len(alt.blocks) /\ chain = Built(alt.root, alt.blocks, done)
      /\ job.off \in Seq(AnyBlock) /\ job.was = alt.root \o job.off /\ Len(job.was) <= MaxHeight + 1
  BY <1>2 DEF Connecting
<1>5. chain = alt.root \o alt.blocks /\ Prefix(alt.root, chain)  BY <1>1, <1>3, <1>4, PutOn
<1>6. last(meta).cum > job.cum  BY <1>2, <1>4, <1>5, BranchWork
<1>7. 0 \in 0 .. Len(alt.blocks) /\ SubSeq(alt.blocks, 1, 0) = << >> /\ SubSeq(alt.meta, 1, 0) = << >>
  BY <1>3
<1>8. alt' = [alt EXCEPT !.blocks = SubSeq(@, 1, 0), !.meta = SubSeq(@, 1, 0)]  BY <1>1, <1>7
<1>9. AltRight(alt') /\ alt'.root = alt.root /\ Len(alt'.blocks) = 0  BY <1>2, <1>7, <1>8, ShorterAlt
<1>10. Len(job.was) = Len(alt.root) + Len(job.off) /\ Len(alt.root) \in Nat /\ Len(job.off) \in Nat
  BY <1>3, <1>4
<1>11. Len(alt.root) + 0 + Len(job.off) <= MaxHeight + 1
  <2>1. \A x, y \in Nat : x + 0 + y = x + y  OBVIOUS
  <2> QED  BY <1>4, <1>10, <2>1
<1>12. /\ job'.off = job.off /\ job'.cum = job.cum /\ job'.split = Len(alt.root)
       /\ job' = [at |-> "push", off |-> job'.off, cum |-> job'.cum, was |-> job'.was, split |-> job'.split]
  BY <1>1
<1>13. Pushing'
  BY <1>1, <1>3, <1>4, <1>5, <1>6, <1>9, <1>11, <1>12 DEF Pushing
<1>14. BatchRight' /\ JobRight' /\ CachesRight'
  BY <1>1, <1>2, <1>13 DEF BatchRight, JobRight, CachesRight
<1> QED  BY <1>1, <1>2, <1>9, <1>14 DEF Core, DbRight

LEMMA PushCore ==
  ASSUME Core, push_alternative
  PROVE  Core'
<1>1. /\ job.at = "push" /\ job.off # << >>
      /\ alt' = extend_alt(alt, Head(job.off)) \/ alt' = alt
      /\ job' = [job EXCEPT !.off = Tail(@)] /\ dc' = reset_difficulties(dc)
      /\ chain' = chain /\ meta' = meta /\ batch' = batch /\ lt' = lt /\ median_weight' = median_weight
  BY DEF push_alternative
<1>2. /\ chain \in Chains /\ Exact(meta, chain) /\ AltRight(alt) /\ BatchRight /\ CachesRight
      /\ batch.open /\ Pushing
  BY <1>1, JobAt DEF Core, DbRight
<1>3. /\ alt.root \in Seq(AnyBlock) /\ alt.blocks \in Seq(AnyBlock) /\ Len(alt.blocks) \in Nat
      /\ Len(alt.root) \in Nat
  BY <1>2 DEF AltRight
<1>4. /\ alt.root # << >> /\ Prefix(alt.root, chain) /\ last(meta).cum > job.cum
      /\ job.off \in Seq(AnyBlock) /\ job.split = Len(alt.root)
      /\ Len(alt.root) + Len(alt.blocks) + Len(job.off) <= MaxHeight + 1
      /\ job = [at |-> "push", off |-> job.off, cum |-> job.cum, was |-> job.was, split |-> job.split]
  BY <1>2 DEF Pushing
<1> DEFINE o == job.off
<1>5. Head(o) \in AnyBlock /\ Tail(o) \in Seq(AnyBlock) /\ Len(Tail(o)) = Len(o) - 1 /\ Len(o) \in Nat
      /\ Len(o) >= 1
  BY <1>1, <1>4
<1>6. chain \in Seq(AnyBlock)  BY <1>2, ChainType
<1>7. Len(alt.root) + Len(alt.blocks) <= MaxHeight
  <2>1. \A x, y, z, h \in Nat : x + y + z <= h + 1 /\ z >= 1 => x + y <= h  OBVIOUS
  <2>2. MaxHeight \in Nat  BY BoundsAssumption
  <2> QED  BY <1>3, <1>4, <1>5, <2>1, <2>2
<1>8. AltRight(alt') /\ alt'.root = alt.root
      /\ (alt'.blocks = alt.blocks \/ alt'.blocks = Append(alt.blocks, Head(o)))
  BY <1>1, <1>2, <1>4, <1>5, <1>6, <1>7, ExtendAlt
<1>9. Len(alt'.blocks) \in Nat /\ Len(alt'.blocks) <= Len(alt.blocks) + 1
  BY <1>3, <1>5, <1>8
<1>10. job' = [at |-> "push", off |-> Tail(o), cum |-> job.cum, was |-> job.was, split |-> job.split]
  BY <1>1, <1>4
<1> HIDE DEF o
<1>11. /\ job'.off = Tail(o) /\ job'.cum = job.cum /\ job'.split = job.split
       /\ job' = [at |-> "push", off |-> job'.off, cum |-> job'.cum, was |-> job'.was, split |-> job'.split]
  BY <1>10
<1>12. Len(alt.root) + Len(alt'.blocks) + Len(Tail(o)) <= MaxHeight + 1
  <2>1. Len(alt.root) + Len(alt.blocks) + Len(o) <= MaxHeight + 1  BY <1>4 DEF o
  <2>2. MaxHeight \in Nat  BY BoundsAssumption
  <2>3. \A x, y, z, h, u, v \in Nat :
          x + y + z <= h + 1 /\ u <= y + 1 /\ v = z - 1 => x + u + v <= h + 1
    OBVIOUS
  <2>4. Len(Tail(o)) \in Nat  BY <1>5
  <2> QED  BY <2>1, <2>2, <2>3, <2>4, <1>3, <1>5, <1>9
<1>13. Pushing'
  BY <1>1, <1>4, <1>5, <1>8, <1>11, <1>12 DEF Pushing
<1>14. CachesRight'  BY <1>1, <1>2, OnlyReset
<1>15. BatchRight' /\ JobRight'  BY <1>1, <1>2, <1>13 DEF BatchRight, JobRight
<1> QED  BY <1>1, <1>2, <1>8, <1>14, <1>15 DEF Core, DbRight

LEMMA SwitchedCore ==
  ASSUME Core, switched
  PROVE  Core'
<1>1. /\ job' = Idle /\ chain' = chain /\ meta' = meta /\ alt' = alt /\ batch' = batch
      /\ dc' = dc /\ lt' = lt /\ median_weight' = median_weight
  BY DEF switched, db
<1> QED  BY <1>1 DEF Core, DbRight, BatchRight, CachesRight, JobRight

LEMMA RollbackCore ==
  ASSUME Core, rollback
  PROVE  Core'
<1>1. /\ job.at = "rollback" /\ chain # alt.root /\ pop_block
      /\ job' = job /\ alt' = alt /\ batch' = batch
  BY DEF rollback
<1>2. /\ chain \in Chains /\ Exact(meta, chain) /\ AltRight(alt) /\ BatchRight /\ CachesRight
      /\ batch.open /\ RollingBack
  BY <1>1, JobAt DEF Core, DbRight
<1>3. chain' \in Chains /\ Exact(meta, chain)' /\ CachesRight' /\ chain' = front(chain)
  BY <1>1, <1>2, PopBlock
<1>4. chain \in Seq(AnyBlock) /\ chain # << >> /\ alt.root \in Seq(AnyBlock)
  BY <1>2, ChainType DEF AltRight
<1>5. Prefix(alt.root, front(chain))  BY <1>1, <1>2, <1>4, PrefixFront DEF RollingBack
<1>6. RollingBack'  BY <1>1, <1>2, <1>3, <1>5 DEF RollingBack, Undoing
<1>7. BatchRight' /\ JobRight'  BY <1>1, <1>2, <1>6 DEF BatchRight, JobRight
<1> QED  BY <1>1, <1>2, <1>3, <1>7 DEF Core, DbRight

\* The job goes on to another phase.
LEMMA UndoingOn ==
  ASSUME NEW at, NEW next, Undoing(at), job' = [job EXCEPT !.at = next], alt' = alt
  PROVE  Undoing(next)' /\ job'.off = job.off /\ job'.was = job.was
<1>1. job = [at |-> at, off |-> job.off, was |-> job.was, failed |-> job.failed]  BY DEF Undoing
<1>2. job' = [at |-> next, off |-> job.off, was |-> job.was, failed |-> job.failed]  BY <1>1
<1>3. /\ job'.off = job.off /\ job'.was = job.was /\ job'.failed = job.failed
      /\ job' = [at |-> next, off |-> job'.off, was |-> job'.was, failed |-> job'.failed]
  BY <1>2
<1> QED  BY <1>3 DEF Undoing

\* The end of a rollback computes the weight limit again.
LEMMA RolledBackCore ==
  ASSUME Core, rolled_back
  PROVE  Core' /\ median_weight' = RuleMedian(chain, meta)
<1>1. /\ job.at = "rollback" /\ chain = alt.root /\ update_limit(chain, meta)
      /\ job' = [job EXCEPT !.at = "restore"] /\ dc' = reset_difficulties(dc)
      /\ chain' = chain /\ meta' = meta /\ alt' = alt /\ batch' = batch
  BY DEF rolled_back, db
<1>2. /\ chain \in Chains /\ Exact(meta, chain) /\ AltRight(alt) /\ BatchRight /\ CachesRight
      /\ batch.open /\ RollingBack
  BY <1>1, JobAt DEF Core, DbRight
<1>3. CachesRight' /\ median_weight' = RuleMedian(chain, meta)  BY <1>1, <1>2, LimitCaches
<1>4. Undoing("rollback")  BY <1>2 DEF RollingBack
<1>5. Undoing("restore")' /\ job'.off = job.off  BY <1>1, <1>4, UndoingOn
<1>6. /\ alt.root \in Seq(AnyBlock) /\ job.off \in Seq(AnyBlock) /\ Len(job.off) \in Nat
      /\ Len(alt.root) \in Nat
  BY <1>2, <1>4 DEF AltRight, Undoing
<1>7. 0 \in 0 .. Len(job.off) /\ Len(chain) - Len(alt.root) = 0  BY <1>1, <1>6
<1>8. Built(alt.root, job.off, 0) = alt.root  BY <1>6, <1>7, PutOn
<1>9. done' = 0  BY <1>1, <1>7 DEF done
<1>10. Restoring'  BY <1>1, <1>5, <1>7, <1>8, <1>9 DEF Restoring
<1>11. BatchRight' /\ JobRight'  BY <1>1, <1>2, <1>10 DEF BatchRight, JobRight
<1> QED  BY <1>1, <1>2, <1>3, <1>11 DEF Core, DbRight

LEMMA RestoreCore ==
  ASSUME Core, restore
  PROVE  Core'
<1> DEFINE b == job.off[done + 1]
<1>1. job.at = "restore" /\ done < Len(job.off) /\ alt' = alt  BY DEF restore
<1>2. /\ chain \in Chains /\ Exact(meta, chain) /\ AltRight(alt) /\ BatchRight /\ CachesRight
      /\ batch.open /\ Restoring /\ Undoing("restore")
  BY <1>1, JobAt DEF Core, DbRight, Restoring
<1>3. /\ alt.root \in Seq(AnyBlock) /\ job.off \in Seq(AnyBlock) /\ job.was = alt.root \o job.off
      /\ Len(job.was) <= MaxHeight + 1
  BY <1>2 DEF AltRight, Undoing
<1>4. Len(alt.root) + Len(job.off) <= MaxHeight + 1
  <2>1. Joined(alt.root \o job.off, alt.root, job.off, AnyBlock)  BY <1>3, JoinedSeq
  <2> QED  BY <2>1, <1>3 DEF Joined
<1>5. done \in 0 .. Len(job.off) /\ chain = Built(alt.root, job.off, done)  BY <1>2 DEF Restoring
<1>6. done = Len(chain) - Len(alt.root)  BY DEF done
<1>7. /\ Len(chain) <= MaxHeight /\ b \in AnyBlock
      /\ Append(chain, b) = Built(alt.root, job.off, done + 1)
      /\ Len(Append(chain, b)) - Len(alt.root) = done + 1 /\ done + 1 \in 0 .. Len(job.off)
  BY <1>1, <1>2, <1>3, <1>4, <1>5, <1>6, NextOn
<1>8. CASE add_block(b) /\ UNCHANGED <<batch, job>>
  <2>1. SameBatch /\ BatchRight' /\ batch'.open  BY <1>2, <1>8, BatchKept
  <2>2. chain' \in Chains /\ Exact(meta, chain)' /\ CachesRight' /\ chain' = Append(chain, b)
    BY <1>2, <1>7, <1>8, <2>1, AddBlock
  <2>3. done' = done + 1  BY <1>1, <1>7, <2>2 DEF done
  <2>4. Undoing("restore")'  BY <1>1, <1>2, <1>8 DEF Undoing
  <2>5. Restoring'  BY <1>1, <1>7, <1>8, <2>2, <2>3, <2>4 DEF Restoring
  <2>6. JobRight'  BY <2>1, <2>5 DEF JobRight
  <2> QED  BY <1>1, <1>2, <2>1, <2>2, <2>6 DEF Core, DbRight
<1>9. CASE /\ \/ refuse_block(b) /\ batch' = batch
              \/ add_block_throws(b) /\ batch' = [batch EXCEPT !.ok = FALSE]
           /\ job' = [job EXCEPT !.at = "panic"]
  <2>1. SameBatch /\ BatchRight' /\ batch'.open  BY <1>2, <1>9, BatchKept
  <2>2. chain' = chain /\ meta' = meta /\ CachesRight'  BY <1>2, <1>7, <1>9, <2>1, KeptOut
  <2>3. Undoing("panic")'  BY <1>1, <1>2, <1>9, UndoingOn
  <2>4. JobRight'  BY <2>1, <2>3 DEF JobRight
  <2> QED  BY <1>1, <1>2, <2>1, <2>2, <2>4 DEF Core, DbRight
<1> QED  BY <1>8, <1>9 DEF restore

LEMMA RestoredCore ==
  ASSUME Core, restored
  PROVE  Core'
<1>1. /\ job.at = "restore" \/ job.at = "panic"
      /\ alt' = kept_alt /\ job' = Idle /\ chain' = chain /\ meta' = meta /\ batch' = batch
      /\ dc' = dc /\ lt' = lt /\ median_weight' = median_weight
  BY DEF restored
<1>2. AltRight(alt) /\ (Undoing("restore") \/ Undoing("panic"))
  BY <1>1, JobAt DEF Core, DbRight, Restoring
<1>3. job.failed \in 1 .. Len(alt.blocks)  BY <1>2 DEF Undoing
<1>4. AltRight(kept_alt)
  <2>1. CASE job.failed = 1  BY <2>1, NoAltRight DEF kept_alt
  <2>2. CASE job.failed # 1
    <3> DEFINE k == job.failed - 1
    <3>1. Len(alt.blocks) \in Nat  BY <1>2 DEF AltRight
    <3>2. k \in 0 .. Len(alt.blocks)  BY <1>3, <3>1
    <3>3. kept_alt = [alt EXCEPT !.blocks = SubSeq(@, 1, k), !.meta = SubSeq(@, 1, k)]
      BY <2>2 DEF kept_alt
    <3> HIDE DEF k
    <3> QED  BY <1>2, <3>2, <3>3, ShorterAlt
  <2> QED  BY <2>1, <2>2
<1> QED  BY <1>1, <1>4 DEF Core, DbRight, BatchRight, CachesRight, JobRight

LEMMA PopNextCore ==
  ASSUME Core, pop_next
  PROVE  Core'
<1>1. /\ job.at = "pops" /\ job.left > 0 /\ pop_block /\ job' = [job EXCEPT !.left = @ - 1]
      /\ alt' = alt /\ batch' = batch
  BY DEF pop_next
<1>2. /\ chain \in Chains /\ Exact(meta, chain) /\ AltRight(alt) /\ BatchRight /\ CachesRight
      /\ batch.open /\ Popping
  BY <1>1, JobAt DEF Core, DbRight
<1>3. chain' \in Chains /\ Exact(meta, chain)' /\ CachesRight'  BY <1>1, <1>2, PopBlock
<1>4. job = [at |-> "pops", left |-> job.left] /\ job.left \in Nat  BY <1>2 DEF Popping
<1>5. job' = [at |-> "pops", left |-> job.left - 1] /\ job.left - 1 \in Nat  BY <1>1, <1>4
<1>6. Popping'  BY <1>5 DEF Popping
<1>7. BatchRight' /\ JobRight'  BY <1>1, <1>2, <1>6 DEF BatchRight, JobRight
<1> QED  BY <1>1, <1>2, <1>3, <1>7 DEF Core, DbRight

LEMMA PopThrowsCore ==
  ASSUME Core, pop_throws
  PROVE  Core'
<1>1. /\ job.at = "pops" /\ dc' = reset_difficulties(dc) /\ batch' = NoBatch /\ job' = Idle
      /\ chain' = batch.db.chain /\ meta' = batch.db.meta /\ alt' = batch.db.alt
      /\ median_weight' = median_weight /\ lt' = lt
  BY DEF pop_throws, Restore
<1>2. BatchRight /\ CachesRight /\ batch.open  BY <1>1, JobAt DEF Core
<1>3. DbRight(chain, meta, alt)'  BY <1>1, <1>2, BatchChain
<1>4. CachesRight'  BY <1>1, <1>2, OnlyReset
<1>5. BatchRight' /\ JobRight'  BY <1>1 DEF BatchRight, JobRight
<1> QED  BY <1>3, <1>4, <1>5 DEF Core

\* The end of pop_blocks computes the weight limit again.
LEMMA PoppedCore ==
  ASSUME Core, popped
  PROVE  Core' /\ median_weight' = RuleMedian(chain, meta)
<1>1. /\ update_limit(chain, meta) /\ batch' = NoBatch /\ job' = Idle
      /\ chain' = chain /\ meta' = meta /\ alt' = alt /\ dc' = dc
  BY DEF popped, db
<1>2. chain \in Chains /\ Exact(meta, chain) /\ AltRight(alt) /\ CachesRight  BY DEF Core, DbRight
<1>3. CachesRight' /\ median_weight' = RuleMedian(chain, meta)  BY <1>1, <1>2, LimitCaches
<1>4. BatchRight' /\ JobRight'  BY <1>1 DEF BatchRight, JobRight
<1> QED  BY <1>1, <1>2, <1>3, <1>4 DEF Core, DbRight

\* A bounded set of numbers has a largest element.
LEMMA LargestNumber ==
  ASSUME NEW n \in Nat, NEW S \in SUBSET (0 .. n), S # {}
  PROVE  \E m \in S : \A k \in S : k <= m
<1> DEFINE T == {n - k : k \in S}
<1>1. T \in SUBSET Nat /\ T # {}
  <2>1. \A k \in S : n - k \in Nat  OBVIOUS
  <2> QED  BY <2>1
<1>2. PICK t \in T : \A u \in T : t <= u  BY <1>1, LeastNumber
<1>3. PICK m \in S : t = n - m  BY <1>2
<1>4. ASSUME NEW k \in S PROVE k <= m
  <2>1. n - m <= n - k  BY <1>2, <1>3
  <2>2. k \in 0 .. n /\ m \in 0 .. n  OBVIOUS
  <2> HIDE DEF T
  <2> QED  BY <2>1, <2>2
<1> QED  BY <1>4

\* TablesAssumption, table by table.
LEMMA TableType ==
  ASSUME NEW r \in DOMAIN Tables
  PROVE  /\ Tables[r] \in Seq([version : Versions, height : Nat, threshold : {0}])
         /\ Len(Tables[r]) \in Nat /\ Len(Tables[r]) >= 1
         /\ Tables[r][1].height = 0 /\ Tables[r][1].version = Genesis.v
         /\ \A i \in 1 .. Len(Tables[r]) :
              /\ Tables[r][i].version \in Versions /\ Tables[r][i].height \in Nat
              /\ Tables[r][i].threshold = 0
         /\ \A i, j \in 1 .. Len(Tables[r]) : i < j =>
              Tables[r][i].version < Tables[r][j].version /\ Tables[r][i].height < Tables[r][j].height
<1> DEFINE t == Tables[r]
           E == [version : Versions, height : Nat, threshold : {0}]
<1>1. t \in Seq(E)
  <2>1. Tables \in Seq(Seq(E))  BY TablesAssumption
  <2> HIDE DEF E
  <2> QED  BY <2>1
<1>2. t # << >> /\ t[1].height = 0 /\ t[1].version = Genesis.v
      /\ \A i, j \in DOMAIN t : i < j => t[i].version < t[j].version /\ t[i].height < t[j].height
  BY TablesAssumption
<1> HIDE DEF t
<1>3. Len(t) \in Nat /\ DOMAIN t = 1 .. Len(t) /\ \A i \in 1 .. Len(t) : t[i] \in E
  <2> HIDE DEF E
  <2> QED  BY <1>1
<1>4. Len(t) >= 1  BY <1>1, <1>2, <1>3
<1> QED  BY <1>1, <1>2, <1>3, <1>4 DEF t

\* Every release gives the genesis block its version.
LEMMA GenesisVersion ==
  ASSUME NEW r \in DOMAIN Tables
  PROVE  get_ideal_version(Tables[r], 0) = Genesis.v
<1> DEFINE t == Tables[r]
<1>1. /\ Len(t) \in Nat /\ Len(t) >= 1 /\ t[1].height = 0 /\ t[1].version = Genesis.v
      /\ \A i \in 1 .. Len(t) : t[i].height \in Nat
      /\ \A i, j \in 1 .. Len(t) : i < j => t[i].height < t[j].height
  BY TableType
<1> HIDE DEF t
<1>2. ASSUME NEW n \in 2 .. Len(t) PROVE ~(0 >= t[n].height)
  <2>1. n \in 1 .. Len(t) /\ 1 \in 1 .. Len(t) /\ 1 < n  BY <1>1
  <2>2. t[n].height \in Nat /\ t[1].height < t[n].height  BY <2>1, <1>1
  <2> QED  BY <2>2, <1>1
<1>3. {n \in 2 .. Len(t) : 0 >= t[n].height} = {}  BY <1>2
<1>4. get_ideal_version(t, 0) = t[1].version  BY <1>3 DEF get_ideal_version
<1> QED  BY <1>1, <1>4 DEF t

\* The blocks that a restart keeps.
LEMMA TopFound ==
  ASSUME NEW r \in DOMAIN Tables, NEW c \in Chains
  PROVE  /\ last_right(Tables[r], c) \in right_version(Tables[r], c)
         /\ \A j \in right_version(Tables[r], c) : j <= last_right(Tables[r], c)
         /\ last_right(Tables[r], c) \in 1 .. Len(c)
<1> DEFINE S == right_version(Tables[r], c)
<1>1. Len(c) \in Nat /\ Len(c) >= 1 /\ c[1] = Genesis  BY ChainType
<1>2. 1 \in S
  <2>1. 1 - 1 = 0 /\ 1 \in 1 .. Len(c)  BY <1>1
  <2>2. get_ideal_version(Tables[r], 1 - 1) = Genesis.v  BY <2>1, GenesisVersion
  <2> QED  BY <1>1, <2>1, <2>2 DEF right_version
<1>3. S \in SUBSET (0 .. Len(c)) /\ S \in SUBSET (1 .. Len(c))  BY <1>1 DEF right_version
<1> HIDE DEF S
<1>4. \E k \in S : \A j \in S : j <= k  BY <1>1, <1>2, <1>3, LargestNumber
<1>5. last_right(Tables[r], c) \in S /\ \A j \in S : j <= last_right(Tables[r], c)  BY <1>4 DEF last_right, S
<1> QED  BY <1>3, <1>5 DEF S

LEMMA ChainPrefix ==
  ASSUME NEW c \in Chains, NEW k \in 1 .. Len(c)
  PROVE  SubSeq(c, 1, k) \in Chains /\ Len(SubSeq(c, 1, k)) = k /\ \A i \in 1 .. k : SubSeq(c, 1, k)[i] = c[i]
<1> DEFINE s == SubSeq(c, 1, k)
<1>1. c \in Seq(AnyBlock) /\ c[1] = Genesis /\ Len(c) \in Nat /\ Len(c) <= MaxHeight + 1  BY ChainType
<1>2. k \in Nat /\ k >= 1 /\ k <= Len(c)  BY <1>1
<1>3. s \in Seq(AnyBlock) /\ Len(s) = k /\ \A i \in 1 .. k : s[i] = c[i]  BY <1>1, <1>2
<1> HIDE DEF s
<1>4. s # << >> /\ Len(s) <= MaxHeight + 1 /\ 1 \in 1 .. k  BY <1>1, <1>2, <1>3, BoundsAssumption
<1>5. s \in Chains  BY <1>1, <1>3, <1>4 DEF Chains
<1> QED  BY <1>3, <1>5 DEF s

\* Empty caches are about no chain.
LEMMA FreshCaches ==
  /\ LtRight(FreshLongTerm) /\ DcRight(FreshDifficulty)
  /\ \A s : DcFits(FreshDifficulty, s)
<1>1. LtRight(FreshLongTerm)
  <2>1. FreshLongTerm \in [tip : Seq(AnyBlock), window : Seq(Nat)]
        /\ FreshLongTerm.tip = << >> /\ FreshLongTerm.window = << >>
    BY DEF FreshLongTerm, NoHash
  <2>2. RuleMeta(<< >>) = << >>  BY RuleMetaEmpty
  <2>3. Column(<< >>, "ltw") = << >>  BY DEF Column
  <2>4. LONG_TERM_WINDOW \in Nat  BY WeightAssumption
  <2>5. youngest(<< >>, LONG_TERM_WINDOW) = << >>  BY <2>4 DEF youngest
  <2> QED  BY <2>1, <2>2, <2>3, <2>5 DEF LtRight
<1>2. FreshDifficulty \in DcCaches /\ FreshDifficulty.reset = TRUE /\ FreshDifficulty.top = << >>
  BY DEF FreshDifficulty, DcCaches, NoHash
<1>3. ~DcWindow(FreshDifficulty)  BY <1>2 DEF DcWindow
<1> QED  BY <1>1, <1>2, <1>3 DEF DcRight, DcFits

\* The caches after a start, on a chain and its data.
LEMMA StartCaches ==
  ASSUME NEW c \in Chains, NEW m, Exact(m, c), NEW l, l = long_term_cache(FreshLongTerm, c, m),
         NEW w, w = effective_median(Column(c, "w"), median(l.window))
  PROVE  LtRight(l) /\ w = RuleMedian(c, m) /\ w \in Nat
<1>1. c \in Seq(AnyBlock) /\ c # << >>  BY ChainType
<1>2. LtRight(l) /\ median(l.window) = long_term_median(m)  BY <1>1, FreshCaches, LongTermCache
<1>3. w = RuleMedian(c, m)  BY <1>2 DEF RuleMedian
<1>4. m \in Seq(Data)  BY DEF Exact
<1> QED  BY <1>1, <1>2, <1>3, <1>4, RuleMedianType

\* What is in the database when the program stops.
LEMMA CommittedRight ==
  ASSUME Core
  PROVE  DbRight(Committed.chain, Committed.meta, Committed.alt)
<1>1. CASE batch.open  BY <1>1, BatchChain DEF Core, Committed
<1>2. CASE ~batch.open
  <2>1. Committed.chain = chain /\ Committed.meta = meta /\ Committed.alt = alt  BY <1>2 DEF Committed, Saved
  <2> QED  BY <2>1 DEF Core
<1> QED  BY <1>1, <1>2

\* What a start does: the chain is cut after the last block whose version
\* the table of the release gives.
LEMMA RestartSteps ==
  ASSUME NEW r, NEW keep, restart(r, keep)
  PROVE  LET c == Committed.chain
             top == last_right(Tables[r], c)
         IN /\ r >= release /\ release' = r
            /\ chain' = SubSeq(c, 1, top) /\ meta' = SubSeq(Committed.meta, 1, top)
            /\ hfv' = Committed.hfv
            /\ alt' = Committed.alt \/ alt' = NoAlt
            /\ hf' = IF top = Len(c) THEN init(Tables[r], c, Committed.hfv)
                     ELSE reorganize_from_chain_height(Tables[r], init(Tables[r], c, Committed.hfv),
                                                       SubSeq(c, 1, top), top, Committed.hfv)
            /\ lt' = long_term_cache(FreshLongTerm, chain', meta')
            /\ median_weight' = effective_median(Column(chain', "w"), median(lt'.window))
            /\ dc' = FreshDifficulty /\ batch' = NoBatch /\ job' = Idle /\ faults' = faults
  BY DEF restart

LEMMA RestartCore ==
  ASSUME Core, NEW r \in DOMAIN Tables, NEW keep \in BOOLEAN, restart(r, keep)
  PROVE  Core' /\ median_weight' = RuleMedian(chain', meta')
<1> DEFINE c == Committed.chain
           m == Committed.meta
           top == last_right(Tables[r], c)
<1>1. c \in Chains /\ Exact(m, c) /\ AltRight(Committed.alt)  BY CommittedRight DEF DbRight
<1>2. top \in 1 .. Len(c)  BY <1>1, TopFound
<1>3. /\ chain' = SubSeq(c, 1, top) /\ meta' = SubSeq(m, 1, top)
      /\ alt' = Committed.alt \/ alt' = NoAlt
      /\ lt' = long_term_cache(FreshLongTerm, chain', meta')
      /\ median_weight' = effective_median(Column(chain', "w"), median(lt'.window))
      /\ dc' = FreshDifficulty /\ batch' = NoBatch /\ job' = Idle
  BY RestartSteps
<1> HIDE DEF c, m, top
<1>4. chain' \in Chains  BY <1>1, <1>2, <1>3, ChainPrefix
<1>5. Exact(meta', chain')
  <2>1. c \in Seq(AnyBlock) /\ Len(c) \in Nat  BY <1>1, ChainType
  <2>2. top \in 0 .. Len(c)  BY <1>2, <2>1
  <2> QED  BY <1>1, <1>3, <2>1, <2>2, ExactPrefix
<1>6. AltRight(alt')  BY <1>1, <1>3, NoAltRight
<1>7. LtRight(lt') /\ median_weight' = RuleMedian(chain', meta') /\ median_weight' \in Nat
  BY <1>3, <1>4, <1>5, StartCaches
<1>8. BatchFits(dc', chain', batch')  BY <1>3 DEF BatchFits, NoBatch
<1>9. CachesRight'  BY <1>3, <1>7, <1>8, FreshCaches DEF CachesRight
<1>10. BatchRight' /\ JobRight'  BY <1>3 DEF BatchRight, JobRight
<1> QED  BY <1>4, <1>5, <1>6, <1>7, <1>9, <1>10 DEF Core, DbRight

LEMMA InitRules ==
  ASSUME Init
  PROVE  chain \in Chains /\ Exact(meta, chain) /\ meta = RuleMeta(chain)
<1> DEFINE d == [ltw |-> Genesis.w, cum |-> 1, coins |-> 0]
<1>1. chain = <<Genesis>> /\ meta = <<d>>  BY DEF Init
<1>2. Genesis \in AnyBlock  BY DEF AnyBlock
<1>3. << >> \in Seq(AnyBlock) /\ RuleMeta(<< >>) = << >>  BY RuleMetaEmpty
<1>4. <<Genesis>> = Append(<< >>, Genesis)  OBVIOUS
<1>5. RuleMeta(Append(<< >>, Genesis)) = Append(RuleMeta(<< >>), RuleData(<< >>, RuleMeta(<< >>), Genesis))
  BY <1>2, <1>3, RuleMetaAppend
<1>6. RuleData(<< >>, << >>, Genesis) = d  BY DEF RuleData
<1> HIDE DEF d
<1>7. RuleMeta(<<Genesis>>) = Append(<< >>, d)  BY <1>3, <1>4, <1>5, <1>6
<1>8. meta = RuleMeta(chain)  BY <1>1, <1>7
<1>9. chain \in Seq(AnyBlock) /\ Len(chain) = 1 /\ chain[1] = Genesis /\ chain # << >>  BY <1>1, <1>2
<1>10. Exact(meta, chain)  BY <1>8, <1>9, ExactSelf
<1>11. 1 <= MaxHeight + 1  BY BoundsAssumption
<1> QED  BY <1>8, <1>9, <1>10, <1>11 DEF Chains

LEMMA InitCore ==
  ASSUME Init
  PROVE  Core /\ median_weight = RuleMedian(chain, meta)
<1>1. chain \in Chains /\ Exact(meta, chain)  BY InitRules
<1>2. /\ alt = NoAlt /\ batch = NoBatch /\ job = Idle /\ dc = FreshDifficulty
      /\ lt = long_term_cache(FreshLongTerm, chain, meta)
      /\ median_weight = effective_median(Column(chain, "w"), median(lt.window))
  BY DEF Init
<1>3. LtRight(lt) /\ median_weight = RuleMedian(chain, meta) /\ median_weight \in Nat
  BY <1>1, <1>2, StartCaches
<1>4. BatchFits(dc, chain, batch)  BY <1>2 DEF BatchFits, NoBatch
<1>5. CachesRight  BY <1>2, <1>3, <1>4, FreshCaches DEF CachesRight
<1>6. DbRight(chain, meta, alt)  BY <1>1, <1>2, NoAltRight DEF DbRight
<1> QED  BY <1>2, <1>3, <1>5, <1>6 DEF Core, BatchRight, JobRight

\* Every step keeps the invariant.
LEMMA CoreKept ==
  ASSUME Core, [Next]_vars
  PROVE  Core'
<1>1. CASE UNCHANGED vars
  BY <1>1 DEF vars, db, caches, Core, DbRight, BatchRight, CachesRight, JobRight, Disconnecting, Connecting,
     Pushing, Undoing, RollingBack, Restoring, Popping, done
<1>2. ASSUME NEW b \in Block, incoming(b) \/ alternative_block(b) \/ stranded(b) PROVE Core'
  BY <1>2, IncomingCore, AlternativeBlockCore, StrandedCore
<1>3. ASSUME NEW n \in 1 .. MaxPop, pop_blocks(n) PROVE Core'  BY <1>3, PopBlocksCore
<1>4. ASSUME NEW r \in DOMAIN Tables, NEW keep \in BOOLEAN, restart(r, keep) PROVE Core'
  BY <1>4, RestartCore
<1>5. CASE prepare \/ cleanup  BY <1>5, PrepareCore, CleanupCore
<1>6. CASE disconnect \/ disconnected \/ connect \/ connected_all \/ push_alternative \/ switched
  BY <1>6, DisconnectCore, DisconnectedCore, ConnectCore, ConnectedAllCore, PushCore, SwitchedCore
<1>7. CASE rollback \/ rolled_back \/ restore \/ restored
  BY <1>7, RollbackCore, RolledBackCore, RestoreCore, RestoredCore
<1>8. CASE pop_next \/ pop_throws \/ popped \/ ask_difficulty
  BY <1>8, PopNextCore, PopThrowsCore, PoppedCore, AskCore
<1> QED  BY <1>1, <1>2, <1>3, <1>4, <1>5, <1>6, <1>7, <1>8 DEF Next

LEMMA CoreHolds == Spec => []Core
<1>1. Init => Core  BY InitCore
<1>2. Core /\ [Next]_vars => Core'  BY CoreKept
<1> QED  BY <1>1, <1>2, PTL DEF Spec

\* The work of a branch, as a window of the chain that it would make.
LEMMA BranchColumn ==
  ASSUME NEW a, AltRight(a), a.blocks # << >>
  PROVE  Column(a.meta, "cum") =
           youngest(Column(RuleMeta(a.root \o a.blocks), "cum"), Len(a.blocks))
<1> DEFINE full == a.root \o a.blocks
           M == RuleMeta(full)
           n == Len(a.blocks)
           r == Len(a.root)
           p == Column(a.meta, "cum")
           z == Column(M, "cum")
           y == youngest(z, n)
<1>1. /\ a.root \in Seq(AnyBlock) /\ a.blocks \in Seq(AnyBlock) /\ a.meta \in Seq(AltData)
      /\ Len(a.meta) = n /\ \A i \in 1 .. n : a.meta[i].cum = M[r + i].cum
      /\ n \in Nat /\ r \in Nat
  BY DEF AltRight
<1>2. Joined(full, a.root, a.blocks, AnyBlock)  BY <1>1, JoinedSeq
<1>3. full \in Seq(AnyBlock) /\ Len(full) = r + n  BY <1>2 DEF Joined
<1>4. M \in Seq(Data) /\ Len(M) = r + n  BY <1>3, RuleMetaType
<1> HIDE DEF full, M, n, r
<1>5. IsColumn(p, a.meta, "cum", Int) /\ IsColumn(z, M, "cum", Int)
  <2>1. Field(AltData, "cum", Int)  BY DEF Field, AltData
  <2> QED  BY <1>1, <1>4, <2>1, ColumnSeq, Fields
<1> HIDE DEF p, z
<1>6. p \in Seq(Int) /\ Len(p) = n /\ \A i \in 1 .. n : p[i] = a.meta[i].cum  BY <1>1, <1>5 DEF IsColumn
<1>7. z \in Seq(Int) /\ Len(z) = r + n /\ \A i \in 1 .. r + n : z[i] = M[i].cum
  BY <1>4, <1>5 DEF IsColumn
<1>8. End(y, z, n, Int)  BY <1>1, <1>7, YoungestSeq
<1> HIDE DEF y
<1>9. least(r + n, n) = n  BY <1>1 DEF least
<1>10. y \in Seq(Int) /\ Len(y) = n /\ \A i \in 1 .. n : y[i] = z[(r + n) - n + i]
  BY <1>7, <1>8, <1>9 DEF End
<1>11. ASSUME NEW i \in 1 .. n PROVE p[i] = y[i]
  <2>1. (r + n) - n + i = r + i /\ r + i \in 1 .. r + n  BY <1>1
  <2> QED  BY <2>1, <1>1, <1>6, <1>7, <1>10
<1>12. p = y  BY <1>6, <1>10, <1>11, SameSeq
<1> QED  BY <1>12 DEF p, y, z, M, n, full

\* A switch of chains ends on a chain with more work than the one it left:
\* the difficulty that get_next_difficulty_for_alternative_chain gives a
\* block of a branch is the one that block has once the branch was connected,
\* whatever the database did in between.
THEOREM SwitchHeavier == Spec => []SwitchedIsHeavier
<1>1. Core => SwitchedIsHeavier
  <2> SUFFICES ASSUME Core PROVE SwitchedIsHeavier  OBVIOUS
  <2>1. job.at = "push" => last(meta).cum > job.cum  BY JobAt DEF Core, Pushing
  <2>2. alt.blocks # << >> =>
          Column(alt.meta, "cum") =
            youngest(Column(RuleMeta(alt.root \o alt.blocks), "cum"), Len(alt.blocks))
    BY BranchColumn DEF Core, DbRight
  <2> QED  BY <2>1, <2>2 DEF SwitchedIsHeavier
<1> QED  BY <1>1, CoreHolds, PTL

----------------------------------------------------------------------------
(* The hard fork object.                                                   *)

\* A table of hard forks: versions and heights grow from the genesis on and
\* no threshold asks for votes.
Table(t) ==
  /\ Len(t) \in Nat /\ Len(t) >= 1
  /\ t[1].height = 0 /\ t[1].version = Genesis.v
  /\ \A i \in 1 .. Len(t) : t[i].version \in Versions /\ t[i].height \in Nat /\ t[i].threshold = 0
  /\ \A i, j \in 1 .. Len(t) : i < j => t[i].version < t[j].version /\ t[i].height < t[j].height

LEMMA TableRight ==
  ASSUME NEW r \in DOMAIN Tables
  PROVE  Table(Tables[r])
  BY TableType DEF Table

\* The entries of a table that are due at a height, and the last of them.
Due(t, h) == {n \in 1 .. Len(t) : h >= t[n].height}

\* The entry of the table that is due at a height.
IdealIndex(t, h) == CHOOSE n \in Due(t, h) : \A m \in Due(t, h) : m <= n

\* The largest element of a set of numbers is the one that is chosen.
LEMMA ChosenLargest ==
  ASSUME NEW S \in SUBSET Nat, NEW x \in S, \A m \in S : m <= x
  PROVE  (CHOOSE n \in S : \A m \in S : m <= n) = x
<1> DEFINE c == CHOOSE n \in S : \A m \in S : m <= n
<1>1. c \in S /\ \A m \in S : m <= c  OBVIOUS
<1> HIDE DEF c
<1>2. c <= x /\ x <= c /\ c \in Nat /\ x \in Nat  BY <1>1
<1>3. c = x  BY <1>2
<1> QED  BY <1>3 DEF c

LEMMA IdealFound ==
  ASSUME NEW t, Table(t), NEW h \in Nat
  PROVE  /\ IdealIndex(t, h) \in 1 .. Len(t)
         /\ IdealIndex(t, h) \in Due(t, h)
         /\ \A n \in Due(t, h) : n <= IdealIndex(t, h)
<1> DEFINE S == Due(t, h)
           N == Len(t)
<1>1. N \in Nat /\ N >= 1 /\ t[1].height = 0  BY DEF Table
<1>2. S \in SUBSET (0 .. N) /\ S \in SUBSET (1 .. N) /\ 1 \in S  BY <1>1 DEF Due
<1> HIDE DEF S, N
<1>3. \E m \in S : \A k \in S : k <= m  BY <1>1, <1>2, LargestNumber
<1>4. IdealIndex(t, h) \in S /\ \A n \in S : n <= IdealIndex(t, h)  BY <1>3 DEF IdealIndex, S
<1> QED  BY <1>2, <1>4 DEF S, N

LEMMA IdealVersion ==
  ASSUME NEW t, Table(t), NEW h \in Nat
  PROVE  get_ideal_version(t, h) = t[IdealIndex(t, h)].version
<1> DEFINE x == IdealIndex(t, h)
           S == {n \in 2 .. Len(t) : h >= t[n].height}
<1>1. x \in 1 .. Len(t) /\ x \in Due(t, h) /\ \A n \in Due(t, h) : n <= x  BY IdealFound
<1>2. Len(t) \in Nat  BY DEF Table
<1>3. S \in SUBSET Nat /\ \A n \in S : n \in Due(t, h) /\ n >= 2  BY <1>2 DEF Due
<1>4. \A n \in Due(t, h) : n = 1 \/ n \in S  BY <1>2 DEF Due
<1>5. get_ideal_version(t, h) =
        IF S = {} THEN t[1].version ELSE t[CHOOSE n \in S : \A m \in S : m <= n].version
  BY DEF get_ideal_version
<1> HIDE DEF x, S
<1>6. CASE S = {}
  <2>1. x = 1  BY <1>1, <1>4, <1>6
  <2> QED  BY <1>5, <1>6, <2>1 DEF x
<1>7. CASE S # {}
  <2>1. x \in S /\ \A m \in S : m <= x
    <3>1. PICK n \in S : TRUE  BY <1>7
    <3>2. n <= x /\ n >= 2 /\ n \in Nat /\ x \in Nat  BY <1>1, <1>2, <1>3, <3>1
    <3>3. x # 1  BY <3>2
    <3> QED  BY <1>1, <1>3, <1>4, <3>3
  <2>2. (CHOOSE n \in S : \A m \in S : m <= n) = x  BY <1>3, <2>1, ChosenLargest
  <2> QED  BY <1>5, <1>7, <2>2 DEF x
<1> QED  BY <1>6, <1>7

LEMMA IdealGrows ==
  ASSUME NEW t, Table(t), NEW h \in Nat, NEW k \in Nat, h <= k
  PROVE  IdealIndex(t, h) <= IdealIndex(t, k)
<1>1. IdealIndex(t, h) \in Due(t, h) /\ \A n \in Due(t, k) : n <= IdealIndex(t, k)  BY IdealFound
<1>2. \A n \in 1 .. Len(t) : t[n].height \in Nat  BY DEF Table
<1>3. \A x \in Nat : h >= x => k >= x  OBVIOUS
<1>4. Due(t, h) \subseteq Due(t, k)  BY <1>2, <1>3 DEF Due
<1> QED  BY <1>1, <1>4

\* Counts of votes that are not negative.
Counts(c) == c \in [Versions -> Int] /\ \A v \in Versions : c[v] >= 0

\* accumulated_votes is never negative.
LEMMA VotesPositive ==
  ASSUME NEW t, Table(t), NEW c, Counts(c), NEW n \in 1 .. Len(t)
  PROVE  VotesFrom(t, c, n) \in Nat
<1> DEFINE N == Len(t)
           W(k) == c[t[N + 1 - k].version]
           step == [k \in 1 .. N |-> [a \in Nat |-> a + W(k)]]
           Eq(f) == f = [k \in 0 .. N |-> IF k = 0 THEN 0 ELSE f[k - 1] + W(k)]
<1>1. N \in Nat /\ N >= 1  BY DEF Table
<1>2. \A k \in 1 .. N : W(k) \in Nat
  <2> SUFFICES ASSUME NEW k \in 1 .. N PROVE W(k) \in Nat  OBVIOUS
  <2>1. N + 1 - k \in 1 .. N  BY <1>1
  <2>2. t[N + 1 - k].version \in Versions  BY <2>1 DEF Table
  <2> QED  BY <2>2 DEF Counts
<1> HIDE DEF W
<1>3. step \in Steps(Nat, N)  BY <1>2 DEF Steps
<1>4. PICK f : f \in Results(Nat, 0, N, step)  BY <1>1, <1>3, Recursion
<1>5. f \in [0 .. N -> Nat] /\ f[0] = 0 /\ \A k \in 1 .. N : f[k] = step[k][f[k - 1]]
  BY <1>4 DEF Results
<1>6. Eq(f)
  <2>1. ASSUME NEW k \in 0 .. N PROVE f[k] = IF k = 0 THEN 0 ELSE f[k - 1] + W(k)
    <3>1. CASE k = 0  BY <3>1, <1>5
    <3>2. CASE k # 0
      <4>1. k \in 1 .. N /\ k - 1 \in 0 .. N  BY <3>2, <1>1
      <4>2. f[k - 1] \in Nat  BY <4>1, <1>5
      <4>3. step[k][f[k - 1]] = f[k - 1] + W(k)  BY <4>1, <4>2
      <4> QED  BY <3>2, <4>1, <4>3, <1>5
    <3> QED  BY <3>1, <3>2
  <2>2. f = [k \in 0 .. N |-> f[k]]  BY <1>5
  <2> HIDE DEF step
  <2> QED  BY <2>1, <2>2
<1> DEFINE g == CHOOSE f2 : Eq(f2)
<1>7. Eq(g)  BY <1>6
<1>8. VotesFrom(t, c, n) = g[N + 1 - n]  BY DEF VotesFrom, W
<1> HIDE DEF g, Eq
<1>9. g[0] = 0 /\ \A k \in 1 .. N : g[k] = g[k - 1] + W(k)
  <2>1. g = [k \in 0 .. N |-> IF k = 0 THEN 0 ELSE g[k - 1] + W(k)]  BY <1>7 DEF Eq
  <2> QED  BY <1>1, <2>1
<1> DEFINE S == {k \in Nat : k <= N => g[k] \in Nat}
<1>10. 0 \in S  BY <1>9
<1>11. ASSUME NEW k \in Nat, k \in S PROVE k + 1 \in S
  <2> SUFFICES ASSUME k + 1 <= N PROVE g[k + 1] \in Nat  OBVIOUS
  <2>1. k + 1 \in 1 .. N /\ (k + 1) - 1 = k /\ k <= N  BY <1>1
  <2>2. g[k] \in Nat  BY <2>1, <1>11
  <2>3. g[k + 1] = g[k] + W(k + 1)  BY <2>1, <1>9
  <2>4. W(k + 1) \in Nat  BY <2>1, <1>2
  <2> QED  BY <2>2, <2>3, <2>4
<1> HIDE DEF S
<1>12. Nat \subseteq S  BY <1>10, <1>11, Induction
<1>13. N + 1 - n \in Nat /\ N + 1 - n <= N  BY <1>1
<1>14. g[N + 1 - n] \in Nat  BY <1>12, <1>13 DEF S
<1> QED  BY <1>8, <1>14

\* The number of votes for v in a window.
VoteCount(s, v) == Cardinality({i \in DOMAIN s : s[i] = v})

\* The window of votes and its counts agree.
Voting(h) ==
  /\ h = [index |-> h.index, versions |-> h.versions, counts |-> h.counts]
  /\ h.index \in Nat /\ h.versions \in Seq(Versions) /\ h.versions # << >>
  /\ h.counts = [v \in Versions |-> VoteCount(h.versions, v)]

\* Votes are counted.
LEMMA VoteSet ==
  ASSUME NEW s \in Seq(Versions), NEW v
  PROVE  IsFiniteSet({i \in DOMAIN s : s[i] = v}) /\ VoteCount(s, v) \in Nat
<1> DEFINE S == {i \in DOMAIN s : s[i] = v}
<1>1. DOMAIN s = 1 .. Len(s) /\ Len(s) \in Nat  OBVIOUS
<1>2. IsFiniteSet(1 .. Len(s))  BY <1>1, FS_Interval
<1>3. S \in SUBSET (1 .. Len(s))  BY <1>1
<1> HIDE DEF S
<1>4. IsFiniteSet(S)  BY <1>2, <1>3, FS_Subset
<1>5. Cardinality(S) \in Nat  BY <1>4, FS_CardinalityType
<1> QED  BY <1>4, <1>5 DEF S, VoteCount

\* One more, when the vote is for v.
One(x, v) == IF x = v THEN 1 ELSE 0

\* One vote more.
LEMMA CountAppend ==
  ASSUME NEW s \in Seq(Versions), NEW x \in Versions, NEW v
  PROVE  VoteCount(Append(s, x), v) = VoteCount(s, v) + One(x, v)
<1> DEFINE S == {i \in DOMAIN s : s[i] = v}
           t == Append(s, x)
           T == {i \in DOMAIN t : t[i] = v}
           n == Len(s)
<1>1. n \in Nat /\ DOMAIN s = 1 .. n  OBVIOUS
<1>2. t \in Seq(Versions) /\ DOMAIN t = 1 .. n + 1 /\ t[n + 1] = x /\ \A i \in 1 .. n : t[i] = s[i]
  OBVIOUS
<1>3. IsFiniteSet(S) /\ Cardinality(S) \in Nat  BY VoteSet DEF VoteCount
<1> HIDE DEF t, n
<1>4. S = {i \in 1 .. n : s[i] = v} /\ n + 1 \notin S  BY <1>1
<1>5. \A i \in 1 .. n + 1 : i = n + 1 \/ i \in 1 .. n  BY <1>1
<1>6. n + 1 \in 1 .. n + 1 /\ 1 .. n \subseteq 1 .. n + 1  BY <1>1
<1>7. T = {i \in 1 .. n + 1 : t[i] = v}  BY <1>2
<1> HIDE DEF S, T
<1>8. CASE x = v
  <2>1. T = S \cup {n + 1}  BY <1>2, <1>4, <1>5, <1>6, <1>7, <1>8
  <2>2. Cardinality(S \cup {n + 1}) = Cardinality(S) + 1  BY <1>3, <1>4, FS_AddElement
  <2> QED  BY <1>8, <2>1, <2>2 DEF VoteCount, S, T, t, One
<1>9. CASE x # v
  <2>1. T = S  BY <1>2, <1>4, <1>5, <1>6, <1>7, <1>9
  <2>2. One(x, v) = 0 /\ Cardinality(S) + 0 = Cardinality(S)  BY <1>3, <1>9 DEF One
  <2>3. VoteCount(Append(s, x), v) = Cardinality(T) /\ VoteCount(s, v) = Cardinality(S)
    BY DEF VoteCount, S, T, t
  <2> QED  BY <2>1, <2>2, <2>3
<1> QED  BY <1>8, <1>9

\* A window that begins with x.
LEMMA CountTail ==
  ASSUME NEW s \in Seq(Versions), s # << >>, NEW v
  PROVE  VoteCount(s, v) = VoteCount(Tail(s), v) + One(Head(s), v)
<1> DEFINE t == Tail(s)
           S == {i \in DOMAIN s : s[i] = v}
           R == S \ {1}
           T == {i \in DOMAIN t : t[i] = v}
           n == Len(s)
           f == [i \in R |-> i - 1]
<1>1. n \in Nat /\ n >= 1 /\ DOMAIN s = 1 .. n /\ Head(s) = s[1]  OBVIOUS
<1>2. t \in Seq(Versions) /\ DOMAIN t = 1 .. n - 1 /\ \A i \in 1 .. n - 1 : t[i] = s[i + 1]
  BY <1>1
<1>3. IsFiniteSet(S) /\ Cardinality(S) \in Nat  BY VoteSet DEF VoteCount
<1>4. IsFiniteSet(R) /\ Cardinality(R) = IF 1 \in S THEN Cardinality(S) - 1 ELSE Cardinality(S)
  BY <1>3, FS_RemoveElement
<1> HIDE DEF t, n
<1>5. \A i : i \in R <=> i \in 1 .. n /\ s[i] = v /\ i # 1  BY <1>1
<1>6. \A i : i \in T <=> i \in 1 .. n - 1 /\ s[i + 1] = v  BY <1>2
<1> HIDE DEF R, T, S
<1>7. f \in Bijection(R, T)
  <2>1. ASSUME NEW i \in R PROVE f[i] \in T
    <3>1. i \in 1 .. n /\ s[i] = v /\ i # 1  BY <1>5
    <3>2. i - 1 \in 1 .. n - 1 /\ (i - 1) + 1 = i  BY <3>1, <1>1
    <3> QED  BY <3>1, <3>2, <1>6
  <2>2. f \in [R -> T]  BY <2>1
  <2>3. ASSUME NEW i \in R, NEW j \in R, f[i] = f[j] PROVE i = j
    <3>1. i \in 1 .. n /\ j \in 1 .. n  BY <1>5
    <3> QED  BY <2>3, <3>1, <1>1
  <2>4. ASSUME NEW j \in T PROVE \E i \in R : f[i] = j
    <3>1. j \in 1 .. n - 1 /\ s[j + 1] = v  BY <1>6
    <3>2. j + 1 \in 1 .. n /\ j + 1 # 1 /\ (j + 1) - 1 = j  BY <3>1, <1>1
    <3>3. j + 1 \in R  BY <3>1, <3>2, <1>5
    <3> QED  BY <3>2, <3>3
  <2> HIDE DEF f
  <2> QED  BY <2>2, <2>3, <2>4 DEF Bijection, Injection, Surjection, IsInjective
<1>8. Cardinality(T) = Cardinality(R)  BY <1>4, <1>7, FS_Bijection DEF ExistsBijection
<1>9. 1 \in S <=> s[1] = v  BY <1>1 DEF S
<1>10. Cardinality(S) = Cardinality(T) + One(Head(s), v)
  BY <1>1, <1>3, <1>4, <1>8, <1>9 DEF One
<1> QED  BY <1>10 DEF VoteCount, S, T, t

\* A vote that is put at the old end of a window, and one taken from the young end.
LEMMA CountEnds ==
  ASSUME NEW s \in Seq(Versions), NEW x \in Versions, NEW v
  PROVE  /\ <<x>> \o s \in Seq(Versions) /\ <<x>> \o s # << >>
         /\ VoteCount(<<x>> \o s, v) = VoteCount(s, v) + One(x, v)
         /\ s # << >> => VoteCount(s, v) = VoteCount(front(s), v) + One(last(s), v)
<1> DEFINE t == <<x>> \o s
<1>1. t \in Seq(Versions) /\ Len(t) = Len(s) + 1 /\ t[1] = x /\ Len(s) \in Nat
      /\ \A i \in 1 .. Len(s) : t[i + 1] = s[i]
  OBVIOUS
<1> HIDE DEF t
<1>2. t # << >> /\ Head(t) = x  BY <1>1
<1>3. Tail(t) \in Seq(Versions) /\ Len(Tail(t)) = Len(s) /\ \A i \in 1 .. Len(s) : Tail(t)[i] = s[i]
  BY <1>1, <1>2
<1>4. Tail(t) = s  BY <1>3, SameSeq
<1>5. VoteCount(t, v) = VoteCount(Tail(t), v) + One(Head(t), v)  BY <1>1, <1>2, CountTail
<1>6. ASSUME s # << >> PROVE VoteCount(s, v) = VoteCount(front(s), v) + One(last(s), v)
  <2>1. front(s) \in Seq(Versions) /\ last(s) \in Versions /\ s = Append(front(s), last(s))
    BY <1>6, FrontLast
  <2>2. VoteCount(Append(front(s), last(s)), v) = VoteCount(front(s), v) + One(last(s), v)
    BY <2>1, CountAppend
  <2> QED  BY <2>1, <2>2
<1> QED  BY <1>1, <1>2, <1>4, <1>5, <1>6 DEF t

\* The vote counts of the object.
LEMMA VotingCounts ==
  ASSUME NEW h, Voting(h)
  PROVE  Counts(h.counts)
<1>1. h.versions \in Seq(Versions) /\ h.counts = [v \in Versions |-> VoteCount(h.versions, v)]
  BY DEF Voting
<1>2. \A v \in Versions : VoteCount(h.versions, v) \in Nat  BY <1>1, VoteSet
<1> QED  BY <1>1, <1>2 DEF Counts

\* With nothing left to a vote, the fork that is voted for is the one scheduled.
LEMMA VotedIndex ==
  ASSUME NEW t, Table(t), NEW h, Voting(h), NEW n \in Nat
  PROVE  get_voted_fork_index(t, h, n) = IdealIndex(t, n)
<1> DEFINE voted == {k \in 1 .. Len(t) :
                       /\ n >= t[k].height
                       /\ VotesFrom(t, h.counts, k) >= (VOTE_WINDOW * t[k].threshold + 99) \div 100}
<1>1. ASSUME NEW k \in 1 .. Len(t)
      PROVE  VotesFrom(t, h.counts, k) >= (VOTE_WINDOW * t[k].threshold + 99) \div 100
  <2>1. t[k].threshold = 0  BY DEF Table
  <2>2. VOTE_WINDOW * 0 = 0  BY VoteWindowAssumption
  <2>3. (0 + 99) \div 100 = 0  OBVIOUS
  <2>4. VotesFrom(t, h.counts, k) \in Nat  BY VotingCounts, VotesPositive
  <2> QED  BY <2>1, <2>2, <2>3, <2>4
<1>2. voted = Due(t, n)  BY <1>1 DEF Due
<1>3. IdealIndex(t, n) \in Due(t, n)  BY IdealFound
<1>4. get_voted_fork_index(t, h, n) =
        IF voted = {} THEN h.index ELSE CHOOSE k \in voted : \A m \in voted : m <= k
  BY DEF get_voted_fork_index
<1> HIDE DEF voted
<1> QED  BY <1>2, <1>3, <1>4 DEF IdealIndex

\* The object is the one of a chain of n blocks.
HfRight(t, h, n) == Voting(h) /\ h.index = IdealIndex(t, n)

\* The loop of add that moves the index arrives at the entry that is due.
LEMMA AdvanceRight ==
  ASSUME NEW t, Table(t), NEW h, Voting(h), NEW n \in Nat, h.index <= IdealIndex(t, n)
  PROVE  HfRight(t, advance(t, h, n), n)
<1> DEFINE x == IdealIndex(t, n)
           e == [h EXCEPT !.index = x]
<1>1. x \in 1 .. Len(t) /\ Len(t) \in Nat  BY IdealFound DEF Table
<1>2. x \in Nat /\ h.index \in Nat  BY <1>1 DEF Voting
<1>3. advance(t, h, n) = IF x > h.index THEN e ELSE h  BY VotedIndex DEF advance
<1>4. h = [index |-> h.index, versions |-> h.versions, counts |-> h.counts]  BY DEF Voting
<1>5. e = [index |-> x, versions |-> h.versions, counts |-> h.counts]  BY <1>4
<1> HIDE DEF x, e
<1>6. /\ e = [index |-> e.index, versions |-> e.versions, counts |-> e.counts]
      /\ e.index = x /\ e.versions = h.versions /\ e.counts = h.counts
  BY <1>5
<1>7. Voting(e)  BY <1>2, <1>6 DEF Voting
<1>8. CASE x > h.index  BY <1>3, <1>6, <1>7, <1>8 DEF HfRight, x
<1>9. CASE ~(x > h.index)
  <2>1. h.index = x  BY <1>2, <1>9 DEF x
  <2> QED  BY <1>3, <1>9, <2>1 DEF HfRight, x
<1> QED  BY <1>8, <1>9

\* A vote enters the window.
LEMMA EnterRight ==
  ASSUME NEW h, Voting(h), NEW x \in Versions
  PROVE  Voting(enter(h, x)) /\ enter(h, x).index = h.index
<1> DEFINE s == h.versions
           c == h.counts
           y == Head(s)
           c1 == [c EXCEPT ![y] = @ - 1]
           full == Len(s) >= VOTE_WINDOW
           rest == IF full THEN [h EXCEPT !.counts[Head(h.versions)] = @ - 1, !.versions = Tail(@)] ELSE h
           rs == IF full THEN Tail(s) ELSE s
           rc == IF full THEN c1 ELSE c
<1>1. /\ h = [index |-> h.index, versions |-> s, counts |-> c]
      /\ h.index \in Nat /\ s \in Seq(Versions) /\ s # << >> /\ c = [v \in Versions |-> VoteCount(s, v)]
  BY DEF Voting
<1>2. y \in Versions /\ Tail(s) \in Seq(Versions)  BY <1>1
<1>3. rest = [index |-> h.index, versions |-> rs, counts |-> rc]
  <2>1. CASE full
    <3>1. rest = [index |-> h.index, versions |-> Tail(s), counts |-> c1]  BY <1>1, <2>1
    <3> QED  BY <2>1, <3>1
  <2>2. CASE ~full  BY <1>1, <2>2
  <2> QED  BY <2>1, <2>2
<1>4. rs \in Seq(Versions)  BY <1>1, <1>2
<1>5. rc = [v \in Versions |-> VoteCount(rs, v)]
  <2>1. CASE full
    <3>1. c1 = [v \in Versions |-> IF v = y THEN c[y] - 1 ELSE c[v]]  BY <1>1, <1>2
    <3>2. ASSUME NEW v \in Versions
          PROVE  (IF v = y THEN c[y] - 1 ELSE c[v]) = VoteCount(Tail(s), v)
      <4>1. c[v] = VoteCount(s, v) /\ c[y] = VoteCount(s, y)  BY <1>1, <1>2
      <4>2. VoteCount(s, v) = VoteCount(Tail(s), v) + One(y, v)  BY <1>1, CountTail
      <4>3. VoteCount(Tail(s), v) \in Nat  BY <1>2, VoteSet
      <4> HIDE DEF s, c, y
      <4> QED  BY <4>1, <4>2, <4>3 DEF One
    <3>3. c1 = [v \in Versions |-> VoteCount(Tail(s), v)]
      <4> HIDE DEF s, c, y, c1
      <4> QED  BY <3>1, <3>2
    <3> QED  BY <2>1, <3>3
  <2>2. CASE ~full  BY <1>1, <2>2
  <2> QED  BY <2>1, <2>2
<1> DEFINE c2 == [rc EXCEPT ![x] = @ + 1]
           e == [rest EXCEPT !.versions = Append(@, x), !.counts[x] = @ + 1]
<1>6. enter(h, x) = e  BY DEF enter
<1> HIDE DEF rest, rs, rc
<1>7. e = [index |-> h.index, versions |-> Append(rs, x), counts |-> c2]
  <2>1. rest.index = h.index /\ rest.versions = rs /\ rest.counts = rc  BY <1>3
  <2> DEFINE z == Append(rs, x)
             k == h.index
  <2>2. e = [rest EXCEPT !.versions = z, !.counts = c2]  BY <1>3, <2>1
  <2> HIDE DEF z, c2, k
  <2>3. rest = [index |-> k, versions |-> rs, counts |-> rc]  BY <1>3 DEF k
  <2> DEFINE q == [rest EXCEPT !.versions = z]
  <2>4. [rest EXCEPT !.versions = z, !.counts = c2] = [q EXCEPT !.counts = c2]  BY <2>3
  <2>5. q = [index |-> k, versions |-> z, counts |-> rc]  BY <2>3
  <2> HIDE DEF q
  <2>6. [q EXCEPT !.counts = c2] = [index |-> k, versions |-> z, counts |-> c2]  BY <2>5
  <2> QED  BY <2>2, <2>4, <2>6 DEF z, k
<1>8. c2 = [v \in Versions |-> VoteCount(Append(rs, x), v)]
  <2>1. c2 = [v \in Versions |-> IF v = x THEN rc[x] + 1 ELSE rc[v]]  BY <1>5
  <2>2. ASSUME NEW v \in Versions PROVE (IF v = x THEN rc[x] + 1 ELSE rc[v]) = VoteCount(Append(rs, x), v)
    <3>1. rc[v] = VoteCount(rs, v) /\ rc[x] = VoteCount(rs, x)  BY <1>5
    <3>2. VoteCount(Append(rs, x), v) = VoteCount(rs, v) + One(x, v)  BY <1>4, CountAppend
    <3>3. VoteCount(rs, v) \in Nat  BY <1>4, VoteSet
    <3> QED  BY <3>1, <3>2, <3>3 DEF One
  <2> HIDE DEF c2
  <2> QED  BY <2>1, <2>2
<1> DEFINE w == Append(rs, x)
<1>9. w \in Seq(Versions) /\ w # << >>
  <2>1. w \in Seq(Versions) /\ Len(w) = Len(rs) + 1 /\ Len(rs) \in Nat  BY <1>4
  <2> HIDE DEF w
  <2>2. Len(w) # 0  BY <2>1
  <2> QED  BY <2>1, <2>2
<1> HIDE DEF c2, e, w
<1>10. /\ e = [index |-> e.index, versions |-> e.versions, counts |-> e.counts]
       /\ e.index = h.index /\ e.versions = w /\ e.counts = c2
  BY <1>7 DEF w
<1>11. Voting(e)  BY <1>1, <1>8, <1>9, <1>10 DEF Voting, w
<1> QED  BY <1>6, <1>10, <1>11

LEMMA EffectiveVersion ==
  ASSUME NEW t, Table(t), NEW x \in Versions
  PROVE  get_effective_version(t, x) \in Versions
<1>1. Len(t) \in 1 .. Len(t)  BY DEF Table
<1>2. t[Len(t)].version \in Versions  BY <1>1 DEF Table
<1> QED  BY <1>2 DEF get_effective_version

\* A block that passes the check is added.
LEMMA AddRight ==
  ASSUME NEW t, Table(t), NEW n \in Nat, NEW h, HfRight(t, h, n), NEW b \in AnyBlock,
         do_check(t, h.index, b)
  PROVE  HfRight(t, add(t, h, b, n), n + 1)
<1> DEFINE x == get_effective_version(t, b.vote)
           e == enter(h, x)
<1>1. x \in Versions  BY BlockFields, EffectiveVersion
<1> HIDE DEF x
<1>2. Voting(e) /\ e.index = IdealIndex(t, n)  BY <1>1, EnterRight DEF HfRight
<1>3. n + 1 \in Nat /\ n <= n + 1  OBVIOUS
<1>4. e.index <= IdealIndex(t, n + 1)  BY <1>2, <1>3, IdealGrows
<1>5. add(t, h, b, n) = advance(t, e, n + 1)  BY DEF add, x
<1> HIDE DEF e
<1>6. HfRight(t, advance(t, e, n + 1), n + 1)  BY <1>2, <1>3, <1>4, AdvanceRight
<1> QED  BY <1>5, <1>6

\* The last entry of a table that is due, as on_block_popped finds it.
LEMMA DueIndex ==
  ASSUME NEW t, Table(t), NEW h \in Nat
  PROVE  LET S == {n \in 2 .. Len(t) : h >= t[n].height}
         IN (IF S = {} THEN 1 ELSE CHOOSE n \in S : \A m \in S : m <= n) = IdealIndex(t, h)
<1> DEFINE x == IdealIndex(t, h)
           S == {n \in 2 .. Len(t) : h >= t[n].height}
<1>1. x \in 1 .. Len(t) /\ x \in Due(t, h) /\ \A n \in Due(t, h) : n <= x  BY IdealFound
<1>2. Len(t) \in Nat  BY DEF Table
<1>3. S \in SUBSET Nat /\ \A n \in S : n \in Due(t, h) /\ n >= 2  BY <1>2 DEF Due
<1>4. \A n \in Due(t, h) : n = 1 \/ n \in S  BY <1>2 DEF Due
<1> HIDE DEF x, S
<1>6. CASE S = {}
  <2>1. x = 1  BY <1>1, <1>4, <1>6
  <2> QED  BY <1>6, <2>1 DEF x, S
<1>7. CASE S # {}
  <2>1. x \in S /\ \A m \in S : m <= x
    <3>1. PICK n \in S : TRUE  BY <1>7
    <3>2. n <= x /\ n >= 2 /\ n \in Nat /\ x \in Nat  BY <1>1, <1>2, <1>3, <3>1
    <3>3. x # 1  BY <3>2
    <3> QED  BY <1>1, <1>3, <1>4, <3>3
  <2>2. (CHOOSE n \in S : \A m \in S : m <= n) = x  BY <1>3, <2>1, ChosenLargest
  <2> QED  BY <1>7, <2>2 DEF x, S
<1> QED  BY <1>6, <1>7

\* A block is popped, and n are left.
LEMMA PoppedRight ==
  ASSUME NEW t, Table(t), NEW n \in Nat, NEW h, Voting(h), NEW v, v[n] \in Versions
  PROVE  HfRight(t, on_block_popped(t, h, n, v), n)
<1> DEFINE s == h.versions
           c == h.counts
           gone == last(s)
           x == v[n]
           c1 == [c EXCEPT ![gone] = @ - 1]
           c2 == [c1 EXCEPT ![x] = @ + 1]
           w == <<x>> \o front(s)
           S == {k \in 2 .. Len(t) : n >= t[k].height}
           i == IF S = {} THEN 1 ELSE CHOOSE k \in S : \A m \in S : m <= k
           e == on_block_popped(t, h, n, v)
<1>1. s \in Seq(Versions) /\ s # << >> /\ c = [u \in Versions |-> VoteCount(s, u)]
  BY DEF Voting
<1>2. gone \in Versions /\ front(s) \in Seq(Versions)  BY <1>1, FrontLast
<1>3. i = IdealIndex(t, n)  BY DueIndex
<1>4. IdealIndex(t, n) \in Nat
  <2>1. IdealIndex(t, n) \in 1 .. Len(t) /\ Len(t) \in Nat  BY IdealFound DEF Table
  <2> QED  BY <2>1
<1>5. e = [index |-> i, versions |-> w, counts |-> c2]  BY DEF on_block_popped, last, front
<1> HIDE DEF s, c, gone, x, S, i, e, w
<1>6. w \in Seq(Versions) /\ w # << >>  BY <1>2, CountEnds DEF w, x
<1>7. c1 = [u \in Versions |-> VoteCount(front(s), u)]
  <2>1. c1 = [u \in Versions |-> IF u = gone THEN c[gone] - 1 ELSE c[u]]  BY <1>1, <1>2
  <2>2. ASSUME NEW u \in Versions PROVE (IF u = gone THEN c[gone] - 1 ELSE c[u]) = VoteCount(front(s), u)
    <3>1. c[u] = VoteCount(s, u) /\ c[gone] = VoteCount(s, gone)  BY <1>1, <1>2
    <3>2. VoteCount(s, u) = VoteCount(front(s), u) + One(gone, u)
      <4>1. \A z \in Seq(Versions) : z # << >> => VoteCount(z, u) = VoteCount(front(z), u) + One(last(z), u)
        BY CountEnds
      <4> QED  BY <1>1, <4>1 DEF gone
    <3>3. VoteCount(front(s), u) \in Nat  BY <1>2, VoteSet
    <3> QED  BY <3>1, <3>2, <3>3 DEF One
  <2> HIDE DEF c1
  <2> QED  BY <2>1, <2>2
<1> HIDE DEF c1
<1>8. c2 = [u \in Versions |-> VoteCount(w, u)]
  <2>0. x \in Versions  BY DEF x
  <2>1. c2 = [u \in Versions |-> IF u = x THEN c1[x] + 1 ELSE c1[u]]  BY <1>7, <2>0
  <2>2. ASSUME NEW u \in Versions PROVE (IF u = x THEN c1[x] + 1 ELSE c1[u]) = VoteCount(w, u)
    <3>1. c1[u] = VoteCount(front(s), u) /\ c1[x] = VoteCount(front(s), x)  BY <1>7, <2>0
    <3>2. VoteCount(w, u) = VoteCount(front(s), u) + One(x, u)  BY <1>2, <2>0, CountEnds DEF w
    <3>3. VoteCount(front(s), u) \in Nat  BY <1>2, VoteSet
    <3> QED  BY <3>1, <3>2, <3>3 DEF One
  <2> HIDE DEF c2
  <2> QED  BY <2>1, <2>2
<1> HIDE DEF c2
<1>9. /\ e = [index |-> e.index, versions |-> e.versions, counts |-> e.counts]
      /\ e.index = i /\ e.versions = w /\ e.counts = c2
  BY <1>5
<1>10. Voting(e)  BY <1>3, <1>4, <1>6, <1>8, <1>9 DEF Voting
<1> QED  BY <1>3, <1>9, <1>10 DEF HfRight, e

\* The votes of some blocks of a chain, counted afresh.
LEMMA ScanRight ==
  ASSUME NEW t, Table(t), NEW index \in Nat, NEW s \in Seq(AnyBlock), NEW from \in Nat, NEW to \in Nat,
         from <= to, to < Len(s)
  PROVE  Voting(scan(t, index, s, from, to)) /\ scan(t, index, s, from, to).index = index
<1> DEFINE n == to - from + 1
           w == [i \in 1 .. n |-> get_effective_version(t, s[from + i].vote)]
           c == [v \in Versions |-> Cardinality({i \in DOMAIN w : w[i] = v})]
           e == scan(t, index, s, from, to)
<1>1. n \in Nat /\ n >= 1  OBVIOUS
<1>2. ASSUME NEW i \in 1 .. n PROVE get_effective_version(t, s[from + i].vote) \in Versions
  <2>1. from + i \in 1 .. Len(s)  OBVIOUS
  <2>2. s[from + i].vote \in Versions  BY <2>1, BlockFields
  <2> QED  BY <2>2, EffectiveVersion
<1>3. e = [index |-> index, versions |-> w, counts |-> c]  BY DEF scan
<1>4. c = [v \in Versions |-> VoteCount(w, v)]  BY DEF VoteCount
<1> HIDE DEF n, c, e
<1>5. w \in Seq(Versions) /\ Len(w) = n  BY <1>1, <1>2
<1> HIDE DEF w
<1>6. w # << >>  BY <1>1, <1>5
<1>7. /\ e = [index |-> e.index, versions |-> e.versions, counts |-> e.counts]
      /\ e.index = index /\ e.versions = w /\ e.counts = c
  BY <1>3
<1> QED  BY <1>4, <1>5, <1>6, <1>7 DEF Voting, e

----------------------------------------------------------------------------
(* The object after a reorganisation and after a start.                    *)

\* The blocks of a chain have the version of their height and vote for it or
\* a later one, and the database has these versions.
ForksRight(t, s) == \A k \in 2 .. Len(s) : do_check(t, IdealIndex(t, k - 1), s[k])

\* The version stored for each block is the one that is due at its height.
HfvRight(t, v, n) ==
  /\ v \in [0 .. MaxHeight -> Nat]
  /\ \A h \in 0 .. n - 1 : v[h] = t[IdealIndex(t, h)].version

\* add keeps the votes and their counts together.
LEMMA AddVoting ==
  ASSUME NEW t, Table(t), NEW n \in Nat, NEW h, Voting(h), NEW b \in AnyBlock
  PROVE  Voting(add(t, h, b, n))
<1> DEFINE x == get_effective_version(t, b.vote)
           e == enter(h, x)
           i == IdealIndex(t, n + 1)
           g == [e EXCEPT !.index = i]
<1>1. x \in Versions /\ n + 1 \in Nat  BY BlockFields, EffectiveVersion
<1> HIDE DEF x
<1>2. Voting(e)  BY <1>1, EnterRight
<1> HIDE DEF e
<1>3. i \in Nat
  <2>1. i \in 1 .. Len(t) /\ Len(t) \in Nat  BY <1>1, IdealFound DEF Table
  <2> QED  BY <2>1
<1>4. advance(t, e, n + 1) = IF i > e.index THEN g ELSE e  BY <1>1, <1>2, VotedIndex DEF advance
<1>5. e = [index |-> e.index, versions |-> e.versions, counts |-> e.counts]  BY <1>2 DEF Voting
<1> HIDE DEF i
<1>6. g = [index |-> i, versions |-> e.versions, counts |-> e.counts]  BY <1>5
<1> HIDE DEF g
<1>7. /\ g = [index |-> g.index, versions |-> g.versions, counts |-> g.counts]
      /\ g.index = i /\ g.versions = e.versions /\ g.counts = e.counts
  BY <1>6
<1>8. Voting(g)  BY <1>2, <1>3, <1>7 DEF Voting
<1>9. add(t, h, b, n) = advance(t, e, n + 1) \/ add(t, h, b, n) = h  BY DEF add, e, x
<1> QED  BY <1>2, <1>4, <1>8, <1>9

\* Blocks n + 1, n + 2, ... of a chain are added to the object of the first n.
LEMMA ReaddRight ==
  ASSUME NEW t, Table(t), NEW s \in Seq(AnyBlock), ForksRight(t, s), NEW n \in 1 .. Len(s),
         NEW base, HfRight(t, base, n),
         NEW g, g = CHOOSE f : f = [k \in 0 .. Len(s) - n |->
                                      IF k = 0 THEN base ELSE add(t, f[k - 1], s[n + k], n - 1 + k)]
  PROVE  HfRight(t, g[Len(s) - n], Len(s))
<1> DEFINE N == Len(s) - n
           A(k, x) == add(t, x, s[n + k], n - 1 + k)
           All == [index : Nat, versions : Seq(Versions), counts : [Versions -> Nat]]
           V == {x \in All : Voting(x)}
           step == [k \in 1 .. N |-> [x \in V |-> A(k, x)]]
           Eq(f) == f = [k \in 0 .. N |-> IF k = 0 THEN base ELSE A(k, f[k - 1])]
<1>1. N \in Nat /\ n \in Nat /\ n >= 1 /\ Len(s) \in Nat /\ n + N = Len(s)  OBVIOUS
<1>2. ASSUME NEW x, Voting(x) PROVE x \in V
  <2>1. /\ x = [index |-> x.index, versions |-> x.versions, counts |-> x.counts]
        /\ x.index \in Nat /\ x.versions \in Seq(Versions)
        /\ x.counts = [v \in Versions |-> VoteCount(x.versions, v)]
    BY <1>2 DEF Voting
  <2>2. \A v \in Versions : VoteCount(x.versions, v) \in Nat  BY <2>1, VoteSet
  <2>3. x.counts \in [Versions -> Nat]  BY <2>1, <2>2
  <2>4. x \in All  BY <2>1, <2>3
  <2> QED  BY <1>2, <2>4
<1>3. ASSUME NEW k \in 1 .. N, NEW x, Voting(x) PROVE Voting(A(k, x))
  <2>1. n + k \in 1 .. Len(s) /\ n - 1 + k \in Nat  BY <1>1
  <2>2. s[n + k] \in AnyBlock  BY <2>1
  <2> QED  BY <1>3, <2>1, <2>2, AddVoting
<1>4. base \in V /\ \A x \in V : Voting(x)  BY <1>2 DEF HfRight
<1> HIDE DEF A, V, N
<1>5. \A k \in 1 .. N : \A x \in V : A(k, x) \in V  BY <1>2, <1>3, <1>4
<1>6. step \in Steps(V, N)  BY <1>5 DEF Steps
<1>7. PICK f : f \in Results(V, base, N, step)  BY <1>1, <1>4, <1>6, Recursion
<1>8. f \in [0 .. N -> V] /\ f[0] = base /\ \A k \in 1 .. N : f[k] = step[k][f[k - 1]]
  BY <1>7 DEF Results
<1>9. Eq(f)
  <2>1. ASSUME NEW k \in 0 .. N PROVE f[k] = IF k = 0 THEN base ELSE A(k, f[k - 1])
    <3>1. CASE k = 0  BY <3>1, <1>8
    <3>2. CASE k # 0
      <4>1. k \in 1 .. N /\ k - 1 \in 0 .. N  BY <3>2, <1>1
      <4>2. f[k - 1] \in V  BY <4>1, <1>8
      <4>3. step[k][f[k - 1]] = A(k, f[k - 1])  BY <4>1, <4>2
      <4> QED  BY <3>2, <4>1, <4>3, <1>8
    <3> QED  BY <3>1, <3>2
  <2>2. f = [k \in 0 .. N |-> f[k]]  BY <1>8
  <2> HIDE DEF step
  <2> QED  BY <2>1, <2>2
<1>10. g = CHOOSE f2 : Eq(f2)  BY DEF A, N
<1>11. Eq(g)  BY <1>9, <1>10
<1>12. g[0] = base /\ \A k \in 1 .. N : g[k] = A(k, g[k - 1])
  <2>1. g = [k \in 0 .. N |-> IF k = 0 THEN base ELSE A(k, g[k - 1])]  BY <1>11
  <2> HIDE DEF Eq
  <2>2. \A k \in 0 .. N : g[k] = IF k = 0 THEN base ELSE A(k, g[k - 1])  BY <2>1, Zenon
  <2>3. 0 \in 0 .. N /\ \A k \in 1 .. N : k \in 0 .. N /\ k # 0  BY <1>1
  <2>4. g[0] = base  BY <2>2, <2>3
  <2>5. ASSUME NEW k \in 1 .. N PROVE g[k] = A(k, g[k - 1])  BY <2>2, <2>3, Zenon
  <2> QED  BY <2>4, <2>5
<1> HIDE DEF Eq
<1> DEFINE S == {k \in Nat : k <= N => HfRight(t, g[k], n + k)}
<1>13. 0 \in S
  <2>1. n + 0 = n  BY <1>1
  <2> QED  BY <2>1, <1>12
<1>14. ASSUME NEW k \in Nat, k \in S PROVE k + 1 \in S
  <2> SUFFICES ASSUME k + 1 <= N PROVE HfRight(t, g[k + 1], n + (k + 1))  OBVIOUS
  <2>1. k + 1 \in 1 .. N /\ (k + 1) - 1 = k /\ k <= N  BY <1>1
  <2>2. HfRight(t, g[k], n + k)  BY <2>1, <1>14
  <2>3. g[k + 1] = A(k + 1, g[k])  BY <2>1, <1>12
  <2> DEFINE j == n + (k + 1)
  <2>4. j \in 2 .. Len(s) /\ j - 1 = n + k /\ n - 1 + (k + 1) = n + k /\ n + k \in Nat /\ j \in 1 .. Len(s)
        /\ n + k + 1 = j
    BY <1>1, <2>1
  <2>5. do_check(t, IdealIndex(t, n + k), s[j])
    <3> HIDE DEF j
    <3>1. do_check(t, IdealIndex(t, j - 1), s[j])  BY <2>4 DEF ForksRight
    <3> QED  BY <3>1, <2>4
  <2>6. s[j] \in AnyBlock  BY <2>4
  <2>7. g[k + 1] = add(t, g[k], s[j], n + k)  BY <2>3, <2>4 DEF A
  <2> HIDE DEF j
  <2>8. do_check(t, g[k].index, s[j])  BY <2>2, <2>5 DEF HfRight
  <2>9. HfRight(t, add(t, g[k], s[j], n + k), n + k + 1)  BY <2>2, <2>4, <2>6, <2>8, AddRight
  <2> QED  BY <2>4, <2>7, <2>9 DEF j
<1> HIDE DEF S
<1>15. Nat \subseteq S  BY <1>13, <1>14, Induction
<1>16. N \in S  BY <1>1, <1>15
<1>17. HfRight(t, g[N], n + N)  BY <1>1, <1>16 DEF S
<1> QED  BY <1>1, <1>17 DEF N

\* The entry that a reorganisation counts from is not above the scheduled one.
Lowered(t, i, start) ==
  LET lower == {k \in 1 .. i : k = 1 \/ t[k].version <= start}
  IN CHOOSE k \in lower : \A m \in lower : m <= k

\* The loop of reorganize that lowers the index stops at or below the entry
\* that is due.
LEMMA LowerIndex ==
  ASSUME NEW t, Table(t), NEW i \in 1 .. Len(t), NEW n \in Nat, NEW start,
         start = t[IdealIndex(t, n)].version
  PROVE  Lowered(t, i, start) \in Nat /\ Lowered(t, i, start) <= IdealIndex(t, n)
<1> DEFINE lower == {k \in 1 .. i : k = 1 \/ t[k].version <= start}
           x == Lowered(t, i, start)
           y == IdealIndex(t, n)
<1>1. i \in Nat /\ i >= 1 /\ Len(t) \in Nat /\ i <= Len(t)  BY DEF Table
<1>2. lower \in SUBSET (0 .. i) /\ 1 \in lower /\ \A k \in lower : k \in 1 .. i /\ (k = 1 \/ t[k].version <= start)
  BY <1>1
<1>3. y \in 1 .. Len(t)  BY IdealFound
<1> HIDE DEF lower, y
<1>4. \E m \in lower : \A k \in lower : k <= m  BY <1>1, <1>2, LargestNumber
<1>5. x \in lower  BY <1>4 DEF Lowered, lower
<1> HIDE DEF x
<1>6. x \in 1 .. i /\ (x = 1 \/ t[x].version <= start)  BY <1>2, <1>5
<1>7. CASE x = 1
  <2>1. x \in Nat /\ x <= y  BY <1>1, <1>3, <1>7
  <2> QED  BY <2>1 DEF x, y
<1>8. CASE t[x].version <= start
  <2>1. x \in 1 .. Len(t)  BY <1>1, <1>6
  <2>2. t[x].version \in Nat /\ t[y].version \in Nat
    BY <1>3, <2>1, VersionsAssumption DEF Table
  <2>3. y < x => t[y].version < t[x].version  BY <1>3, <2>1 DEF Table
  <2>4. ~(y < x)  BY <1>8, <2>2, <2>3 DEF y
  <2>5. x \in Nat /\ x <= y  BY <1>1, <1>3, <2>1, <2>4
  <2> QED  BY <2>5 DEF x, y
<1> QED  BY <1>6, <1>7, <1>8

\* At height 0 the first entry is due.
LEMMA GenesisIndex ==
  ASSUME NEW t, Table(t)
  PROVE  IdealIndex(t, 0) = 1
<1> DEFINE y == IdealIndex(t, 0)
<1>1. y \in 1 .. Len(t) /\ y \in Due(t, 0)  BY IdealFound
<1>2. t[y].height \in Nat /\ 0 >= t[y].height  BY <1>1 DEF Due, Table
<1>3. t[1].height = 0 /\ 1 \in 1 .. Len(t) /\ Len(t) \in Nat  BY DEF Table
<1>4. 1 < y => t[1].height < t[y].height  BY <1>1, <1>3 DEF Table
<1> HIDE DEF y
<1>5. y = 1  BY <1>1, <1>2, <1>3, <1>4
<1> QED  BY <1>5 DEF y

\* reorganize_from_chain_height, with the first n blocks kept.
LEMMA ReorganizeRight ==
  ASSUME NEW t, Table(t), NEW h, h.index \in 1 .. Len(t), NEW s \in Chains, ForksRight(t, s),
         NEW v, HfvRight(t, v, Len(s)), NEW n \in 1 .. Len(s)
  PROVE  HfRight(t, reorganize_from_chain_height(t, h, s, n, v), Len(s))
<1> DEFINE kept == n - 1
           from == IF kept >= VOTE_WINDOW - 1 THEN kept - (VOTE_WINDOW - 1) ELSE 0
           start == IF kept = 0 THEN t[1].version ELSE v[kept]
           x == Lowered(t, h.index, start)
           base == advance(t, scan(t, x, s, from, kept), n)
           g == CHOOSE f : f = [k \in 0 .. Len(s) - n |->
                                  IF k = 0 THEN base ELSE add(t, f[k - 1], s[n + k], n - 1 + k)]
<1>1. s \in Seq(AnyBlock) /\ Len(s) \in Nat  BY ChainType
<1>2. n \in Nat /\ n >= 1 /\ n <= Len(s)  BY <1>1
<1>3. kept \in Nat /\ kept < Len(s) /\ kept \in 0 .. Len(s) - 1 /\ kept <= n  BY <1>1, <1>2
<1>4. from \in Nat /\ from <= kept  BY <1>3, VoteWindowAssumption
<1>5. start = t[IdealIndex(t, kept)].version
  <2>1. CASE kept = 0
    <3>1. IdealIndex(t, 0) = 1  BY GenesisIndex
    <3> QED  BY <2>1, <3>1
  <2>2. CASE kept # 0  BY <1>3, <2>2 DEF HfvRight
  <2> QED  BY <2>1, <2>2
<1>6. reorganize_from_chain_height(t, h, s, n, v) = g[Len(s) - n]
  <2>1. ~(n = 0 \/ kept >= Len(s))  BY <1>1, <1>2, <1>3
  <2> QED  BY <2>1 DEF reorganize_from_chain_height, Lowered
<1> HIDE DEF kept, from, start
<1>7. x \in Nat /\ x <= IdealIndex(t, kept)  BY <1>3, <1>5, LowerIndex
<1> HIDE DEF x
<1>8. IdealIndex(t, kept) <= IdealIndex(t, n)  BY <1>2, <1>3, IdealGrows
<1>9. IdealIndex(t, kept) \in Nat /\ IdealIndex(t, n) \in Nat
  <2>1. IdealIndex(t, kept) \in 1 .. Len(t) /\ IdealIndex(t, n) \in 1 .. Len(t) /\ Len(t) \in Nat
    BY <1>2, <1>3, IdealFound DEF Table
  <2> QED  BY <2>1
<1>10. x <= IdealIndex(t, n)
  <2>1. \A i, j, k \in Nat : i <= j /\ j <= k => i <= k  OBVIOUS
  <2> QED  BY <1>7, <1>8, <1>9, <2>1
<1>11. Voting(scan(t, x, s, from, kept)) /\ scan(t, x, s, from, kept).index = x
  BY <1>1, <1>3, <1>4, <1>7, ScanRight
<1>12. HfRight(t, base, n)  BY <1>2, <1>10, <1>11, AdvanceRight
<1> HIDE DEF base
<1>13. HfRight(t, g[Len(s) - n], Len(s))  BY <1>1, <1>12, ReaddRight
<1> QED  BY <1>6, <1>13

\* A start, on a chain whose last version is that of an entry that is due.
LEMMA InitRight ==
  ASSUME NEW t, Table(t), NEW s \in Chains, NEW v, NEW j \in 1 .. Len(t),
         v[Len(s) - 1] = t[j].version, t[j].height <= Len(s)
  PROVE  HfRight(t, init(t, s, v), Len(s))
<1> DEFINE n == Len(s)
           from == IF n > VOTE_WINDOW THEN n - VOTE_WINDOW ELSE 0
           x == entry_of(t, v[n - 1])
           found == {k \in 1 .. Len(t) : t[k].version = t[j].version}
<1>1. s \in Seq(AnyBlock) /\ n \in Nat /\ n >= 1  BY ChainType
<1>2. from \in Nat /\ from <= n - 1 /\ n - 1 \in Nat /\ n - 1 < n  BY <1>1, VoteWindowAssumption
<1>3. x = j
  <2>1. \A k \in 1 .. Len(t) : t[k].version \in Nat  BY VersionsAssumption DEF Table
  <2>2. ASSUME NEW k \in found PROVE k = j
    <3>1. k < j => t[k].version < t[j].version  BY DEF Table
    <3>2. j < k => t[j].version < t[k].version  BY DEF Table
    <3>3. t[k].version = t[j].version /\ t[k].version \in Nat /\ k \in 1 .. Len(t)  BY <2>1
    <3>4. Len(t) \in Nat  BY DEF Table
    <3> QED  BY <3>1, <3>2, <3>3, <3>4
  <2>3. found = {j}  BY <2>2
  <2>4. x = IF found = {} THEN Len(t) ELSE CHOOSE k \in found : \A m \in found : k <= m  BY DEF entry_of
  <2> HIDE DEF found
  <2>5. j \in Nat  BY DEF Table
  <2>6. x = CHOOSE k \in {j} : \A m \in {j} : k <= m  BY <2>3, <2>4
  <2>7. (CHOOSE k \in {j} : \A m \in {j} : k <= m) = j  BY <2>5
  <2> QED  BY <2>6, <2>7
<1> DEFINE e == scan(t, x, s, from, n - 1)
<1>4. init(t, s, v) = advance(t, e, n)  BY DEF init
<1>5. j \in Nat  BY DEF Table
<1> HIDE DEF x, from
<1>6. Voting(e) /\ e.index = j  BY <1>1, <1>2, <1>3, <1>5, ScanRight
<1>7. j \in Due(t, n)
  <2>1. t[j].height \in Nat  BY DEF Table
  <2> QED  BY <1>1, <2>1 DEF Due
<1>8. j <= IdealIndex(t, n)  BY <1>1, <1>7, IdealFound
<1> HIDE DEF e
<1>9. HfRight(t, advance(t, e, n), n)  BY <1>1, <1>6, <1>8, AdvanceRight
<1> QED  BY <1>4, <1>9

\* u knows the forks of t.
Later(t, u) == Len(t) <= Len(u) /\ \A i \in 1 .. Len(t) : u[i] = t[i]

\* The table of a newer release begins with the one of the older.
LEMMA LaterTable ==
  ASSUME NEW q \in DOMAIN Tables, NEW r \in DOMAIN Tables, q <= r
  PROVE  Later(Tables[q], Tables[r])
<1> DEFINE t == Tables[q]
           u == Tables[r]
           E == [version : Versions, height : Nat, threshold : {0}]
<1>1. Len(t) <= Len(u) /\ t = SubSeq(u, 1, Len(t))  BY ReleasesAssumption
<1>2. t \in Seq(E) /\ u \in Seq(E)  BY TableType
<1> HIDE DEF t, u, E
<1>3. Len(t) \in Nat /\ Len(u) \in Nat  BY <1>2
<1>4. \A i \in 1 .. Len(t) : SubSeq(u, 1, Len(t))[i] = u[i]  BY <1>1, <1>2, <1>3
<1>5. \A i \in 1 .. Len(t) : u[i] = t[i]  BY <1>1, <1>4
<1> QED  BY <1>1, <1>5 DEF Later, t, u

\* What is scheduled by both is the same.
LEMMA SameIdeal ==
  ASSUME NEW t, Table(t), NEW u, Table(u), Later(t, u), NEW h \in Nat, IdealIndex(u, h) <= Len(t)
  PROVE  IdealIndex(t, h) = IdealIndex(u, h) /\ t[IdealIndex(t, h)] = u[IdealIndex(u, h)]
<1> DEFINE x == IdealIndex(u, h)
<1>1. x \in 1 .. Len(u) /\ x \in Due(u, h) /\ \A n \in Due(u, h) : n <= x  BY IdealFound
<1>2. Len(t) \in Nat /\ Len(u) \in Nat /\ Len(t) <= Len(u) /\ \A i \in 1 .. Len(t) : u[i] = t[i]
  BY DEF Table, Later
<1>3. x \in 1 .. Len(t)  BY <1>1, <1>2
<1> HIDE DEF x
<1>4. x \in Due(t, h)  BY <1>1, <1>2, <1>3 DEF Due
<1>5. Due(t, h) \in SUBSET Nat /\ \A n \in Due(t, h) : n \in Due(u, h)
  <2>1. \A n \in 1 .. Len(t) : n \in 1 .. Len(u) /\ n \in Nat  BY <1>2
  <2> QED  BY <1>2, <2>1 DEF Due
<1>6. \A n \in Due(t, h) : n <= x  BY <1>1, <1>5
<1>7. IdealIndex(t, h) = x  BY <1>4, <1>5, <1>6, ChosenLargest DEF IdealIndex
<1> QED  BY <1>2, <1>3, <1>7 DEF x

\* Block k has the version that the later table gives it too.
LEMMA StillRight ==
  ASSUME NEW t, Table(t), NEW u, Table(u), Later(t, u), NEW s \in Chains, ForksRight(t, s),
         NEW k \in right_version(u, s)
  PROVE  k \in 1 .. Len(s) /\ IdealIndex(u, k - 1) <= Len(t)
<1> DEFINE h == k - 1
           x == IdealIndex(u, h)
           j == IdealIndex(t, h)
<1>1. Len(s) \in Nat  BY ChainType
<1>2. k \in 1 .. Len(s) /\ (get_ideal_version(u, h) <= 1 \/ s[k].v = get_ideal_version(u, h))
  BY DEF right_version
<1>3. h \in Nat  BY <1>1, <1>2
<1>4. x \in 1 .. Len(u) /\ j \in 1 .. Len(t) /\ Len(t) \in Nat /\ Len(u) \in Nat /\ Len(t) >= 1 /\ Len(u) >= 1
  BY <1>3, IdealFound DEF Table
<1>5. get_ideal_version(u, h) = u[x].version  BY <1>3, IdealVersion
<1>6. Len(t) <= Len(u) /\ u[j] = t[j]  BY <1>4 DEF Later
<1>7. 1 \in 1 .. Len(u) /\ j \in 1 .. Len(u)  BY <1>4, <1>6
<1>8. u[x].version \in Nat /\ u[1].version \in Nat /\ u[1].version >= 1 /\ u[j].version \in Nat
  <2>1. u[x].version \in Versions /\ u[1].version \in Versions /\ u[j].version \in Versions
    BY <1>4, <1>7 DEF Table
  <2>2. \A y \in Versions : y \in Nat /\ y >= 1  BY VersionsAssumption
  <2> QED  BY <2>1, <2>2
<1> HIDE DEF h, x, j
<1>9. CASE k = 1
  <2>1. h = 0  BY <1>9 DEF h
  <2>2. x = 1  BY <2>1, GenesisIndex DEF x
  <2> QED  BY <1>2, <1>4, <2>2 DEF x, h
<1>10. CASE u[x].version <= 1
  <2>1. 1 < x => u[1].version < u[x].version  BY <1>4, <1>7 DEF Table
  <2>2. x = 1  BY <1>4, <1>8, <1>10, <2>1
  <2> QED  BY <1>2, <1>4, <2>2 DEF x, h
<1>11. CASE k # 1 /\ s[k].v = u[x].version
  <2>1. k \in 2 .. Len(s)  BY <1>1, <1>2, <1>11
  <2>2. do_check(t, j, s[k])  BY <2>1 DEF ForksRight, j, h
  <2>3. u[x].version = u[j].version  BY <1>6, <1>11, <2>2 DEF do_check
  <2>4. (x < j => u[x].version < u[j].version) /\ (j < x => u[j].version < u[x].version)
    BY <1>4, <1>7 DEF Table
  <2>5. x = j  BY <1>4, <1>7, <1>8, <2>3, <2>4
  <2> QED  BY <1>2, <1>4, <2>5 DEF x, h
<1> QED  BY <1>2, <1>5, <1>9, <1>10, <1>11

\* What a later release keeps of a chain is right for it.
LEMMA UpgradeRight ==
  ASSUME NEW t, Table(t), NEW u, Table(u), Later(t, u), NEW s \in Chains, ForksRight(t, s),
         NEW v, HfvRight(t, v, Len(s)), NEW k \in right_version(u, s), NEW p, p = SubSeq(s, 1, k)
  PROVE  ForksRight(u, p) /\ HfvRight(u, v, k)
<1>1. k \in 1 .. Len(s) /\ IdealIndex(u, k - 1) <= Len(t)  BY StillRight
<1>2. Len(s) \in Nat /\ k \in Nat /\ k >= 1 /\ k <= Len(s)  BY <1>1, ChainType
<1>3. Len(p) = k /\ \A i \in 1 .. k : p[i] = s[i]  BY <1>1, ChainPrefix
<1>4. ASSUME NEW h \in 0 .. k - 1
      PROVE  IdealIndex(u, h) = IdealIndex(t, h) /\ u[IdealIndex(u, h)] = t[IdealIndex(t, h)]
  <2>1. h \in Nat /\ k - 1 \in Nat /\ h <= k - 1  BY <1>2
  <2>2. IdealIndex(u, h) <= IdealIndex(u, k - 1)  BY <2>1, IdealGrows
  <2>3. IdealIndex(u, h) \in 1 .. Len(u) /\ IdealIndex(u, k - 1) \in 1 .. Len(u) /\ Len(u) \in Nat /\ Len(t) \in Nat
    BY <2>1, IdealFound DEF Table
  <2>4. IdealIndex(u, h) <= Len(t)
    <3>1. \A a, b, c \in Nat : a <= b /\ b <= c => a <= c  OBVIOUS
    <3>2. IdealIndex(u, h) \in Nat /\ IdealIndex(u, k - 1) \in Nat  BY <2>3
    <3> QED  BY <1>1, <2>2, <2>3, <3>1, <3>2
  <2> QED  BY <2>1, <2>4, SameIdeal
<1>5. ForksRight(u, p)
  <2> SUFFICES ASSUME NEW i \in 2 .. Len(p) PROVE do_check(u, IdealIndex(u, i - 1), p[i])
    BY DEF ForksRight
  <2>1. i \in 2 .. Len(s) /\ i \in 1 .. k /\ i - 1 \in 0 .. k - 1  BY <1>2, <1>3
  <2>2. do_check(t, IdealIndex(t, i - 1), s[i])  BY <2>1 DEF ForksRight
  <2>3. p[i] = s[i] /\ u[IdealIndex(u, i - 1)] = t[IdealIndex(t, i - 1)]  BY <1>3, <1>4, <2>1
  <2> QED  BY <2>2, <2>3 DEF do_check
<1>6. HfvRight(u, v, k)
  <2>1. ASSUME NEW h \in 0 .. k - 1 PROVE v[h] = u[IdealIndex(u, h)].version
    <3>1. h \in 0 .. Len(s) - 1  BY <1>2
    <3>2. v[h] = t[IdealIndex(t, h)].version  BY <3>1 DEF HfvRight
    <3> QED  BY <1>4, <3>2
  <2> QED  BY <2>1 DEF HfvRight
<1> QED  BY <1>5, <1>6

\* The hard fork object of a start.
LEMMA StartRight ==
  ASSUME NEW t, Table(t), NEW u, Table(u), Later(t, u), NEW s \in Chains, ForksRight(t, s),
         NEW v, HfvRight(t, v, Len(s)), NEW k \in right_version(u, s), NEW p, p = SubSeq(s, 1, k),
         NEW h, h = IF k = Len(s) THEN init(u, s, v)
                    ELSE reorganize_from_chain_height(u, init(u, s, v), p, k, v)
  PROVE  HfRight(u, h, k)
<1> DEFINE n == Len(s)
           j == IdealIndex(t, n - 1)
<1>1. n \in Nat /\ n >= 1 /\ n - 1 \in Nat  BY ChainType
<1>2. j \in 1 .. Len(t) /\ j \in Due(t, n - 1) /\ Len(t) \in Nat /\ Len(t) <= Len(u) /\ Len(u) \in Nat
      /\ u[j] = t[j]
  BY <1>1, IdealFound DEF Table, Later
<1>3. j \in 1 .. Len(u) /\ t[j].height \in Nat /\ n - 1 >= t[j].height  BY <1>2 DEF Due, Table
<1>4. v[n - 1] = u[j].version
  <2>1. n - 1 \in 0 .. n - 1  BY <1>1
  <2> QED  BY <1>2, <2>1 DEF HfvRight
<1>5. u[j].height <= n  BY <1>1, <1>2, <1>3
<1> HIDE DEF j
<1>6. HfRight(u, init(u, s, v), n)  BY <1>3, <1>4, <1>5, InitRight
<1>7. CASE k = n  BY <1>6, <1>7
<1>8. CASE k # n
  <2>1. k \in 1 .. n  BY StillRight
  <2>2. p \in Chains /\ Len(p) = k  BY <2>1, ChainPrefix
  <2>3. ForksRight(u, p) /\ HfvRight(u, v, Len(p))  BY <2>2, UpgradeRight
  <2>4. init(u, s, v).index \in 1 .. Len(u)  BY <1>1, <1>6, IdealFound DEF HfRight
  <2>5. k \in 1 .. Len(p)  BY <1>1, <2>1, <2>2
  <2>6. HfRight(u, reorganize_from_chain_height(u, init(u, s, v), p, k, v), Len(p))
    BY <2>2, <2>3, <2>4, <2>5, ReorganizeRight
  <2> QED  BY <1>8, <2>2, <2>6
<1> QED  BY <1>7, <1>8

----------------------------------------------------------------------------
(* The coins: as long as the database has not thrown the data is right in  *)
(* every part.  Afterwards it is for the blocks that stand on no block     *)
(* whose coinbase pays out too much.                                       *)

\* The coins too are right, here and in the batch.
CoinsRight ==
  /\ meta = RuleMeta(chain)
  /\ batch.open => batch.db.meta = RuleMeta(batch.db.chain)

\* What is stored with a block, when the limit is right or the block honest.
LEMMA AddCoins ==
  ASSUME chain \in Chains, Exact(meta, chain), BatchRight, CachesRight, meta = RuleMeta(chain),
         NEW b \in AnyBlock, add_block(b), median_weight = RuleMedian(chain, meta) \/ b.bad = 0
  PROVE  meta' = RuleMeta(chain')
<1> DEFINE d == difficulty_cache(dc, chain, meta)
           c == long_term_cache(lt, chain, meta)
           e == stored_data(b, d, c)
           M == RuleMeta(chain)
           D == RuleData(chain, M, b)
           g == get_block_reward(median_weight, b.w, last(meta).coins)
           R == RuleReward(chain, M, b)
<1>1. chain \in Seq(AnyBlock) /\ chain # << >>  BY ChainType
<1>2. chain' = Append(chain, b) /\ meta' = Append(meta, e) /\ reward_right(b)
  BY DEF add_block, accepts
<1>3. DcAsked(dc, d, chain)  BY AskedHere
<1>4. median(c.window) = long_term_median(meta) /\ median_weight \in Nat
  BY <1>1, LongTermCache DEF CachesRight
<1>5. e.ltw = D.ltw /\ e.cum = D.cum /\ e \in Data
  <2> HIDE DEF d, c
  <2> QED  BY <1>3, <1>4, StoredData
<1>6. g.reward = R.reward
  <2>1. CASE median_weight = RuleMedian(chain, meta)  BY <2>1 DEF RuleReward
  <2>2. CASE b.bad = 0
    <3>1. g.reward + b.fee = R.reward + b.fee + b.bad  BY <1>2 DEF reward_right, money_in_use
    <3>2. b.fee \in Nat /\ b.w \in Nat  BY BlockFields
    <3>3. g.reward \in Nat /\ R.reward \in Nat
      <4>1. M \in Seq(Data) /\ Len(M) = Len(chain)  BY <1>1, RuleMetaType
      <4>2. M # << >>  BY <1>1, <4>1
      <4>3. last(M).coins \in 0 .. MONEY_SUPPLY  BY <4>1, <4>2, LastData
      <4>4. base_reward(last(M).coins) \in Nat  BY <4>3, RewardBound
      <4>5. RuleMedian(chain, M) \in Nat  BY <1>1, <4>1, RuleMedianType
      <4>6. g.reward \in 0 .. base_reward(last(M).coins)  BY <1>4, <3>2, <4>3, BlockRewardBound
      <4>7. R.reward \in 0 .. base_reward(last(M).coins)  BY <3>2, <4>3, <4>5, BlockRewardBound DEF RuleReward
      <4> QED  BY <4>4, <4>6, <4>7
    <3> DEFINE x == g.reward
               y == R.reward
    <3>4. x \in Nat /\ y \in Nat /\ x + b.fee = y + b.fee + 0  BY <2>2, <3>1, <3>3
    <3> HIDE DEF x, y
    <3>5. x = y  BY <3>2, <3>4
    <3> QED  BY <3>5 DEF x, y
  <2> QED  BY <2>1, <2>2
<1>7. e.coins = add_coins(last(meta).coins, g.reward)  BY DEF stored_data
<1>8. D.coins = add_coins(last(M).coins, R.reward)  BY <1>1 DEF RuleData
<1>9. e.coins = D.coins  BY <1>6, <1>7, <1>8
<1>10. D = [ltw |-> D.ltw, cum |-> D.cum, coins |-> D.coins]
  <2>1. D = [ltw |-> get_next_long_term_block_weight(b.w, long_term_median(M)),
             cum |-> last(M).cum + RuleDifficulty(chain, M), coins |-> add_coins(last(M).coins, R.reward)]
    BY <1>1 DEF RuleData
  <2> HIDE DEF D, R, M
  <2> QED  BY <2>1
<1> HIDE DEF e, D
<1>11. e = [ltw |-> e.ltw, cum |-> e.cum, coins |-> e.coins]  BY <1>5 DEF Data
<1>12. e = D  BY <1>5, <1>9, <1>10, <1>11
<1>13. RuleMeta(Append(chain, b)) = Append(M, D)  BY <1>1, RuleMetaAppend DEF D
<1> QED  BY <1>2, <1>12, <1>13

\* What a step does to the chain.
Stays == chain' = chain /\ meta' = meta

\* The ways a step may change the chain: a block more, the abort of a batch,
\* a start.
Grows ==
  /\ job.at \in {"idle", "connect", "restore"}
  /\ \E b \in AnyBlock : Len(chain) <= MaxHeight /\ add_block(b)
Returns == batch.open /\ chain' = batch.db.chain /\ meta' = batch.db.meta
Starts == \E r \in DOMAIN Tables, keep \in BOOLEAN : restart(r, keep)

\* A batch opens on what the tables hold.
Opens == batch'.open /\ batch'.db = Saved

\* Every step is of one of these kinds.
Kinds ==
  \/ (Stays \/ Grows \/ pop_block) /\ (SameBatch \/ Opens \/ batch' = NoBatch)
  \/ Returns /\ batch' = NoBatch
  \/ Starts

\* The next block of the branch, and the next one to be put back.
LEMMA ConnectNext ==
  ASSUME Core, job.at = "connect", done < Len(alt.blocks)
  PROVE  batch.open /\ Len(chain) <= MaxHeight /\ alt.blocks[done + 1] \in AnyBlock
<1>1. batch.open /\ Connecting /\ AltRight(alt) /\ chain \in Chains  BY JobAt DEF Core, DbRight
<1>2. /\ alt.root \in Seq(AnyBlock) /\ alt.blocks \in Seq(AnyBlock)
      /\ Len(alt.root) + Len(alt.blocks) <= MaxHeight + 1
  BY <1>1 DEF AltRight
<1>3. done \in 0 .. Len(alt.blocks) /\ chain = Built(alt.root, alt.blocks, done)
      /\ done = Len(chain) - Len(alt.root)
  BY <1>1 DEF Connecting, done
<1> QED  BY <1>1, <1>2, <1>3, NextOn

\* The next block the restoring loop puts back.
LEMMA RestoreNext ==
  ASSUME Core, job.at = "restore", done < Len(job.off)
  PROVE  /\ batch.open /\ Len(chain) <= MaxHeight /\ job.off[done + 1] \in AnyBlock
         /\ alt.root \in Seq(AnyBlock) /\ job.off \in Seq(AnyBlock) /\ job.was = alt.root \o job.off
         /\ chain = Built(alt.root, job.off, done) /\ done \in 0 .. Len(job.off)
         /\ Append(chain, job.off[done + 1]) = Built(alt.root, job.off, done + 1)
<1>1. batch.open /\ Restoring /\ Undoing("restore") /\ AltRight(alt) /\ chain \in Chains
  BY JobAt DEF Core, DbRight, Restoring
<1>2. /\ alt.root \in Seq(AnyBlock) /\ job.off \in Seq(AnyBlock) /\ job.was = alt.root \o job.off
      /\ Len(job.was) <= MaxHeight + 1
  BY <1>1 DEF AltRight, Undoing
<1>3. Len(alt.root) + Len(job.off) <= MaxHeight + 1
  <2>1. Joined(alt.root \o job.off, alt.root, job.off, AnyBlock)  BY <1>2, JoinedSeq
  <2> QED  BY <2>1, <1>2 DEF Joined
<1>4. done \in 0 .. Len(job.off) /\ chain = Built(alt.root, job.off, done)
      /\ done = Len(chain) - Len(alt.root)
  BY <1>1 DEF Restoring, done
<1> QED  BY <1>1, <1>2, <1>3, <1>4, NextOn

LEMMA NextKinds ==
  ASSUME Core, Next
  PROVE  Kinds
<1>1. BatchRight /\ JobRight /\ chain \in Chains  BY DEF Core, DbRight
<1>2. ASSUME NEW b \in Block, incoming(b) PROVE Kinds
  <2>1. batch.open /\ b \in AnyBlock /\ job.at = "idle"  BY <1>2 DEF incoming, Handling, AnyBlock, Idle
  <2>2. SameBatch  BY <1>1, <1>2, <2>1, BatchKept DEF incoming
  <2>3. Stays \/ Grows
    BY <1>2, <2>1 DEF incoming, Stays, Grows, refuse_block, add_block_throws
  <2> QED  BY <2>2, <2>3, Zenon DEF Kinds
<1>3. ASSUME NEW b \in Block, alternative_block(b) PROVE Kinds
  <2>1. PICK a : alternative(a, b)  BY <1>3 DEF alternative_block
  <2>2. batch.open /\ Stays  BY <2>1 DEF alternative, Handling, Stays
  <2>3. batch' = batch \/ batch' = [batch EXCEPT !.goes_on = FALSE]  BY <2>1 DEF alternative
  <2>4. SameBatch  BY <1>1, <2>2, <2>3, BatchKept
  <2> QED  BY <2>2, <2>4, Zenon DEF Kinds
<1>4. ASSUME NEW b \in Block, stranded(b) PROVE Kinds
  <2>1. batch.open /\ Stays /\ \E x : batch' = [batch EXCEPT !.goes_on = x]
    BY <1>4 DEF stranded, Handling, Stays, db
  <2>2. SameBatch  BY <1>1, <2>1, BatchKept
  <2> QED  BY <2>1, <2>2, Zenon DEF Kinds
<1>5. ASSUME NEW n \in 1 .. MaxPop, pop_blocks(n) PROVE Kinds
  <2>1. Stays /\ batch' = [open |-> TRUE, db |-> Saved, ok |-> TRUE, goes_on |-> TRUE]
    BY <1>5 DEF pop_blocks, Stays, db
  <2>2. batch'.open /\ batch'.db = Saved  BY <2>1
  <2> QED  BY <2>1, <2>2, Zenon DEF Kinds, Opens
<1>6. CASE prepare
  <2>1. Stays /\ batch' = [open |-> TRUE, db |-> Saved, ok |-> TRUE, goes_on |-> TRUE]
    BY <1>6 DEF prepare, Stays, db
  <2>2. batch'.open /\ batch'.db = Saved  BY <2>1
  <2> QED  BY <2>1, <2>2, Zenon DEF Kinds, Opens
<1>7. CASE cleanup
  BY <1>7 DEF cleanup, commit, abort, Restore, Stays, Returns, db, Kinds
<1>8. CASE disconnect \/ rollback \/ pop_next
  <2>1. pop_block /\ batch' = batch  BY <1>8 DEF disconnect, rollback, pop_next
  <2>2. SameBatch  BY <2>1 DEF SameBatch
  <2> QED  BY <2>1, <2>2, Zenon DEF Kinds
<1>9. CASE disconnected \/ connected_all \/ push_alternative \/ switched \/ rolled_back \/ restored \/ ask_difficulty
  <2>1. Stays /\ batch' = batch
    BY <1>9 DEF disconnected, connected_all, push_alternative, switched, rolled_back, restored, ask_difficulty,
       db, Stays
  <2>2. SameBatch  BY <2>1 DEF SameBatch
  <2> QED  BY <2>1, <2>2, Zenon DEF Kinds
<1>10. CASE pop_throws
  <2>1. batch.open  BY <1>1, <1>10, JobAt DEF pop_throws
  <2> QED  BY <1>10, <2>1 DEF pop_throws, Restore, Returns, Kinds
<1>11. CASE popped  BY <1>11 DEF popped, db, Stays, Kinds
<1>12. CASE connect
  <2>1. job.at = "connect" /\ done < Len(alt.blocks)  BY <1>12 DEF connect
  <2>2. batch.open /\ Len(chain) <= MaxHeight /\ alt.blocks[done + 1] \in AnyBlock  BY <2>1, ConnectNext
  <2>3. SameBatch  BY <1>1, <1>12, <2>2, BatchKept DEF connect
  <2>4. Stays \/ Grows
    BY <1>12, <2>1, <2>2 DEF connect, Stays, Grows, refuse_block, add_block_throws
  <2> QED  BY <2>3, <2>4, Zenon DEF Kinds
<1>13. CASE restore
  <2>1. job.at = "restore" /\ done < Len(job.off)  BY <1>13 DEF restore
  <2>2. batch.open /\ Len(chain) <= MaxHeight /\ job.off[done + 1] \in AnyBlock  BY <2>1, RestoreNext
  <2>3. SameBatch  BY <1>1, <1>13, <2>2, BatchKept DEF restore
  <2>4. Stays \/ Grows
    BY <1>13, <2>1, <2>2 DEF restore, Stays, Grows, refuse_block, add_block_throws
  <2> QED  BY <2>3, <2>4, Zenon DEF Kinds
<1>14. CASE Starts  BY <1>14 DEF Kinds
<1> QED
  BY <1>2, <1>3, <1>4, <1>5, <1>6, <1>7, <1>8, <1>9, <1>10, <1>11, <1>12, <1>13, <1>14 DEF Next, Starts

\* What a crash leaves behind is right.
LEMMA CommittedCoins ==
  ASSUME CoinsRight
  PROVE  Committed.meta = RuleMeta(Committed.chain)
<1>1. CASE batch.open  BY <1>1 DEF CoinsRight, Committed
<1>2. CASE ~batch.open
  <2>1. Committed.chain = chain /\ Committed.meta = meta  BY <1>2 DEF Committed, Saved
  <2> QED  BY <2>1 DEF CoinsRight
<1> QED  BY <1>1, <1>2

\* The coins stay right as long as no block is added under a stale limit.
LEMMA CoinsKept ==
  ASSUME Core, CoinsRight, [Next]_vars, Grows => median_weight = RuleMedian(chain, meta)
  PROVE  CoinsRight'
<1>1. /\ chain \in Chains /\ Exact(meta, chain) /\ BatchRight /\ CachesRight /\ meta = RuleMeta(chain)
      /\ batch.open => batch.db.meta = RuleMeta(batch.db.chain)
  BY DEF Core, DbRight, CoinsRight
<1>2. chain \in Seq(AnyBlock) /\ Len(chain) \in Nat  BY <1>1, ChainType
<1>3. ASSUME Stays \/ Grows \/ pop_block PROVE meta' = RuleMeta(chain')
  <2>1. CASE Stays  BY <1>1, <2>1 DEF Stays
  <2>2. CASE Grows
    <3>1. PICK b \in AnyBlock : add_block(b)  BY <2>2 DEF Grows
    <3> QED  BY <1>1, <2>2, <3>1, AddCoins
  <2>3. CASE pop_block
    <3> DEFINE k == Len(chain) - 1
    <3>1. Len(chain) > 1 /\ chain' = front(chain) /\ meta' = front(meta)  BY <2>3 DEF pop_block
    <3>2. Len(meta) = Len(chain)  BY <1>1 DEF Exact
    <3>3. chain' = SubSeq(chain, 1, k) /\ meta' = SubSeq(meta, 1, k)  BY <3>1, <3>2 DEF front
    <3>4. k \in 0 .. Len(chain)  BY <1>2, <3>1
    <3> HIDE DEF k
    <3>5. RuleMeta(SubSeq(chain, 1, k)) = SubSeq(RuleMeta(chain), 1, k)  BY <1>2, <3>4, RuleMetaPrefix
    <3> QED  BY <1>1, <3>3, <3>5
  <2> QED  BY <1>3, <2>1, <2>2, <2>3
<1>4. ASSUME SameBatch \/ Opens \/ batch' = NoBatch, batch'.open
      PROVE  batch'.db.meta = RuleMeta(batch'.db.chain)
  <2>1. CASE SameBatch  BY <1>1, <1>4, <2>1 DEF SameBatch
  <2>2. CASE Opens  BY <1>1, <2>2 DEF Opens, Saved
  <2>3. CASE batch' = NoBatch  BY <1>4, <2>3 DEF NoBatch
  <2> QED  BY <1>4, <2>1, <2>2, <2>3
<1>5. CASE UNCHANGED vars
  <2>1. chain' = chain /\ meta' = meta /\ batch' = batch  BY <1>5 DEF vars, db
  <2> QED  BY <1>1, <2>1 DEF CoinsRight
<1>6. CASE (Stays \/ Grows \/ pop_block) /\ (SameBatch \/ Opens \/ batch' = NoBatch)
  BY <1>3, <1>4, <1>6 DEF CoinsRight
<1>7. CASE Returns /\ batch' = NoBatch
  BY <1>1, <1>7 DEF CoinsRight, Returns, NoBatch
<1>8. CASE Starts
  <2>1. PICK r \in DOMAIN Tables, keep \in BOOLEAN : restart(r, keep)  BY <1>8 DEF Starts
  <2> DEFINE c == Committed.chain
             m == Committed.meta
             top == last_right(Tables[r], c)
  <2>2. chain' = SubSeq(c, 1, top) /\ meta' = SubSeq(m, 1, top) /\ batch' = NoBatch
    BY <2>1, RestartSteps
  <2>3. c \in Chains  BY CommittedRight DEF DbRight
  <2>4. m = RuleMeta(c)  BY CommittedCoins
  <2>5. top \in 1 .. Len(c) /\ Len(c) \in Nat /\ c \in Seq(AnyBlock)  BY <2>3, TopFound, ChainType
  <2> HIDE DEF c, m, top
  <2>6. top \in 0 .. Len(c)  BY <2>5
  <2>7. RuleMeta(SubSeq(c, 1, top)) = SubSeq(RuleMeta(c), 1, top)  BY <2>5, <2>6, RuleMetaPrefix
  <2> QED  BY <2>2, <2>4, <2>7 DEF CoinsRight, NoBatch
<1> QED  BY <1>5, <1>6, <1>7, <1>8, NextKinds DEF Kinds

\* No coinbase among the first k blocks pays out too much.
FairUpto(c, k) == \A i \in 1 .. k : c[i].bad = 0

\* The data is right as long as the coinbases are.
CoinsFair(c, m) == \A k \in 1 .. Len(c) : FairUpto(c, k) => m[k] = RuleMeta(c)[k]

\* Here and in the batch.
FairRight ==
  /\ CoinsFair(chain, meta)
  /\ batch.open => CoinsFair(batch.db.chain, batch.db.meta)

LEMMA FairAll ==
  ASSUME NEW c \in Seq(AnyBlock), NEW m, Exact(m, c), CoinsFair(c, m), FairUpto(c, Len(c))
  PROVE  m = RuleMeta(c)
<1> DEFINE M == RuleMeta(c)
<1>1. m \in Seq(Data) /\ Len(m) = Len(c) /\ M \in Seq(Data) /\ Len(M) = Len(c) /\ Len(c) \in Nat
  BY RuleMetaType DEF Exact
<1>2. ASSUME NEW k \in 1 .. Len(c) PROVE m[k] = M[k]
  <2>1. FairUpto(c, k)  BY <1>1 DEF FairUpto
  <2> QED  BY <2>1 DEF CoinsFair
<1> HIDE DEF M
<1>3. m = M  BY <1>1, <1>2, SameSeq
<1> QED  BY <1>3 DEF M

LEMMA FairPrefix ==
  ASSUME NEW c \in Seq(AnyBlock), NEW m, Exact(m, c), CoinsFair(c, m), NEW n \in 0 .. Len(c)
  PROVE  CoinsFair(SubSeq(c, 1, n), SubSeq(m, 1, n))
<1> DEFINE M == RuleMeta(c)
           p == SubSeq(c, 1, n)
           q == SubSeq(m, 1, n)
           P == SubSeq(M, 1, n)
<1>1. m \in Seq(Data) /\ Len(m) = Len(c) /\ M \in Seq(Data) /\ Len(M) = Len(c) /\ Len(c) \in Nat
  BY RuleMetaType DEF Exact
<1>2. RuleMeta(p) = P  BY RuleMetaPrefix
<1>3. \A k \in 1 .. Len(c) : FairUpto(c, k) => m[k] = M[k]  BY DEF CoinsFair
<1> HIDE DEF M
<1>4. Len(p) = n /\ \A i \in 1 .. n : p[i] = c[i] /\ q[i] = m[i] /\ P[i] = M[i]  BY <1>1
<1> HIDE DEF p, q, P
<1>5. ASSUME NEW k \in 1 .. n, FairUpto(p, k) PROVE q[k] = P[k]
  <2>1. \A i \in 1 .. k : i \in 1 .. n  BY <1>1
  <2>2. FairUpto(c, k) /\ k \in 1 .. Len(c)  BY <1>1, <1>4, <1>5, <2>1 DEF FairUpto
  <2> QED  BY <1>3, <1>4, <2>2
<1>6. CoinsFair(p, q)  BY <1>2, <1>4, <1>5 DEF CoinsFair
<1> QED  BY <1>6 DEF p, q

\* Under a stale limit too: the coins counted for a block whose coinbase is
\* honest are those of the rules.
LEMMA FairAdd ==
  ASSUME Core, CoinsFair(chain, meta), NEW b \in AnyBlock, Len(chain) <= MaxHeight, add_block(b)
  PROVE  CoinsFair(chain', meta')
<1> DEFINE n == Len(chain)
           M == RuleMeta(chain)
           e == stored_data(b, difficulty_cache(dc, chain, meta), long_term_cache(lt, chain, meta))
           D == RuleData(chain, M, b)
<1>1. chain \in Chains /\ Exact(meta, chain) /\ BatchRight /\ CachesRight  BY DEF Core, DbRight
<1>2. chain \in Seq(AnyBlock) /\ n \in Nat  BY <1>1, ChainType
<1>3. meta \in Seq(Data) /\ Len(meta) = n /\ M \in Seq(Data) /\ Len(M) = n  BY <1>1, <1>2, RuleMetaType DEF Exact
<1>4. chain' = Append(chain, b) /\ meta' = Append(meta, e)  BY DEF add_block
<1>5. RuleMeta(chain') = Append(M, D)  BY <1>2, <1>4, RuleMetaAppend
<1>6. \A k \in 1 .. n : FairUpto(chain, k) => meta[k] = M[k]  BY DEF CoinsFair
<1> HIDE DEF M, e, D, n
<1>7. Len(chain') = n + 1 /\ chain'[n + 1] = b /\ \A i \in 1 .. n : chain'[i] = chain[i]
  BY <1>2, <1>4 DEF n
<1>8. ASSUME NEW k \in 1 .. n, FairUpto(chain', k) PROVE meta'[k] = RuleMeta(chain')[k]
  <2>1. \A i \in 1 .. k : i \in 1 .. n  BY <1>2
  <2>2. FairUpto(chain, k)  BY <1>7, <1>8, <2>1 DEF FairUpto
  <2>3. meta[k] = M[k]  BY <1>6, <2>2
  <2>4. meta'[k] = meta[k] /\ Append(M, D)[k] = M[k]  BY <1>2, <1>3, <1>4
  <2> QED  BY <1>5, <2>3, <2>4
<1>9. ASSUME FairUpto(chain', n + 1) PROVE meta' = RuleMeta(chain')
  <2>1. n + 1 \in 1 .. n + 1 /\ \A i \in 1 .. n : i \in 1 .. n + 1  BY <1>2
  <2>2. FairUpto(chain, n) /\ b.bad = 0  BY <1>7, <1>9, <2>1 DEF FairUpto
  <2>3. meta = RuleMeta(chain)  BY <1>1, <1>2, <2>2, FairAll DEF n
  <2> QED  BY <1>1, <2>2, <2>3, AddCoins
<1>10. ASSUME NEW k \in 1 .. n + 1, FairUpto(chain', k) PROVE meta'[k] = RuleMeta(chain')[k]
  <2>1. k \in 1 .. n \/ k = n + 1  BY <1>2
  <2> QED  BY <1>8, <1>9, <1>10, <2>1
<1> QED  BY <1>7, <1>10 DEF CoinsFair

LEMMA FairKept ==
  ASSUME Core, FairRight, [Next]_vars
  PROVE  FairRight'
<1>1. /\ chain \in Chains /\ Exact(meta, chain) /\ CoinsFair(chain, meta)
      /\ batch.open => CoinsFair(batch.db.chain, batch.db.meta)
  BY DEF Core, DbRight, FairRight
<1>2. chain \in Seq(AnyBlock) /\ Len(chain) \in Nat  BY <1>1, ChainType
<1>3. ASSUME Stays \/ Grows \/ pop_block PROVE CoinsFair(chain', meta')
  <2>1. CASE Stays  BY <1>1, <2>1 DEF Stays
  <2>2. CASE Grows
    <3>1. PICK b \in AnyBlock : Len(chain) <= MaxHeight /\ add_block(b)  BY <2>2 DEF Grows
    <3> QED  BY <1>1, <3>1, FairAdd
  <2>3. CASE pop_block
    <3> DEFINE k == Len(chain) - 1
    <3>1. Len(chain) > 1 /\ chain' = front(chain) /\ meta' = front(meta)  BY <2>3 DEF pop_block
    <3>2. Len(meta) = Len(chain)  BY <1>1 DEF Exact
    <3>3. chain' = SubSeq(chain, 1, k) /\ meta' = SubSeq(meta, 1, k)  BY <3>1, <3>2 DEF front
    <3>4. k \in 0 .. Len(chain)  BY <1>2, <3>1
    <3> HIDE DEF k
    <3> QED  BY <1>1, <1>2, <3>3, <3>4, FairPrefix
  <2> QED  BY <1>3, <2>1, <2>2, <2>3
<1>4. ASSUME SameBatch \/ Opens \/ batch' = NoBatch, batch'.open
      PROVE  CoinsFair(batch'.db.chain, batch'.db.meta)
  <2>1. CASE SameBatch  BY <1>1, <1>4, <2>1 DEF SameBatch
  <2>2. CASE Opens  BY <1>1, <2>2 DEF Opens, Saved
  <2>3. CASE batch' = NoBatch  BY <1>4, <2>3 DEF NoBatch
  <2> QED  BY <1>4, <2>1, <2>2, <2>3
<1>5. CASE UNCHANGED vars
  <2>1. chain' = chain /\ meta' = meta /\ batch' = batch  BY <1>5 DEF vars, db
  <2> QED  BY <1>1, <2>1 DEF FairRight
<1>6. CASE (Stays \/ Grows \/ pop_block) /\ (SameBatch \/ Opens \/ batch' = NoBatch)
  BY <1>3, <1>4, <1>6 DEF FairRight
<1>7. CASE Returns /\ batch' = NoBatch
  BY <1>1, <1>7 DEF FairRight, Returns, NoBatch
<1>8. CASE Starts
  <2>1. PICK r \in DOMAIN Tables, keep \in BOOLEAN : restart(r, keep)  BY <1>8 DEF Starts
  <2> DEFINE c == Committed.chain
             m == Committed.meta
             top == last_right(Tables[r], c)
  <2>2. chain' = SubSeq(c, 1, top) /\ meta' = SubSeq(m, 1, top) /\ batch' = NoBatch
    BY <2>1, RestartSteps
  <2>3. c \in Chains /\ Exact(m, c)  BY CommittedRight DEF DbRight
  <2>4. CoinsFair(c, m)
    <3>1. CASE batch.open  BY <1>1, <3>1 DEF Committed
    <3>2. CASE ~batch.open
      <4>1. c = chain /\ m = meta  BY <3>2 DEF Committed, Saved
      <4> QED  BY <1>1, <4>1
    <3> QED  BY <3>1, <3>2
  <2>5. top \in 1 .. Len(c) /\ Len(c) \in Nat /\ c \in Seq(AnyBlock)  BY <2>3, TopFound, ChainType
  <2> HIDE DEF c, m, top
  <2>6. top \in 0 .. Len(c)  BY <2>5
  <2>7. CoinsFair(SubSeq(c, 1, top), SubSeq(m, 1, top))  BY <2>3, <2>4, <2>5, <2>6, FairPrefix
  <2> QED  BY <2>2, <2>7 DEF FairRight, NoBatch
<1> QED  BY <1>5, <1>6, <1>7, <1>8, NextKinds DEF Kinds

----------------------------------------------------------------------------
(* Nothing is stale as long as the database has not thrown.                *)

\* The coinbase of a block pays out what it may.
Pays(s, b) == RuleReward(s, RuleMeta(s), b).ok /\ b.bad = 0

\* Every coinbase pays what the rules of its parent allow.
PaysRight(s) == \A k \in 2 .. Len(s) : Pays(SubSeq(s, 1, k - 1), s[k])

\* A chain the rules allow.
ValidChain(t, s) == ForksRight(t, s) /\ PaysRight(s)

LEMMA ValidAppend ==
  ASSUME NEW t, NEW s \in Seq(AnyBlock), ValidChain(t, s), s # << >>, NEW b \in AnyBlock,
         do_check(t, IdealIndex(t, Len(s)), b), Pays(s, b)
  PROVE  ValidChain(t, Append(s, b))
<1> DEFINE u == Append(s, b)
           n == Len(s)
<1>1. /\ n \in Nat /\ u \in Seq(AnyBlock) /\ Len(u) = n + 1 /\ u[n + 1] = b
      /\ \A i \in 1 .. n : u[i] = s[i]
  OBVIOUS
<1> HIDE DEF u
<1>2. ASSUME NEW k \in 2 .. Len(u)
      PROVE  do_check(t, IdealIndex(t, k - 1), u[k]) /\ Pays(SubSeq(u, 1, k - 1), u[k])
  <2> DEFINE p == SubSeq(u, 1, k - 1)
             q == SubSeq(s, 1, k - 1)
  <2>1. k - 1 \in 0 .. n /\ k - 1 \in Nat /\ k - 1 <= n /\ k \in Nat  BY <1>1
  <2>2. p \in Seq(AnyBlock) /\ Len(p) = k - 1 /\ \A i \in 1 .. k - 1 : p[i] = u[i]  BY <1>1, <2>1
  <2>3. q \in Seq(AnyBlock) /\ Len(q) = k - 1 /\ \A i \in 1 .. k - 1 : q[i] = s[i]  BY <2>1
  <2>4. \A i \in 1 .. k - 1 : i \in 1 .. n  BY <1>1, <2>1
  <2> HIDE DEF p, q
  <2>5. p = q  BY <1>1, <2>2, <2>3, <2>4, SameSeq
  <2>6. CASE k = n + 1
    <3>1. k - 1 = n  BY <1>1, <2>6
    <3>2. q = s
      <4>1. Len(q) = Len(s) /\ \A i \in 1 .. Len(q) : q[i] = s[i]  BY <2>3, <3>1
      <4> QED  BY <2>3, <4>1, SameSeq
    <3> QED  BY <1>1, <2>5, <2>6, <3>1, <3>2 DEF p
  <2>7. CASE k # n + 1
    <3>1. k \in 2 .. n /\ k \in 1 .. n  BY <1>1, <2>7
    <3>2. do_check(t, IdealIndex(t, k - 1), s[k]) /\ Pays(q, s[k])
      BY <3>1 DEF ValidChain, ForksRight, PaysRight, q
    <3> QED  BY <1>1, <2>5, <3>1, <3>2 DEF p
  <2> QED  BY <2>6, <2>7
<1> QED  BY <1>2 DEF ValidChain, ForksRight, PaysRight, u

LEMMA PaysPrefix ==
  ASSUME NEW s \in Seq(AnyBlock), PaysRight(s), NEW k \in 1 .. Len(s)
  PROVE  PaysRight(SubSeq(s, 1, k))
<1> DEFINE u == SubSeq(s, 1, k)
           n == Len(s)
<1>1. n \in Nat /\ k \in Nat /\ k <= n  OBVIOUS
<1>2. u \in Seq(AnyBlock) /\ Len(u) = k /\ \A i \in 1 .. k : u[i] = s[i]  BY <1>1
<1> HIDE DEF u
<1>3. ASSUME NEW j \in 2 .. Len(u) PROVE Pays(SubSeq(u, 1, j - 1), u[j])
  <2> DEFINE p == SubSeq(u, 1, j - 1)
             q == SubSeq(s, 1, j - 1)
  <2>1. j \in 2 .. n /\ j \in 1 .. k /\ j - 1 \in Nat /\ j - 1 <= k /\ j - 1 <= n  BY <1>1, <1>2
  <2>2. p \in Seq(AnyBlock) /\ Len(p) = j - 1 /\ \A i \in 1 .. j - 1 : p[i] = u[i]  BY <1>2, <2>1
  <2>3. q \in Seq(AnyBlock) /\ Len(q) = j - 1 /\ \A i \in 1 .. j - 1 : q[i] = s[i]  BY <2>1
  <2>4. \A i \in 1 .. j - 1 : i \in 1 .. k  BY <1>1, <2>1
  <2> HIDE DEF p, q
  <2>5. p = q  BY <1>2, <2>2, <2>3, <2>4, SameSeq
  <2>6. Pays(q, s[j])  BY <2>1 DEF PaysRight, q
  <2> QED  BY <1>2, <2>1, <2>5, <2>6 DEF p
<1> QED  BY <1>3 DEF PaysRight, u

LEMMA ValidPrefix ==
  ASSUME NEW t, NEW s \in Seq(AnyBlock), ValidChain(t, s), NEW k \in 1 .. Len(s)
  PROVE  ValidChain(t, SubSeq(s, 1, k))
<1> DEFINE u == SubSeq(s, 1, k)
<1>1. Len(s) \in Nat /\ k \in Nat /\ k <= Len(s)  OBVIOUS
<1>2. Len(u) = k /\ \A i \in 1 .. k : u[i] = s[i]  BY <1>1
<1> HIDE DEF u
<1>3. ASSUME NEW j \in 2 .. Len(u) PROVE do_check(t, IdealIndex(t, j - 1), u[j])
  <2>1. j \in 2 .. Len(s) /\ j \in 1 .. k  BY <1>1, <1>2
  <2>2. do_check(t, IdealIndex(t, j - 1), s[j])  BY <2>1 DEF ValidChain, ForksRight
  <2> QED  BY <1>2, <2>1, <2>2
<1>4. PaysRight(u)  BY PaysPrefix DEF ValidChain, u
<1> QED  BY <1>3, <1>4 DEF ValidChain, ForksRight, u

\* The version of the next block is stored.
LEMMA HfvAppend ==
  ASSUME NEW t, Table(t), NEW n \in Nat, n <= MaxHeight, NEW v, HfvRight(t, v, n),
         NEW w, w = [v EXCEPT ![n] = t[IdealIndex(t, n)].version]
  PROVE  HfvRight(t, w, n + 1)
<1>1. MaxHeight \in Nat /\ n \in 0 .. MaxHeight  BY BoundsAssumption
<1>2. v \in [0 .. MaxHeight -> Nat]  BY DEF HfvRight
<1>3. t[IdealIndex(t, n)].version \in Nat
  <2>1. IdealIndex(t, n) \in 1 .. Len(t)  BY IdealFound
  <2> QED  BY <2>1, VersionsAssumption DEF Table
<1>4. w \in [0 .. MaxHeight -> Nat] /\ w[n] = t[IdealIndex(t, n)].version
      /\ \A h \in 0 .. MaxHeight : h # n => w[h] = v[h]
  BY <1>1, <1>2, <1>3
<1>5. ASSUME NEW h \in 0 .. (n + 1) - 1 PROVE w[h] = t[IdealIndex(t, h)].version
  <2>1. CASE h = n  BY <1>4, <2>1
  <2>2. CASE h # n
    <3>1. h \in 0 .. n - 1 /\ h \in 0 .. MaxHeight  BY <1>1, <2>2
    <3> QED  BY <1>4, <2>2, <3>1 DEF HfvRight
  <2> QED  BY <2>1, <2>2
<1> QED  BY <1>4, <1>5 DEF HfvRight

\* Stored versions of a chain are those of its beginnings.
LEMMA HfvShorter ==
  ASSUME NEW t, NEW v, NEW n \in Nat, HfvRight(t, v, n), NEW k \in Nat, k <= n
  PROVE  HfvRight(t, v, k)
<1>1. \A h \in 0 .. k - 1 : h \in 0 .. n - 1  OBVIOUS
<1> QED  BY <1>1 DEF HfvRight

\* The versions in the chain and in the database, and the hard fork object.
ChainSound(t, c, v) == ValidChain(t, c) /\ HfvRight(t, v, Len(c))

\* The chain is valid and the hard fork object is about it.
Sound == ChainSound(forks, chain, hfv) /\ HfRight(forks, hf, Len(chain))

\* A batch goes back to a right chain, and will not have to.
BatchSound == batch.open => batch.ok /\ ChainSound(forks, batch.db.chain, batch.db.hfv)

\* The weight limit is about this chain.
Limited == median_weight = RuleMedian(chain, meta)

\* The old chain of a reorganisation was valid; the limit is right whenever a
\* block may be added.
JobSound ==
  /\ job.at # "panic"
  /\ job.at \in {"disconnect", "connect", "rollback", "restore"} => ValidChain(forks, job.was)
  /\ job.at \in {"idle", "connect", "push", "restore"} => Limited

\* Nothing derived is stale.
Calm == Sound /\ BatchSound /\ JobSound

\* The hypotheses of every step.
Quiet == Core /\ CoinsRight /\ release \in DOMAIN Tables /\ Calm

\* Quiet, taken apart.
LEMMA QuietParts ==
  ASSUME Quiet
  PROVE  /\ chain \in Chains /\ Exact(meta, chain) /\ AltRight(alt) /\ BatchRight /\ CachesRight /\ JobRight
         /\ chain \in Seq(AnyBlock) /\ chain # << >> /\ Len(chain) \in Nat /\ Len(chain) >= 1
         /\ Len(chain) <= MaxHeight + 1
         /\ meta = RuleMeta(chain) /\ Table(forks)
         /\ ValidChain(forks, chain) /\ HfvRight(forks, hfv, Len(chain)) /\ HfRight(forks, hf, Len(chain))
         /\ BatchSound /\ JobSound
<1>1. chain \in Chains  BY DEF Quiet, Core, DbRight
<1>2. Table(forks)  BY TableRight DEF Quiet, forks
<1> QED  BY <1>1, <1>2, ChainType DEF Quiet, Core, DbRight, CoinsRight, Calm, Sound, ChainSound

\* handle_block_to_main_chain judges a block by the rules.
LEMMA AcceptsValid ==
  ASSUME Quiet, Limited, NEW b \in AnyBlock
  PROVE  /\ accepts(b) <=> do_check(forks, IdealIndex(forks, Len(chain)), b) /\ Pays(chain, b)
         /\ accepts(b) <=> Valid(chain, b)
<1> DEFINE n == Len(chain)
           i == IdealIndex(forks, n)
           M == RuleMeta(chain)
           R == RuleReward(chain, M, b)
           g == get_block_reward(median_weight, b.w, last(meta).coins)
<1>1. /\ chain \in Seq(AnyBlock) /\ chain # << >> /\ n \in Nat /\ meta = M /\ Table(forks)
      /\ HfRight(forks, hf, n)
  BY QuietParts
<1>2. hf.index = i  BY <1>1 DEF HfRight
<1>3. g = R  BY <1>1 DEF Limited, RuleReward
<1>4. b.fee \in Nat /\ b.w \in Nat /\ b.bad \in Nat /\ b.v \in Versions /\ b.vote \in Versions  BY BlockFields
<1>5. R.reward \in Nat
  <2>1. M \in Seq(Data) /\ Len(M) = n  BY <1>1, RuleMetaType
  <2>2. M # << >>  BY <1>1, <2>1
  <2>3. last(M).coins \in 0 .. MONEY_SUPPLY  BY <2>1, <2>2, LastData
  <2>4. base_reward(last(M).coins) \in Nat  BY <2>3, RewardBound
  <2>5. RuleMedian(chain, M) \in Nat  BY <1>1, <2>1, RuleMedianType
  <2>6. R.reward \in 0 .. base_reward(last(M).coins)  BY <1>4, <2>3, <2>5, BlockRewardBound DEF RuleReward
  <2> QED  BY <2>4, <2>6
<1>6. reward_right(b) <=> g.ok /\ g.reward + b.fee = R.reward + b.fee + b.bad
  BY DEF reward_right, money_in_use
<1>7. R.reward + b.fee = R.reward + b.fee + b.bad <=> b.bad = 0
  <2>1. \A x, y, z \in Nat : x + y = x + y + z <=> z = 0  OBVIOUS
  <2> HIDE DEF R
  <2> QED  BY <1>4, <1>5, <2>1
<1>8. reward_right(b) <=> Pays(chain, b)
  <2> HIDE DEF g
  <2> QED  BY <1>3, <1>6, <1>7 DEF Pays
<1>9. get_ideal_version(forks, n) = forks[i].version  BY <1>1, IdealVersion
<1>10. accepts(b) <=> do_check(forks, i, b) /\ Pays(chain, b)  BY <1>2, <1>8 DEF accepts
<1>11. Valid(chain, b) <=> do_check(forks, i, b) /\ Pays(chain, b)
  <2> HIDE DEF i, n
  <2> QED  BY <1>9 DEF Valid, do_check, Pays, n
<1> QED  BY <1>10, <1>11

\* A block that passes under the right limit leaves a valid chain.
LEMMA AddSound ==
  ASSUME Quiet, Limited, NEW b \in AnyBlock, add_block(b), Len(chain) <= MaxHeight, release' = release
  PROVE  Sound'
<1> DEFINE n == Len(chain)
           i == IdealIndex(forks, n)
<1>1. /\ chain \in Seq(AnyBlock) /\ chain # << >> /\ n \in Nat /\ Table(forks)
      /\ ValidChain(forks, chain) /\ HfvRight(forks, hfv, n) /\ HfRight(forks, hf, n)
  BY QuietParts
<1>2. /\ accepts(b) /\ chain' = Append(chain, b)
      /\ hfv' = [hfv EXCEPT ![n] = current_version(forks, hf)] /\ hf' = add(forks, hf, b, n)
  BY DEF add_block
<1>3. do_check(forks, i, b) /\ Pays(chain, b)  BY <1>2, AcceptsValid
<1>4. hf.index = i  BY <1>1 DEF HfRight
<1>5. ValidChain(forks, chain')  BY <1>1, <1>2, <1>3, ValidAppend
<1>6. hfv' = [hfv EXCEPT ![n] = forks[i].version]  BY <1>2, <1>4 DEF current_version
<1>7. HfvRight(forks, hfv', n + 1)  BY <1>1, <1>6, HfvAppend
<1>8. HfRight(forks, hf', n + 1)  BY <1>1, <1>2, <1>3, <1>4, AddRight
<1>9. Len(chain') = n + 1 /\ forks' = forks  BY <1>1, <1>2 DEF forks
<1> QED  BY <1>5, <1>7, <1>8, <1>9 DEF Sound, ChainSound

\* reorganize after a pop leaves the hard fork object of the shorter chain.
LEMMA PopSound ==
  ASSUME Quiet, pop_block, release' = release
  PROVE  Sound'
<1> DEFINE n == Len(chain) - 1
<1>1. /\ chain \in Seq(AnyBlock) /\ Len(chain) \in Nat /\ Table(forks)
      /\ ValidChain(forks, chain) /\ HfvRight(forks, hfv, Len(chain)) /\ HfRight(forks, hf, Len(chain))
  BY QuietParts
<1>2. Len(chain) > 1 /\ chain' = SubSeq(chain, 1, n) /\ hf' = on_block_popped(forks, hf, n, hfv) /\ hfv' = hfv
  BY DEF pop_block, front
<1>3. n \in Nat /\ n <= Len(chain) /\ n \in 1 .. Len(chain) /\ n \in 0 .. Len(chain) - 1  BY <1>1, <1>2
<1>4. ValidChain(forks, chain')  BY <1>1, <1>2, <1>3, ValidPrefix
<1>5. HfvRight(forks, hfv', n)  BY <1>1, <1>2, <1>3, HfvShorter
<1>6. hfv[n] \in Versions
  <2>1. hfv[n] = forks[IdealIndex(forks, n)].version  BY <1>1, <1>3 DEF HfvRight
  <2>2. IdealIndex(forks, n) \in 1 .. Len(forks)  BY <1>1, <1>3, IdealFound
  <2> QED  BY <1>1, <2>1, <2>2 DEF Table
<1>7. HfRight(forks, hf', n)
  <2>1. Voting(hf)  BY <1>1 DEF HfRight
  <2> HIDE DEF n
  <2> QED  BY <1>1, <1>2, <1>3, <1>6, <2>1, PoppedRight
<1>8. Len(chain') = n /\ forks' = forks  BY <1>1, <1>2, <1>3 DEF forks
<1> QED  BY <1>4, <1>5, <1>7, <1>8 DEF Sound, ChainSound

\* The chain stays and the hard fork object is computed again.
LEMMA ReorgSound ==
  ASSUME Quiet, NEW k \in 1 .. Len(chain), hf' = reorganize_from_chain_height(forks, hf, chain, k, hfv),
         chain' = chain, hfv' = hfv, release' = release
  PROVE  Sound'
<1>1. /\ chain \in Chains /\ Len(chain) \in Nat /\ Table(forks)
      /\ ValidChain(forks, chain) /\ HfvRight(forks, hfv, Len(chain)) /\ HfRight(forks, hf, Len(chain))
  BY QuietParts
<1>2. hf.index \in 1 .. Len(forks)  BY <1>1, IdealFound DEF HfRight
<1>3. ForksRight(forks, chain)  BY <1>1 DEF ValidChain
<1>4. HfRight(forks, hf', Len(chain))  BY <1>1, <1>2, <1>3, ReorganizeRight
<1>5. forks' = forks  BY DEF forks
<1> QED  BY <1>1, <1>4, <1>5 DEF Sound, ChainSound

LEMMA SoundStays ==
  ASSUME Quiet, chain' = chain, hfv' = hfv, hf' = hf, release' = release
  PROVE  Sound'
<1>1. forks' = forks  BY DEF forks
<1>2. Sound  BY DEF Quiet, Calm
<1> QED  BY <1>1, <1>2 DEF Sound

LEMMA BatchStays ==
  ASSUME Quiet, release' = release,
         batch' = batch \/ (batch.open /\ \E x : batch' = [batch EXCEPT !.goes_on = x])
  PROVE  BatchSound' /\ SameBatch
<1>1. forks' = forks /\ BatchSound /\ BatchRight  BY QuietParts DEF forks
<1>2. CASE batch' = batch  BY <1>1, <1>2 DEF BatchSound, SameBatch
<1>3. CASE batch.open /\ \E x : batch' = [batch EXCEPT !.goes_on = x]
  <2>1. PICK x : batch' = [batch EXCEPT !.goes_on = x]  BY <1>3
  <2>2. batch = [open |-> TRUE, db |-> batch.db, ok |-> batch.ok, goes_on |-> batch.goes_on]
    BY <1>1, <1>3, BatchChain
  <2>3. batch' = [open |-> TRUE, db |-> batch.db, ok |-> batch.ok, goes_on |-> x]  BY <2>1, <2>2
  <2>4. batch'.open = batch.open /\ batch'.db = batch.db /\ batch'.ok = batch.ok  BY <2>2, <2>3
  <2> QED  BY <1>1, <1>3, <2>4 DEF BatchSound, SameBatch
<1> QED  BY <1>2, <1>3

\* The limit after a step that changes neither the chain nor the limit.
LEMMA LimitStays ==
  ASSUME Limited, chain' = chain, meta' = meta, median_weight' = median_weight
  PROVE  Limited'
  BY DEF Limited

\* The job is over, or there was none.
LEMMA IdleSound ==
  ASSUME job' = Idle, Limited'
  PROVE  JobSound'
  BY DEF JobSound, Idle

\* Where blocks are added, the limit is fresh.
LEMMA IdleLimited ==
  ASSUME Quiet, job.at \in {"idle", "connect", "push", "restore"} \/ job = Idle
  PROVE  Limited
  BY DEF Quiet, Calm, JobSound, Idle

LEMMA OpenedSound ==
  ASSUME Quiet, batch' = [open |-> TRUE, db |-> Saved, ok |-> TRUE, goes_on |-> TRUE],
         UNCHANGED <<db, caches, release>>
  PROVE  Sound' /\ BatchSound'
<1>1. chain' = chain /\ hfv' = hfv /\ hf' = hf /\ release' = release  BY DEF db, caches
<1>2. Sound'  BY <1>1, SoundStays
<1>3. batch'.ok = TRUE /\ batch'.db.chain = chain /\ batch'.db.hfv = hfv  BY DEF Saved
<1>4. ChainSound(forks, chain, hfv) /\ forks' = forks  BY <1>1 DEF Quiet, Calm, Sound, forks
<1> QED  BY <1>2, <1>3, <1>4 DEF BatchSound

LEMMA PrepareCalm ==
  ASSUME Quiet, prepare
  PROVE  Calm'
<1>1. /\ job' = Idle /\ job = Idle /\ UNCHANGED <<db, caches, release>>
      /\ batch' = [open |-> TRUE, db |-> Saved, ok |-> TRUE, goes_on |-> TRUE]
  BY DEF prepare
<1>2. Limited'  BY <1>1, IdleLimited, LimitStays DEF db, caches
<1> QED  BY <1>1, <1>2, OpenedSound, IdleSound DEF Calm

LEMMA PopBlocksCalm ==
  ASSUME Quiet, NEW n, pop_blocks(n)
  PROVE  Calm'
<1>1. /\ job' = [at |-> "pops", left |-> least(n, Len(chain) - 1)] /\ UNCHANGED <<db, caches, release>>
      /\ batch' = [open |-> TRUE, db |-> Saved, ok |-> TRUE, goes_on |-> TRUE]
  BY DEF pop_blocks
<1>2. job'.at = "pops"  BY <1>1
<1>3. JobSound'  BY <1>2 DEF JobSound
<1> QED  BY <1>1, <1>3, OpenedSound DEF Calm

LEMMA CleanupCalm ==
  ASSUME Quiet, cleanup
  PROVE  Calm'
<1>1. /\ batch.open /\ job = Idle /\ (commit \/ abort) /\ batch' = NoBatch /\ job' = job
      /\ median_weight' = median_weight /\ hf' = hf /\ release' = release
  BY DEF cleanup
<1>2. batch.ok  BY <1>1, QuietParts DEF BatchSound
<1>3. chain' = chain /\ meta' = meta /\ hfv' = hfv  BY <1>1, <1>2 DEF commit, abort, db
<1>4. Sound'  BY <1>1, <1>3, SoundStays
<1>5. Limited'  BY <1>1, <1>3, IdleLimited, LimitStays
<1>6. BatchSound'  BY <1>1 DEF BatchSound, NoBatch
<1> QED  BY <1>1, <1>4, <1>5, <1>6, IdleSound DEF Calm

\* A block that is added, or refused, at the tip of the chain.
LEMMA HandledSound ==
  ASSUME Quiet, Limited, SameBatch, release' = release, NEW b \in AnyBlock,
         (Len(chain) <= MaxHeight /\ add_block(b)) \/ refuse_block(b)
  PROVE  Sound' /\ Limited'
<1>1. chain \in Chains /\ Exact(meta, chain) /\ BatchRight /\ CachesRight  BY QuietParts
<1>2. CASE Len(chain) <= MaxHeight /\ add_block(b)
  <2>1. Limited'  BY <1>1, <1>2, AddBlock DEF Limited
  <2> QED  BY <1>2, <2>1, AddSound
<1>3. CASE refuse_block(b)
  <2>1. chain' = chain /\ meta' = meta /\ hfv' = hfv /\ hf' = hf /\ median_weight' = median_weight
    BY <1>3 DEF refuse_block
  <2> QED  BY <2>1, SoundStays, LimitStays
<1> QED  BY <1>2, <1>3

LEMMA IncomingCalm ==
  ASSUME Quiet, NEW b \in Block, incoming(b), faults' = faults, faults \in Nat
  PROVE  Calm'
<1>1. /\ batch.open /\ job = Idle /\ job' = job /\ release' = release
      /\ \/ Len(chain) <= MaxHeight /\ add_block(b) /\ batch' = batch
         \/ refuse_block(b) /\ batch' = [batch EXCEPT !.goes_on = FALSE]
  <2>1. ~add_block_throws(b)  BY DEF add_block_throws
  <2> QED  BY <2>1 DEF incoming, Handling
<1>2. b \in AnyBlock  BY DEF AnyBlock
<1>3. Limited  BY <1>1, IdleLimited
<1>4. BatchSound' /\ SameBatch  BY <1>1, BatchStays
<1>5. Sound' /\ Limited'  BY <1>1, <1>2, <1>3, <1>4, HandledSound
<1> QED  BY <1>1, <1>4, <1>5, IdleSound DEF Calm

LEMMA AlternativeBlockCalm ==
  ASSUME Quiet, NEW b, alternative_block(b)
  PROVE  Calm'
<1>1. PICK a : alternative(a, b)  BY DEF alternative_block
<1>2. /\ batch.open /\ job = Idle /\ chain' = chain /\ meta' = meta /\ hfv' = hfv /\ hf' = hf
      /\ median_weight' = median_weight /\ release' = release
      /\ batch' = batch \/ batch' = [batch EXCEPT !.goes_on = FALSE]
      /\ \/ job' = Idle
         \/ job' = [at |-> "disconnect", off |-> << >>, was |-> chain, cum |-> last(meta).cum]
  BY <1>1 DEF alternative, Handling
<1>3. Sound'  BY <1>2, SoundStays
<1>4. BatchSound'  BY <1>2, BatchStays
<1>5. Limited'  BY <1>2, IdleLimited, LimitStays
<1>6. JobSound'
  <2>1. CASE job' = Idle  BY <1>5, <2>1, IdleSound
  <2>2. CASE job' = [at |-> "disconnect", off |-> << >>, was |-> chain, cum |-> last(meta).cum]
    <3>1. job'.at = "disconnect" /\ job'.was = chain  BY <2>2
    <3>2. ValidChain(forks, chain) /\ forks' = forks  BY <1>2, QuietParts DEF forks
    <3> QED  BY <3>1, <3>2 DEF JobSound
  <2> QED  BY <1>2, <2>1, <2>2
<1> QED  BY <1>3, <1>4, <1>6 DEF Calm

LEMMA StrandedCalm ==
  ASSUME Quiet, NEW b, stranded(b)
  PROVE  Calm'
<1>1. /\ batch.open /\ job = Idle /\ job' = job /\ chain' = chain /\ meta' = meta /\ hfv' = hfv /\ hf' = hf
      /\ median_weight' = median_weight /\ release' = release
      /\ \E x : batch' = [batch EXCEPT !.goes_on = x]
  BY DEF stranded, Handling, db
<1>2. Sound' /\ BatchSound' /\ Limited'  BY <1>1, SoundStays, BatchStays, IdleLimited, LimitStays
<1> QED  BY <1>1, <1>2, IdleSound DEF Calm

LEMMA AskCalm ==
  ASSUME Quiet, ask_difficulty
  PROVE  Calm'
<1>1. /\ job = Idle /\ job' = job /\ chain' = chain /\ meta' = meta /\ hfv' = hfv /\ hf' = hf
      /\ median_weight' = median_weight /\ release' = release /\ batch' = batch
  BY DEF ask_difficulty, db
<1>2. Sound' /\ BatchSound' /\ Limited'  BY <1>1, SoundStays, BatchStays, IdleLimited, LimitStays
<1> QED  BY <1>1, <1>2, IdleSound DEF Calm

\* The job keeps the old chain, and where it may add blocks the limit is right.
LEMMA JobKept ==
  ASSUME Quiet, release' = release, job.at \in {"disconnect", "connect", "rollback", "restore"},
         job'.was = job.was, job'.at \in {"disconnect", "connect", "rollback", "restore"},
         job'.at \in {"connect", "restore"} => Limited'
  PROVE  JobSound'
<1>1. ValidChain(forks, job.was) /\ forks' = forks  BY QuietParts DEF JobSound, forks
<1> QED  BY <1>1 DEF JobSound

LEMMA DisconnectCalm ==
  ASSUME Quiet, disconnect
  PROVE  Calm'
<1>1. /\ job.at = "disconnect" /\ pop_block /\ job' = [job EXCEPT !.off = <<last(chain)>> \o @]
      /\ batch' = batch /\ release' = release
  BY DEF disconnect
<1>2. job = [at |-> "disconnect", off |-> job.off, was |-> job.was, cum |-> job.cum]
  BY <1>1, QuietParts, JobAt DEF Disconnecting
<1> DEFINE o == <<last(chain)>> \o job.off
<1>3. job' = [at |-> "disconnect", off |-> o, was |-> job.was, cum |-> job.cum]  BY <1>1, <1>2
<1> HIDE DEF o
<1>4. job'.at = "disconnect" /\ job'.was = job.was  BY <1>3
<1>5. JobSound'  BY <1>1, <1>4, JobKept
<1> QED  BY <1>1, <1>5, PopSound, BatchStays DEF Calm

LEMMA DisconnectedCalm ==
  ASSUME Quiet, disconnected
  PROVE  Calm'
<1>1. /\ job.at = "disconnect" /\ job' = [job EXCEPT !.at = "connect"]
      /\ chain' = chain /\ meta' = meta /\ hfv' = hfv /\ hf' = hf /\ batch' = batch /\ release' = release
  BY DEF disconnected, db
<1>2. job = [at |-> "disconnect", off |-> job.off, was |-> job.was, cum |-> job.cum]
  BY <1>1, QuietParts, JobAt DEF Disconnecting
<1>3. job' = [at |-> "connect", off |-> job.off, was |-> job.was, cum |-> job.cum]  BY <1>1, <1>2
<1>4. job'.at = "connect" /\ job'.was = job.was  BY <1>3
<1>5. Limited'
  <2>1. median_weight' = RuleMedian(chain, meta)  BY DisconnectedCore DEF Quiet
  <2> QED  BY <1>1, <2>1 DEF Limited
<1>6. JobSound'  BY <1>1, <1>4, <1>5, JobKept
<1> QED  BY <1>1, <1>6, SoundStays, BatchStays DEF Calm

LEMMA ConnectCalm ==
  ASSUME Quiet, connect, faults' = faults, faults \in Nat
  PROVE  Calm'
<1> DEFINE b == alt.blocks[done + 1]
<1>1. /\ job.at = "connect" /\ done < Len(alt.blocks) /\ release' = release
      /\ \/ add_block(b) /\ batch' = batch /\ job' = job
         \/ /\ refuse_block(b) /\ batch' = [batch EXCEPT !.goes_on = FALSE]
            /\ job' = [at |-> "rollback", off |-> job.off, was |-> job.was, failed |-> done + 1]
  <2>1. ~add_block_throws(b)  BY DEF add_block_throws
  <2> QED  BY <2>1 DEF connect
<1>2. batch.open /\ Len(chain) <= MaxHeight /\ b \in AnyBlock  BY <1>1, ConnectNext DEF Quiet
<1>3. Limited  BY <1>1, IdleLimited
<1>4. BatchSound' /\ SameBatch  BY <1>1, <1>2, BatchStays
<1> HIDE DEF b
<1>5. Sound' /\ Limited'  BY <1>1, <1>2, <1>3, <1>4, HandledSound
<1>6. JobSound'
  <2>1. CASE job' = job  BY <1>1, <1>5, <2>1, JobKept
  <2>2. CASE job' = [at |-> "rollback", off |-> job.off, was |-> job.was, failed |-> done + 1]
    <3>1. job'.at = "rollback" /\ job'.was = job.was  BY <2>2
    <3> QED  BY <1>1, <3>1, JobKept
  <2> QED  BY <1>1, <2>1, <2>2
<1> QED  BY <1>4, <1>5, <1>6 DEF Calm

LEMMA ConnectedAllCalm ==
  ASSUME Quiet, connected_all
  PROVE  Calm'
<1>1. /\ job.at = "connect" /\ chain' = chain /\ meta' = meta /\ hfv' = hfv /\ hf' = hf
      /\ median_weight' = median_weight /\ batch' = batch /\ release' = release
      /\ job' = [at |-> "push", off |-> job.off, cum |-> job.cum, was |-> job.was, split |-> Len(alt.root)]
  BY DEF connected_all, caches
<1>2. job'.at = "push"  BY <1>1
<1>3. Limited'  BY <1>1, IdleLimited, LimitStays
<1>4. JobSound'  BY <1>2, <1>3 DEF JobSound
<1> QED  BY <1>1, <1>4, SoundStays, BatchStays DEF Calm

LEMMA PushCalm ==
  ASSUME Quiet, push_alternative
  PROVE  Calm'
<1>1. /\ job.at = "push" /\ job' = [job EXCEPT !.off = Tail(@)]
      /\ chain' = chain /\ meta' = meta /\ hfv' = hfv /\ hf' = hf
      /\ median_weight' = median_weight /\ batch' = batch /\ release' = release
  BY DEF push_alternative
<1>2. job = [at |-> "push", off |-> job.off, cum |-> job.cum, was |-> job.was, split |-> job.split]
  BY <1>1, QuietParts, JobAt DEF Pushing
<1> DEFINE o == Tail(job.off)
<1>3. job' = [at |-> "push", off |-> o, cum |-> job.cum, was |-> job.was, split |-> job.split]
  BY <1>1, <1>2
<1> HIDE DEF o
<1>4. job'.at = "push"  BY <1>3
<1>5. Limited'  BY <1>1, IdleLimited, LimitStays
<1>6. JobSound'  BY <1>4, <1>5 DEF JobSound
<1> QED  BY <1>1, <1>6, SoundStays, BatchStays DEF Calm

\* The place of a root in a chain.
LEMMA RootPlace ==
  ASSUME NEW root \in Seq(AnyBlock), root # << >>, NEW c \in Seq(AnyBlock), Prefix(root, c)
  PROVE  Len(root) \in 1 .. Len(c)
<1>1. Len(root) \in Nat /\ Len(c) \in Nat /\ Len(root) <= Len(c) /\ Len(root) >= 1  BY DEF Prefix
<1> QED  BY <1>1

LEMMA SwitchedCalm ==
  ASSUME Quiet, switched
  PROVE  Calm'
<1>1. /\ job.at = "push" /\ job' = Idle /\ chain' = chain /\ meta' = meta /\ hfv' = hfv
      /\ median_weight' = median_weight /\ batch' = batch /\ release' = release
      /\ hf' = reorganize_from_chain_height(forks, hf, chain, job.split, hfv)
  BY DEF switched, db
<1>2. Pushing /\ alt.root \in Seq(AnyBlock) /\ chain \in Seq(AnyBlock)
  BY <1>1, QuietParts, JobAt DEF AltRight
<1>3. job.split = Len(alt.root) /\ alt.root # << >> /\ Prefix(alt.root, chain)  BY <1>2 DEF Pushing
<1>4. job.split \in 1 .. Len(chain)  BY <1>2, <1>3, RootPlace
<1>5. Sound'  BY <1>1, <1>4, ReorgSound
<1>6. Limited'  BY <1>1, IdleLimited, LimitStays
<1> QED  BY <1>1, <1>5, <1>6, BatchStays, IdleSound DEF Calm

LEMMA RollbackCalm ==
  ASSUME Quiet, rollback
  PROVE  Calm'
<1>1. job.at = "rollback" /\ pop_block /\ job' = job /\ batch' = batch /\ release' = release
  BY DEF rollback
<1>2. JobSound'  BY <1>1, JobKept
<1> QED  BY <1>1, <1>2, PopSound, BatchStays DEF Calm

LEMMA RolledBackCalm ==
  ASSUME Quiet, rolled_back
  PROVE  Calm'
<1>1. /\ job.at = "rollback" /\ job' = [job EXCEPT !.at = "restore"]
      /\ hf' = reorganize_from_chain_height(forks, hf, chain, Len(chain), hfv)
      /\ chain' = chain /\ meta' = meta /\ hfv' = hfv /\ alt' = alt /\ batch' = batch /\ release' = release
  BY DEF rolled_back, db
<1>2. Undoing("rollback")  BY <1>1, QuietParts, JobAt DEF RollingBack
<1>3. Undoing("restore")' /\ job'.was = job.was  BY <1>1, <1>2, UndoingOn
<1>4. job'.at = "restore"
  <2>1. job' = [at |-> "restore", off |-> job'.off, was |-> job'.was, failed |-> job'.failed]
    BY <1>3 DEF Undoing
  <2> QED  BY <2>1
<1>5. Limited'
  <2>1. median_weight' = RuleMedian(chain, meta)  BY RolledBackCore DEF Quiet
  <2> QED  BY <1>1, <2>1 DEF Limited
<1>6. JobSound'  BY <1>1, <1>3, <1>4, <1>5, JobKept
<1>7. Len(chain) \in 1 .. Len(chain)  BY QuietParts
<1>8. Sound'  BY <1>1, <1>7, ReorgSound
<1> QED  BY <1>1, <1>6, <1>8, BatchStays DEF Calm

\* A block of a valid chain is accepted where it was.
LEMMA AcceptedAgain ==
  ASSUME Quiet, Limited, NEW s \in Seq(AnyBlock), ValidChain(forks, s), NEW b \in AnyBlock,
         Prefix(Append(chain, b), s)
  PROVE  accepts(b)
<1> DEFINE n == Len(chain)
           u == Append(chain, b)
           p == SubSeq(s, 1, (n + 1) - 1)
<1>1. chain \in Seq(AnyBlock) /\ n \in Nat /\ n >= 1  BY QuietParts
<1>2. u \in Seq(AnyBlock) /\ Len(u) = n + 1 /\ u[n + 1] = b /\ \A i \in 1 .. n : u[i] = chain[i]  BY <1>1
<1> HIDE DEF u
<1>3. Prefix(u, s)  BY DEF u
<1>4. n + 1 <= Len(s) /\ \A i \in 1 .. n + 1 : u[i] = s[i]  BY <1>2, <1>3, PrefixElements
<1>5. n + 1 \in 2 .. Len(s) /\ (n + 1) - 1 = n /\ n + 1 \in 1 .. n + 1 /\ Len(s) \in Nat  BY <1>1, <1>4
<1>6. do_check(forks, IdealIndex(forks, n), s[n + 1]) /\ Pays(p, s[n + 1])
  BY <1>5 DEF ValidChain, ForksRight, PaysRight
<1>7. p = chain
  <2>1. p \in Seq(AnyBlock) /\ Len(p) = n /\ \A i \in 1 .. n : p[i] = s[i]  BY <1>1, <1>4, <1>5
  <2>2. \A i \in 1 .. n : i \in 1 .. n + 1  BY <1>1
  <2> HIDE DEF p
  <2>3. \A i \in 1 .. n : p[i] = chain[i]  BY <1>2, <1>4, <2>1, <2>2
  <2> QED  BY <1>1, <2>1, <2>3, SameSeq
<1>8. s[n + 1] = b  BY <1>2, <1>4, <1>5
<1> QED  BY <1>6, <1>7, <1>8, AcceptsValid

\* The blocks put back so far are a beginning of the old chain.
LEMMA BuiltPrefix ==
  ASSUME NEW root \in Seq(AnyBlock), NEW bs \in Seq(AnyBlock), NEW k \in 0 .. Len(bs)
  PROVE  Prefix(Built(root, bs, k), root \o bs)
<1> DEFINE u == SubSeq(bs, 1, k)
           p == root \o u
           q == root \o bs
           r == Len(root)
<1>1. Len(bs) \in Nat /\ k \in Nat /\ k <= Len(bs) /\ r \in Nat  OBVIOUS
<1>2. u \in Seq(AnyBlock) /\ Len(u) = k /\ \A i \in 1 .. k : u[i] = bs[i]  BY <1>1
<1> HIDE DEF u
<1>3. Joined(p, root, u, AnyBlock) /\ Joined(q, root, bs, AnyBlock)  BY <1>2, JoinedSeq
<1> HIDE DEF p, q
<1>4. /\ p \in Seq(AnyBlock) /\ Len(p) = r + k /\ q \in Seq(AnyBlock) /\ Len(q) = r + Len(bs)
      /\ \A i \in 1 .. r : p[i] = root[i] /\ q[i] = root[i]
      /\ \A i \in 1 .. k : p[r + i] = u[i]
      /\ \A i \in 1 .. Len(bs) : q[r + i] = bs[i]
  BY <1>2, <1>3 DEF Joined
<1> HIDE DEF r
<1>5. ASSUME NEW i \in 1 .. Len(p) PROVE p[i] = q[i]
  <2>1. CASE i <= r
    <3>1. i \in 1 .. r  BY <1>1, <1>4, <2>1
    <3> QED  BY <1>4, <3>1
  <2>2. CASE ~(i <= r)
    <3> DEFINE j == i - r
    <3>1. j \in 1 .. k /\ j \in 1 .. Len(bs) /\ i = r + j  BY <1>1, <1>4, <2>2
    <3> HIDE DEF j
    <3> QED  BY <1>2, <1>4, <3>1
  <2> QED  BY <2>1, <2>2
<1>6. Len(p) <= Len(q)  BY <1>1, <1>4
<1>7. Prefix(p, q)  BY <1>4, <1>5, <1>6, PrefixElements
<1> QED  BY <1>7 DEF Built, p, q, u

LEMMA RestoreCalm ==
  ASSUME Quiet, restore, faults' = faults, faults \in Nat
  PROVE  Calm'
<1> DEFINE b == job.off[done + 1]
<1>1. /\ job.at = "restore" /\ done < Len(job.off) /\ release' = release
      /\ \/ add_block(b) /\ batch' = batch /\ job' = job
         \/ refuse_block(b)
  <2>1. ~add_block_throws(b)  BY DEF add_block_throws
  <2> QED  BY <2>1 DEF restore
<1>2. /\ Len(chain) <= MaxHeight /\ b \in AnyBlock
      /\ alt.root \in Seq(AnyBlock) /\ job.off \in Seq(AnyBlock) /\ job.was = alt.root \o job.off
      /\ done \in 0 .. Len(job.off) /\ Append(chain, b) = Built(alt.root, job.off, done + 1)
  BY <1>1, RestoreNext DEF Quiet
<1>3. Limited  BY <1>1, IdleLimited
<1>4. ValidChain(forks, job.was) /\ job.was \in Seq(AnyBlock)
  BY <1>1, <1>2, QuietParts DEF JobSound
<1>5. done + 1 \in 0 .. Len(job.off)
  <2>1. Len(job.off) \in Nat  BY <1>2
  <2> QED  BY <1>1, <1>2, <2>1
<1>6. Prefix(Built(alt.root, job.off, done + 1), alt.root \o job.off)  BY <1>2, <1>5, BuiltPrefix
<1> HIDE DEF b
<1>7. accepts(b)  BY <1>2, <1>3, <1>4, <1>6, AcceptedAgain
<1>8. add_block(b) /\ batch' = batch /\ job' = job  BY <1>1, <1>7 DEF refuse_block
<1>9. BatchSound' /\ SameBatch  BY <1>1, <1>8, BatchStays
<1>10. Sound' /\ Limited'  BY <1>1, <1>2, <1>3, <1>8, <1>9, HandledSound
<1>11. JobSound'  BY <1>1, <1>8, <1>10, JobKept
<1> QED  BY <1>9, <1>10, <1>11 DEF Calm

LEMMA RestoredCalm ==
  ASSUME Quiet, restored
  PROVE  Calm'
<1>1. job.at # "panic"  BY QuietParts DEF JobSound
<1>2. /\ job.at = "restore" /\ job' = Idle /\ chain' = chain /\ meta' = meta /\ hfv' = hfv
      /\ median_weight' = median_weight /\ batch' = batch /\ release' = release
      /\ hf' = reorganize_from_chain_height(forks, hf, chain, Len(alt.root), hfv)
  BY <1>1 DEF restored
<1>3. Restoring /\ Undoing("restore") /\ alt.root \in Seq(AnyBlock) /\ chain \in Seq(AnyBlock)
  BY <1>2, QuietParts, JobAt DEF AltRight, Restoring
<1>4. /\ alt.root # << >> /\ job.off \in Seq(AnyBlock) /\ done \in 0 .. Len(job.off)
      /\ chain = Built(alt.root, job.off, done)
  BY <1>3 DEF Restoring, Undoing
<1>5. Prefix(alt.root, chain)  BY <1>3, <1>4, PutOn
<1>6. Len(alt.root) \in 1 .. Len(chain)  BY <1>3, <1>4, <1>5, RootPlace
<1>7. Sound'  BY <1>2, <1>6, ReorgSound
<1>8. Limited'  BY <1>2, IdleLimited, LimitStays
<1> QED  BY <1>2, <1>7, <1>8, BatchStays, IdleSound DEF Calm

LEMMA PopNextCalm ==
  ASSUME Quiet, pop_next
  PROVE  Calm'
<1>1. /\ job.at = "pops" /\ pop_block /\ job' = [job EXCEPT !.left = @ - 1]
      /\ batch' = batch /\ release' = release
  BY DEF pop_next
<1>2. job = [at |-> "pops", left |-> job.left]  BY <1>1, QuietParts, JobAt DEF Popping
<1>3. job' = [at |-> "pops", left |-> job.left - 1]  BY <1>1, <1>2
<1>4. job'.at = "pops"  BY <1>3
<1>5. JobSound'  BY <1>4 DEF JobSound
<1> QED  BY <1>1, <1>5, PopSound, BatchStays DEF Calm

LEMMA PoppedCalm ==
  ASSUME Quiet, popped
  PROVE  Calm'
<1>1. /\ batch' = NoBatch /\ job' = Idle /\ chain' = chain /\ meta' = meta /\ hfv' = hfv /\ hf' = hf
      /\ release' = release
  BY DEF popped, db
<1>2. Limited'
  <2>1. median_weight' = RuleMedian(chain, meta)  BY PoppedCore DEF Quiet
  <2> QED  BY <1>1, <2>1 DEF Limited
<1>3. BatchSound'  BY <1>1 DEF BatchSound, NoBatch
<1> QED  BY <1>1, <1>2, <1>3, SoundStays, IdleSound DEF Calm

\* A start with a newer table: the blocks it cuts off are those with the
\* version of the older table, and what is left is valid under the newer one.
LEMMA RestartCalm ==
  ASSUME Quiet, NEW r \in DOMAIN Tables, NEW keep \in BOOLEAN, restart(r, keep)
  PROVE  Calm' /\ release' \in DOMAIN Tables
<1> DEFINE c == Committed.chain
           v == Committed.hfv
           top == last_right(Tables[r], c)
           t == Tables[release]
           u == Tables[r]
<1>1. c \in Chains  BY CommittedRight DEF Quiet, DbRight
<1>2. ValidChain(t, c) /\ HfvRight(t, v, Len(c))
  <2>1. CASE batch.open  BY <2>1, QuietParts DEF BatchSound, ChainSound, Committed, forks
  <2>2. CASE ~batch.open
    <3>1. Committed.chain = chain /\ Committed.hfv = hfv  BY <2>2 DEF Committed, Saved
    <3> QED  BY <3>1, QuietParts DEF forks
  <2> QED  BY <2>1, <2>2
<1>3. /\ r >= release /\ release' = r /\ chain' = SubSeq(c, 1, top) /\ hfv' = v
      /\ hf' = IF top = Len(c) THEN init(u, c, v)
               ELSE reorganize_from_chain_height(u, init(u, c, v), SubSeq(c, 1, top), top, v)
      /\ batch' = NoBatch /\ job' = Idle
  BY RestartSteps
<1>4. top \in right_version(u, c) /\ top \in 1 .. Len(c)  BY <1>1, TopFound
<1>5. Table(t) /\ Table(u) /\ Later(t, u)
  <2>1. release \in DOMAIN Tables  BY DEF Quiet
  <2>2. release <= r
    <3>1. DOMAIN Tables \subseteq Int
      <4>1. Tables \in Seq(Seq([version : Versions, height : Nat, threshold : {0}]))  BY TablesAssumption
      <4> DEFINE E == Seq([version : Versions, height : Nat, threshold : {0}])
      <4> HIDE DEF E
      <4>2. Tables \in Seq(E)  BY <4>1 DEF E
      <4> QED  BY <4>2
    <3> QED  BY <1>3, <2>1, <3>1
  <2> QED  BY <2>1, <2>2, TableRight, LaterTable
<1>6. ForksRight(t, c)  BY <1>2 DEF ValidChain
<1> HIDE DEF c, v, top, t, u
<1>7. ForksRight(u, chain') /\ HfvRight(u, v, top)  BY <1>1, <1>2, <1>3, <1>4, <1>5, <1>6, UpgradeRight
<1>8. HfRight(u, hf', top)  BY <1>1, <1>2, <1>3, <1>4, <1>5, <1>6, StartRight
<1>9. PaysRight(chain')
  <2>1. c \in Seq(AnyBlock) /\ PaysRight(c)  BY <1>1, <1>2, ChainType DEF ValidChain
  <2> QED  BY <1>3, <1>4, <2>1, PaysPrefix
<1>10. Len(chain') = top  BY <1>1, <1>3, <1>4, ChainPrefix
<1>11. forks' = u  BY <1>3 DEF forks, u
<1>12. Sound'  BY <1>3, <1>7, <1>8, <1>9, <1>10, <1>11 DEF Sound, ChainSound, ValidChain
<1>13. Limited'  BY RestartCore DEF Quiet, Limited
<1>14. BatchSound'  BY <1>3 DEF BatchSound, NoBatch
<1> QED  BY <1>3, <1>12, <1>13, <1>14, IdleSound DEF Calm

\* A step without an exception.
LEMMA CalmKept ==
  ASSUME Quiet, Next, faults' = faults, faults \in Nat
  PROVE  Calm'
<1>1. ASSUME NEW b \in Block, incoming(b) \/ alternative_block(b) \/ stranded(b) PROVE Calm'
  BY <1>1, IncomingCalm, AlternativeBlockCalm, StrandedCalm
<1>2. ASSUME NEW n \in 1 .. MaxPop, pop_blocks(n) PROVE Calm'  BY <1>2, PopBlocksCalm
<1>3. ASSUME NEW r \in DOMAIN Tables, NEW keep \in BOOLEAN, restart(r, keep) PROVE Calm'
  BY <1>3, RestartCalm
<1>4. CASE prepare \/ cleanup  BY <1>4, PrepareCalm, CleanupCalm
<1>5. CASE disconnect \/ disconnected \/ connect \/ connected_all \/ push_alternative \/ switched
  BY <1>5, DisconnectCalm, DisconnectedCalm, ConnectCalm, ConnectedAllCalm, PushCalm, SwitchedCalm
<1>6. CASE rollback \/ rolled_back \/ restore \/ restored
  BY <1>6, RollbackCalm, RolledBackCalm, RestoreCalm, RestoredCalm
<1>7. CASE pop_next \/ popped \/ ask_difficulty
  BY <1>7, PopNextCalm, PoppedCalm, AskCalm
<1>8. ~pop_throws  BY DEF pop_throws
<1> QED  BY <1>1, <1>2, <1>3, <1>4, <1>5, <1>6, <1>7, <1>8 DEF Next

----------------------------------------------------------------------------
(* The theorems about the derived state.                                   *)

LEMMA InitQuiet ==
  ASSUME Init
  PROVE  Quiet /\ FairRight /\ faults = 0
<1> DEFINE t == Tables[1]
<1>1. chain \in Chains /\ Exact(meta, chain) /\ meta = RuleMeta(chain)  BY InitRules
<1>2. Core /\ Limited  BY InitCore DEF Limited
<1>3. /\ chain = <<Genesis>> /\ batch = NoBatch /\ job = Idle /\ release = 1 /\ faults = 0
      /\ hfv = [h \in 0 .. MaxHeight |-> IF h = 0 THEN Genesis.v ELSE 0]
      /\ hf = init(forks, chain, hfv)
  BY DEF Init
<1>4. 1 \in DOMAIN Tables
  <2> DEFINE E == Seq([version : Versions, height : Nat, threshold : {0}])
  <2>1. Tables \in Seq(E) /\ Tables # << >>  BY TablesAssumption
  <2> HIDE DEF E
  <2> QED  BY <2>1
<1>5. forks = t /\ Table(t)  BY <1>3, <1>4, TableRight DEF forks
<1> HIDE DEF t
<1>6. Len(chain) = 1  BY <1>3
<1>7. IdealIndex(t, 0) = 1 /\ t[1].version = Genesis.v /\ t[1].height = 0 /\ 1 \in 1 .. Len(t)
  BY <1>5, GenesisIndex DEF Table
<1>8. Genesis.v \in Nat
  <2>1. Genesis \in AnyBlock  BY DEF AnyBlock
  <2> QED  BY <2>1, BlockFields, VersionsAssumption
<1>9. hfv[0] = Genesis.v /\ hfv \in [0 .. MaxHeight -> Nat]  BY <1>3, <1>8, BoundsAssumption
<1>10. HfvRight(t, hfv, 1)
  <2>1. \A h \in 0 .. 1 - 1 : h = 0  OBVIOUS
  <2> QED  BY <1>7, <1>9, <2>1 DEF HfvRight
<1>11. HfRight(t, init(t, chain, hfv), Len(chain))
  <2>1. hfv[Len(chain) - 1] = t[1].version /\ t[1].height <= Len(chain)  BY <1>6, <1>7, <1>9
  <2> QED  BY <1>1, <1>5, <1>7, <2>1, InitRight
<1>12. ValidChain(t, chain)
  <2>1. 2 .. Len(chain) = {}  BY <1>6
  <2> QED  BY <2>1 DEF ValidChain, ForksRight, PaysRight
<1>13. Sound  BY <1>3, <1>5, <1>6, <1>10, <1>11, <1>12 DEF Sound, ChainSound
<1>14. ~batch.open /\ job.at = "idle"  BY <1>3 DEF NoBatch, Idle
<1>15. Calm  BY <1>2, <1>13, <1>14 DEF Calm, BatchSound, JobSound
<1>16. CoinsRight  BY <1>1, <1>14 DEF CoinsRight
<1>17. FairRight  BY <1>1, <1>14 DEF FairRight, CoinsFair
<1> QED  BY <1>2, <1>3, <1>4, <1>15, <1>16, <1>17 DEF Quiet

\* The invariant: Core and the fair coins always, the rest as long as the
\* database has not thrown.
Whole == Core /\ FairRight /\ release \in DOMAIN Tables /\ faults \in Nat /\ (faults = 0 => CoinsRight /\ Calm)

\* An exception is counted, and only a start changes the release.
LEMMA NextFaults ==
  ASSUME Next, faults \in Nat, release \in DOMAIN Tables
  PROVE  faults' \in {faults, faults + 1} /\ release' \in DOMAIN Tables
<1> DEFINE Goal == faults' \in {faults, faults + 1} /\ release' \in DOMAIN Tables
<1>1. ASSUME NEW b PROVE add_block(b) \/ refuse_block(b) \/ add_block_throws(b) => faults' \in {faults, faults + 1}
  BY DEF add_block, refuse_block, add_block_throws
<1>2. ASSUME NEW b \in Block, incoming(b) PROVE Goal  BY <1>1, <1>2 DEF incoming
<1>3. ASSUME NEW b \in Block, alternative_block(b) PROVE Goal
  <2>1. PICK a : alternative(a, b)  BY <1>3 DEF alternative_block
  <2> QED  BY <2>1 DEF alternative
<1>4. ASSUME NEW b \in Block, stranded(b) PROVE Goal  BY <1>4 DEF stranded
<1>5. ASSUME NEW n \in 1 .. MaxPop, pop_blocks(n) PROVE Goal  BY <1>5 DEF pop_blocks
<1>6. ASSUME NEW r \in DOMAIN Tables, NEW keep \in BOOLEAN, restart(r, keep) PROVE Goal
  BY <1>6, RestartSteps
<1>7. CASE prepare \/ cleanup  BY <1>7 DEF prepare, cleanup
<1>8. CASE disconnect \/ disconnected \/ connected_all \/ push_alternative \/ switched
  BY <1>8 DEF disconnect, disconnected, connected_all, push_alternative, switched
<1>9. CASE connect \/ restore  BY <1>1, <1>9 DEF connect, restore
<1>10. CASE rollback \/ rolled_back \/ restored  BY <1>10 DEF rollback, rolled_back, restored
<1>11. CASE pop_next \/ pop_throws \/ popped \/ ask_difficulty
  BY <1>11 DEF pop_next, pop_throws, popped, ask_difficulty
<1> QED  BY <1>2, <1>3, <1>4, <1>5, <1>6, <1>7, <1>8, <1>9, <1>10, <1>11 DEF Next

LEMMA CalmStutters ==
  ASSUME Calm, UNCHANGED vars
  PROVE  Calm'
<1>1. /\ chain' = chain /\ meta' = meta /\ hfv' = hfv /\ batch' = batch /\ median_weight' = median_weight
      /\ hf' = hf /\ release' = release /\ job' = job
  BY DEF vars, db, caches
<1>2. forks' = forks  BY <1>1 DEF forks
<1> QED  BY <1>1, <1>2 DEF Calm, Sound, BatchSound, JobSound, Limited

\* Every step keeps the whole invariant; a throw of the database only has to
\* keep the part that does not say it has not thrown.
LEMMA WholeKept ==
  ASSUME Whole, [Next]_vars
  PROVE  Whole'
<1>1. Core /\ FairRight /\ release \in DOMAIN Tables /\ faults \in Nat /\ (faults = 0 => CoinsRight /\ Calm)
  BY DEF Whole
<1>2. Core' /\ FairRight'  BY <1>1, CoreKept, FairKept
<1>3. faults' \in {faults, faults + 1} /\ release' \in DOMAIN Tables
  <2>1. CASE Next  BY <1>1, <2>1, NextFaults
  <2>2. CASE UNCHANGED vars  BY <1>1, <2>2 DEF vars
  <2> QED  BY <2>1, <2>2
<1>4. ASSUME faults' = 0 PROVE CoinsRight' /\ Calm'
  <2>1. faults = 0 /\ faults' = faults  BY <1>1, <1>3, <1>4
  <2>2. Quiet /\ CoinsRight /\ Calm  BY <1>1, <2>1 DEF Quiet
  <2>3. Grows => Limited
    <3> SUFFICES ASSUME Grows PROVE Limited  OBVIOUS
    <3>1. job.at \in {"idle", "connect", "restore"}  BY DEF Grows
    <3> QED  BY <2>2, <3>1, IdleLimited
  <2>4. CoinsRight'  BY <1>1, <2>2, <2>3, CoinsKept DEF Limited
  <2>5. CASE Next  BY <1>1, <2>1, <2>2, <2>4, <2>5, CalmKept
  <2>6. CASE UNCHANGED vars  BY <2>2, <2>4, <2>6, CalmStutters
  <2> QED  BY <2>5, <2>6
<1> QED  BY <1>1, <1>2, <1>3, <1>4 DEF Whole

LEMMA WholeHolds == Spec => []Whole
<1>1. Init => Whole
  <2> SUFFICES ASSUME Init PROVE Whole  OBVIOUS
  <2>1. Quiet /\ FairRight /\ faults = 0  BY InitQuiet
  <2> QED  BY <2>1 DEF Whole, Quiet
<1>2. Whole /\ [Next]_vars => Whole'  BY WholeKept
<1> QED  BY <1>1, <1>2, PTL DEF Spec

LEMMA WholeQuiet ==
  ASSUME Whole, faults = 0
  PROVE  Quiet
  BY DEF Whole, Quiet

\* The data that the database stores with the blocks is the one the rules
\* give: the caches that add_block takes it from, filled on other branches, in
\* batches that were aborted or by other threads, do not show in it.  Once
\* the database has thrown this is said of chains without a coinbase that
\* pays out too much, which a stale weight limit may let pass.
THEOREM ChainExactAlways == Spec => []ChainExact
<1>1. Whole => ChainExact
  <2> SUFFICES ASSUME Whole PROVE ChainExact  OBVIOUS
  <2>1. chain \in Chains /\ Exact(meta, chain) /\ CoinsFair(chain, meta)
    BY DEF Whole, Core, DbRight, FairRight
  <2>2. chain \in Seq(AnyBlock) /\ DOMAIN chain = 1 .. Len(chain)  BY <2>1, ChainType
  <2>3. CASE faults = 0  BY <2>3 DEF Whole, CoinsRight, ChainExact
  <2>4. CASE \A k \in DOMAIN chain : chain[k].bad = 0
    <3>1. FairUpto(chain, Len(chain))  BY <2>2, <2>4 DEF FairUpto
    <3>2. meta = RuleMeta(chain)  BY <2>1, <2>2, <3>1, FairAll
    <3> QED  BY <3>2 DEF ChainExact
  <2> QED  BY <2>3, <2>4 DEF ChainExact
<1> QED  BY <1>1, WholeHolds, PTL

\* The weight limit is the one of the tip outside of a reorganisation, after
\* additions, pops, switches of chains, rollbacks and restarts.
THEOREM LimitsAlwaysFresh == Spec => []LimitsFresh
<1>1. Whole => LimitsFresh
  <2> SUFFICES ASSUME Whole, faults = 0, job = Idle PROVE median_weight = RuleMedian(chain, meta)
    BY DEF LimitsFresh
  <2> QED  BY WholeQuiet, IdleLimited DEF Limited
<1> QED  BY <1>1, WholeHolds, PTL

\* get_current_version is the version that the table of forks has for the
\* next block, whichever functions updated the hard fork object.
THEOREM ForkAlwaysMatches == Spec => []ForkMatchesHeight
<1>1. Whole => ForkMatchesHeight
  <2> SUFFICES ASSUME Whole, faults = 0
               PROVE  current_version(forks, hf) = get_ideal_version(forks, Len(chain))
    BY DEF ForkMatchesHeight
  <2>1. Table(forks) /\ Len(chain) \in Nat /\ HfRight(forks, hf, Len(chain))  BY WholeQuiet, QuietParts
  <2>2. hf.index = IdealIndex(forks, Len(chain))  BY <2>1 DEF HfRight
  <2>3. get_ideal_version(forks, Len(chain)) = forks[IdealIndex(forks, Len(chain))].version
    BY <2>1, IdealVersion
  <2> QED  BY <2>2, <2>3 DEF current_version
<1> QED  BY <1>1, WholeHolds, PTL

\* handle_block_to_main_chain accepts exactly the blocks that the rules allow
\* on top of the chain, at the tip, in a switch of chains and in its rollback.
THEOREM VerdictAlwaysRight == Spec => []VerdictRight
<1>1. Whole => VerdictRight
  <2> SUFFICES ASSUME Whole, faults = 0, NEW b \in asked PROVE accepts(b) <=> Valid(chain, b)
    BY DEF VerdictRight
  <2>1. Quiet /\ Core  BY WholeQuiet DEF Quiet
  <2>2. Limited /\ b \in AnyBlock
    <3>1. CASE Handling
      <4>1. job = Idle  BY <3>1 DEF Handling
      <4>2. job.at # "connect" /\ job.at # "restore"  BY <4>1 DEF Idle
      <4>3. asked = Block  BY <3>1, <4>2 DEF asked
      <4> QED  BY <2>1, <4>1, <4>3, IdleLimited DEF AnyBlock
    <3>2. CASE ~Handling /\ job.at = "connect" /\ done < Len(alt.blocks)
      <4>1. asked = {alt.blocks[done + 1]}  BY <3>2 DEF asked
      <4>2. alt.blocks[done + 1] \in AnyBlock  BY <2>1, <3>2, ConnectNext
      <4> QED  BY <2>1, <3>2, <4>1, <4>2, IdleLimited
    <3>3. CASE ~Handling /\ job.at = "restore" /\ done < Len(job.off)
      <4>1. asked = {job.off[done + 1]}  BY <3>3 DEF asked
      <4>2. job.off[done + 1] \in AnyBlock  BY <2>1, <3>3, RestoreNext
      <4> QED  BY <2>1, <3>3, <4>1, <4>2, IdleLimited
    <3>4. CASE /\ ~Handling
               /\ ~(job.at = "connect" /\ done < Len(alt.blocks))
               /\ ~(job.at = "restore" /\ done < Len(job.off))
      BY <3>4 DEF asked
    <3> QED  BY <3>1, <3>2, <3>3, <3>4
  <2> QED  BY <2>1, <2>2, AcceptsValid
<1> QED  BY <1>1, WholeHolds, PTL

\* A switch of chains that fails is undone: no block of the old chain is
\* refused when it is put back, and the chain is the old one in the end.
THEOREM RollbackAlwaysRestores == Spec => []RollbackRestores
<1>1. Whole => RollbackRestores
  <2> SUFFICES ASSUME Whole, faults = 0
               PROVE  job.at # "panic" /\ (job.at = "restore" /\ done = Len(job.off) => chain = job.was)
    BY DEF RollbackRestores
  <2>1. Quiet  BY WholeQuiet
  <2>2. job.at # "panic"  BY <2>1, QuietParts DEF JobSound
  <2>3. ASSUME job.at = "restore", done = Len(job.off) PROVE chain = job.was
    <3>1. Restoring /\ Undoing("restore")  BY <2>1, <2>3, QuietParts, JobAt DEF Restoring
    <3>2. job.off \in Seq(AnyBlock) /\ job.was = alt.root \o job.off /\ chain = Built(alt.root, job.off, Len(job.off))
      BY <2>3, <3>1 DEF Restoring, Undoing
    <3>3. SubSeq(job.off, 1, Len(job.off)) = job.off
      <4> DEFINE s == job.off
                 t == SubSeq(s, 1, Len(s))
      <4>1. s \in Seq(AnyBlock)  BY <3>2
      <4> HIDE DEF s
      <4>2. t \in Seq(AnyBlock) /\ Len(t) = Len(s) /\ \A i \in 1 .. Len(s) : t[i] = s[i]  BY <4>1
      <4> HIDE DEF t
      <4>3. t = s  BY <4>1, <4>2, SameSeq
      <4> QED  BY <4>3 DEF s, t
    <3> QED  BY <3>2, <3>3 DEF Built
  <2> QED  BY <2>2, <2>3
<1> QED  BY <1>1, WholeHolds, PTL
=============================================================================
