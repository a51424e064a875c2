-------------------------- MODULE ThreadPoolProofs --------------------------
(***************************************************************************)
(* For any number of workers and clients and any tree of jobs: no job      *)
(* outlives the body that submitted it, and wait tells of every error.     *)
(*                                                                         *)
(* The argument: a job is fresh, queued, running or over, never two of     *)
(* these and never twice; the counter of a waiter is the number of its     *)
(* jobs that are queued or in the hands of run; and a job that is not      *)
(* counted runs on top of the body that submitted it, which cannot be over *)
(* before it.                                                              *)
(***************************************************************************)
EXTENDS ThreadPool, FiniteSetTheorems, SequenceTheorems, TLAPS

Places == {"submit", "wait", "leave", "take", "exec", "dec", "post"}
Frames == [at : Places, job : Job \cup {NoJob}, sent : Nat, thrown : BOOLEAN]

IsBody(f) == f.at \in {"submit", "wait", "leave"}
IsWait(f) == f.at \in {"wait", "leave"}
IsRun(f) == f.at \in {"exec", "dec"}

\* The jobs whose body is on a stack, those run has in hand, those queued.
Bodies == {j \in Job : \E th \in Thread : \E i \in DOMAIN stack[th] :
                           IsBody(stack[th][i]) /\ stack[th][i].job = j}
Runs == {j \in Job : \E th \in Thread : \E i \in DOMAIN stack[th] :
                         IsRun(stack[th][i]) /\ stack[th][i].job = j}
Queued == {queue[i] : i \in DOMAIN queue}
Kids(j) == {Children[j][n] : n \in 1 .. Len(Children[j])}

Fresh(j) == j \notin Queued /\ j \notin Bodies /\ j \notin Runs /\ result[j] = "none"

\* The jobs the waiter of j has to wait for.
Waited(j) == {k \in Kids(j) : k \in Queued \/ k \in Runs}

TypeInv ==
    /\ queue \in Seq(Job)
    /\ stack \in [Thread -> Seq(Frames)]
    /\ num \in [Job -> Int]
    /\ error \in [Job -> BOOLEAN]
    /\ result \in [Job -> {"none", "ok", "threw"}]
    /\ position \in [Client -> Nat]

\* What a frame may stand on.
OnTop(f, below) ==
    IF IsBody(f)
    THEN \/ below.at = "exec" /\ below.job = f.job
         \/ /\ below.at = "submit" /\ ~ below.thrown
            /\ below.sent > 0 /\ f.job = Children[below.job][below.sent]
    ELSE IsWait(below)

FrameInv(th, i) ==
    LET f == stack[th][i]
    IN  /\ IsBody(f) \/ IsRun(f) => f.job \in Job
        /\ IsBody(f) => f.sent <= Len(Children[f.job])
        /\ f.at = "exec" => i < Len(stack[th])
        /\ f.at = "dec" => result[f.job] # "none"
        /\ i > 1 => OnTop(f, stack[th][i - 1])
        /\ i = 1 /\ IsBody(f) => /\ th \in Client /\ position[th] < Len(Program[th])
                                 /\ f.job = Program[th][position[th] + 1]
        /\ i = 1 /\ ~ IsBody(f) => th \in Worker

StackInv == \A th \in Thread : \A i \in DOMAIN stack[th] : FrameInv(th, i)

\* Two frames of one job.
Clash(f, g) == f.job = g.job /\ ((IsBody(f) /\ IsBody(g)) \/ (IsRun(f) /\ IsRun(g)))

\* No job is twice on the stacks or in the queue.
OnceInv ==
    /\ \A th, sh \in Thread : \A i \in DOMAIN stack[th] : \A k \in DOMAIN stack[sh] :
          Clash(stack[th][i], stack[sh][k]) => th = sh /\ i = k
    /\ \A i, k \in DOMAIN queue : queue[i] = queue[k] => i = k
    /\ Queued \cap (Bodies \cup Runs) = {}
    /\ \A j \in Queued \cup Bodies : result[j] = "none"
    /\ \A k \in Queued \cup Runs : \E p \in Job : k \in Kids(p)

\* What has not been submitted yet is fresh.
FreshInv ==
    /\ \A th \in Thread : \A i \in DOMAIN stack[th] : IsBody(stack[th][i]) =>
          \A n \in 1 .. Len(Children[stack[th][i].job]) :
              n > stack[th][i].sent => Fresh(Children[stack[th][i].job][n])
    /\ \A j \in Job : result[j] = "none" /\ j \notin Bodies => \A k \in Kids(j) : Fresh(k)
    /\ \A c \in Client : \A n \in 1 .. Len(Program[c]) :
          /\ n > position[c]
          /\ stack[c] = << >> \/ n > position[c] + 1
          => Fresh(Program[c][n])

\* The counters of the waiters.
CountInv == \A j \in Job : num[j] = Cardinality(Waited(j))

\* The jobs of a body that is over are over.
OverInv == \A j \in Job : result[j] # "none" => Waited(j) = {} /\ Kids(j) \cap Bodies = {}

\* An exception is on its way through the body of j.
ThrownBody(j) == \E th \in Thread : \E i \in DOMAIN stack[th] :
                    IsBody(stack[th][i]) /\ stack[th][i].job = j /\ stack[th][i].thrown

\* An error that is told happened, and one that happened is told or goes on
\* in the body that submitted the job.
ErrorInv ==
    \A j \in Job :
        /\ error[j] => \E k \in Kids(j) : result[k] = "threw"
        /\ \A k \in Kids(j) : result[k] = "threw" =>
              error[j] \/ result[j] = "threw" \/ ThrownBody(j)

PoolInv == TypeInv /\ StackInv /\ OnceInv /\ FreshInv /\ CountInv /\ OverInv /\ ErrorInv

----------------------------------------------------------------------------
(* What the steps do to a stack.                                           *)

\* All but the last element, and the last one.
LEMMA FrontFacts ==
  ASSUME NEW S, NEW s \in Seq(S), s # << >>
  PROVE  /\ Front(s) \in Seq(S) /\ Len(Front(s)) = Len(s) - 1
         /\ Len(s) \in Nat /\ Len(s) > 0
         /\ \A i \in 1 .. (Len(s) - 1) : Front(s)[i] = s[i]
         /\ Last(s) \in S /\ Last(s) = s[Len(s)]
  <1>1. Len(s) \in Nat /\ Len(s) > 0  OBVIOUS
  <1>2. /\ SubSeq(s, 1, Len(s) - 1) \in Seq(S)
        /\ Len(SubSeq(s, 1, Len(s) - 1)) = Len(s) - 1
        /\ \A i \in 1 .. (Len(s) - 1) : SubSeq(s, 1, Len(s) - 1)[i] = s[i]
    <2> DEFINE n == Len(s) - 1
    <2>1. n \in Nat /\ \A i \in 1 .. n : s[i] \in S
      BY <1>1
    <2> HIDE DEF n
    <2>2. /\ SubSeq(s, 1, n) \in Seq(S)
          /\ Len(SubSeq(s, 1, n)) = IF 1 <= n THEN n - 1 + 1 ELSE 0
          /\ \A i \in 1 .. (n - 1 + 1) : SubSeq(s, 1, n)[i] = s[1 + i - 1]
      BY <2>1, SubSeqProperties
    <2>3. Len(SubSeq(s, 1, n)) = n /\ \A i \in 1 .. n : SubSeq(s, 1, n)[i] = s[i]
      BY <2>1, <2>2
    <2> QED  BY <2>2, <2>3 DEF n
  <1> QED  BY <1>1, <1>2 DEF Front, Last

\* The running frame is replaced, the frames below it are not.
LEMMA BecomeFacts ==
  ASSUME TypeInv, NEW th \in Thread, stack[th] # << >>, NEW f \in Frames, Become(th, f)
  PROVE  /\ stack' \in [Thread -> Seq(Frames)]
         /\ Len(stack'[th]) = Len(stack[th])
         /\ \A i \in 1 .. (Len(stack[th]) - 1) : stack'[th][i] = stack[th][i]
         /\ stack'[th][Len(stack[th])] = f
         /\ \A sh \in Thread \ {th} : stack'[sh] = stack[sh]
  <1> DEFINE s == stack[th]
  <1>1. s \in Seq(Frames) /\ s # << >>  BY DEF TypeInv
  <1>2. stack' = [stack EXCEPT ![th] = Append(Front(s), f)]  BY DEF Become
  <1> HIDE DEF s
  <1>3. /\ Append(Front(s), f) \in Seq(Frames) /\ Len(Append(Front(s), f)) = Len(s)
        /\ \A i \in 1 .. (Len(s) - 1) : Append(Front(s), f)[i] = s[i]
        /\ Append(Front(s), f)[Len(s)] = f
    BY <1>1, FrontFacts
  <1> QED  BY <1>2, <1>3 DEF TypeInv, s

\* The running frame is replaced and another put on top of it.
LEMMA PushFacts ==
  ASSUME TypeInv, NEW th \in Thread, stack[th] # << >>, NEW f \in Frames, NEW g \in Frames,
         Push(th, f, g)
  PROVE  /\ stack' \in [Thread -> Seq(Frames)]
         /\ Len(stack'[th]) = Len(stack[th]) + 1
         /\ \A i \in 1 .. (Len(stack[th]) - 1) : stack'[th][i] = stack[th][i]
         /\ stack'[th][Len(stack[th])] = f
         /\ stack'[th][Len(stack[th]) + 1] = g
         /\ \A sh \in Thread \ {th} : stack'[sh] = stack[sh]
  <1> DEFINE s == stack[th]
             t == Front(s) \o <<f, g>>
  <1>1. s \in Seq(Frames) /\ s # << >>  BY DEF TypeInv
  <1>2. stack' = [stack EXCEPT ![th] = t]  BY DEF Push
  <1> HIDE DEF s
  <1>3. /\ t \in Seq(Frames) /\ Len(t) = Len(s) + 1
        /\ \A i \in 1 .. (Len(s) - 1) : t[i] = s[i]
        /\ t[Len(s)] = f /\ t[Len(s) + 1] = g
    <2>1. Front(s) \in Seq(Frames) /\ <<f, g>> \in Seq(Frames)
      BY <1>1, FrontFacts
    <2>2. Len(Front(s)) = Len(s) - 1 /\ Len(s) \in Nat /\ Len(s) > 0
      BY <1>1, FrontFacts
    <2>3. \A i \in 1 .. (Len(s) - 1) : Front(s)[i] = s[i]
      BY <1>1, FrontFacts
    <2>4. Len(<<f, g>>) = 2 /\ <<f, g>>[1] = f /\ <<f, g>>[2] = g
      OBVIOUS
    <2>5. /\ t \in Seq(Frames) /\ Len(t) = Len(Front(s)) + 2
          /\ \A i \in 1 .. Len(t) : t[i] = IF i <= Len(Front(s)) THEN Front(s)[i]
                                           ELSE <<f, g>>[i - Len(Front(s))]
      BY <2>1, <2>4, ConcatProperties
    <2> HIDE DEF t
    <2>6. Len(s) - Len(Front(s)) = 1 /\ Len(s) + 1 - Len(Front(s)) = 2
      BY <2>2
    <2>7. Len(t) = Len(s) + 1 /\ t \in Seq(Frames)
      BY <2>2, <2>5
    <2>8. t[Len(s)] = f /\ t[Len(s) + 1] = g
      <3>1. t[Len(s)] = <<f, g>>[Len(s) - Len(Front(s))]
        BY <2>2, <2>5, <2>7
      <3>2. t[Len(s) + 1] = <<f, g>>[Len(s) + 1 - Len(Front(s))]
        BY <2>2, <2>5, <2>7
      <3> QED  BY <2>4, <2>6, <3>1, <3>2
    <2>9. \A i \in 1 .. (Len(s) - 1) : t[i] = s[i]
      BY <2>2, <2>3, <2>5, <2>7
    <2> QED  BY <2>7, <2>8, <2>9
  <1> HIDE DEF t
  <1> QED  BY <1>2, <1>3 DEF TypeInv, s

\* The running frame goes.
LEMMA PopFacts ==
  ASSUME TypeInv, NEW th \in Thread, stack[th] # << >>,
         stack' = [stack EXCEPT ![th] = Front(@)]
  PROVE  /\ stack' \in [Thread -> Seq(Frames)]
         /\ Len(stack'[th]) = Len(stack[th]) - 1
         /\ \A i \in 1 .. (Len(stack[th]) - 1) : stack'[th][i] = stack[th][i]
         /\ \A sh \in Thread \ {th} : stack'[sh] = stack[sh]
  <1> DEFINE s == stack[th]
  <1>1. s \in Seq(Frames) /\ s # << >>  BY DEF TypeInv
  <1>2. stack' = [stack EXCEPT ![th] = Front(s)]  OBVIOUS
  <1> HIDE DEF s
  <1>3. /\ Front(s) \in Seq(Frames) /\ Len(Front(s)) = Len(s) - 1
        /\ \A i \in 1 .. (Len(s) - 1) : Front(s)[i] = s[i]
    BY <1>1, FrontFacts
  <1> QED  BY <1>2, <1>3 DEF TypeInv, s

\* The running frame goes and the one below it is replaced.
LEMMA ReturnFacts ==
  ASSUME TypeInv, NEW th \in Thread, Len(stack[th]) > 1, NEW f \in Frames,
         stack' = [stack EXCEPT ![th] = Append(Front(Front(@)), f)]
  PROVE  /\ stack' \in [Thread -> Seq(Frames)]
         /\ Len(stack'[th]) = Len(stack[th]) - 1
         /\ \A i \in 1 .. (Len(stack[th]) - 2) : stack'[th][i] = stack[th][i]
         /\ stack'[th][Len(stack[th]) - 1] = f
         /\ \A sh \in Thread \ {th} : stack'[sh] = stack[sh]
  <1> DEFINE s == stack[th]
             t == Front(s)
             u == Front(t)
  <1>1. s \in Seq(Frames) /\ s # << >> /\ Len(s) > 1  BY DEF TypeInv
  <1>2. stack' = [stack EXCEPT ![th] = Append(u, f)]  OBVIOUS
  <1> HIDE DEF s
  <1>3. /\ t \in Seq(Frames) /\ Len(t) = Len(s) - 1 /\ Len(s) \in Nat
        /\ \A i \in 1 .. (Len(s) - 1) : t[i] = s[i]
    BY <1>1, FrontFacts
  <1> HIDE DEF t
  <1>4. t # << >>  BY <1>1, <1>3
  <1>5. /\ u \in Seq(Frames) /\ Len(u) = Len(t) - 1
        /\ \A i \in 1 .. (Len(t) - 1) : u[i] = t[i]
    BY <1>3, <1>4, FrontFacts
  <1> HIDE DEF u
  <1>6. /\ Append(u, f) \in Seq(Frames) /\ Len(Append(u, f)) = Len(s) - 1
        /\ \A i \in 1 .. (Len(s) - 2) : Append(u, f)[i] = s[i]
        /\ Append(u, f)[Len(s) - 1] = f
    BY <1>1, <1>3, <1>5
  <1> QED  BY <1>2, <1>6 DEF TypeInv, s

----------------------------------------------------------------------------
(* The tree of jobs.                                                       *)

\* ThreadPoolAssumption in terms of positions: every job is submitted at one
\* place at most, or begun by one client.
LEMMA Tree ==
  /\ \A j \in Job : /\ Children[j] \in Seq(Job) /\ Len(Children[j]) \in Nat
                    /\ Kids(j) \subseteq Job /\ Kids(j) = ChildrenOf(j)
                    /\ \A n \in 1 .. Len(Children[j]) : Children[j][n] \in Kids(j)
                    /\ \A n, m \in 1 .. Len(Children[j]) :
                          Children[j][n] = Children[j][m] => n = m
  /\ \A p, q \in Job : \A k \in Kids(p) : k \in Kids(q) => p = q
  /\ \A c \in Client : /\ Program[c] \in Seq(Job) /\ Len(Program[c]) \in Nat
                       /\ \A n \in 1 .. Len(Program[c]) : Program[c][n] \in Job
                       /\ \A n, m \in 1 .. Len(Program[c]) :
                             Program[c][n] = Program[c][m] => n = m
                       /\ \A n \in 1 .. Len(Program[c]) : \A j \in Job :
                             Program[c][n] \notin Kids(j)
  /\ \A c, d \in Client : \A n \in 1 .. Len(Program[c]), m \in 1 .. Len(Program[d]) :
        Program[c][n] = Program[d][m] => c = d
  /\ Worker \cap Client = {} /\ NoJob \notin Job
  <1>1. \A j \in Job : /\ Children[j] \in Seq(Job) /\ Len(Children[j]) \in Nat
                       /\ DOMAIN Children[j] = 1 .. Len(Children[j])
    BY ThreadPoolAssumption
  <1>2. \A j \in Job : Kids(j) = ChildrenOf(j)
    BY <1>1 DEF Kids, ChildrenOf, Range
  <1>3. \A j \in Job : Kids(j) \subseteq Job
    BY <1>1 DEF Kids
  <1>4. \A j \in Job : \A n \in 1 .. Len(Children[j]) : Children[j][n] \in Kids(j)
    BY DEF Kids
  <1>5. \A j \in Job : \A n, m \in 1 .. Len(Children[j]) :
            Children[j][n] = Children[j][m] => n = m
    BY <1>1, ThreadPoolAssumption DEF IsInjective
  <1>6. \A p, q \in Job : \A k \in Kids(p) : k \in Kids(q) => p = q
    BY <1>2, ThreadPoolAssumption
  <1>7. \A c \in Client : /\ Program[c] \in Seq(Job) /\ Len(Program[c]) \in Nat
                          /\ DOMAIN Program[c] = 1 .. Len(Program[c])
                          /\ \A n \in 1 .. Len(Program[c]) : Program[c][n] \in Job
    BY ThreadPoolAssumption
  <1>8. \A c \in Client : \A n, m \in 1 .. Len(Program[c]) :
            Program[c][n] = Program[c][m] => n = m
    BY <1>7, ThreadPoolAssumption DEF IsInjective
  <1>9. \A c \in Client : \A n \in 1 .. Len(Program[c]) : Program[c][n] \in Range(Program[c])
    BY <1>7 DEF Range
  <1>10. \A c \in Client : \A n \in 1 .. Len(Program[c]) : \A j \in Job :
             Program[c][n] \notin Kids(j)
    BY <1>2, <1>9, ThreadPoolAssumption
  <1>11. \A c, d \in Client : \A n \in 1 .. Len(Program[c]), m \in 1 .. Len(Program[d]) :
             Program[c][n] = Program[d][m] => c = d
    BY <1>9, ThreadPoolAssumption
  <1>12. Worker \cap Client = {} /\ NoJob \notin Job
    BY ThreadPoolAssumption
  <1> QED
    <2>1. \A j \in Job : /\ Children[j] \in Seq(Job) /\ Len(Children[j]) \in Nat
                         /\ Kids(j) \subseteq Job /\ Kids(j) = ChildrenOf(j)
                         /\ \A n \in 1 .. Len(Children[j]) : Children[j][n] \in Kids(j)
                         /\ \A n, m \in 1 .. Len(Children[j]) :
                               Children[j][n] = Children[j][m] => n = m
      BY <1>1, <1>2, <1>3, <1>4, <1>5
    <2>2. \A c \in Client : /\ Program[c] \in Seq(Job) /\ Len(Program[c]) \in Nat
                            /\ \A n \in 1 .. Len(Program[c]) : Program[c][n] \in Job
                            /\ \A n, m \in 1 .. Len(Program[c]) :
                                  Program[c][n] = Program[c][m] => n = m
                            /\ \A n \in 1 .. Len(Program[c]) : \A j \in Job :
                                  Program[c][n] \notin Kids(j)
      BY <1>7, <1>8, <1>10
    <2> QED  BY <2>1, <1>6, <2>2, <1>11, <1>12

\* A body submits finitely many jobs, so they can be counted.
LEMMA KidsFinite ==
  ASSUME NEW j \in Job
  PROVE  IsFiniteSet(Kids(j))
  <1> DEFINE s == Children[j]
             S == Kids(j)
  <1>1. s \in Seq(Job) /\ \A n \in 1 .. Len(s) : s[n] \in S  BY Tree
  <1>2. \A k \in S : \E n \in 1 .. Len(s) : s[n] = k  BY DEF Kids
  <1> HIDE DEF s, S
  <1>3. s \in Seq(S)
    <2>1. Len(s) \in Nat /\ s = [n \in 1 .. Len(s) |-> s[n]]  BY <1>1
    <2> QED  BY <1>1, <2>1
  <1>4. IsFiniteSet(S)  BY <1>2, <1>3 DEF IsFiniteSet
  <1> QED  BY <1>4 DEF S

\* The waiter a job was submitted with.
LEMMA ParentOf ==
  ASSUME NEW p \in Job, NEW k \in Kids(p)
  PROVE  Parent(k) = p
  <1>1. \A q \in Job : k \in ChildrenOf(q) <=> q = p  BY Tree
  <1> QED  BY <1>1 DEF Parent

\* The running frame is the last one.
LEMMA TypeOfTop ==
  ASSUME TypeInv, NEW th \in Thread, stack[th] # << >>
  PROVE  /\ stack[th] \in Seq(Frames) /\ Len(stack[th]) \in Nat /\ Len(stack[th]) > 0
         /\ DOMAIN stack[th] = 1 .. Len(stack[th])
         /\ top(th) = stack[th][Len(stack[th])] /\ top(th) \in Frames
  <1>1. stack[th] \in Seq(Frames)  BY DEF TypeInv
  <1>2. Last(stack[th]) \in Frames /\ Last(stack[th]) = stack[th][Len(stack[th])]
    BY <1>1, FrontFacts
  <1>3. Len(stack[th]) \in Nat /\ Len(stack[th]) > 0 /\ DOMAIN stack[th] = 1 .. Len(stack[th])
    BY <1>1
  <1> QED  BY <1>1, <1>2, <1>3 DEF top

----------------------------------------------------------------------------
(* Steps that start, end and move no job.                                  *)

Matters(f) == IsBody(f) \/ IsRun(f)

Alike(f, g) ==
    /\ g.job = f.job /\ (g.sent = f.sent \/ g.sent > f.sent)
    /\ IsBody(f) <=> IsBody(g)
    /\ IsRun(f) <=> IsRun(g)
    /\ f.thrown => g.thrown

\* The frames that matter stay where they are, but for new ones at S and old
\* ones at E on the stack of th.
Moves(th, S, E) ==
    /\ \A sh \in Thread : \A i \in DOMAIN stack'[sh] :
          Matters(stack'[sh][i]) /\ ~ (sh = th /\ i \in S) =>
             /\ i \in DOMAIN stack[sh] /\ Alike(stack[sh][i], stack'[sh][i])
             /\ ~ (sh = th /\ i \in E)
    /\ \A sh \in Thread : \A i \in DOMAIN stack[sh] :
          Matters(stack[sh][i]) /\ ~ (sh = th /\ i \in E) =>
             /\ i \in DOMAIN stack'[sh] /\ Alike(stack[sh][i], stack'[sh][i])
             /\ ~ (sh = th /\ i \in S)

\* A new frame is of a job that has none of its kind.
NewFrames(th, S) ==
    \A i \in DOMAIN stack'[th] : i \in S =>
        /\ IsBody(stack'[th][i]) => stack'[th][i].job \notin Bodies
        /\ IsRun(stack'[th][i]) => stack'[th][i].job \notin Runs
        /\ \A k \in DOMAIN stack'[th] : k \in S /\ Clash(stack'[th][i], stack'[th][k]) => i = k

\* What a step that starts frames at S and ends frames at E makes of the jobs
\* that have a body on a stack or are in the hands of run.
LEMMA MoveSets ==
  ASSUME TypeInv, StackInv, OnceInv, TypeInv', NEW th \in Thread, NEW S, NEW E, Moves(th, S, E),
         NewFrames(th, S)
  PROVE  /\ \A j \in Bodies : j \in Bodies' \/ \E i \in DOMAIN stack[th] :
                i \in E /\ IsBody(stack[th][i]) /\ stack[th][i].job = j
         /\ \A j \in Runs : j \in Runs' \/ \E i \in DOMAIN stack[th] :
                i \in E /\ IsRun(stack[th][i]) /\ stack[th][i].job = j
         /\ \A j \in Bodies' :
               \/ /\ j \in Bodies
                  /\ \A i \in DOMAIN stack[th] :
                        i \in E /\ IsBody(stack[th][i]) => stack[th][i].job # j
               \/ \E i \in DOMAIN stack'[th] :
                     i \in S /\ IsBody(stack'[th][i]) /\ stack'[th][i].job = j
         /\ \A j \in Runs' :
               \/ /\ j \in Runs
                  /\ \A i \in DOMAIN stack[th] :
                        i \in E /\ IsRun(stack[th][i]) => stack[th][i].job # j
               \/ \E i \in DOMAIN stack'[th] :
                     i \in S /\ IsRun(stack'[th][i]) /\ stack'[th][i].job = j
         /\ \A sh, uh \in Thread : \A i \in DOMAIN stack'[sh] : \A k \in DOMAIN stack'[uh] :
               Clash(stack'[sh][i], stack'[uh][k]) => sh = uh /\ i = k
         /\ \A sh \in Thread : \A i \in DOMAIN stack'[sh] :
               IsBody(stack'[sh][i]) /\ ~ (sh = th /\ i \in S) =>
                 /\ i \in DOMAIN stack[sh] /\ IsBody(stack[sh][i])
                 /\ stack[sh][i].job = stack'[sh][i].job
                 /\ stack'[sh][i].sent >= stack[sh][i].sent
                 /\ stack[sh][i].sent \in Nat /\ stack'[sh][i].sent \in Nat
         /\ \A j : ThrownBody(j) =>
               \/ ThrownBody(j)'
               \/ \E i \in DOMAIN stack[th] :
                     i \in E /\ IsBody(stack[th][i]) /\ stack[th][i].job = j
  <1>1. ASSUME NEW j \in Bodies
        PROVE  j \in Bodies' \/ \E i \in DOMAIN stack[th] :
                  i \in E /\ IsBody(stack[th][i]) /\ stack[th][i].job = j
    <2>1. PICK sh \in Thread : \E i \in DOMAIN stack[sh] :
                                   IsBody(stack[sh][i]) /\ stack[sh][i].job = j
      BY DEF Bodies
    <2>2. PICK i \in DOMAIN stack[sh] : IsBody(stack[sh][i]) /\ stack[sh][i].job = j
      BY <2>1
    <2>3. CASE ~ (sh = th /\ i \in E)
      <3>1. i \in DOMAIN stack'[sh] /\ IsBody(stack'[sh][i]) /\ stack'[sh][i].job = j
        BY <2>2, <2>3, Zenon DEF Moves, Matters, Alike
      <3> QED  BY <3>1 DEF Bodies, IsBody
    <2> QED  BY <2>2, <2>3
  <1>2. ASSUME NEW j \in Runs
        PROVE  j \in Runs' \/ \E i \in DOMAIN stack[th] :
                  i \in E /\ IsRun(stack[th][i]) /\ stack[th][i].job = j
    <2>1. PICK sh \in Thread : \E i \in DOMAIN stack[sh] :
                                   IsRun(stack[sh][i]) /\ stack[sh][i].job = j
      BY DEF Runs
    <2>2. PICK i \in DOMAIN stack[sh] : IsRun(stack[sh][i]) /\ stack[sh][i].job = j
      BY <2>1
    <2>3. CASE ~ (sh = th /\ i \in E)
      <3>1. i \in DOMAIN stack'[sh] /\ IsRun(stack'[sh][i]) /\ stack'[sh][i].job = j
        BY <2>2, <2>3, Zenon DEF Moves, Matters, Alike
      <3> QED  BY <3>1 DEF Runs, IsRun
    <2> QED  BY <2>2, <2>3
  <1>3. ASSUME NEW j \in Bodies'
        PROVE  \/ /\ j \in Bodies
                  /\ \A i \in DOMAIN stack[th] :
                        i \in E /\ IsBody(stack[th][i]) => stack[th][i].job # j
               \/ \E i \in DOMAIN stack'[th] :
                     i \in S /\ IsBody(stack'[th][i]) /\ stack'[th][i].job = j
    <2>1. PICK sh \in Thread : \E i \in DOMAIN stack'[sh] :
                                   IsBody(stack'[sh][i]) /\ stack'[sh][i].job = j
      BY DEF Bodies, IsBody
    <2>2. PICK i \in DOMAIN stack'[sh] : IsBody(stack'[sh][i]) /\ stack'[sh][i].job = j
      BY <2>1
    <2>3. CASE ~ (sh = th /\ i \in S)
      <3>1. /\ i \in DOMAIN stack[sh] /\ IsBody(stack[sh][i]) /\ stack[sh][i].job = j
            /\ ~ (sh = th /\ i \in E)
        BY <2>2, <2>3, Zenon DEF Moves, Matters, Alike
      <3>2. j \in Bodies
        BY <3>1 DEF Bodies
      <3>3. ASSUME NEW k \in DOMAIN stack[th], k \in E, IsBody(stack[th][k]), stack[th][k].job = j
            PROVE  FALSE
        <4>1. Clash(stack[sh][i], stack[th][k])  BY <3>1, <3>3, Zenon DEF Clash
        <4>2. sh = th /\ i = k  BY <3>1, <4>1 DEF OnceInv
        <4> QED  BY <3>1, <3>3, <4>2
      <3> QED  BY <3>2, <3>3
    <2> QED  BY <2>2, <2>3
  <1>4. ASSUME NEW j \in Runs'
        PROVE  \/ /\ j \in Runs
                  /\ \A i \in DOMAIN stack[th] :
                        i \in E /\ IsRun(stack[th][i]) => stack[th][i].job # j
               \/ \E i \in DOMAIN stack'[th] :
                     i \in S /\ IsRun(stack'[th][i]) /\ stack'[th][i].job = j
    <2>1. PICK sh \in Thread : \E i \in DOMAIN stack'[sh] :
                                   IsRun(stack'[sh][i]) /\ stack'[sh][i].job = j
      BY DEF Runs, IsRun
    <2>2. PICK i \in DOMAIN stack'[sh] : IsRun(stack'[sh][i]) /\ stack'[sh][i].job = j
      BY <2>1
    <2>3. CASE ~ (sh = th /\ i \in S)
      <3>1. /\ i \in DOMAIN stack[sh] /\ IsRun(stack[sh][i]) /\ stack[sh][i].job = j
            /\ ~ (sh = th /\ i \in E)
        BY <2>2, <2>3, Zenon DEF Moves, Matters, Alike
      <3>2. j \in Runs
        BY <3>1 DEF Runs
      <3>3. ASSUME NEW k \in DOMAIN stack[th], k \in E, IsRun(stack[th][k]), stack[th][k].job = j
            PROVE  FALSE
        <4>1. Clash(stack[sh][i], stack[th][k])  BY <3>1, <3>3, Zenon DEF Clash
        <4>2. sh = th /\ i = k  BY <3>1, <4>1 DEF OnceInv
        <4> QED  BY <3>1, <3>3, <4>2
      <3> QED  BY <3>2, <3>3
    <2> QED  BY <2>2, <2>3
  <1>5. ASSUME NEW sh \in Thread, NEW i \in DOMAIN stack'[sh], ~ (sh = th /\ i \in S),
               NEW k \in DOMAIN stack'[th], k \in S, Clash(stack'[sh][i], stack'[th][k])
        PROVE  FALSE
    <2>1. i \in DOMAIN stack[sh] /\ Alike(stack[sh][i], stack'[sh][i])
      BY <1>5, Zenon DEF Moves, Matters, Clash
    <2>2. CASE IsBody(stack'[th][k])
      <3>1. IsBody(stack[sh][i]) /\ stack[sh][i].job = stack'[th][k].job
        BY <1>5, <2>1, <2>2, Zenon DEF Alike, Clash, IsBody, IsRun
      <3>2. stack[sh][i].job \in Bodies
        BY <2>1, <3>1 DEF Bodies, StackInv, FrameInv
      <3> QED  BY <1>5, <2>2, <3>1, <3>2 DEF NewFrames
    <2>3. CASE IsRun(stack'[th][k])
      <3>1. IsRun(stack[sh][i]) /\ stack[sh][i].job = stack'[th][k].job
        BY <1>5, <2>1, <2>3 DEF Alike, Clash, IsBody, IsRun
      <3>2. stack[sh][i].job \in Runs
        BY <2>1, <3>1 DEF Runs, StackInv, FrameInv
      <3> QED  BY <1>5, <2>3, <3>1, <3>2 DEF NewFrames
    <2> QED  BY <1>5, <2>2, <2>3 DEF Clash
  <1>6. ASSUME NEW sh \in Thread, NEW uh \in Thread,
               NEW i \in DOMAIN stack'[sh], NEW k \in DOMAIN stack'[uh],
               Clash(stack'[sh][i], stack'[uh][k])
        PROVE  sh = uh /\ i = k
    <2>0. Clash(stack'[uh][k], stack'[sh][i])  BY <1>6, Zenon DEF Clash
    <2>1. CASE ~ (sh = th /\ i \in S) /\ ~ (uh = th /\ k \in S)
      <3>1. i \in DOMAIN stack[sh] /\ Alike(stack[sh][i], stack'[sh][i])
        BY <1>6, <2>1, Zenon DEF Moves, Matters, Clash
      <3>2. k \in DOMAIN stack[uh] /\ Alike(stack[uh][k], stack'[uh][k])
        BY <1>6, <2>1, Zenon DEF Moves, Matters, Clash
      <3>3. Clash(stack[sh][i], stack[uh][k])
        BY <1>6, <3>1, <3>2, Zenon DEF Alike, Clash
      <3> QED  BY <3>1, <3>2, <3>3 DEF OnceInv
    <2>2. CASE ~ (sh = th /\ i \in S) /\ uh = th /\ k \in S
      BY <1>5, <1>6, <2>2
    <2>3. CASE sh = th /\ i \in S /\ ~ (uh = th /\ k \in S)
      BY <1>5, <2>0, <2>3
    <2>4. CASE sh = th /\ i \in S /\ uh = th /\ k \in S
      BY <1>6, <2>4 DEF NewFrames
    <2> QED  BY <2>1, <2>2, <2>3, <2>4
  <1>7. ASSUME NEW sh \in Thread, NEW i \in DOMAIN stack'[sh], IsBody(stack'[sh][i]),
               ~ (sh = th /\ i \in S)
        PROVE  /\ i \in DOMAIN stack[sh] /\ IsBody(stack[sh][i])
               /\ stack[sh][i].job = stack'[sh][i].job
               /\ stack'[sh][i].sent >= stack[sh][i].sent
               /\ stack[sh][i].sent \in Nat /\ stack'[sh][i].sent \in Nat
    <2>1. i \in DOMAIN stack[sh] /\ Alike(stack[sh][i], stack'[sh][i])
      BY <1>7, Zenon DEF Moves, Matters
    <2>2. stack[sh][i] \in Frames /\ stack'[sh][i] \in Frames
      BY <2>1 DEF TypeInv
    <2> QED  BY <1>7, <2>1, <2>2 DEF Alike, Frames
  <1>8. ASSUME NEW j, ThrownBody(j)
        PROVE  \/ ThrownBody(j)'
               \/ \E i \in DOMAIN stack[th] :
                     i \in E /\ IsBody(stack[th][i]) /\ stack[th][i].job = j
    <2>1. PICK sh \in Thread : \E i \in DOMAIN stack[sh] :
              IsBody(stack[sh][i]) /\ stack[sh][i].job = j /\ stack[sh][i].thrown
      BY <1>8 DEF ThrownBody
    <2>2. PICK i \in DOMAIN stack[sh] :
              IsBody(stack[sh][i]) /\ stack[sh][i].job = j /\ stack[sh][i].thrown
      BY <2>1
    <2>3. CASE ~ (sh = th /\ i \in E)
      <3>1. i \in DOMAIN stack'[sh] /\ Alike(stack[sh][i], stack'[sh][i])
        BY <2>2, <2>3, Zenon DEF Moves, Matters
      <3>2. IsBody(stack'[sh][i]) /\ stack'[sh][i].job = j /\ stack'[sh][i].thrown
        BY <2>2, <3>1, Zenon DEF Alike
      <3> QED  BY <3>1, <3>2 DEF ThrownBody, IsBody
    <2> QED  BY <2>2, <2>3
  <1> QED  BY <1>1, <1>2, <1>3, <1>4, <1>6, <1>7, <1>8

\* Steps that start and end nothing.
Quiet(th) ==
    /\ Moves(th, {}, {})
    /\ \A c \in Client : stack'[c] = << >> => stack[c] = << >>

\* The case in which nothing starts or ends.
LEMMA QuietSets ==
  ASSUME TypeInv, StackInv, OnceInv, TypeInv', NEW th \in Thread, Quiet(th)
  PROVE  /\ Bodies' = Bodies /\ Runs' = Runs
         /\ \A sh, uh \in Thread : \A i \in DOMAIN stack'[sh] : \A k \in DOMAIN stack'[uh] :
               Clash(stack'[sh][i], stack'[uh][k]) => sh = uh /\ i = k
         /\ \A sh \in Thread : \A i \in DOMAIN stack'[sh] : IsBody(stack'[sh][i]) =>
               /\ i \in DOMAIN stack[sh] /\ IsBody(stack[sh][i])
               /\ stack[sh][i].job = stack'[sh][i].job
               /\ stack'[sh][i].sent >= stack[sh][i].sent
               /\ stack[sh][i].sent \in Nat /\ stack'[sh][i].sent \in Nat
         /\ \A j : ThrownBody(j) => ThrownBody(j)'
  <1>1. Moves(th, {}, {}) /\ NewFrames(th, {})  BY DEF Quiet, NewFrames
  <1>2. (\A j \in Bodies : j \in Bodies') /\ (\A j \in Bodies' : j \in Bodies)
    BY <1>1, MoveSets
  <1>3. (\A j \in Runs : j \in Runs') /\ (\A j \in Runs' : j \in Runs)
    BY <1>1, MoveSets
  <1>4. \A j : ThrownBody(j) => ThrownBody(j)'
    BY <1>1, MoveSets
  <1>5. \A sh, uh \in Thread : \A i \in DOMAIN stack'[sh] : \A k \in DOMAIN stack'[uh] :
            Clash(stack'[sh][i], stack'[uh][k]) => sh = uh /\ i = k
    BY <1>1, MoveSets
  <1>6. \A sh \in Thread : \A i \in DOMAIN stack'[sh] : IsBody(stack'[sh][i]) =>
            /\ i \in DOMAIN stack[sh] /\ IsBody(stack[sh][i])
            /\ stack[sh][i].job = stack'[sh][i].job
            /\ stack'[sh][i].sent >= stack[sh][i].sent
            /\ stack[sh][i].sent \in Nat /\ stack'[sh][i].sent \in Nat
    BY <1>1, MoveSets
  <1> QED  BY <1>2, <1>3, <1>4, <1>5, <1>6

\* A step that only marks frames keeps the invariant.
LEMMA QuietKeepsInv ==
  ASSUME PoolInv, NEW th \in Thread, Quiet(th), TypeInv', StackInv',
         UNCHANGED <<queue, num, error, result, position>>
  PROVE  PoolInv'
  <1> USE DEF PoolInv
  <1>1. Bodies' = Bodies /\ Runs' = Runs  BY QuietSets
  <1>2. Queued' = Queued  BY DEF Queued
  <1>3. \A j : Fresh(j)' <=> Fresh(j)  BY <1>1, <1>2 DEF Fresh
  <1>4. \A j : Waited(j)' = Waited(j)  BY <1>1, <1>2 DEF Waited, Kids
  <1>5. OnceInv'
    <2>1. \A sh, uh \in Thread : \A i \in DOMAIN stack'[sh] : \A k \in DOMAIN stack'[uh] :
              Clash(stack'[sh][i], stack'[uh][k]) => sh = uh /\ i = k
      BY QuietSets
    <2> QED  BY <1>1, <1>2, <2>1 DEF OnceInv, IsBody, IsRun, Clash, Kids
  <1>6. FreshInv'
    <2>1. ASSUME NEW sh \in Thread, NEW i \in DOMAIN stack'[sh], IsBody(stack'[sh][i]),
                 NEW n \in 1 .. Len(Children[stack'[sh][i].job]), n > stack'[sh][i].sent
          PROVE  Fresh(Children[stack'[sh][i].job][n])
      <3>1. /\ i \in DOMAIN stack[sh] /\ IsBody(stack[sh][i])
            /\ stack[sh][i].job = stack'[sh][i].job /\ stack'[sh][i].sent >= stack[sh][i].sent
            /\ stack[sh][i].sent \in Nat /\ stack'[sh][i].sent \in Nat
        BY <2>1, QuietSets
      <3>2. n > stack[sh][i].sent  BY <2>1, <3>1
      <3> QED  BY <2>1, <3>1, <3>2 DEF FreshInv
    <2>2. \A j \in Job : result'[j] = "none" /\ j \notin Bodies' => \A k \in Kids(j) : Fresh(k)
      BY <1>1 DEF FreshInv
    <2>3. \A c \in Client : \A n \in 1 .. Len(Program[c]) :
              /\ n > position'[c]
              /\ stack'[c] = << >> \/ n > position'[c] + 1
              => Fresh(Program[c][n])
      BY DEF FreshInv, Quiet
    <2> QED  BY <1>3, <2>1, <2>2, <2>3 DEF FreshInv, IsBody, Kids
  <1>7. CountInv'  BY <1>4 DEF CountInv
  <1>8. OverInv'  BY <1>1, <1>4 DEF OverInv, Kids
  <1>9. ErrorInv'
    <2>1. \A j : ThrownBody(j) => ThrownBody(j)'  BY QuietSets
    <2> QED  BY <2>1 DEF ErrorInv, Kids
  <1> QED  BY <1>5, <1>6, <1>7, <1>8, <1>9

\* An exception leaves the body where it is.
LEMMA ThrowKeepsInv ==
  ASSUME PoolInv, NEW th \in Thread, throw(th)
  PROVE  PoolInv'
  <1> DEFINE n == Len(stack[th])
             f == stack[th][n]
             g == [f EXCEPT !.thrown = TRUE]
  <1> USE DEF PoolInv
  <1>1. /\ n \in Nat /\ n > 0 /\ DOMAIN stack[th] = 1 .. n /\ f \in Frames
        /\ f.at = "submit" /\ Become(th, g)
    BY TypeOfTop DEF throw, Running
  <1>2. /\ g \in Frames /\ g.at = f.at /\ g.job = f.job /\ g.sent = f.sent /\ g.thrown
    BY <1>1 DEF Frames
  <1>3. UNCHANGED <<queue, num, error, result, position>>  BY DEF throw
  <1>4. stack[th] # << >>  BY DEF throw, Running
  <1> HIDE DEF g, f
  <1>5. /\ stack' \in [Thread -> Seq(Frames)] /\ Len(stack'[th]) = n
        /\ \A i \in 1 .. (n - 1) : stack'[th][i] = stack[th][i]
        /\ stack'[th][n] = g
        /\ \A sh \in Thread \ {th} : stack'[sh] = stack[sh]
    BY <1>1, <1>2, <1>4, BecomeFacts
  <1>6. TypeInv'  BY <1>3, <1>5 DEF TypeInv
  <1>7. DOMAIN stack'[th] = 1 .. n  BY <1>5
  <1> HIDE DEF n
  <1>8. StackInv'
    <2> SUFFICES ASSUME NEW sh \in Thread, NEW i \in DOMAIN stack'[sh]
                 PROVE  FrameInv(sh, i)'
      BY DEF StackInv
    <2> USE <1>3 DEF StackInv, FrameInv, IsBody, IsRun, IsWait, OnTop
    <2>1. CASE sh # th
      BY <1>5, <2>1
    <2>2. CASE sh = th
      <3>1. i \in 1 .. n  BY <1>7, <2>2
      <3>2. i > 1 => stack'[th][i - 1] = stack[th][i - 1]  BY <1>1, <1>5, <3>1
      <3>3. CASE i # n
        BY <1>1, <1>5, <2>2, <3>1, <3>2, <3>3 DEF n
      <3>4. CASE i = n
        <4>1. FrameInv(th, n)  BY <1>1
        <4>2. stack'[th][i] = g /\ f = stack[th][n]  BY <1>5, <3>4 DEF f, n
        <4>3. /\ g.job \in Job /\ g.sent <= Len(Children[g.job])
              /\ n > 1 => OnTop(g, stack[th][n - 1])
              /\ n = 1 => /\ th \in Client /\ position[th] < Len(Program[th])
                          /\ g.job = Program[th][position[th] + 1]
          BY <1>1, <1>2, <4>1, <4>2
        <4> QED  BY <1>1, <1>2, <2>2, <3>2, <3>4, <4>2, <4>3
      <3> QED  BY <3>3, <3>4
    <2> QED  BY <2>1, <2>2
  <1>9. Quiet(th)
    <2>1. ASSUME NEW sh \in Thread
          PROVE  /\ DOMAIN stack'[sh] = DOMAIN stack[sh]
                 /\ \A i \in DOMAIN stack[sh] : Alike(stack[sh][i], stack'[sh][i])
      <3>1. CASE sh # th
        BY <1>5, <3>1 DEF Alike
      <3>2. CASE sh = th
        <4>1. Alike(f, g)  BY <1>1, <1>2 DEF Alike, IsBody, IsRun
        <4>2. \A i \in DOMAIN stack[th] :
                  stack'[th][i] = stack[th][i] \/ (stack[th][i] = f /\ stack'[th][i] = g)
          BY <1>1, <1>5 DEF f, n
        <4>3. \A i \in DOMAIN stack[th] : Alike(stack[th][i], stack'[th][i])
          BY <4>1, <4>2 DEF Alike
        <4> QED  BY <1>1, <1>7, <3>2, <4>3
      <3> QED  BY <3>1, <3>2
    <2>2. \A c \in Client : stack'[c] = << >> => stack[c] = << >>
      BY <1>1, <1>5, <1>7, <1>4 DEF Thread, n
    <2> QED  BY <2>1, <2>2 DEF Quiet, Moves
  <1> QED  BY <1>3, <1>6, <1>8, <1>9, QuietKeepsInv

\* wait puts a run on top of the body, in the destructor as well.
LEMMA WaitKeepsInv ==
  ASSUME PoolInv, NEW th \in Thread, NEW p \in {"wait", "leave"},
         Running(th, "submit") \/ Running(th, "wait"), serve(th, p)
  PROVE  PoolInv'
  <1> DEFINE n == Len(stack[th])
             f == stack[th][n]
             g == [f EXCEPT !.at = p]
             h == Frame("take", NoJob)
  <1> USE DEF PoolInv
  <1>1. /\ n \in Nat /\ n > 0 /\ DOMAIN stack[th] = 1 .. n /\ f \in Frames
        /\ f.at \in {"submit", "wait"} /\ Push(th, g, h)
    BY TypeOfTop DEF serve, Running
  <1>2. /\ g \in Frames /\ g.at \in {"wait", "leave"} /\ g.job = f.job /\ g.sent = f.sent
        /\ g.thrown = f.thrown
        /\ h \in Frames /\ h.at = "take"
    BY <1>1 DEF Frames, Places, Frame
  <1>3. UNCHANGED <<queue, num, error, result, position>>  BY DEF serve
  <1>4. stack[th] # << >>  BY DEF Running
  <1> HIDE DEF g, f, h
  <1>5. /\ stack' \in [Thread -> Seq(Frames)] /\ Len(stack'[th]) = n + 1
        /\ \A i \in 1 .. (n - 1) : stack'[th][i] = stack[th][i]
        /\ stack'[th][n] = g /\ stack'[th][n + 1] = h
        /\ \A sh \in Thread \ {th} : stack'[sh] = stack[sh]
    BY <1>1, <1>2, <1>4, PushFacts
  <1>6. TypeInv'  BY <1>3, <1>5 DEF TypeInv
  <1>7. DOMAIN stack'[th] = 1 .. (n + 1)  BY <1>5
  <1> HIDE DEF n
  <1>8. StackInv'
    <2> SUFFICES ASSUME NEW sh \in Thread, NEW i \in DOMAIN stack'[sh]
                 PROVE  FrameInv(sh, i)'
      BY DEF StackInv
    <2> USE <1>3 DEF StackInv, FrameInv, IsBody, IsRun, IsWait, OnTop
    <2>1. CASE sh # th
      BY <1>5, <2>1
    <2>2. CASE sh = th
      <3>1. i \in 1 .. (n + 1)  BY <1>7, <2>2
      <3>2. i > 1 /\ i <= n => stack'[th][i - 1] = stack[th][i - 1]  BY <1>1, <1>5, <3>1
      <3>3. CASE i < n
        <4>1. FrameInv(th, i)  BY <1>1, <3>1, <3>3
        <4>2. stack'[th][i] = stack[th][i] /\ i < Len(stack[th]) /\ i < Len(stack'[th])
          BY <1>1, <1>5, <3>1, <3>3 DEF n
        <4> QED  BY <1>1, <2>2, <3>1, <3>2, <3>3, <4>1, <4>2
      <3>4. CASE i = n
        <4>1. FrameInv(th, n)  BY <1>1
        <4>2. stack'[th][i] = g /\ f = stack[th][n]  BY <1>5, <3>4 DEF f, n
        <4>3. /\ g.job \in Job /\ g.sent <= Len(Children[g.job])
              /\ n > 1 => OnTop(g, stack[th][n - 1])
              /\ n = 1 => /\ th \in Client /\ position[th] < Len(Program[th])
                          /\ g.job = Program[th][position[th] + 1]
          BY <1>1, <1>2, <4>1, <4>2
        <4> QED  BY <1>1, <1>2, <2>2, <3>2, <3>4, <4>2, <4>3
      <3>5. CASE i = n + 1
        <4>1. /\ stack'[th][i] = h /\ i - 1 = n /\ i > 1
              /\ stack'[th][i - 1] = g
          BY <1>1, <1>5, <3>5
        <4> QED  BY <1>2, <1>5, <2>2, <4>1
      <3> QED  BY <1>1, <3>1, <3>3, <3>4, <3>5
    <2> QED  BY <2>1, <2>2
  <1>9. Quiet(th)
    <2>1. ASSUME NEW sh \in Thread
          PROVE  /\ DOMAIN stack[sh] \subseteq DOMAIN stack'[sh]
                 /\ \A i \in DOMAIN stack[sh] : Alike(stack[sh][i], stack'[sh][i])
                 /\ \A i \in DOMAIN stack'[sh] :
                       Matters(stack'[sh][i]) => i \in DOMAIN stack[sh]
      <3>1. CASE sh # th
        BY <1>5, <3>1 DEF Alike
      <3>2. CASE sh = th
        <4>1. ~ Matters(h)  BY <1>2 DEF Matters, IsBody, IsRun
        <4>2. \A i \in DOMAIN stack'[th] : i \in DOMAIN stack[th] \/ stack'[th][i] = h
          BY <1>1, <1>5, <1>7
        <4>3. \A i \in DOMAIN stack[th] : Alike(stack[th][i], stack'[th][i])
          BY <1>1, <1>2, <1>5, <1>7 DEF Alike, IsBody, IsRun, n, f
        <4> QED  BY <1>1, <1>7, <3>2, <4>1, <4>2, <4>3
      <3> QED  BY <3>1, <3>2
    <2>2. \A c \in Client : stack'[c] = << >> => stack[c] = << >>
      BY <1>1, <1>5, <1>7, <1>4 DEF Thread, n
    <2> QED  BY <2>1, <2>2 DEF Quiet, Moves
  <1> QED  BY <1>3, <1>6, <1>8, <1>9, QuietKeepsInv

\* run returns to wait.
LEMMA FlushedKeepsInv ==
  ASSUME PoolInv, NEW th \in Thread, flushed(th)
  PROVE  PoolInv'
  <1> DEFINE n == Len(stack[th])
             f == stack[th][n]
  <1> USE DEF PoolInv
  <1>1. /\ n \in Nat /\ n > 0 /\ DOMAIN stack[th] = 1 .. n /\ f \in Frames
        /\ f.at = "take" /\ stack' = [stack EXCEPT ![th] = Front(@)]
    BY TypeOfTop DEF flushed, Running
  <1>3. UNCHANGED <<queue, num, error, result, position>>  BY DEF flushed
  <1>4. stack[th] # << >>  BY DEF flushed, Running
  <1>2. th \in Client => n > 1
    BY <1>1, Tree DEF StackInv, FrameInv, IsBody
  <1> HIDE DEF f
  <1>5. /\ stack' \in [Thread -> Seq(Frames)] /\ Len(stack'[th]) = n - 1
        /\ \A i \in 1 .. (n - 1) : stack'[th][i] = stack[th][i]
        /\ \A sh \in Thread \ {th} : stack'[sh] = stack[sh]
    BY <1>1, <1>4, PopFacts
  <1>6. TypeInv'  BY <1>3, <1>5 DEF TypeInv
  <1>7. DOMAIN stack'[th] = 1 .. (n - 1)  BY <1>5
  <1> HIDE DEF n
  <1>8. StackInv'
    <2> SUFFICES ASSUME NEW sh \in Thread, NEW i \in DOMAIN stack'[sh]
                 PROVE  FrameInv(sh, i)'
      BY DEF StackInv
    <2> USE <1>3 DEF StackInv, FrameInv, IsBody, IsRun, IsWait, OnTop
    <2>1. CASE sh # th
      BY <1>5, <2>1
    <2>2. CASE sh = th
      <3>1. i \in 1 .. (n - 1)  BY <1>7, <2>2
      <3>2. i > 1 => stack'[th][i - 1] = stack[th][i - 1]  BY <1>1, <1>5, <3>1
      <3>3. i = n - 1 => IsWait(stack[th][i])
        <4>1. FrameInv(th, n)  BY <1>1
        <4>2. n > 1 => OnTop(f, stack[th][n - 1])  BY <4>1 DEF f
        <4> QED  BY <1>1, <3>1, <4>2
      <3> QED  BY <1>1, <1>5, <2>2, <3>1, <3>2, <3>3 DEF n
    <2> QED  BY <2>1, <2>2
  <1>9. Quiet(th)
    <2>1. ASSUME NEW sh \in Thread
          PROVE  /\ DOMAIN stack'[sh] \subseteq DOMAIN stack[sh]
                 /\ \A i \in DOMAIN stack'[sh] : Alike(stack[sh][i], stack'[sh][i])
                 /\ \A i \in DOMAIN stack[sh] :
                       Matters(stack[sh][i]) => i \in DOMAIN stack'[sh]
      <3>1. CASE sh # th
        BY <1>5, <3>1 DEF Alike
      <3>2. CASE sh = th
        <4>1. ~ Matters(f)  BY <1>1 DEF Matters, IsBody, IsRun
        <4>2. \A i \in DOMAIN stack[th] : i \in DOMAIN stack'[th] \/ stack[th][i] = f
          BY <1>1, <1>5, <1>7 DEF f, n
        <4>3. \A i \in DOMAIN stack'[th] : Alike(stack[th][i], stack'[th][i])
          BY <1>1, <1>5, <1>7 DEF Alike, IsBody, IsRun
        <4> QED  BY <1>1, <1>7, <3>2, <4>1, <4>2, <4>3
      <3> QED  BY <3>1, <3>2
    <2>2. \A c \in Client : stack'[c] = << >> => stack[c] = << >>
      <3>1. th \in Client => stack'[th] # << >>
        BY <1>1, <1>2, <1>5
      <3> QED  BY <1>5, <3>1 DEF Thread
    <2> QED  BY <2>1, <2>2 DEF Quiet, Moves
  <1> QED  BY <1>3, <1>6, <1>8, <1>9, QuietKeepsInv

\* run goes on to the next job.
LEMMA ServedKeepsInv ==
  ASSUME PoolInv, NEW th \in Thread, served(th)
  PROVE  PoolInv'
  <1> DEFINE n == Len(stack[th])
             f == stack[th][n]
             g == Frame("take", NoJob)
  <1> USE DEF PoolInv
  <1>1. /\ n \in Nat /\ n > 0 /\ DOMAIN stack[th] = 1 .. n /\ f \in Frames
        /\ f.at = "post" /\ Become(th, g)
    BY TypeOfTop DEF served, Running
  <1>2. /\ g \in Frames /\ g.at = "take"
    BY <1>1 DEF Frames, Frame, Places
  <1>3. UNCHANGED <<queue, num, error, result, position>>  BY DEF served
  <1>4. stack[th] # << >>  BY DEF served, Running
  <1> HIDE DEF g, f
  <1>5. /\ stack' \in [Thread -> Seq(Frames)] /\ Len(stack'[th]) = n
        /\ \A i \in 1 .. (n - 1) : stack'[th][i] = stack[th][i]
        /\ stack'[th][n] = g
        /\ \A sh \in Thread \ {th} : stack'[sh] = stack[sh]
    BY <1>1, <1>2, <1>4, BecomeFacts
  <1>6. TypeInv'  BY <1>3, <1>5 DEF TypeInv
  <1>7. DOMAIN stack'[th] = 1 .. n  BY <1>5
  <1> HIDE DEF n
  <1>8. StackInv'
    <2> SUFFICES ASSUME NEW sh \in Thread, NEW i \in DOMAIN stack'[sh]
                 PROVE  FrameInv(sh, i)'
      BY DEF StackInv
    <2> USE <1>3 DEF StackInv, FrameInv, IsBody, IsRun, IsWait, OnTop
    <2>1. CASE sh # th
      BY <1>5, <2>1
    <2>2. CASE sh = th
      <3>1. i \in 1 .. n  BY <1>7, <2>2
      <3>2. i > 1 => stack'[th][i - 1] = stack[th][i - 1]  BY <1>1, <1>5, <3>1
      <3>3. CASE i # n
        BY <1>1, <1>5, <2>2, <3>1, <3>2, <3>3 DEF n
      <3>4. CASE i = n
        BY <1>1, <1>2, <1>5, <2>2, <3>1, <3>2, <3>4 DEF n, f
      <3> QED  BY <3>3, <3>4
    <2> QED  BY <2>1, <2>2
  <1>9. Quiet(th)
    <2>1. ASSUME NEW sh \in Thread
          PROVE  /\ DOMAIN stack'[sh] = DOMAIN stack[sh]
                 /\ \A i \in DOMAIN stack[sh] :
                       \/ Alike(stack[sh][i], stack'[sh][i])
                       \/ ~ Matters(stack[sh][i]) /\ ~ Matters(stack'[sh][i])
      <3>1. CASE sh # th
        BY <1>5, <3>1 DEF Alike
      <3>2. CASE sh = th
        <4>1. ~ Matters(f) /\ ~ Matters(g)  BY <1>1, <1>2 DEF Matters, IsBody, IsRun
        <4>2. \A i \in DOMAIN stack[th] :
                  stack'[th][i] = stack[th][i] \/ (stack'[th][i] = g /\ stack[th][i] = f)
          BY <1>1, <1>5, <1>7 DEF f, n
        <4> QED  BY <1>1, <1>7, <3>2, <4>1, <4>2 DEF Alike
      <3> QED  BY <3>1, <3>2
    <2>2. \A c \in Client : stack'[c] = << >> => stack[c] = << >>
      BY <1>1, <1>5, <1>7, <1>4 DEF Thread, n
    <2> QED  BY <2>1, <2>2 DEF Quiet, Moves
  <1> QED  BY <1>3, <1>6, <1>8, <1>9, QuietKeepsInv

\* active, sleeping and depth do not matter.
LEMMA StutterKeepsInv ==
  ASSUME PoolInv, UNCHANGED <<queue, stack, num, error, result, position>>
  PROVE  PoolInv'
  <1> USE DEF PoolInv
  <1>1. TypeInv'  BY DEF TypeInv
  <1>2. StackInv'  BY DEF StackInv, FrameInv, IsBody, IsRun, IsWait, OnTop
  <1>3. Bodies' = Bodies /\ Runs' = Runs /\ Queued' = Queued
    BY DEF Bodies, Runs, Queued, IsBody, IsRun
  <1>4. \A j : (Fresh(j)' <=> Fresh(j)) /\ Waited(j)' = Waited(j)
    BY <1>3 DEF Fresh, Waited, Kids
  <1>5. OnceInv'  BY <1>3 DEF OnceInv, Clash, IsBody, IsRun, Kids
  <1>6. FreshInv'  BY <1>3, <1>4 DEF FreshInv, IsBody, Kids
  <1>7. CountInv' /\ OverInv'  BY <1>3, <1>4 DEF CountInv, OverInv, Kids
  <1>8. ErrorInv'  BY DEF ErrorInv, ThrownBody, IsBody, Kids
  <1> QED  BY <1>1, <1>2, <1>5, <1>6, <1>7, <1>8

----------------------------------------------------------------------------
(* submit: the job it submits is fresh.                                    *)

\* The job that submit is called with is new.
LEMMA SubmitFacts ==
  ASSUME PoolInv, NEW th \in Thread, submit(th)
  PROVE  LET f == top(th)
             j == Children[f.job][f.sent + 1]
         IN  /\ stack[th] # << >> /\ Len(stack[th]) \in DOMAIN stack[th]
             /\ f = stack[th][Len(stack[th])] /\ f \in Frames
             /\ f.at = "submit" /\ ~ f.thrown /\ f.job \in Job
             /\ f.sent \in Nat /\ f.sent + 1 \in 1 .. Len(Children[f.job])
             /\ f.job \in Bodies /\ result[f.job] = "none"
             /\ j \in Job /\ j \in Kids(f.job) /\ Fresh(j)
  <1> USE DEF PoolInv
  <1> DEFINE f == top(th)
             n == Len(stack[th])
  <1>1. stack[th] # << >> /\ f.at = "submit" /\ ~ f.thrown /\ f.sent < Len(Children[f.job])
    BY DEF submit, Running
  <1>2. n \in DOMAIN stack[th] /\ f = stack[th][n] /\ f \in Frames
    BY <1>1, TypeOfTop
  <1>3. IsBody(stack[th][n])  BY <1>1, <1>2 DEF IsBody
  <1>4. f.job \in Job  BY <1>2, <1>3 DEF StackInv, FrameInv
  <1>5. f.job \in Bodies  BY <1>2, <1>3, <1>4 DEF Bodies
  <1>6. result[f.job] = "none"  BY <1>5 DEF OnceInv
  <1>7. f.sent \in Nat  BY <1>2 DEF Frames
  <1>8. Len(Children[f.job]) \in Nat  BY <1>4, Tree
  <1> HIDE DEF f, n
  <1>9. f.sent + 1 \in 1 .. Len(Children[f.job])  BY <1>1, <1>7, <1>8
  <1>10. Children[f.job][f.sent + 1] \in Kids(f.job)  BY <1>4, <1>9, Tree
  <1>11. Children[f.job][f.sent + 1] \in Job  BY <1>4, <1>10, Tree
  <1>12. Fresh(Children[f.job][f.sent + 1])
    <2>1. f.sent + 1 > f.sent  BY <1>7
    <2> QED  BY <1>2, <1>3, <1>9, <2>1 DEF FreshInv
  <1> QED  BY <1>1, <1>2, <1>4, <1>5, <1>6, <1>7, <1>9, <1>10, <1>11, <1>12 DEF f, n

\* A job is queued and counted in one step.
LEMMA EnqueueKeepsInv ==
  ASSUME PoolInv, NEW th \in Thread, submit(th),
         ~ runs_inline(th, Children[top(th).job][top(th).sent + 1])
  PROVE  PoolInv'
  <1> DEFINE n == Len(stack[th])
             f == top(th)
             p == f.job
             j == Children[p][f.sent + 1]
             g == [f EXCEPT !.sent = @ + 1]
  <1> USE DEF PoolInv
  <1>1. /\ stack[th] # << >> /\ n \in DOMAIN stack[th]
        /\ f = stack[th][n] /\ f \in Frames
        /\ f.at = "submit" /\ ~ f.thrown /\ p \in Job
        /\ f.sent \in Nat /\ f.sent + 1 \in 1 .. Len(Children[p])
        /\ p \in Bodies /\ result[p] = "none"
        /\ j \in Job /\ j \in Kids(p) /\ Fresh(j)
    BY SubmitFacts
  <1>2. /\ g \in Frames /\ g.at = "submit" /\ g.job = p /\ g.sent = f.sent + 1
        /\ g.thrown = f.thrown
    BY <1>1 DEF Frames
  <1>3. /\ num' = [num EXCEPT ![p] = @ + 1]
        /\ queue' = IF j \in Leaf THEN <<j>> \o queue ELSE Append(queue, j)
        /\ Become(th, g)
        /\ UNCHANGED <<error, result, position>>
    BY DEF submit, enqueue
  <1> HIDE DEF f, p, j, g
  <1>4. n \in Nat /\ n > 0 /\ DOMAIN stack[th] = 1 .. n
    BY <1>1, TypeOfTop
  <1>5. /\ stack' \in [Thread -> Seq(Frames)] /\ Len(stack'[th]) = n
        /\ \A i \in 1 .. (n - 1) : stack'[th][i] = stack[th][i]
        /\ stack'[th][n] = g
        /\ \A sh \in Thread \ {th} : stack'[sh] = stack[sh]
    BY <1>1, <1>2, <1>3, BecomeFacts
  <1>6. DOMAIN stack'[th] = 1 .. n  BY <1>5
  <1> HIDE DEF n
  <1>7. queue \in Seq(Job) /\ Len(queue) \in Nat /\ DOMAIN queue = 1 .. Len(queue)
    BY DEF TypeInv
  <1>8. /\ queue' \in Seq(Job)
        /\ Queued' = Queued \cup {j}
        /\ \A i, k \in DOMAIN queue' : queue'[i] = queue'[k] => i = k
    <2>1. j \notin Queued  BY <1>1 DEF Fresh
    <2>2. \A i, k \in DOMAIN queue : queue[i] = queue[k] => i = k
      BY DEF OnceInv
    <2>3. \A i \in DOMAIN queue : queue[i] # j /\ queue[i] \in Job
      BY <1>7, <2>1 DEF Queued
    <2>4. CASE j \in Leaf
      <3>1. queue' = <<j>> \o queue  BY <1>3, <2>4
      <3>2. /\ queue' \in Seq(Job) /\ Len(queue') = Len(queue) + 1
            /\ DOMAIN queue' = 1 .. (Len(queue) + 1)
            /\ queue'[1] = j
            /\ \A i \in 1 .. Len(queue) : queue'[i + 1] = queue[i]
        BY <1>1, <1>7, <3>1
      <3>3. \A i \in DOMAIN queue' : i # 1 => i - 1 \in DOMAIN queue /\ queue'[i] = queue[i - 1]
        BY <1>7, <3>2
      <3>4. Queued' = Queued \cup {j}
        <4>1. \A x \in Queued : x \in Queued'
          BY <1>7, <3>2 DEF Queued
        <4>2. j \in Queued'
          BY <1>7, <3>2 DEF Queued
        <4>3. \A x \in Queued' : x \in Queued \cup {j}
          BY <3>2, <3>3 DEF Queued
        <4> QED  BY <4>1, <4>2, <4>3
      <3>5. \A i, k \in DOMAIN queue' : queue'[i] = queue'[k] => i = k
        BY <1>7, <2>2, <2>3, <3>2, <3>3
      <3> QED  BY <3>2, <3>4, <3>5
    <2>5. CASE j \notin Leaf
      <3>1. queue' = Append(queue, j)  BY <1>3, <2>5
      <3>2. /\ queue' \in Seq(Job) /\ Len(queue') = Len(queue) + 1
            /\ DOMAIN queue' = 1 .. (Len(queue) + 1)
            /\ queue'[Len(queue) + 1] = j
            /\ \A i \in 1 .. Len(queue) : queue'[i] = queue[i]
        BY <1>1, <1>7, <3>1
      <3>4. Queued' = Queued \cup {j}
        <4>1. \A x \in Queued : x \in Queued'
          BY <1>7, <3>2 DEF Queued
        <4>2. j \in Queued'
          BY <1>7, <3>2 DEF Queued
        <4>3. \A x \in Queued' : x \in Queued \cup {j}
          BY <1>7, <3>2 DEF Queued
        <4> QED  BY <4>1, <4>2, <4>3
      <3>5. \A i, k \in DOMAIN queue' : queue'[i] = queue'[k] => i = k
        BY <1>7, <2>2, <2>3, <3>2
      <3> QED  BY <3>2, <3>4, <3>5
    <2> QED  BY <2>4, <2>5
  <1>9. TypeInv'  BY <1>1, <1>3, <1>5, <1>8 DEF TypeInv
  <1>10. StackInv'
    <2> SUFFICES ASSUME NEW sh \in Thread, NEW i \in DOMAIN stack'[sh]
                 PROVE  FrameInv(sh, i)'
      BY DEF StackInv
    <2>0. result' = result /\ position' = position  BY <1>3
    <2> USE <2>0 DEF StackInv, FrameInv, IsBody, IsRun, IsWait, OnTop
    <2>1. CASE sh # th
      BY <1>5, <2>1
    <2>2. CASE sh = th
      <3>1. i \in 1 .. n  BY <1>6, <2>2
      <3>2. i > 1 => stack'[th][i - 1] = stack[th][i - 1]  BY <1>4, <1>5, <3>1
      <3>3. CASE i # n
        BY <1>4, <1>5, <2>2, <3>1, <3>2, <3>3 DEF n
      <3>4. CASE i = n
        <4>1. FrameInv(th, n)  BY <1>1
        <4>2. /\ g.job \in Job /\ g.sent <= Len(Children[g.job])
              /\ n > 1 => OnTop(g, stack[th][n - 1])
              /\ n = 1 => /\ th \in Client /\ position[th] < Len(Program[th])
                          /\ g.job = Program[th][position[th] + 1]
          BY <1>1, <1>2, <1>4, <4>1 DEF p
        <4>3. stack'[th][i] = g /\ g.at = "submit"  BY <1>2, <1>5, <3>4
        <4> QED  BY <1>4, <2>2, <3>2, <3>4, <4>2, <4>3
      <3> QED  BY <3>3, <3>4
    <2> QED  BY <2>1, <2>2
  <1>11. Quiet(th)
    <2>1. ASSUME NEW sh \in Thread
          PROVE  /\ DOMAIN stack'[sh] = DOMAIN stack[sh]
                 /\ \A i \in DOMAIN stack[sh] : Alike(stack[sh][i], stack'[sh][i])
      <3>1. CASE sh # th
        BY <1>5, <3>1 DEF Alike
      <3>2. CASE sh = th
        <4>1. Alike(f, g)  BY <1>1, <1>2 DEF Alike, IsBody, IsRun, p
        <4>2. \A i \in DOMAIN stack[th] :
                  stack'[th][i] = stack[th][i] \/ (stack[th][i] = f /\ stack'[th][i] = g)
          BY <1>1, <1>4, <1>5
        <4> QED  BY <1>4, <1>6, <3>2, <4>1, <4>2 DEF Alike
      <3> QED  BY <3>1, <3>2
    <2>2. \A c \in Client : stack'[c] = << >> => stack[c] = << >>
      BY <1>1, <1>4, <1>5, <1>6 DEF Thread, n
    <2> QED  BY <2>1, <2>2 DEF Quiet, Moves
  <1>12. Bodies' = Bodies /\ Runs' = Runs  BY <1>9, <1>11, QuietSets
  <1>13. \A k : k # j /\ Fresh(k) => Fresh(k)'
    BY <1>3, <1>8, <1>12 DEF Fresh
  <1>14. \A q \in Job : q # p => j \notin Kids(q)  BY <1>1, Tree
  <1>15. OnceInv'
    <2>1. \A sh, uh \in Thread : \A i \in DOMAIN stack'[sh] : \A k \in DOMAIN stack'[uh] :
              Clash(stack'[sh][i], stack'[uh][k]) => sh = uh /\ i = k
      BY <1>9, <1>11, QuietSets
    <2>2. Queued' \cap (Bodies' \cup Runs') = {}
      BY <1>1, <1>8, <1>12 DEF OnceInv, Fresh
    <2>3. \A k \in Queued' \cup Bodies' : result'[k] = "none"
      BY <1>1, <1>3, <1>8, <1>12 DEF OnceInv, Fresh
    <2>4. \A k \in Queued' \cup Runs' : \E q \in Job : k \in Kids(q)
      BY <1>1, <1>8, <1>12 DEF OnceInv
    <2> QED  BY <1>8, <2>1, <2>2, <2>3, <2>4 DEF OnceInv, IsBody, IsRun, Clash, Kids
  <1>16. FreshInv'
    <2>1. ASSUME NEW sh \in Thread, NEW i \in DOMAIN stack'[sh], IsBody(stack'[sh][i]),
                 NEW m \in 1 .. Len(Children[stack'[sh][i].job]), m > stack'[sh][i].sent,
                 NEW kid, kid = Children[stack'[sh][i].job][m]
          PROVE  Fresh(kid)'
      <3> DEFINE q == stack'[sh][i].job
      <3>1. /\ i \in DOMAIN stack[sh] /\ IsBody(stack[sh][i])
            /\ stack[sh][i].job = q /\ stack'[sh][i].sent >= stack[sh][i].sent
            /\ stack[sh][i].sent \in Nat /\ stack'[sh][i].sent \in Nat
        BY <1>9, <1>11, <2>1, QuietSets
      <3>2. m > stack[sh][i].sent  BY <2>1, <3>1
      <3>3. Fresh(Children[q][m])  BY <2>1, <3>1, <3>2 DEF FreshInv
      <3>4. q \in Job  BY <3>1 DEF StackInv, FrameInv
      <3>5. Children[q][m] # j
        <4>1. CASE q # p
          BY <1>14, <3>4, <4>1, Tree
        <4>2. CASE q = p
          <5>1. Clash(stack[sh][i], stack[th][n])
            <6>1. IsBody(stack[th][n]) /\ stack[th][n].job = p
              BY <1>1 DEF IsBody, p
            <6>2. stack[sh][i].job = stack[th][n].job  BY <3>1, <4>2, <6>1
            <6>3. IsBody(stack[sh][i])  BY <3>1
            <6> QED  BY <6>1, <6>2, <6>3, Zenon DEF Clash
          <5>2. sh = th /\ i = n  BY <1>1, <3>1, <5>1 DEF OnceInv
          <5>3. m # f.sent + 1  BY <1>1, <1>2, <1>5, <2>1, <5>2
          <5> QED  BY <1>1, <4>2, <5>3, Tree DEF j
        <4> QED  BY <4>1, <4>2
      <3> QED  BY <1>13, <2>1, <3>3, <3>5
    <2>2. \A q \in Job : result'[q] = "none" /\ q \notin Bodies' => \A k \in Kids(q) : Fresh(k)'
      BY <1>1, <1>3, <1>12, <1>13, <1>14 DEF FreshInv
    <2>3. \A c \in Client : \A m \in 1 .. Len(Program[c]) :
              /\ m > position'[c]
              /\ stack'[c] = << >> \/ m > position'[c] + 1
              => Fresh(Program[c][m])'
      <3>1. \A c \in Client : \A m \in 1 .. Len(Program[c]) : Program[c][m] # j
        BY <1>1, Tree
      <3> QED  BY <1>3, <1>11, <1>13, <3>1 DEF FreshInv, Quiet
    <2> QED  BY <2>1, <2>2, <2>3 DEF FreshInv, IsBody, Kids
  <1>17. \A q \in Job : Waited(q)' = IF q = p THEN Waited(p) \cup {j} ELSE Waited(q)
    BY <1>1, <1>8, <1>12, <1>14 DEF Waited, Kids
  <1>18. CountInv'
    <2>1. IsFiniteSet(Waited(p))
      BY <1>1, KidsFinite, FS_Subset DEF Waited
    <2>2. j \notin Waited(p)  BY <1>1 DEF Waited, Fresh
    <2>3. Cardinality(Waited(p) \cup {j}) = Cardinality(Waited(p)) + 1
      BY <2>1, <2>2, FS_AddElement
    <2> QED  BY <1>1, <1>3, <1>17, <2>3 DEF CountInv, TypeInv
  <1>19. OverInv'
    BY <1>1, <1>3, <1>12, <1>17 DEF OverInv, Kids
  <1>20. ErrorInv'
    <2>1. \A q : ThrownBody(q) => ThrownBody(q)'  BY <1>9, <1>11, QuietSets
    <2> QED  BY <1>3, <2>1 DEF ErrorInv, Kids
  <1> QED  BY <1>9, <1>10, <1>15, <1>16, <1>18, <1>19, <1>20

----------------------------------------------------------------------------
(* A body begins: of a job run by the thread that submits it, of a client, *)
(* of a job taken from the queue.                                          *)

\* The frame at m is the new one of j, and j is no longer to be submitted.
Starts(th, m, j) ==
    /\ Moves(th, {m}, {}) /\ m \in DOMAIN stack'[th] /\ stack'[th][m] = Frame("submit", j)
    /\ \A sh \in Thread : \A i \in DOMAIN stack'[sh] :
          IsBody(stack'[sh][i]) /\ ~ (sh = th /\ i = m) =>
             \A n \in 1 .. Len(Children[stack'[sh][i].job]) :
                n > stack'[sh][i].sent => Children[stack'[sh][i].job][n] # j
    /\ \A c \in Client : \A n \in 1 .. Len(Program[c]) :
          n > position[c] /\ (stack'[c] = << >> \/ n > position[c] + 1)
             => Program[c][n] # j /\ (stack[c] = << >> \/ n > position[c] + 1)

\* A new body starts without being counted.
LEMMA StartKeepsInv ==
  ASSUME PoolInv, TypeInv', StackInv', NEW th \in Thread, NEW m, NEW j \in Job, Fresh(j),
         Starts(th, m, j),
         UNCHANGED <<queue, num, error, result, position>>,
         \A q \in Job : j \in Kids(q) => q \in Bodies
  PROVE  PoolInv'
  <1> USE DEF PoolInv, Starts
  <1> DEFINE S == {m}
             f == stack'[th][m]
  <1>1. f.at = "submit" /\ f.job = j /\ f.sent = 0 /\ IsBody(f) /\ ~ IsRun(f)
    BY DEF Frame, IsBody, IsRun
  <1>2. NewFrames(th, {m})
    <2>1. j \notin Bodies  BY DEF Fresh
    <2> QED  BY <1>1, <2>1 DEF NewFrames
  <1>3. Bodies' = Bodies \cup {j}
    <2>1. \A k \in Bodies : k \in Bodies'  BY <1>2, MoveSets
    <2>2. \A k \in Bodies' : k \in Bodies \/ k = j
      <3>1. \A k \in Bodies' :
                \/ k \in Bodies
                \/ \E i \in DOMAIN stack'[th] :
                      i \in {m} /\ IsBody(stack'[th][i]) /\ stack'[th][i].job = k
        BY <1>2, MoveSets
      <3> QED  BY <1>1, <3>1
    <2>3. j \in Bodies'
      BY <1>1 DEF Bodies, IsBody
    <2> QED  BY <2>1, <2>2, <2>3
  <1>4. Runs' = Runs
    <2>1. \A k \in Runs : k \in Runs'  BY <1>2, MoveSets
    <2>2. \A k \in Runs' :
              \/ k \in Runs
              \/ \E i \in DOMAIN stack'[th] :
                    i \in {m} /\ IsRun(stack'[th][i]) /\ stack'[th][i].job = k
      BY <1>2, MoveSets
    <2> QED  BY <1>1, <2>1, <2>2
  <1>5. Queued' = Queued  BY DEF Queued
  <1>6. \A k : k # j /\ Fresh(k) => Fresh(k)'  BY <1>3, <1>4, <1>5 DEF Fresh
  <1>7. \A q : Waited(q)' = Waited(q)  BY <1>4, <1>5 DEF Waited, Kids
  <1>8. OnceInv'
    <2>1. \A sh, uh \in Thread : \A i \in DOMAIN stack'[sh] : \A k \in DOMAIN stack'[uh] :
              Clash(stack'[sh][i], stack'[uh][k]) => sh = uh /\ i = k
      BY <1>2, MoveSets
    <2>2. Queued' \cap (Bodies' \cup Runs') = {} /\ \A k \in Queued' \cup Bodies' : result'[k] = "none"
      BY <1>3, <1>4, <1>5 DEF OnceInv, Fresh
    <2>3. \A k \in Queued' \cup Runs' : \E p \in Job : k \in Kids(p)
      BY <1>4, <1>5 DEF OnceInv
    <2> QED  BY <2>1, <2>2, <2>3 DEF OnceInv, IsBody, IsRun, Clash, Kids
  <1>9. FreshInv'
    <2>1. ASSUME NEW sh \in Thread, NEW i \in DOMAIN stack'[sh], IsBody(stack'[sh][i]),
                 NEW n \in 1 .. Len(Children[stack'[sh][i].job]), n > stack'[sh][i].sent,
                 NEW kid, kid = Children[stack'[sh][i].job][n]
          PROVE  Fresh(kid)'
      <3>1. CASE sh = th /\ i = m
        <4>1. kid = Children[j][n] /\ n \in 1 .. Len(Children[j])  BY <1>1, <2>1, <3>1
        <4>2. kid \in Kids(j)  BY <4>1, Tree
        <4>3. Fresh(kid)  BY <4>2 DEF FreshInv, Fresh
        <4>4. kid # j  BY <4>2 DEF Fresh
        <4> QED  BY <1>6, <4>3, <4>4
      <3>2. CASE ~ (sh = th /\ i = m)
        <4>1. ~ (sh = th /\ i \in {m})  BY <3>2
        <4>2. /\ i \in DOMAIN stack[sh] /\ IsBody(stack[sh][i])
              /\ stack[sh][i].job = stack'[sh][i].job
              /\ stack'[sh][i].sent >= stack[sh][i].sent
              /\ stack[sh][i].sent \in Nat /\ stack'[sh][i].sent \in Nat
          BY <1>2, <2>1, <4>1, MoveSets
        <4>3. n > stack[sh][i].sent  BY <2>1, <4>2
        <4>4. Fresh(kid)  BY <2>1, <4>2, <4>3 DEF FreshInv
        <4>5. kid # j  BY <2>1, <3>2
        <4> QED  BY <1>6, <4>4, <4>5
      <3> QED  BY <3>1, <3>2
    <2>2. \A q \in Job : result'[q] = "none" /\ q \notin Bodies' => \A k \in Kids(q) : Fresh(k)'
      <3> SUFFICES ASSUME NEW q \in Job, result'[q] = "none", q \notin Bodies', NEW k \in Kids(q)
                   PROVE  Fresh(k)'
        OBVIOUS
      <3>1. Fresh(k) /\ k # j  BY <1>3 DEF FreshInv
      <3> QED  BY <1>6, <3>1
    <2>3. \A c \in Client : \A n \in 1 .. Len(Program[c]) :
              /\ n > position'[c]
              /\ stack'[c] = << >> \/ n > position'[c] + 1
              => Fresh(Program[c][n])'
      <3> SUFFICES ASSUME NEW c \in Client, NEW n \in 1 .. Len(Program[c]), n > position[c],
                          stack'[c] = << >> \/ n > position[c] + 1
                   PROVE  Fresh(Program[c][n])'
        OBVIOUS
      <3>1. Program[c][n] # j /\ (stack[c] = << >> \/ n > position[c] + 1)  OBVIOUS
      <3>2. Fresh(Program[c][n])  BY <3>1 DEF FreshInv
      <3> QED  BY <1>6, <3>1, <3>2
    <2> QED  BY <2>1, <2>2, <2>3 DEF FreshInv, IsBody, Kids
  <1>10. CountInv'  BY <1>7 DEF CountInv
  <1>11. OverInv'
    <2> SUFFICES ASSUME NEW q \in Job, result'[q] # "none"
                 PROVE  Waited(q)' = {} /\ Kids(q) \cap Bodies' = {}
      BY DEF OverInv, Kids
    <2>1. q \notin Bodies  BY DEF OnceInv
    <2>2. j \notin Kids(q)  BY <2>1
    <2> QED  BY <1>3, <1>7, <2>2 DEF OverInv
  <1>12. ErrorInv'
    <2>1. \A q : ThrownBody(q) => ThrownBody(q)'  BY <1>2, MoveSets
    <2> QED  BY <2>1 DEF ErrorInv, Kids
  <1> QED  BY <1>8, <1>9, <1>10, <1>11, <1>12

\* A job that runs in the submitting thread stands on the body that waits for it.
LEMMA InlineKeepsInv ==
  ASSUME PoolInv, NEW th \in Thread, submit(th),
         runs_inline(th, Children[top(th).job][top(th).sent + 1])
  PROVE  PoolInv'
  <1> DEFINE n == Len(stack[th])
             f == top(th)
             p == f.job
             j == Children[p][f.sent + 1]
             g == [f EXCEPT !.sent = @ + 1]
             h == Frame("submit", j)
  <1> USE DEF PoolInv
  <1>1. /\ stack[th] # << >> /\ n \in DOMAIN stack[th]
        /\ f = stack[th][n] /\ f \in Frames
        /\ f.at = "submit" /\ ~ f.thrown /\ p \in Job
        /\ f.sent \in Nat /\ f.sent + 1 \in 1 .. Len(Children[p])
        /\ p \in Bodies /\ result[p] = "none"
        /\ j \in Job /\ j \in Kids(p) /\ Fresh(j)
    BY SubmitFacts
  <1>2. /\ g \in Frames /\ g.at = "submit" /\ g.job = p /\ g.sent = f.sent + 1
        /\ g.thrown = f.thrown
        /\ h \in Frames /\ h.at = "submit" /\ h.job = j /\ h.sent = 0 /\ ~ h.thrown
    <2>1. /\ g \in Frames /\ g.at = "submit" /\ g.job = p /\ g.sent = f.sent + 1
          /\ g.thrown = f.thrown
      BY <1>1 DEF Frames
    <2>2. h \in Frames /\ h.at = "submit" /\ h.job = j /\ h.sent = 0 /\ ~ h.thrown
      <3> HIDE DEF j
      <3> QED  BY <1>1 DEF Frames, Frame, Places
    <2> QED  BY <2>1, <2>2
  <1>3. Push(th, g, h) /\ UNCHANGED <<queue, num, error, result, position>>
    BY DEF submit, run_inline
  <1> HIDE DEF f, p, j, g, h
  <1>4. n \in Nat /\ n > 0 /\ DOMAIN stack[th] = 1 .. n
    BY <1>1, TypeOfTop
  <1>5. /\ stack' \in [Thread -> Seq(Frames)] /\ Len(stack'[th]) = n + 1
        /\ \A i \in 1 .. (n - 1) : stack'[th][i] = stack[th][i]
        /\ stack'[th][n] = g /\ stack'[th][n + 1] = h
        /\ \A sh \in Thread \ {th} : stack'[sh] = stack[sh]
    BY <1>1, <1>2, <1>3, PushFacts
  <1>6. DOMAIN stack'[th] = 1 .. (n + 1)  BY <1>5
  <1> HIDE DEF n
  <1>7. TypeInv'  BY <1>3, <1>5 DEF TypeInv
  <1>8. StackInv'
    <2> SUFFICES ASSUME NEW sh \in Thread, NEW i \in DOMAIN stack'[sh]
                 PROVE  FrameInv(sh, i)'
      BY DEF StackInv
    <2>0. result' = result /\ position' = position  BY <1>3
    <2> USE <2>0 DEF StackInv, FrameInv, IsBody, IsRun, IsWait, OnTop
    <2>1. CASE sh # th
      <3>1. stack'[sh] = stack[sh] /\ i \in DOMAIN stack[sh]  BY <1>5, <2>1
      <3>2. FrameInv(sh, i)  BY <3>1 DEF StackInv
      <3> QED  BY <2>0, <3>1, <3>2
    <2>2. CASE sh = th
      <3>1. i \in 1 .. (n + 1)  BY <1>6, <2>2
      <3>2. i > 1 /\ i <= n => stack'[th][i - 1] = stack[th][i - 1]  BY <1>4, <1>5, <3>1
      <3>3. CASE i < n
        BY <1>4, <1>5, <2>2, <3>1, <3>2, <3>3 DEF n
      <3>4. CASE i = n
        <4>1. FrameInv(th, n)  BY <1>1
        <4>2. /\ g.job \in Job /\ g.sent <= Len(Children[g.job])
              /\ n > 1 => OnTop(g, stack[th][n - 1])
              /\ n = 1 => /\ th \in Client /\ position[th] < Len(Program[th])
                          /\ g.job = Program[th][position[th] + 1]
          BY <1>1, <1>2, <1>4, <4>1 DEF p
        <4>3. stack'[th][i] = g /\ g.at = "submit"  BY <1>2, <1>5, <3>4
        <4> QED  BY <1>4, <2>2, <3>2, <3>4, <4>2, <4>3
      <3>5. CASE i = n + 1
        <4>1. /\ stack'[th][i] = h /\ i - 1 = n /\ i > 1
              /\ stack'[th][i - 1] = g
          BY <1>4, <1>5, <3>5
        <4>2. OnTop(h, g)  BY <1>1, <1>2 DEF j
        <4>3. h.sent <= Len(Children[h.job])  BY <1>1, <1>2, Tree
        <4> QED  BY <1>1, <1>2, <2>2, <4>1, <4>2, <4>3
      <3> QED  BY <1>4, <3>1, <3>3, <3>4, <3>5
    <2> QED  BY <2>1, <2>2
  <1>9. Moves(th, {n + 1}, {})
    <2>1. ASSUME NEW sh \in Thread
          PROVE  /\ DOMAIN stack[sh] \subseteq DOMAIN stack'[sh]
                 /\ \A i \in DOMAIN stack[sh] :
                       Alike(stack[sh][i], stack'[sh][i]) /\ ~ (sh = th /\ i = n + 1)
                 /\ \A i \in DOMAIN stack'[sh] : i \in DOMAIN stack[sh] \/ (sh = th /\ i = n + 1)
      <3>1. CASE sh # th
        BY <1>5, <3>1 DEF Alike
      <3>2. CASE sh = th
        <4>1. Alike(f, g)  BY <1>1, <1>2 DEF Alike, IsBody, IsRun, p
        <4>2. \A i \in DOMAIN stack[th] :
                  stack'[th][i] = stack[th][i] \/ (stack[th][i] = f /\ stack'[th][i] = g)
          BY <1>1, <1>4, <1>5
        <4>3. \A i \in DOMAIN stack[th] : Alike(stack[th][i], stack'[th][i])
          BY <4>1, <4>2 DEF Alike
        <4>4. /\ DOMAIN stack[th] \subseteq DOMAIN stack'[th]
              /\ \A i \in DOMAIN stack[th] : i # n + 1
              /\ \A i \in DOMAIN stack'[th] : i \in DOMAIN stack[th] \/ i = n + 1
          BY <1>4, <1>6
        <4> QED  BY <3>2, <4>3, <4>4
      <3> QED  BY <3>1, <3>2
    <2> QED  BY <2>1 DEF Moves
  <1>10. \A q \in Job : j \in Kids(q) => q \in Bodies  BY <1>1, Tree
  <1>11. ASSUME NEW sh \in Thread, NEW i \in DOMAIN stack'[sh], IsBody(stack'[sh][i]),
                ~ (sh = th /\ i = n + 1),
                NEW k \in 1 .. Len(Children[stack'[sh][i].job]), k > stack'[sh][i].sent
         PROVE  Children[stack'[sh][i].job][k] # j
    <2> DEFINE q == stack'[sh][i].job
    <2>1. q \in Job  BY <1>8, <1>11 DEF StackInv, FrameInv, IsBody
    <2>2. CASE q # p
      BY <1>1, <2>1, <2>2, Tree
    <2>3. CASE q = p
      <3>1. i \in DOMAIN stack[sh] /\ Alike(stack[sh][i], stack'[sh][i])
        <4>1. ~ (sh = th /\ i \in {n + 1}) /\ Matters(stack'[sh][i])
          BY <1>11 DEF Matters
        <4> QED  BY <1>9, <4>1, Zenon DEF Moves
      <3>2. IsBody(stack[sh][i]) /\ stack[sh][i].job = p  BY <1>11, <2>3, <3>1 DEF Alike
      <3>3. IsBody(stack[th][n]) /\ stack[th][n].job = p  BY <1>1 DEF IsBody, p
      <3>4. Clash(stack[sh][i], stack[th][n])  BY <3>2, <3>3, Zenon DEF Clash
      <3>5. sh = th /\ i = n  BY <1>1, <3>1, <3>4 DEF OnceInv
      <3>6. k > f.sent + 1  BY <1>2, <1>5, <1>11, <3>5
      <3>7. k # f.sent + 1  BY <1>1, <3>6
      <3> QED  BY <1>1, <2>3, <3>7, Tree DEF j
    <2> QED  BY <2>2, <2>3
  <1>12. ASSUME NEW c \in Client, NEW k \in 1 .. Len(Program[c]), k > position[c],
                stack'[c] = << >> \/ k > position[c] + 1
         PROVE  Program[c][k] # j /\ (stack[c] = << >> \/ k > position[c] + 1)
    <2>1. stack'[th] # << >>  BY <1>4, <1>5
    <2>2. stack'[c] = << >> => stack[c] = << >>  BY <1>5, <2>1 DEF Thread
    <2> QED  BY <1>1, <1>12, <2>2, Tree
  <1>13. /\ n + 1 \in DOMAIN stack'[th]
         /\ stack'[th][n + 1] = Frame("submit", j)
    BY <1>4, <1>5, <1>6 DEF h
  <1>14. Fresh(j) /\ j \in Job  BY <1>1
  <1> DEFINE m == n + 1
  <1>15. /\ Moves(th, {m}, {}) /\ m \in DOMAIN stack'[th]
         /\ stack'[th][m] = Frame("submit", j)
         /\ \A sh \in Thread : \A i \in DOMAIN stack'[sh] :
              IsBody(stack'[sh][i]) /\ ~ (sh = th /\ i = m) =>
                 \A k \in 1 .. Len(Children[stack'[sh][i].job]) :
                    k > stack'[sh][i].sent => Children[stack'[sh][i].job][k] # j
    BY <1>9, <1>11, <1>13
  <1> HIDE DEF m
  <1>16. Starts(th, m, j)  BY <1>12, <1>15 DEF Starts
  <1> QED  BY <1>3, <1>7, <1>8, <1>10, <1>14, <1>16, StartKeepsInv

\* A client begins its next body.
LEMMA BeginKeepsInv ==
  ASSUME PoolInv, NEW th \in Client, begin(th)
  PROVE  PoolInv'
  <1> DEFINE r == position[th] + 1
             j == Program[th][r]
             h == Frame("submit", j)
  <1> USE DEF PoolInv
  <1>1. /\ stack[th] = << >> /\ position[th] < Len(Program[th])
        /\ stack' = [stack EXCEPT ![th] = <<h>>]
        /\ UNCHANGED <<queue, num, error, result, position>>
    BY DEF begin
  <1>2. th \in Thread /\ position[th] \in Nat /\ Len(Program[th]) \in Nat
    BY Tree DEF Thread, TypeInv
  <1>3. r \in 1 .. Len(Program[th]) /\ r > position[th]  BY <1>1, <1>2
  <1>4. /\ j \in Job /\ \A q \in Job : j \notin Kids(q)
    BY <1>3, Tree
  <1>5. Fresh(j)  BY <1>1, <1>3 DEF FreshInv
  <1>6. h \in Frames /\ h.at = "submit" /\ h.job = j /\ h.sent = 0
    BY <1>4 DEF Frames, Frame, Places
  <1> HIDE DEF h, j, r
  <1>7. /\ stack' \in [Thread -> Seq(Frames)] /\ Len(stack'[th]) = 1 /\ stack'[th][1] = h
        /\ DOMAIN stack'[th] = {1}
        /\ \A sh \in Thread \ {th} : stack'[sh] = stack[sh]
    <2>1. stack \in [Thread -> Seq(Frames)]  BY DEF TypeInv
    <2>2. <<h>> \in Seq(Frames) /\ Len(<<h>>) = 1 /\ <<h>>[1] = h /\ DOMAIN <<h>> = {1}
      BY <1>6
    <2> QED  BY <1>1, <1>2, <2>1, <2>2
  <1>8. TypeInv'  BY <1>1, <1>7 DEF TypeInv
  <1>9. DOMAIN stack[th] = {}  BY <1>1
  <1>10. StackInv'
    <2> SUFFICES ASSUME NEW sh \in Thread, NEW i \in DOMAIN stack'[sh]
                 PROVE  FrameInv(sh, i)'
      BY DEF StackInv
    <2> USE DEF StackInv, FrameInv, IsBody, IsRun, IsWait, OnTop
    <2>1. CASE sh # th
      BY <1>1, <1>7, <2>1
    <2>2. CASE sh = th
      <3>1. i = 1 /\ stack'[sh][i] = h  BY <1>7, <2>2
      <3>2. h.sent <= Len(Children[h.job])  BY <1>4, <1>6, Tree
      <3> QED  BY <1>1, <1>4, <1>6, <2>2, <3>1, <3>2 DEF j, r
    <2> QED  BY <2>1, <2>2
  <1>11. Moves(th, {1}, {})
    BY <1>7, <1>9 DEF Moves, Alike
  <1>12. \A sh \in Thread : \A i \in DOMAIN stack'[sh] :
            IsBody(stack'[sh][i]) /\ ~ (sh = th /\ i = 1) =>
               \A n \in 1 .. Len(Children[stack'[sh][i].job]) :
                  n > stack'[sh][i].sent => Children[stack'[sh][i].job][n] # j
    <2>1. \A sh \in Thread : \A i \in DOMAIN stack'[sh] :
              IsBody(stack'[sh][i]) => stack'[sh][i].job \in Job
      BY <1>10 DEF StackInv, FrameInv, IsBody
    <2> QED  BY <1>4, <2>1, Tree
  <1>13. ASSUME NEW c \in Client, NEW k \in 1 .. Len(Program[c]), k > position[c],
                stack'[c] = << >> \/ k > position[c] + 1
         PROVE  Program[c][k] # j /\ (stack[c] = << >> \/ k > position[c] + 1)
    <2>1. CASE c # th
      <3>1. Program[c][k] # j  BY <1>3, <2>1, Tree DEF j
      <3>2. stack'[c] = stack[c]  BY <1>7, <2>1 DEF Thread
      <3> QED  BY <1>13, <3>1, <3>2
    <2>2. CASE c = th
      <3>1. stack'[th] # << >>  BY <1>7
      <3>2. k # r  BY <1>2, <1>13, <2>2, <3>1 DEF r
      <3>3. Program[c][k] # j  BY <1>3, <2>2, <3>2, Tree DEF j
      <3> QED  BY <1>1, <2>2, <3>3
    <2> QED  BY <2>1, <2>2
  <1>14. 1 \in DOMAIN stack'[th] /\ stack'[th][1] = Frame("submit", j)
    BY <1>7 DEF h
  <1>15. Starts(th, 1, j)  BY <1>11, <1>12, <1>13, <1>14 DEF Starts
  <1> QED  BY <1>1, <1>2, <1>4, <1>5, <1>8, <1>10, <1>15, StartKeepsInv

\* A queued job goes to run and stays counted.
LEMMA TakeKeepsInv ==
  ASSUME PoolInv, NEW th \in Thread, take(th)
  PROVE  PoolInv'
  <1> DEFINE n == Len(stack[th])
             f == top(th)
             j == Head(queue)
             g == Frame("exec", j)
             h == Frame("submit", j)
             S == {n, n + 1}
  <1> USE DEF PoolInv
  <1>1. /\ stack[th] # << >> /\ f.at = "take" /\ queue # << >>
        /\ Push(th, g, h) /\ queue' = Tail(queue)
        /\ UNCHANGED <<num, error, result, position>>
    BY DEF take, Running
  <1>2. /\ n \in Nat /\ n > 0 /\ DOMAIN stack[th] = 1 .. n
        /\ f = stack[th][n] /\ f \in Frames
    BY <1>1, TypeOfTop
  <1>3. /\ queue \in Seq(Job) /\ Len(queue) \in Nat /\ Len(queue) > 0
        /\ DOMAIN queue = 1 .. Len(queue) /\ j = queue[1] /\ j \in Job
        /\ queue' \in Seq(Job) /\ Len(queue') = Len(queue) - 1
        /\ DOMAIN queue' = 1 .. (Len(queue) - 1)
        /\ \A i \in 1 .. (Len(queue) - 1) : queue'[i] = queue[i + 1]
    BY <1>1 DEF TypeInv
  <1>4. j \in Queued  BY <1>3 DEF Queued
  <1>5. /\ j \notin Bodies /\ j \notin Runs /\ result[j] = "none"
        /\ \E p \in Job : j \in Kids(p)
    BY <1>4 DEF OnceInv
  <1>6. /\ g \in Frames /\ g.at = "exec" /\ g.job = j
        /\ h \in Frames /\ h.at = "submit" /\ h.job = j /\ h.sent = 0
    <2> HIDE DEF j
    <2> QED  BY <1>3 DEF Frames, Frame, Places
  <1> HIDE DEF f, j, g, h
  <1>7. /\ stack' \in [Thread -> Seq(Frames)] /\ Len(stack'[th]) = n + 1
        /\ \A i \in 1 .. (n - 1) : stack'[th][i] = stack[th][i]
        /\ stack'[th][n] = g /\ stack'[th][n + 1] = h
        /\ \A sh \in Thread \ {th} : stack'[sh] = stack[sh]
    BY <1>1, <1>6, PushFacts
  <1>8. DOMAIN stack'[th] = 1 .. (n + 1)  BY <1>7
  <1> HIDE DEF n
  <1>9. TypeInv'  BY <1>1, <1>3, <1>7 DEF TypeInv
  <1>10. StackInv'
    <2> SUFFICES ASSUME NEW sh \in Thread, NEW i \in DOMAIN stack'[sh]
                 PROVE  FrameInv(sh, i)'
      BY DEF StackInv
    <2>0. result' = result /\ position' = position  BY <1>1
    <2> USE <2>0 DEF StackInv, FrameInv, IsBody, IsRun, IsWait, OnTop
    <2>1. CASE sh # th
      BY <1>7, <2>1
    <2>2. CASE sh = th
      <3>1. i \in 1 .. (n + 1)  BY <1>8, <2>2
      <3>2. i > 1 /\ i <= n => stack'[th][i - 1] = stack[th][i - 1]  BY <1>2, <1>7, <3>1
      <3>3. CASE i < n
        <4>1. i \in DOMAIN stack[th] /\ i \in 1 .. (n - 1) /\ i < n + 1 /\ i <= n
          BY ONLY <1>2, <3>1, <3>3
        <4>2. FrameInv(th, i)  BY <4>1 DEF StackInv
        <4>3. stack'[th][i] = stack[th][i] /\ i < Len(stack'[th])  BY ONLY <1>7, <4>1
        <4> QED  BY <2>2, <3>2, <4>1, <4>2, <4>3
      <3>4. CASE i = n
        <4>1. FrameInv(th, n)  BY <1>2
        <4>2. /\ n > 1 => IsWait(stack[th][n - 1])
              /\ n = 1 => th \in Worker
          BY <1>1, <1>2, <4>1
        <4>3. stack'[th][i] = g /\ i < Len(stack'[th])  BY <1>2, <1>7, <3>4
        <4>4. g.job \in Job /\ ~ IsBody(g) /\ g.at # "dec"  BY <1>3, <1>6
        <4>5. i > 1 => OnTop(g, stack'[th][i - 1])  BY <1>2, <3>1, <3>2, <3>4, <4>2, <4>4
        <4>6. i = 1 => th \in Worker  BY <3>4, <4>2
        <4> QED  BY ONLY <2>2, <4>3, <4>4, <4>5, <4>6 DEF FrameInv, IsBody
      <3>5. CASE i = n + 1
        <4>1. /\ stack'[th][i] = h /\ i - 1 = n /\ i > 1
              /\ stack'[th][i - 1] = g
          BY <1>2, <1>7, <3>5
        <4>2. OnTop(h, g)  BY <1>6
        <4>3. h.sent <= Len(Children[h.job])  BY <1>3, <1>6, Tree
        <4> QED  BY <1>3, <1>6, <2>2, <4>1, <4>2, <4>3
      <3> QED  BY <1>2, <3>1, <3>3, <3>4, <3>5
    <2> QED  BY <2>1, <2>2
  <1>11. Moves(th, S, {})
    <2>1. ASSUME NEW sh \in Thread, NEW i \in DOMAIN stack'[sh], ~ (sh = th /\ i \in S)
          PROVE  i \in DOMAIN stack[sh] /\ stack'[sh][i] = stack[sh][i]
      BY <1>2, <1>7, <1>8, <2>1
    <2>2. ASSUME NEW sh \in Thread, NEW i \in DOMAIN stack[sh], Matters(stack[sh][i])
          PROVE  /\ i \in DOMAIN stack'[sh] /\ stack'[sh][i] = stack[sh][i]
                 /\ ~ (sh = th /\ i \in S)
      <3>1. ~ Matters(f)  BY <1>1 DEF Matters, IsBody, IsRun
      <3>2. ~ (sh = th /\ i = n)  BY <1>2, <2>2, <3>1
      <3> QED  BY <1>2, <1>7, <1>8, <3>2
    <2> HIDE DEF S
    <2> QED  BY <2>1, <2>2 DEF Moves, Alike
  <1>12. \A i \in S : i \in DOMAIN stack'[th] =>
            /\ IsBody(stack'[th][i]) => i = n + 1 /\ stack'[th][i].job = j
            /\ IsRun(stack'[th][i]) => i = n /\ stack'[th][i].job = j
    BY <1>2, <1>6, <1>7 DEF IsBody, IsRun
  <1>13. NewFrames(th, S)
    <2> HIDE DEF S
    <2> QED  BY <1>5, <1>12 DEF NewFrames, Clash
  <1> HIDE DEF S
  <1>14. Bodies' = Bodies \cup {j}
    <2>1. \A k \in Bodies : k \in Bodies'  BY <1>9, <1>11, <1>13, MoveSets
    <2>2. \A k \in Bodies' :
              \/ k \in Bodies
              \/ \E i \in DOMAIN stack'[th] :
                    i \in S /\ IsBody(stack'[th][i]) /\ stack'[th][i].job = k
      BY <1>9, <1>11, <1>13, MoveSets
    <2>3. j \in Bodies'
      <3>1. n + 1 \in DOMAIN stack'[th] /\ IsBody(stack'[th][n + 1]) /\ stack'[th][n + 1].job = j
        BY <1>2, <1>6, <1>7, <1>8 DEF IsBody
      <3> QED  BY <1>3, <3>1 DEF Bodies, IsBody
    <2> QED  BY <1>12, <2>1, <2>2, <2>3
  <1>15. Runs' = Runs \cup {j}
    <2>1. \A k \in Runs : k \in Runs'  BY <1>9, <1>11, <1>13, MoveSets
    <2>2. \A k \in Runs' :
              \/ k \in Runs
              \/ \E i \in DOMAIN stack'[th] :
                    i \in S /\ IsRun(stack'[th][i]) /\ stack'[th][i].job = k
      BY <1>9, <1>11, <1>13, MoveSets
    <2>3. j \in Runs'
      <3>1. n \in DOMAIN stack'[th] /\ IsRun(stack'[th][n]) /\ stack'[th][n].job = j
        BY <1>2, <1>6, <1>7, <1>8 DEF IsRun
      <3> QED  BY <1>3, <3>1 DEF Runs, IsRun
    <2> QED  BY <1>12, <2>1, <2>2, <2>3
  <1>16. \A i, k \in DOMAIN queue : queue[i] = queue[k] => i = k  BY DEF OnceInv
  <1>17. Queued' = Queued \ {j} /\ \A i, k \in DOMAIN queue' : queue'[i] = queue'[k] => i = k
    <2>1. \A i \in DOMAIN queue' : i + 1 \in DOMAIN queue /\ queue'[i] = queue[i + 1] /\ i + 1 # 1
      BY <1>3
    <2>2. \A i \in DOMAIN queue : i # 1 => i - 1 \in DOMAIN queue' /\ queue'[i - 1] = queue[i]
      BY <1>3
    <2>3. \A x \in Queued' : x \in Queued /\ x # j
      <3> SUFFICES ASSUME NEW i \in DOMAIN queue'  PROVE queue'[i] \in Queued /\ queue'[i] # j
        BY DEF Queued
      <3>1. 1 \in DOMAIN queue  BY <1>3
      <3> QED  BY <1>3, <1>16, <2>1, <3>1 DEF Queued
    <2>4. \A x \in Queued : x # j => x \in Queued'
      <3> SUFFICES ASSUME NEW i \in DOMAIN queue, queue[i] # j  PROVE queue[i] \in Queued'
        BY DEF Queued
      <3>1. i # 1  BY <1>3
      <3> QED  BY <2>2, <3>1 DEF Queued
    <2>5. \A i, k \in DOMAIN queue' : queue'[i] = queue'[k] => i = k
      <3> SUFFICES ASSUME NEW i \in DOMAIN queue', NEW k \in DOMAIN queue', queue'[i] = queue'[k]
                   PROVE  i = k
        OBVIOUS
      <3>1. i + 1 = k + 1  BY <1>16, <2>1
      <3> QED  BY <1>3, <3>1
    <2> QED  BY <2>3, <2>4, <2>5
  <1>18. \A k : Fresh(k) => Fresh(k)'
    BY <1>1, <1>4, <1>14, <1>15, <1>17 DEF Fresh
  <1>19. \A q : Waited(q)' = Waited(q)
    BY <1>4, <1>15, <1>17 DEF Waited, Kids
  <1>20. OnceInv'
    <2>1. \A sh, uh \in Thread : \A i \in DOMAIN stack'[sh] : \A k \in DOMAIN stack'[uh] :
              Clash(stack'[sh][i], stack'[uh][k]) => sh = uh /\ i = k
      BY <1>9, <1>11, <1>13, MoveSets
    <2>2. Queued' \cap (Bodies' \cup Runs') = {}
      BY <1>14, <1>15, <1>17 DEF OnceInv
    <2>3. \A k \in Queued' \cup Bodies' : result'[k] = "none"
      BY <1>1, <1>5, <1>14, <1>17 DEF OnceInv
    <2>4. \A k \in Queued' \cup Runs' : \E p \in Job : k \in Kids(p)
      BY <1>5, <1>15, <1>17 DEF OnceInv
    <2> QED  BY <1>17, <2>1, <2>2, <2>3, <2>4 DEF OnceInv, IsBody, IsRun, Clash, Kids
  <1>21. FreshInv'
    <2>1. ASSUME NEW sh \in Thread, NEW i \in DOMAIN stack'[sh], IsBody(stack'[sh][i]),
                 NEW m \in 1 .. Len(Children[stack'[sh][i].job]), m > stack'[sh][i].sent,
                 NEW kid, kid = Children[stack'[sh][i].job][m]
          PROVE  Fresh(kid)'
      <3>1. CASE sh = th /\ i \in S
        <4>1. stack'[sh][i].job = j  BY <1>12, <2>1, <3>1
        <4>2. kid \in Kids(j)  BY <1>3, <2>1, <4>1, Tree
        <4>3. Fresh(kid)  BY <1>3, <1>5, <4>2 DEF FreshInv
        <4> QED  BY <1>18, <4>3
      <3>2. CASE ~ (sh = th /\ i \in S)
        <4>1. /\ i \in DOMAIN stack[sh] /\ IsBody(stack[sh][i])
              /\ stack[sh][i].job = stack'[sh][i].job
              /\ stack'[sh][i].sent >= stack[sh][i].sent
              /\ stack[sh][i].sent \in Nat /\ stack'[sh][i].sent \in Nat
          BY <1>9, <1>11, <1>13, <2>1, <3>2, MoveSets
        <4>2. m > stack[sh][i].sent  BY <2>1, <4>1
        <4>3. Fresh(kid)  BY <2>1, <4>1, <4>2 DEF FreshInv
        <4> QED  BY <1>18, <4>3
      <3> QED  BY <3>1, <3>2
    <2>2. \A q \in Job : result'[q] = "none" /\ q \notin Bodies' => \A k \in Kids(q) : Fresh(k)'
      BY <1>1, <1>14, <1>18 DEF FreshInv
    <2>3. \A c \in Client : \A m \in 1 .. Len(Program[c]) :
              /\ m > position'[c]
              /\ stack'[c] = << >> \/ m > position'[c] + 1
              => Fresh(Program[c][m])'
      <3>1. stack'[th] # << >>  BY <1>2, <1>7
      <3>2. \A c \in Client : stack'[c] = << >> => stack[c] = << >>  BY <1>7, <3>1 DEF Thread
      <3> QED  BY <1>1, <1>18, <3>2 DEF FreshInv
    <2> QED  BY <2>1, <2>2, <2>3 DEF FreshInv, IsBody, Kids
  <1>22. CountInv'  BY <1>1, <1>19 DEF CountInv
  <1>23. OverInv'
    <2> SUFFICES ASSUME NEW q \in Job, result'[q] # "none"
                 PROVE  Waited(q)' = {} /\ Kids(q) \cap Bodies' = {}
      BY DEF OverInv, Kids
    <2>1. Waited(q) = {} /\ Kids(q) \cap Bodies = {}  BY <1>1 DEF OverInv
    <2>2. j \notin Kids(q)  BY <1>4, <2>1 DEF Waited
    <2> QED  BY <1>14, <1>19, <2>1, <2>2
  <1>24. ErrorInv'
    <2>1. \A q : ThrownBody(q) => ThrownBody(q)'  BY <1>9, <1>11, <1>13, MoveSets
    <2> QED  BY <1>1, <2>1 DEF ErrorInv, Kids
  <1> QED  BY <1>9, <1>10, <1>20, <1>21, <1>22, <1>23, <1>24

\* A job is counted out when it is over, not before.
LEMMA DecKeepsInv ==
  ASSUME PoolInv, NEW th \in Thread, dec(th)
  PROVE  PoolInv'
  <1> DEFINE n == Len(stack[th])
             f == top(th)
             j == f.job
             g == [f EXCEPT !.at = "post"]
  <1> USE DEF PoolInv
  <1>1. /\ stack[th] # << >> /\ f.at = "dec" /\ Become(th, g)
        /\ num' = [num EXCEPT ![Parent(j)] = @ - 1]
        /\ UNCHANGED <<queue, error, result, position>>
    BY DEF dec, Running
  <1>2. /\ n \in Nat /\ n > 0 /\ DOMAIN stack[th] = 1 .. n
        /\ f = stack[th][n] /\ f \in Frames
    BY <1>1, TypeOfTop
  <1>3. g \in Frames /\ g.at = "post"  BY <1>2 DEF Frames, Places
  <1>4. IsRun(stack[th][n])  BY <1>1, <1>2 DEF IsRun
  <1>5. j \in Job /\ result[j] # "none"
    BY <1>1, <1>2, <1>4 DEF StackInv, FrameInv
  <1>6. j \in Runs  BY <1>2, <1>4, <1>5 DEF Runs
  <1>7. PICK p \in Job : j \in Kids(p)  BY <1>6 DEF OnceInv
  <1>8. Parent(j) = p  BY <1>7, ParentOf
  <1>9. j \notin Queued  BY <1>6 DEF OnceInv
  <1> HIDE DEF f, j, g
  <1>10. /\ stack' \in [Thread -> Seq(Frames)] /\ Len(stack'[th]) = n
         /\ \A i \in 1 .. (n - 1) : stack'[th][i] = stack[th][i]
         /\ stack'[th][n] = g
         /\ \A sh \in Thread \ {th} : stack'[sh] = stack[sh]
    BY <1>1, <1>3, BecomeFacts
  <1>11. DOMAIN stack'[th] = 1 .. n  BY <1>10
  <1> HIDE DEF n
  <1>12. TypeInv'  BY <1>1, <1>7, <1>8, <1>10 DEF TypeInv
  <1>13. StackInv'
    <2> SUFFICES ASSUME NEW sh \in Thread, NEW i \in DOMAIN stack'[sh]
                 PROVE  FrameInv(sh, i)'
      BY DEF StackInv
    <2>0. result' = result /\ position' = position  BY <1>1
    <2> USE <2>0 DEF StackInv, FrameInv, IsBody, IsRun, IsWait, OnTop
    <2>1. CASE sh # th
      BY <1>10, <2>1
    <2>2. CASE sh = th
      <3>1. i \in 1 .. n  BY <1>11, <2>2
      <3>2. i > 1 => stack'[th][i - 1] = stack[th][i - 1]  BY <1>2, <1>10, <3>1
      <3>3. CASE i # n
        BY <1>2, <1>10, <2>2, <3>1, <3>2, <3>3 DEF n
      <3>4. CASE i = n
        <4>1. FrameInv(th, n)  BY <1>2
        <4>2. /\ n > 1 => IsWait(stack[th][n - 1])
              /\ n = 1 => th \in Worker
          BY <1>1, <1>2, <4>1
        <4>3. stack'[th][i] = g  BY <1>10, <3>4
        <4> QED  BY <1>2, <1>3, <2>2, <3>2, <3>4, <4>2, <4>3
      <3> QED  BY <3>3, <3>4
    <2> QED  BY <2>1, <2>2
  <1>14. Moves(th, {}, {n})
    <2>1. ~ Matters(g)  BY <1>3 DEF Matters, IsBody, IsRun
    <2>2. ASSUME NEW sh \in Thread, NEW i \in DOMAIN stack'[sh], Matters(stack'[sh][i])
          PROVE  i \in DOMAIN stack[sh] /\ stack'[sh][i] = stack[sh][i] /\ ~ (sh = th /\ i \in {n})
      <3>1. CASE sh # th  BY <1>10, <3>1
      <3>2. CASE sh = th
        <4>1. i \in 1 .. n /\ i # n  BY <1>10, <1>11, <2>1, <2>2, <3>2
        <4> QED  BY <1>2, <1>10, <3>2, <4>1
      <3> QED  BY <3>1, <3>2
    <2>3. ASSUME NEW sh \in Thread, NEW i \in DOMAIN stack[sh], ~ (sh = th /\ i \in {n})
          PROVE  i \in DOMAIN stack'[sh] /\ stack'[sh][i] = stack[sh][i]
      <3>1. CASE sh # th  BY <1>10, <3>1
      <3>2. CASE sh = th
        <4>1. i \in 1 .. n /\ i # n  BY <1>2, <2>3, <3>2
        <4> QED  BY <1>2, <1>10, <1>11, <3>2, <4>1
      <3> QED  BY <3>1, <3>2
    <2> QED  BY <2>2, <2>3 DEF Moves, Alike
  <1>15. NewFrames(th, {})  BY DEF NewFrames
  <1>16. Bodies' = Bodies
    <2>1. \A k \in Bodies : k \in Bodies' \/ \E i \in DOMAIN stack[th] :
              i \in {n} /\ IsBody(stack[th][i]) /\ stack[th][i].job = k
      BY <1>12, <1>14, <1>15, MoveSets
    <2>2. \A k \in Bodies' : k \in Bodies
      BY <1>12, <1>14, <1>15, MoveSets
    <2>3. ~ IsBody(stack[th][n])  BY <1>4 DEF IsBody, IsRun
    <2> QED  BY <2>1, <2>2, <2>3
  <1>17. Runs' = Runs \ {j}
    <2>1. \A k \in Runs : k \in Runs' \/ \E i \in DOMAIN stack[th] :
              i \in {n} /\ IsRun(stack[th][i]) /\ stack[th][i].job = k
      BY <1>12, <1>14, <1>15, MoveSets
    <2>2. \A k \in Runs' :
              /\ k \in Runs
              /\ \A i \in DOMAIN stack[th] : i \in {n} /\ IsRun(stack[th][i]) => stack[th][i].job # k
      BY <1>12, <1>14, <1>15, MoveSets
    <2>3. stack[th][n].job = j  BY <1>2 DEF j
    <2> QED  BY <1>2, <1>4, <2>1, <2>2, <2>3
  <1>18. Queued' = Queued  BY <1>1 DEF Queued
  <1>19. \A k : Fresh(k) => Fresh(k)'  BY <1>1, <1>16, <1>17, <1>18 DEF Fresh
  <1>20. \A q \in Job : Waited(q)' = IF q = p THEN Waited(p) \ {j} ELSE Waited(q)
    <2>1. \A q \in Job : q # p => j \notin Kids(q)  BY <1>7, Tree
    <2> QED  BY <1>9, <1>17, <1>18, <2>1 DEF Waited, Kids
  <1>21. OnceInv'
    <2>1. \A sh, uh \in Thread : \A i \in DOMAIN stack'[sh] : \A k \in DOMAIN stack'[uh] :
              Clash(stack'[sh][i], stack'[uh][k]) => sh = uh /\ i = k
      BY <1>12, <1>14, <1>15, MoveSets
    <2> QED  BY <1>1, <1>16, <1>17, <1>18, <2>1 DEF OnceInv, IsBody, IsRun, Clash, Kids
  <1>22. FreshInv'
    <2>1. ASSUME NEW sh \in Thread, NEW i \in DOMAIN stack'[sh], IsBody(stack'[sh][i]),
                 NEW m \in 1 .. Len(Children[stack'[sh][i].job]), m > stack'[sh][i].sent,
                 NEW kid, kid = Children[stack'[sh][i].job][m]
          PROVE  Fresh(kid)'
      <3>1. /\ i \in DOMAIN stack[sh] /\ IsBody(stack[sh][i])
            /\ stack[sh][i].job = stack'[sh][i].job
            /\ stack'[sh][i].sent >= stack[sh][i].sent
            /\ stack[sh][i].sent \in Nat /\ stack'[sh][i].sent \in Nat
        BY <1>12, <1>14, <1>15, <2>1, MoveSets
      <3>2. m > stack[sh][i].sent  BY <2>1, <3>1
      <3>3. Fresh(kid)  BY <2>1, <3>1, <3>2 DEF FreshInv
      <3> QED  BY <1>19, <3>3
    <2>2. \A q \in Job : result'[q] = "none" /\ q \notin Bodies' => \A k \in Kids(q) : Fresh(k)'
      BY <1>1, <1>16, <1>19 DEF FreshInv
    <2>3. \A c \in Client : \A m \in 1 .. Len(Program[c]) :
              /\ m > position'[c]
              /\ stack'[c] = << >> \/ m > position'[c] + 1
              => Fresh(Program[c][m])'
      <3>1. stack'[th] # << >>  BY <1>2, <1>10
      <3>2. \A c \in Client : stack'[c] = << >> => stack[c] = << >>  BY <1>10, <3>1 DEF Thread
      <3> QED  BY <1>1, <1>19, <3>2 DEF FreshInv
    <2> QED  BY <2>1, <2>2, <2>3 DEF FreshInv, IsBody, Kids
  <1>23. CountInv'
    <2>1. IsFiniteSet(Waited(p))  BY KidsFinite, FS_Subset DEF Waited
    <2>2. j \in Waited(p)  BY <1>6, <1>7 DEF Waited
    <2>3. Cardinality(Waited(p) \ {j}) = Cardinality(Waited(p)) - 1
      BY <2>1, <2>2, FS_RemoveElement
    <2> QED  BY <1>1, <1>8, <1>20, <2>3 DEF CountInv, TypeInv
  <1>24. OverInv'  BY <1>1, <1>16, <1>20 DEF OverInv, Kids
  <1>25. ErrorInv'
    <2>1. \A q : ThrownBody(q) => ThrownBody(q)' \/ \E i \in DOMAIN stack[th] :
              i \in {n} /\ IsBody(stack[th][i]) /\ stack[th][i].job = q
      BY <1>12, <1>14, <1>15, MoveSets
    <2>2. ~ IsBody(stack[th][n])  BY <1>4 DEF IsBody, IsRun
    <2>3. \A q : ThrownBody(q) => ThrownBody(q)'  BY <2>1, <2>2
    <2> QED  BY <1>1, <2>3 DEF ErrorInv, Kids
  <1> QED  BY <1>12, <1>13, <1>21, <1>22, <1>23, <1>24, <1>25

----------------------------------------------------------------------------
(* The end of a body.                                                      *)

\* The body of p is on top of the stack of th and goes; who has to learn of
\* an exception learns of it.
Ends(th, p) ==
    LET n == Len(stack[th])
        f == stack[th][n]
    IN  /\ n \in DOMAIN stack[th] /\ IsBody(f) /\ f.job = p
        /\ Moves(th, {}, {n})
        /\ result' = [result EXCEPT ![p] = IF f.thrown THEN "threw" ELSE "ok"]
        /\ \A q \in Job : error'[q] => error[q] \/ (f.thrown /\ p \in Kids(q))
        /\ \A q \in Job : error[q] => error'[q]
        /\ \A q \in Job : f.thrown /\ p \in Kids(q) => error'[q] \/ ThrownBody(q)'
        /\ \A c \in Client : \A k \in 1 .. Len(Program[c]) :
              k > position'[c] /\ (stack'[c] = << >> \/ k > position'[c] + 1) =>
                 k > position[c] /\ (stack[c] = << >> \/ k > position[c] + 1)

\* A body may end when none of its jobs is left.
LEMMA EndKeepsInv ==
  ASSUME PoolInv, NEW th \in Thread, NEW p \in Job, Ends(th, p), TypeInv', StackInv',
         Waited(p) = {}, Kids(p) \cap Bodies = {}, UNCHANGED <<queue, num>>
  PROVE  PoolInv'
  <1> DEFINE n == Len(stack[th])
             f == stack[th][n]
  <1> USE DEF PoolInv
  <1>1. n \in DOMAIN stack[th] /\ IsBody(f) /\ f.job = p  BY DEF Ends
  <1>2. Moves(th, {}, {n})  BY DEF Ends
  <1>3. result' = [result EXCEPT ![p] = IF f.thrown THEN "threw" ELSE "ok"]  BY DEF Ends
  <1>4. NewFrames(th, {})  BY DEF NewFrames
  <1>5. p \in Bodies  BY <1>1 DEF Bodies
  <1>6. result[p] = "none" /\ p \notin Queued  BY <1>5 DEF OnceInv
  <1>7. /\ result'[p] = (IF f.thrown THEN "threw" ELSE "ok")
        /\ \A q \in Job : q # p => result'[q] = result[q]
    BY <1>3 DEF TypeInv
  <1>8. Bodies' = Bodies \ {p}
    <2>1. \A k \in Bodies : k \in Bodies' \/ \E i \in DOMAIN stack[th] :
              i \in {n} /\ IsBody(stack[th][i]) /\ stack[th][i].job = k
      BY <1>2, <1>4, MoveSets
    <2>2. \A k \in Bodies' :
              /\ k \in Bodies
              /\ \A i \in DOMAIN stack[th] : i \in {n} /\ IsBody(stack[th][i]) => stack[th][i].job # k
      BY <1>2, <1>4, MoveSets
    <2> QED  BY <1>1, <2>1, <2>2
  <1>9. Runs' = Runs
    <2>1. \A k \in Runs : k \in Runs' \/ \E i \in DOMAIN stack[th] :
              i \in {n} /\ IsRun(stack[th][i]) /\ stack[th][i].job = k
      BY <1>2, <1>4, MoveSets
    <2>2. \A k \in Runs' : k \in Runs
      BY <1>2, <1>4, MoveSets
    <2>3. ~ IsRun(stack[th][n])  BY <1>1 DEF IsBody, IsRun
    <2> QED  BY <2>1, <2>2, <2>3
  <1>10. Queued' = Queued  BY DEF Queued
  <1>11. Queued \subseteq Job /\ Bodies \subseteq Job
    <2>1. Bodies \subseteq Job  BY DEF Bodies
    <2>2. Queued \subseteq Job  BY DEF Queued, TypeInv
    <2> QED  BY <2>1, <2>2
  <1>12. \A k \in Job : Fresh(k) => Fresh(k)'
    BY <1>5, <1>7, <1>8, <1>9, <1>10 DEF Fresh
  <1>13. \A q : Waited(q)' = Waited(q)  BY <1>9, <1>10 DEF Waited, Kids
  <1>14. OnceInv'
    <2>1. \A sh, uh \in Thread : \A i \in DOMAIN stack'[sh] : \A k \in DOMAIN stack'[uh] :
              Clash(stack'[sh][i], stack'[uh][k]) => sh = uh /\ i = k
      BY <1>2, <1>4, MoveSets
    <2>2. \A k \in Queued' \cup Bodies' : result'[k] = "none"
      BY <1>6, <1>7, <1>8, <1>10, <1>11 DEF OnceInv
    <2>3. Queued' \cap (Bodies' \cup Runs') = {}  BY <1>8, <1>9, <1>10 DEF OnceInv
    <2>4. \A k \in Queued' \cup Runs' : \E q \in Job : k \in Kids(q)
      BY <1>9, <1>10 DEF OnceInv
    <2>5. \A i, k \in DOMAIN queue' : queue'[i] = queue'[k] => i = k  BY DEF OnceInv
    <2> QED  BY <2>1, <2>2, <2>3, <2>4, <2>5 DEF OnceInv, IsBody, IsRun, Clash, Kids
  <1> HIDE DEF n, f
  <1>15. FreshInv'
    <2>1. ASSUME NEW sh \in Thread, NEW i \in DOMAIN stack'[sh], IsBody(stack'[sh][i]),
                 NEW m \in 1 .. Len(Children[stack'[sh][i].job]), m > stack'[sh][i].sent,
                 NEW kid, kid = Children[stack'[sh][i].job][m]
          PROVE  Fresh(kid)'
      <3>1. /\ i \in DOMAIN stack[sh] /\ IsBody(stack[sh][i])
            /\ stack[sh][i].job = stack'[sh][i].job
            /\ stack'[sh][i].sent >= stack[sh][i].sent
            /\ stack[sh][i].sent \in Nat /\ stack'[sh][i].sent \in Nat
        BY <1>2, <1>4, <2>1, MoveSets
      <3>2. m > stack[sh][i].sent  BY <2>1, <3>1
      <3>3. Fresh(kid)  BY <2>1, <3>1, <3>2 DEF FreshInv
      <3>4. stack[sh][i].job \in Job  BY <3>1 DEF StackInv, FrameInv
      <3>5. kid \in Job  BY <2>1, <3>1, <3>4, Tree
      <3> QED  BY <1>12, <3>3, <3>5
    <2>2. \A q \in Job : result'[q] = "none" /\ q \notin Bodies' => \A k \in Kids(q) : Fresh(k)'
      <3> SUFFICES ASSUME NEW q \in Job, result'[q] = "none", q \notin Bodies', NEW k \in Kids(q)
                   PROVE  Fresh(k)'
        OBVIOUS
      <3>1. q # p  BY <1>7
      <3>2. result[q] = "none" /\ q \notin Bodies  BY <1>7, <1>8, <3>1
      <3>3. Fresh(k)  BY <3>2 DEF FreshInv
      <3>4. k \in Job  BY Tree
      <3> QED  BY <1>12, <3>3, <3>4
    <2>3. \A c \in Client : \A k \in 1 .. Len(Program[c]) :
              /\ k > position'[c]
              /\ stack'[c] = << >> \/ k > position'[c] + 1
              => Fresh(Program[c][k])'
      <3>1. \A c \in Client : \A k \in 1 .. Len(Program[c]) :
                k > position'[c] /\ (stack'[c] = << >> \/ k > position'[c] + 1) =>
                   k > position[c] /\ (stack[c] = << >> \/ k > position[c] + 1)
        BY DEF Ends
      <3>2. \A c \in Client : \A k \in 1 .. Len(Program[c]) : Program[c][k] \in Job  BY Tree
      <3> QED  BY <1>12, <3>1, <3>2 DEF FreshInv
    <2> QED  BY <2>1, <2>2, <2>3 DEF FreshInv, IsBody, Kids
  <1>16. CountInv'  BY <1>13 DEF CountInv
  <1>17. OverInv'
    <2> SUFFICES ASSUME NEW q \in Job, result'[q] # "none"
                 PROVE  Waited(q)' = {} /\ Kids(q) \cap Bodies' = {}
      BY DEF OverInv, Kids
    <2>1. Waited(q) = {} /\ Kids(q) \cap Bodies = {}  BY <1>7 DEF OverInv
    <2> QED  BY <1>8, <1>13, <2>1
  <1>18. ErrorInv'
    <2>1. /\ \A q \in Job : error'[q] => error[q] \/ (f.thrown /\ p \in Kids(q))
          /\ \A q \in Job : error[q] => error'[q]
          /\ \A q \in Job : f.thrown /\ p \in Kids(q) => error'[q] \/ ThrownBody(q)'
      BY DEF Ends, n, f
    <2>2. ASSUME NEW q \in Job, error'[q]
          PROVE  \E k \in Kids(q) : result'[k] = "threw"
      <3>1. CASE error[q]
        <4>1. PICK k \in Kids(q) : result[k] = "threw"  BY <3>1 DEF ErrorInv
        <4>2. k \in Job /\ k # p  BY <1>6, <4>1, Tree
        <4> QED  BY <1>7, <4>1, <4>2
      <3>2. CASE f.thrown /\ p \in Kids(q)
        BY <1>7, <3>2
      <3> QED  BY <2>1, <2>2, <3>1, <3>2
    <2>3. ASSUME NEW q \in Job, NEW k \in Kids(q), result'[k] = "threw"
          PROVE  error'[q] \/ result'[q] = "threw" \/ ThrownBody(q)'
      <3>1. k \in Job  BY Tree
      <3>2. CASE k = p
        <4>1. f.thrown  BY <1>7, <2>3, <3>2
        <4> QED  BY <2>1, <3>2, <4>1
      <3>3. CASE k # p
        <4>1. error[q] \/ result[q] = "threw" \/ ThrownBody(q)
          BY <1>7, <2>3, <3>1, <3>3 DEF ErrorInv
        <4>2. CASE error[q]  BY <2>1, <4>2
        <4>3. CASE result[q] = "threw"  BY <1>6, <1>7, <4>3
        <4>4. CASE ThrownBody(q)
          <5>1. CASE q # p
            <6>1. ThrownBody(q)' \/ \E i \in DOMAIN stack[th] :
                     i \in {n} /\ IsBody(stack[th][i]) /\ stack[th][i].job = q
              BY <1>2, <1>4, <4>4, MoveSets
            <6> QED  BY <1>1, <5>1, <6>1 DEF f
          <5>2. CASE q = p
            <6>1. PICK sh \in Thread : \E i \in DOMAIN stack[sh] :
                     IsBody(stack[sh][i]) /\ stack[sh][i].job = p /\ stack[sh][i].thrown
              BY <4>4, <5>2 DEF ThrownBody
            <6>2. PICK i \in DOMAIN stack[sh] :
                     IsBody(stack[sh][i]) /\ stack[sh][i].job = p /\ stack[sh][i].thrown
              BY <6>1
            <6>3. Clash(stack[sh][i], stack[th][n])  BY <1>1, <6>2, Zenon DEF Clash, f
            <6>4. sh = th /\ i = n  BY <1>1, <6>3 DEF OnceInv
            <6>5. f.thrown  BY <6>2, <6>4 DEF f
            <6> QED  BY <1>7, <5>2, <6>5
          <5> QED  BY <5>1, <5>2
        <4> QED  BY <4>1, <4>2, <4>3, <4>4
      <3> QED  BY <3>2, <3>3
    <2> QED  BY <2>2, <2>3 DEF ErrorInv, Kids
  <1> QED  BY <1>14, <1>15, <1>16, <1>17, <1>18

\* When no job of the running body is counted, none has a body on a stack: one
\* that run called is counted, and one that runs inline would be above it.
LEMMA NobodyWaits ==
  ASSUME PoolInv, NEW th \in Thread, stack[th] # << >>, IsBody(top(th)), top(th).job \in Job,
         Waited(top(th).job) = {}
  PROVE  Kids(top(th).job) \cap Bodies = {}
  <1> DEFINE n == Len(stack[th])
             p == top(th).job
  <1> USE DEF PoolInv
  <1>1. /\ n \in Nat /\ n > 0 /\ n \in DOMAIN stack[th] /\ DOMAIN stack[th] = 1 .. n
        /\ IsBody(stack[th][n]) /\ stack[th][n].job = p
    BY TypeOfTop
  <1> SUFFICES ASSUME NEW k \in Kids(p), k \in Bodies
               PROVE  FALSE
    OBVIOUS
  <1>2. PICK sh \in Thread : \E i \in DOMAIN stack[sh] :
            IsBody(stack[sh][i]) /\ stack[sh][i].job = k
    BY DEF Bodies
  <1>3. PICK i \in DOMAIN stack[sh] : IsBody(stack[sh][i]) /\ stack[sh][i].job = k
    BY <1>2
  <1>4. FrameInv(sh, i)  BY <1>3 DEF StackInv
  <1>5. stack[sh] \in Seq(Frames) /\ i \in 1 .. Len(stack[sh])  BY <1>3 DEF TypeInv
  <1>6. CASE i = 1
    <2>1. /\ sh \in Client /\ position[sh] < Len(Program[sh])
          /\ k = Program[sh][position[sh] + 1]
      BY <1>3, <1>4, <1>6 DEF FrameInv
    <2>2. position[sh] \in Nat  BY <2>1 DEF TypeInv
    <2>3. position[sh] + 1 \in 1 .. Len(Program[sh])  BY <2>1, <2>2, Tree
    <2> QED  BY <2>1, <2>3, Tree
  <1>7. CASE i > 1
    <2> DEFINE b == stack[sh][i - 1]
    <2>1. i - 1 \in DOMAIN stack[sh] /\ i - 1 \in Nat  BY <1>5, <1>7
    <2>2. b \in Frames  BY <1>5, <2>1
    <2>3. FrameInv(sh, i - 1)  BY <2>1 DEF StackInv
    <2>4. \/ b.at = "exec" /\ b.job = k
          \/ b.at = "submit" /\ b.sent > 0 /\ k = Children[b.job][b.sent]
      BY <1>3, <1>4, <1>7 DEF FrameInv, OnTop
    <2>5. IsBody(b) \/ IsRun(b) => b.job \in Job  BY <2>3 DEF FrameInv
    <2>6. IsBody(b) => b.sent <= Len(Children[b.job])  BY <2>3 DEF FrameInv
    <2>7. CASE b.at = "exec" /\ b.job = k
      <3>1. IsRun(b)  BY <2>7 DEF IsRun
      <3>2. k \in Runs  BY <2>1, <2>5, <2>7, <3>1 DEF Runs
      <3> QED  BY <3>2 DEF Waited
    <2>8. CASE b.at = "submit" /\ b.sent > 0 /\ k = Children[b.job][b.sent]
      <3>1. IsBody(b)  BY <2>8 DEF IsBody
      <3>2. b.sent \in 1 .. Len(Children[b.job])
        BY <2>2, <2>5, <2>6, <2>8, <3>1, Tree DEF Frames
      <3>3. k \in Kids(b.job)  BY <2>5, <2>8, <3>1, <3>2, Tree
      <3>4. b.job = p  BY <2>5, <3>1, <3>3, Tree
      <3>5. Clash(stack[sh][i - 1], stack[th][n])  BY <1>1, <3>1, <3>4, Zenon DEF Clash
      <3>6. sh = th /\ i - 1 = n  BY <1>1, <2>1, <3>5 DEF OnceInv
      <3> QED  BY <1>1, <1>5, <3>6
    <2> QED  BY <2>4, <2>7, <2>8
  <1> QED  BY <1>5, <1>6, <1>7

\* What finish finds: a body on top whose jobs are over.
LEMMA FinishFacts ==
  ASSUME PoolInv, NEW th \in Thread, finish(th)
  PROVE  LET n == Len(stack[th])
             f == stack[th][n]
         IN  /\ stack[th] # << >> /\ n \in Nat /\ n > 0 /\ DOMAIN stack[th] = 1 .. n
             /\ f = top(th) /\ f \in Frames /\ IsBody(f) /\ f.job \in Job
             /\ Waited(f.job) = {} /\ Kids(f.job) \cap Bodies = {}
             /\ result' = [result EXCEPT ![f.job] = IF f.thrown THEN "threw" ELSE "ok"]
             /\ UNCHANGED <<queue, num>>
             /\ result[f.job] = "none"
  <1> DEFINE n == Len(stack[th])
             f == stack[th][n]
  <1> USE DEF PoolInv
  <1>1. stack[th] # << >>  BY DEF finish
  <1>2. /\ n \in Nat /\ n > 0 /\ DOMAIN stack[th] = 1 .. n /\ f = top(th) /\ f \in Frames
    BY <1>1, TypeOfTop
  <1>3. /\ (f.at = "submit" /\ Children[f.job] = << >>) \/ (f.at = "leave" /\ num[f.job] = 0)
        /\ result' = [result EXCEPT ![f.job] = IF f.thrown THEN "threw" ELSE "ok"]
        /\ UNCHANGED <<queue, num>>
    BY <1>2 DEF finish, left, wait_over
  <1>4. IsBody(f)  BY <1>3 DEF IsBody
  <1>5. f.job \in Job  BY <1>2, <1>4 DEF StackInv, FrameInv
  <1> HIDE DEF f
  <1>6. Waited(f.job) = {}
    <2>1. CASE Children[f.job] = << >>
      BY <2>1 DEF Waited, Kids
    <2>2. CASE num[f.job] = 0
      <3>1. Cardinality(Waited(f.job)) = 0  BY <1>5, <2>2 DEF CountInv
      <3>2. IsFiniteSet(Waited(f.job))  BY <1>5, KidsFinite, FS_Subset DEF Waited
      <3> QED  BY <3>1, <3>2, FS_EmptySet
    <2> QED  BY <1>3, <2>1, <2>2
  <1>7. Kids(f.job) \cap Bodies = {}
    BY <1>1, <1>2, <1>4, <1>5, <1>6, NobodyWaits
  <1>8. f.job \in Bodies  BY <1>2, <1>4, <1>5 DEF Bodies, f
  <1>9. result[f.job] = "none"  BY <1>8 DEF OnceInv
  <1> QED  BY <1>1, <1>2, <1>3, <1>4, <1>5, <1>6, <1>7, <1>9 DEF f

\* The body that a client began ends.
LEMMA ClientEndKeepsInv ==
  ASSUME PoolInv, NEW th \in Thread, finish(th), Len(stack[th]) = 1
  PROVE  PoolInv'
  <1> DEFINE n == Len(stack[th])
             f == stack[th][n]
             p == f.job
  <1> USE DEF PoolInv
  <1>1. /\ stack[th] # << >> /\ n \in Nat /\ n > 0 /\ DOMAIN stack[th] = 1 .. n
        /\ f = top(th) /\ f \in Frames /\ IsBody(f) /\ p \in Job
    BY FinishFacts
  <1>2. /\ Waited(p) = {} /\ Kids(p) \cap Bodies = {} /\ UNCHANGED <<queue, num>>
        /\ result' = [result EXCEPT ![p] = IF f.thrown THEN "threw" ELSE "ok"]
    BY FinishFacts
  <1>3. return_to_client(th)  BY DEF finish
  <1>4. /\ stack' = [stack EXCEPT ![th] = << >>] /\ error' = error
        /\ position' = [position EXCEPT ![th] = @ + 1]
    BY <1>3 DEF return_to_client
  <1>5. /\ th \in Client /\ position[th] < Len(Program[th]) /\ p = Program[th][position[th] + 1]
    BY <1>1 DEF StackInv, FrameInv
  <1>6. stack'[th] = << >> /\ \A sh \in Thread \ {th} : stack'[sh] = stack[sh]
    BY <1>4 DEF TypeInv
  <1>7. position'[th] = position[th] + 1 /\ \A c \in Client \ {th} : position'[c] = position[c]
    BY <1>4, <1>5 DEF TypeInv
  <1>8. /\ \A q \in Job : result[q] # "none" => result'[q] # "none"
        /\ result' \in [Job -> {"none", "ok", "threw"}]
    BY <1>1, <1>2 DEF TypeInv
  <1> HIDE DEF p, f
  <1>9. TypeInv'
    <2>1. stack' \in [Thread -> Seq(Frames)]  BY <1>4 DEF TypeInv
    <2>2. position' \in [Client -> Nat]  BY <1>4, <1>5 DEF TypeInv
    <2> QED  BY <1>2, <1>4, <1>8, <2>1, <2>2 DEF TypeInv
  <1>10. StackInv'
    <2> SUFFICES ASSUME NEW sh \in Thread, NEW i \in DOMAIN stack'[sh]
                 PROVE  FrameInv(sh, i)'
      BY DEF StackInv
    <2>1. sh # th  BY <1>6
    <2>2. stack'[sh] = stack[sh] /\ i \in DOMAIN stack[sh]  BY <1>6, <2>1
    <2>3. FrameInv(sh, i)  BY <2>2 DEF StackInv
    <2>4. sh \in Client => position'[sh] = position[sh]  BY <1>7, <2>1
    <2> QED  BY <1>8, <2>2, <2>3, <2>4 DEF FrameInv, IsBody, IsRun, IsWait, OnTop
  <1>11. Moves(th, {}, {n})
    <2>1. ASSUME NEW sh \in Thread, NEW i \in DOMAIN stack'[sh]
          PROVE  i \in DOMAIN stack[sh] /\ stack'[sh][i] = stack[sh][i] /\ ~ (sh = th /\ i \in {n})
      <3>1. sh # th  BY <1>6
      <3> QED  BY <1>6, <3>1
    <2>2. ASSUME NEW sh \in Thread, NEW i \in DOMAIN stack[sh], ~ (sh = th /\ i \in {n})
          PROVE  i \in DOMAIN stack'[sh] /\ stack'[sh][i] = stack[sh][i]
      <3>1. sh # th  BY <1>1, <2>2
      <3> QED  BY <1>6, <3>1
    <2> QED  BY <2>1, <2>2 DEF Moves, Alike
  <1>12. \A q \in Job : p \notin Kids(q)
    <2>1. position[th] \in Nat /\ Len(Program[th]) \in Nat  BY <1>5, Tree DEF TypeInv
    <2>2. position[th] + 1 \in 1 .. Len(Program[th])  BY <1>5, <2>1
    <2> QED  BY <1>5, <2>2, Tree
  <1>13. \A c \in Client : \A k \in 1 .. Len(Program[c]) :
            k > position'[c] /\ (stack'[c] = << >> \/ k > position'[c] + 1) =>
               k > position[c] /\ (stack[c] = << >> \/ k > position[c] + 1)
    <2> SUFFICES ASSUME NEW c \in Client, NEW k \in 1 .. Len(Program[c]), k > position'[c],
                        stack'[c] = << >> \/ k > position'[c] + 1
                 PROVE  k > position[c] /\ (stack[c] = << >> \/ k > position[c] + 1)
      OBVIOUS
    <2>1. CASE c = th
      <3>1. position[th] \in Nat /\ k \in Int  BY <1>5, Tree DEF TypeInv
      <3> QED  BY <1>7, <2>1, <3>1
    <2>2. CASE c # th
      BY <1>6, <1>7, <2>2 DEF Thread
    <2> QED  BY <2>1, <2>2
  <1>14. Ends(th, p)
    <2>1. n \in DOMAIN stack[th]  BY <1>1
    <2>2. \A q \in Job : (error'[q] <=> error[q]) /\ p \notin Kids(q)  BY <1>4, <1>12
    <2>3. IsBody(f) /\ f.job = p  BY <1>1 DEF p
    <2> QED  BY <1>2, <1>11, <1>13, <2>1, <2>2, <2>3 DEF Ends, f
  <1> QED  BY <1>1, <1>2, <1>9, <1>10, <1>14, EndKeepsInv

\* The body f was called by the frame b below it, which becomes g.
Returns(th, f, b, g) ==
    /\ Len(stack[th]) > 1
    /\ f = stack[th][Len(stack[th])] /\ b = stack[th][Len(stack[th]) - 1]
    /\ stack' = [stack EXCEPT ![th] = Append(Front(Front(@)), g)]
    /\ position' = position /\ error' \in [Job -> BOOLEAN]
    /\ g \in Frames /\ g.job = b.job /\ g.sent = b.sent
    /\ \/ b.at = "exec" /\ g.at = "dec" /\ g.thrown = b.thrown
       \/ b.at = "submit" /\ g.at = "submit" /\ ~ b.thrown /\ g.thrown = f.thrown
    /\ \A q \in Job : error'[q] => error[q] \/ (f.thrown /\ f.job \in Kids(q))
    /\ \A q \in Job : error[q] => error'[q]
    /\ \A q \in Job : f.thrown /\ f.job \in Kids(q) =>
          error'[q] \/ (g.at = "submit" /\ g.thrown /\ g.job = q)

\* The frame below learns of an exception, or the waiter does.
LEMMA ReturnKeepsInv ==
  ASSUME PoolInv, NEW th \in Thread, finish(th), NEW f, NEW b, NEW g, Returns(th, f, b, g)
  PROVE  PoolInv'
  <1> DEFINE n == Len(stack[th])
             p == f.job
  <1> USE DEF PoolInv, Returns
  <1>1. /\ stack[th] # << >> /\ n \in Nat /\ n > 1 /\ DOMAIN stack[th] = 1 .. n
        /\ f \in Frames /\ IsBody(f) /\ p \in Job
    BY FinishFacts
  <1>2. /\ Waited(p) = {} /\ Kids(p) \cap Bodies = {} /\ UNCHANGED <<queue, num>>
        /\ result' = [result EXCEPT ![p] = IF f.thrown THEN "threw" ELSE "ok"]
    BY FinishFacts
  <1>3. /\ stack' \in [Thread -> Seq(Frames)] /\ Len(stack'[th]) = n - 1
        /\ \A i \in 1 .. (n - 2) : stack'[th][i] = stack[th][i]
        /\ stack'[th][n - 1] = g
        /\ \A sh \in Thread \ {th} : stack'[sh] = stack[sh]
    BY ReturnFacts
  <1>4. /\ result'[p] # "none"
        /\ \A q \in Job : result[q] # "none" => result'[q] # "none"
        /\ result' \in [Job -> {"none", "ok", "threw"}]
    BY <1>1, <1>2 DEF TypeInv
  <1>5. FrameInv(th, n) /\ FrameInv(th, n - 1)
    <2>1. n \in DOMAIN stack[th] /\ n - 1 \in DOMAIN stack[th]  BY <1>1
    <2> QED  BY <2>1 DEF StackInv
  <1>6. b.at = "exec" => b.job = p
    BY <1>1, <1>5 DEF FrameInv, OnTop
  <1>7. DOMAIN stack'[th] = 1 .. (n - 1)
    <2>1. stack'[th] \in Seq(Frames)  BY <1>3
    <2> QED  BY <1>3, <2>1
  <1>8. \A i \in DOMAIN stack'[th] :
            /\ i \in 1 .. (n - 1) /\ i \in DOMAIN stack[th]
            /\ i # n - 1 => stack'[th][i] = stack[th][i]
            /\ i > 1 => stack'[th][i - 1] = stack[th][i - 1]
            /\ i < n /\ i # n
    <2> SUFFICES ASSUME NEW i \in 1 .. (n - 1)
                 PROVE  /\ i \in DOMAIN stack[th]
                        /\ i # n - 1 => stack'[th][i] = stack[th][i]
                        /\ i > 1 => stack'[th][i - 1] = stack[th][i - 1]
                        /\ i < n /\ i # n
      BY <1>7
    <2> HIDE DEF n
    <2>1. i \in DOMAIN stack[th] /\ i < n /\ i # n  BY ONLY <1>1
    <2>2. i # n - 1 => i \in 1 .. (n - 2)  BY ONLY <1>1
    <2>3. i > 1 => i - 1 \in 1 .. (n - 2)  BY ONLY <1>1
    <2> QED  BY ONLY <1>3, <2>1, <2>2, <2>3
  <1>9. stack[th][n] = f /\ stack[th][n - 1] = b /\ n - 1 \in DOMAIN stack'[th]
    BY <1>1, <1>7
  <1>10. Alike(b, g)
    BY <1>1 DEF Alike, IsBody, IsRun
  <1> HIDE DEF n, p
  <1>11. TypeInv'  BY <1>2, <1>3, <1>4 DEF TypeInv
  <1>12. StackInv'
    <2> SUFFICES ASSUME NEW sh \in Thread, NEW i \in DOMAIN stack'[sh]
                 PROVE  FrameInv(sh, i)'
      BY DEF StackInv
    <2>1. CASE sh # th
      <3>1. stack'[sh] = stack[sh] /\ i \in DOMAIN stack[sh]  BY <1>3, <2>1
      <3>2. FrameInv(sh, i)  BY <3>1 DEF StackInv
      <3> QED  BY <1>4, <3>1, <3>2 DEF FrameInv, IsBody, IsRun, IsWait, OnTop
    <2>2. CASE sh = th /\ i # n - 1
      <3>1. i \in DOMAIN stack[th] /\ stack'[th][i] = stack[th][i]  BY <1>8, <2>2
      <3>2. i > 1 => stack'[th][i - 1] = stack[th][i - 1]  BY <1>8, <2>2
      <3>3. i < Len(stack'[th])  BY <1>1, <1>3, <1>8, <2>2
      <3>4. FrameInv(th, i)  BY <3>1 DEF StackInv
      <3> QED  BY <1>4, <2>2, <3>1, <3>2, <3>3, <3>4 DEF FrameInv, IsBody, IsRun, IsWait, OnTop
    <2>3. CASE sh = th /\ i = n - 1
      <3>1. stack'[th][i] = g  BY <1>3, <2>3
      <3>2. i > 1 => stack'[th][i - 1] = stack[th][i - 1]  BY <1>8, <2>3
      <3>3. /\ g.job \in Job
            /\ g.at = "submit" => g.sent <= Len(Children[g.job])
            /\ g.at = "dec" => result'[g.job] # "none"
        BY <1>4, <1>5, <1>6, <1>9 DEF FrameInv, IsBody, IsRun
      <3>4. i > 1 => OnTop(b, stack[th][i - 1])  BY <1>5, <1>9, <2>3 DEF FrameInv
      <3>5. i > 1 => OnTop(g, stack[th][i - 1])  BY <3>4 DEF OnTop, IsBody
      <3>6. i = 1 /\ IsBody(b) => /\ th \in Client /\ position[th] < Len(Program[th])
                                  /\ b.job = Program[th][position[th] + 1]
        BY <1>5, <1>9, <2>3 DEF FrameInv
      <3>7. i = 1 /\ ~ IsBody(b) => th \in Worker
        BY <1>5, <1>9, <2>3 DEF FrameInv
      <3>8. g.at # "exec"  OBVIOUS
      <3>9. IsBody(g) <=> IsBody(b)  BY DEF IsBody
      <3>10. IsBody(g) => g.at = "submit"  BY DEF IsBody
      <3>11. position' = position /\ g.job = b.job /\ Len(stack'[th]) = n - 1
        BY <1>3
      <3>12. i > 1 => OnTop(g, stack'[th][i - 1])  BY <3>2, <3>5
      <3> QED
        BY ONLY <2>3, <3>1, <3>3, <3>6, <3>7, <3>8, <3>9, <3>10, <3>11, <3>12
        DEF FrameInv, IsBody, IsRun, IsWait, OnTop
    <2> QED  BY <2>1, <2>2, <2>3
  <1>13. Moves(th, {}, {n})
    <2>1. ASSUME NEW sh \in Thread, NEW i \in DOMAIN stack'[sh]
          PROVE  /\ i \in DOMAIN stack[sh] /\ Alike(stack[sh][i], stack'[sh][i])
                 /\ ~ (sh = th /\ i \in {n})
      <3>1. CASE sh # th  BY <1>3, <3>1 DEF Alike
      <3>2. CASE sh = th /\ i # n - 1  BY <1>8, <3>2 DEF Alike
      <3>3. CASE sh = th /\ i = n - 1  BY <1>3, <1>8, <1>9, <1>10, <3>3
      <3> QED  BY <3>1, <3>2, <3>3
    <2>2. ASSUME NEW sh \in Thread, NEW i \in DOMAIN stack[sh], ~ (sh = th /\ i \in {n})
          PROVE  i \in DOMAIN stack'[sh]
      <3>1. CASE sh # th  BY <1>3, <3>1
      <3>2. CASE sh = th
        <4>1. i \in 1 .. n /\ i # n  BY <1>1, <2>2, <3>2
        <4> QED  BY <1>1, <1>7, <3>2, <4>1
      <3> QED  BY <3>1, <3>2
    <2> QED  BY <2>1, <2>2 DEF Moves
  <1>14. Ends(th, p)
    <2>1. n \in DOMAIN stack[th]  BY <1>1
    <2>2. IsBody(f) /\ f.job = p  BY <1>1 DEF p
    <2>3. \A q : g.at = "submit" /\ g.thrown /\ g.job = q => ThrownBody(q)'
      BY <1>3, <1>9 DEF ThrownBody, IsBody
    <2>4. \A q \in Job : f.thrown /\ p \in Kids(q) => error'[q] \/ ThrownBody(q)'
      BY <2>3 DEF p
    <2>5. \A q \in Job : error'[q] => error[q] \/ (f.thrown /\ p \in Kids(q))
      BY DEF p
    <2>6. \A c \in Client : stack'[c] = << >> => stack[c] = << >>
      <3>1. stack'[th] # << >>  BY <1>9
      <3> QED  BY <1>3, <3>1 DEF Thread
    <2>7. \A c \in Client : \A k \in 1 .. Len(Program[c]) :
              k > position'[c] /\ (stack'[c] = << >> \/ k > position'[c] + 1) =>
                 k > position[c] /\ (stack[c] = << >> \/ k > position[c] + 1)
      BY <2>6
    <2>8. Ends(th, p) <=>
            /\ n \in DOMAIN stack[th] /\ IsBody(f) /\ f.job = p
            /\ Moves(th, {}, {n})
            /\ result' = [result EXCEPT ![p] = IF f.thrown THEN "threw" ELSE "ok"]
            /\ \A q \in Job : error'[q] => error[q] \/ (f.thrown /\ p \in Kids(q))
            /\ \A q \in Job : error[q] => error'[q]
            /\ \A q \in Job : f.thrown /\ p \in Kids(q) => error'[q] \/ ThrownBody(q)'
            /\ \A c \in Client : \A k \in 1 .. Len(Program[c]) :
                  k > position'[c] /\ (stack'[c] = << >> \/ k > position'[c] + 1) =>
                     k > position[c] /\ (stack[c] = << >> \/ k > position[c] + 1)
      BY Zenon DEF Ends, n
    <2> QED  BY <1>2, <1>13, <2>1, <2>2, <2>4, <2>5, <2>7, <2>8
  <1> QED  BY <1>1, <1>2, <1>11, <1>12, <1>14, EndKeepsInv

\* The end of a body, whoever called it.
LEMMA FinishKeepsInv ==
  ASSUME PoolInv, NEW th \in Thread, finish(th)
  PROVE  PoolInv'
  <1> DEFINE n == Len(stack[th])
             f == stack[th][n]
             b == stack[th][n - 1]
             p == f.job
  <1> USE DEF PoolInv
  <1>1. /\ stack[th] # << >> /\ n \in Nat /\ n > 0 /\ DOMAIN stack[th] = 1 .. n
        /\ f = top(th) /\ f \in Frames /\ IsBody(f) /\ p \in Job
    BY FinishFacts
  <1>2. CASE n = 1  BY <1>2, ClientEndKeepsInv
  <1>3. CASE n > 1
    <2>1. b = Last(Front(stack[th])) /\ b \in Frames
      <3> DEFINE s == stack[th]
                 t == Front(s)
      <3>1. s \in Seq(Frames) /\ s # << >>  BY <1>1 DEF TypeInv
      <3> HIDE DEF s
      <3>2. t \in Seq(Frames) /\ Len(t) = Len(s) - 1 /\ Len(s) \in Nat
            /\ \A i \in 1 .. (Len(s) - 1) : t[i] = s[i]
        BY <3>1, FrontFacts
      <3>3. Len(s) > 1  BY <1>3 DEF s
      <3> HIDE DEF t
      <3>4. t # << >>  BY <3>2, <3>3
      <3>5. Last(t) \in Frames /\ Last(t) = t[Len(t)]  BY <3>2, <3>4, FrontFacts
      <3>6. Last(t) = s[Len(s) - 1]  BY <3>2, <3>3, <3>5
      <3> QED  BY <3>5, <3>6 DEF s, t
    <2>2. FrameInv(th, n) /\ FrameInv(th, n - 1)
      <3>1. n \in DOMAIN stack[th] /\ n - 1 \in DOMAIN stack[th]  BY <1>1, <1>3
      <3> QED  BY <3>1 DEF StackInv
    <2>3. OnTop(f, b)  BY <1>3, <2>2 DEF FrameInv
    <2>4. IF b.at = "exec" THEN return_to_run(th, f, b) ELSE return_inline(th, f, b)
      BY <1>1, <1>3, <2>1 DEF finish
    <2> HIDE DEF f, b
    <2>5. CASE b.at = "exec"
      <3> DEFINE g == [b EXCEPT !.at = "dec"]
      <3>1. /\ stack' = [stack EXCEPT ![th] = Append(Front(Front(@)), g)]
            /\ set_error(f) /\ position' = position
        BY <2>4, <2>5 DEF return_to_run
      <3>2. /\ g \in Frames /\ g.at = "dec" /\ g.job = b.job /\ g.sent = b.sent
            /\ g.thrown = b.thrown
        BY <2>1 DEF Frames, Places
      <3>3. b.job = p /\ IsRun(b)  BY <1>1, <2>3, <2>5 DEF OnTop, IsBody, IsRun
      <3>4. p \in Runs
        <4>1. n - 1 \in DOMAIN stack[th]  BY <1>1, <1>3
        <4> QED  BY <1>1, <3>3, <4>1 DEF Runs, b
      <3>5. PICK q \in Job : p \in Kids(q)  BY <3>4 DEF OnceInv
      <3>6. Parent(p) = q /\ \A r \in Job : p \in Kids(r) => r = q
        BY <3>5, ParentOf, Tree
      <3>7. error' = IF f.thrown THEN [error EXCEPT ![q] = TRUE] ELSE error
        BY <3>1, <3>6 DEF set_error
      <3>8. /\ error' \in [Job -> BOOLEAN]
            /\ \A r \in Job : error'[r] => error[r] \/ (f.thrown /\ p \in Kids(r))
            /\ \A r \in Job : error[r] => error'[r]
            /\ \A r \in Job : f.thrown /\ p \in Kids(r) => error'[r]
        BY <3>5, <3>6, <3>7 DEF TypeInv
      <3>9. \A r \in Job : f.thrown /\ p \in Kids(r) =>
                error'[r] \/ (g.at = "submit" /\ g.thrown /\ g.job = r)
        BY <3>8
      <3>10. f = stack[th][Len(stack[th])] /\ b = stack[th][Len(stack[th]) - 1]
        BY DEF f, b
      <3>11. Len(stack[th]) > 1  BY <1>3
      <3> HIDE DEF g
      <3>12. Returns(th, f, b, g)
        BY ONLY <2>5, <3>1, <3>2, <3>8, <3>9, <3>10, <3>11 DEF Returns
      <3> QED  BY <3>12, ReturnKeepsInv
    <2>6. CASE b.at # "exec"
      <3> DEFINE g == [b EXCEPT !.thrown = f.thrown]
      <3>1. /\ stack' = [stack EXCEPT ![th] = Append(Front(Front(@)), g)]
            /\ error' = error /\ position' = position
        BY <2>4, <2>6 DEF return_inline
      <3>2. /\ g \in Frames /\ g.at = b.at /\ g.job = b.job /\ g.sent = b.sent
            /\ g.thrown = f.thrown
        BY <1>1, <2>1 DEF Frames
      <3>3. /\ b.at = "submit" /\ ~ b.thrown /\ b.sent > 0 /\ p = Children[b.job][b.sent]
        BY <1>1, <2>3, <2>6 DEF OnTop
      <3>4. b.job \in Job /\ b.sent <= Len(Children[b.job])
        BY <2>2, <3>3 DEF FrameInv, IsBody, b
      <3>5. p \in Kids(b.job)
        <4>1. b.sent \in 1 .. Len(Children[b.job])  BY <2>1, <3>3, <3>4, Tree DEF Frames
        <4> QED  BY <3>3, <3>4, <4>1, Tree
      <3>6. \A r \in Job : p \in Kids(r) => r = b.job  BY <3>4, <3>5, Tree
      <3>7. \A r \in Job : f.thrown /\ p \in Kids(r) =>
                error'[r] \/ (g.at = "submit" /\ g.thrown /\ g.job = r)
        BY <3>2, <3>3, <3>6
      <3>8. error' \in [Job -> BOOLEAN]  BY <3>1 DEF TypeInv
      <3>9. \A r \in Job : (error'[r] => error[r]) /\ (error[r] => error'[r])  BY <3>1
      <3>10. f = stack[th][Len(stack[th])] /\ b = stack[th][Len(stack[th]) - 1]
        BY DEF f, b
      <3>11. Len(stack[th]) > 1  BY <1>3
      <3> HIDE DEF g
      <3>12. Returns(th, f, b, g)
        BY ONLY <3>1, <3>2, <3>3, <3>7, <3>8, <3>9, <3>10, <3>11 DEF Returns
      <3> QED  BY <3>12, ReturnKeepsInv
    <2> QED  BY <2>5, <2>6
  <1> HIDE DEF n, f, b, p, PoolInv
  <1>4. n = 1 \/ n > 1  BY <1>1
  <1> QED  BY <1>2, <1>3, <1>4

----------------------------------------------------------------------------
(* The theorems.                                                           *)

\* At the start every job is fresh.
LEMMA PoolInit ==
  ASSUME Init
  PROVE  PoolInv
  <1>1. \A th \in Thread :
            /\ th \in Worker => stack[th] = <<Frame("take", NoJob)>>
            /\ th \notin Worker => stack[th] = << >>
    BY DEF Init
  <1>2. /\ Frame("take", NoJob) \in Frames /\ Frame("take", NoJob).at = "take"
    BY DEF Frames, Frame, Places
  <1>3. \A th \in Thread : \A i \in DOMAIN stack[th] :
            i = 1 /\ stack[th][i].at = "take" /\ th \in Worker
    BY <1>1, <1>2
  <1>4. /\ queue = << >> /\ num = [j \in Job |-> 0] /\ error = [j \in Job |-> FALSE]
        /\ result = [j \in Job |-> "none"] /\ position = [c \in Client |-> 0]
    BY DEF Init
  <1>5. TypeInv
    <2>0. \A g \in Frames : <<g>> \in Seq(Frames)  OBVIOUS
    <2>1. \A th \in Thread : stack[th] \in Seq(Frames)
      <3>1. << >> \in Seq(Frames)  OBVIOUS
      <3> QED  BY <1>1, <1>2, <2>0, <3>1, Zenon
    <2>2. stack \in [Thread -> Seq(Frames)]  BY <2>1 DEF Init
    <2> QED  BY <1>4, <2>2 DEF TypeInv
  <1>6. Bodies = {} /\ Runs = {}  BY <1>3 DEF Bodies, Runs, IsBody, IsRun
  <1>7. Queued = {}  BY <1>4 DEF Queued
  <1>8. \A j \in Job : Fresh(j)  BY <1>4, <1>6, <1>7 DEF Fresh
  <1>9. StackInv  BY <1>3 DEF StackInv, FrameInv, IsBody, IsRun
  <1>10. OnceInv
    <2>1. \A th, sh \in Thread : \A i \in DOMAIN stack[th] : \A k \in DOMAIN stack[sh] :
              ~ Clash(stack[th][i], stack[sh][k])
      BY <1>3 DEF Clash, IsBody, IsRun
    <2> QED  BY <1>4, <1>6, <1>7, <2>1 DEF OnceInv
  <1>11. FreshInv
    <2>1. \A th \in Thread : \A i \in DOMAIN stack[th] : ~ IsBody(stack[th][i])
      BY <1>3 DEF IsBody
    <2>2. \A j \in Job : \A k \in Kids(j) : Fresh(k)  BY <1>8, Tree
    <2>3. \A c \in Client : \A n \in 1 .. Len(Program[c]) : Fresh(Program[c][n])
      BY <1>8, Tree
    <2> QED  BY <2>1, <2>2, <2>3 DEF FreshInv
  <1>12. \A j \in Job : Waited(j) = {}  BY <1>6, <1>7 DEF Waited
  <1>13. CountInv  BY <1>4, <1>12, FS_EmptySet DEF CountInv
  <1>14. OverInv  BY <1>4 DEF OverInv
  <1>15. ErrorInv
    <2>1. \A j \in Job : \A k \in Kids(j) : result[k] # "threw"  BY <1>4, Tree
    <2> QED  BY <1>4, <2>1 DEF ErrorInv
  <1> QED  BY <1>5, <1>9, <1>10, <1>11, <1>13, <1>14, <1>15 DEF PoolInv

\* Every step keeps the invariant.
LEMMA PoolStep ==
  ASSUME PoolInv, [Next]_vars
  PROVE  PoolInv'
  <1>1. ASSUME NEW th \in Thread, Step(th)  PROVE PoolInv'
    <2>1. CASE th \in Client /\ begin(th)  BY <2>1, BeginKeepsInv
    <2>2. CASE submit(th)
      BY <2>2, EnqueueKeepsInv, InlineKeepsInv
    <2>3. CASE wait(th) \/ destroy(th)  BY <2>3, WaitKeepsInv DEF wait, destroy
    <2>4. CASE finish(th)  BY <2>4, FinishKeepsInv
    <2>5. CASE take(th)  BY <2>5, TakeKeepsInv
    <2>6. CASE flushed(th)  BY <2>6, FlushedKeepsInv
    <2>7. CASE has_work_wait(th)  BY <2>7, StutterKeepsInv DEF has_work_wait
    <2>8. CASE dec(th)  BY <2>8, DecKeepsInv
    <2>9. CASE served(th)  BY <2>9, ServedKeepsInv
    <2> QED  BY <1>1, <2>1, <2>2, <2>3, <2>4, <2>5, <2>6, <2>7, <2>8, <2>9 DEF Step
  <1>2. ASSUME NEW th \in Thread, throw(th)  PROVE PoolInv'
    BY <1>2, ThrowKeepsInv
  <1>3. ASSUME UNCHANGED vars  PROVE PoolInv'
    BY <1>3, StutterKeepsInv DEF vars
  <1> QED  BY <1>1, <1>2, <1>3 DEF Next, Idle

\* A job is fresh, queued, running or over and never twice, and the counter of
\* every waiter (threadpool.cpp, inc and dec) is the number of its jobs that are
\* queued or in the hands of run.
THEOREM ThreadPoolInvariant == Spec => []PoolInv
  <1>1. Init => PoolInv  BY PoolInit
  <1>2. PoolInv /\ [Next]_vars => PoolInv'  BY PoolStep
  <1> QED  BY <1>1, <1>2, PTL DEF Spec

\* When a body is over, by return or by exception, none of the jobs it gave to
\* submit is queued or running, for any pool and any tree of jobs: what they
\* hold by reference is still there.
THEOREM NoJobOutlives == Spec => []NoJobOutlivesBody
  <1>1. PoolInv => NoJobOutlivesBody
    <2> SUFFICES ASSUME PoolInv, NEW j \in Job, result[j] # "none"
                 PROVE  /\ ChildrenOf(j) \cap Range(queue) = {}
                        /\ \A th \in Thread : \A i \in DOMAIN stack[th] :
                              stack[th][i].at \in {"submit", "wait", "leave"}
                                 => stack[th][i].job \notin ChildrenOf(j)
      BY DEF NoJobOutlivesBody
    <2> USE DEF PoolInv
    <2>1. Waited(j) = {} /\ Kids(j) \cap Bodies = {}  BY DEF OverInv
    <2>2. Range(queue) = Queued  BY DEF Range, Queued
    <2>3. Kids(j) = ChildrenOf(j)  BY Tree
    <2>4. ChildrenOf(j) \cap Range(queue) = {}  BY <2>1, <2>2, <2>3 DEF Waited
    <2>5. ASSUME NEW th \in Thread, NEW i \in DOMAIN stack[th],
                 stack[th][i].at \in {"submit", "wait", "leave"}
          PROVE  stack[th][i].job \notin ChildrenOf(j)
      <3>1. IsBody(stack[th][i])  BY <2>5 DEF IsBody
      <3>2. stack[th][i].job \in Job  BY <3>1 DEF StackInv, FrameInv
      <3>3. stack[th][i].job \in Bodies  BY <3>1, <3>2 DEF Bodies
      <3> QED  BY <2>1, <2>3, <3>3
    <2> QED  BY <2>4, <2>5
  <1> QED  BY <1>1, ThreadPoolInvariant, PTL

\* A body that comes to the end of its wait and returns knows from the waiter's
\* error flag whether one of its jobs threw, and is never told of an error that
\* did not happen.
THEOREM WaitTells == Spec => []WaitTellsErrors
  <1>1. PoolInv => WaitTellsErrors
    <2> SUFFICES ASSUME PoolInv, NEW j \in Job, result[j] = "ok"
                 PROVE  error[j] <=> \E k \in ChildrenOf(j) : result[k] = "threw"
      BY DEF WaitTellsErrors
    <2> USE DEF PoolInv
    <2>1. Kids(j) = ChildrenOf(j)  BY Tree
    <2>2. error[j] => \E k \in ChildrenOf(j) : result[k] = "threw"
      BY <2>1 DEF ErrorInv
    <2>3. ~ ThrownBody(j)
      <3>1. ThrownBody(j) => j \in Bodies  BY DEF ThrownBody, Bodies
      <3>2. j \notin Bodies  BY DEF OnceInv
      <3> QED  BY <3>1, <3>2
    <2>4. (\E k \in ChildrenOf(j) : result[k] = "threw") => error[j]
      BY <2>1, <2>3 DEF ErrorInv
    <2>5. error[j] \in BOOLEAN  BY DEF TypeInv
    <2> QED  BY <2>2, <2>4, <2>5
  <1> QED  BY <1>1, ThreadPoolInvariant, PTL
=============================================================================
