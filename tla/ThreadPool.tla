----------------------------- MODULE ThreadPool -----------------------------
(***************************************************************************)
(* The thread pool, src/common/threadpool.cpp: jobs are queued or run at   *)
(* once by the thread that submits them, and a thread that waits for its   *)
(* jobs serves the queue meanwhile, whoever the jobs belong to.            *)
(*                                                                         *)
(* A job's body submits its children one by one and then waits for them    *)
(* with a waiter of its own (every caller in the repository has this       *)
(* shape), so the waiter of a job is known by the job's name.  The         *)
(* destructor of the waiter waits again, and alone when the body throws.   *)
(* Clients are threads outside the pool, each with a sequence of bodies to *)
(* run: what escapes from one is caught before the next.                   *)
(*                                                                         *)
(* A thread is a stack of frames, the running one last.  at says where it  *)
(* is: "submit", "wait" and "leave" (the destructor of the waiter) are     *)
(* places in a body, "take", "exec", "dec" and "post" in threadpool::run.  *)
(* A step is what happens under one mutex.                                 *)
(***************************************************************************)
EXTENDS Integers, Sequences, FiniteSets, SequencesExt

CONSTANTS Worker, Client, Job, NoJob,
          Children,   \* Children[j]: the jobs the body of j submits
          Leaf,       \* jobs submitted with leaf = true
          Program,    \* Program[c]: the bodies client c runs
          MayThrow    \* jobs that may throw

Thread == Worker \cup Client
ChildrenOf(j) == Range(Children[j])
max == Cardinality(Worker) + 1

ASSUME ThreadPoolAssumption ==
    /\ Worker \cap Client = {} /\ NoJob \notin Job
    /\ Children \in [Job -> Seq(Job)]
    /\ Program \in [Client -> Seq(Job)]
    /\ \A j \in Leaf : Children[j] = << >>   \* "A leaf routine is using a thread pool"
    \* A job is one submission: no name is used at two places.
    /\ \A j, k \in Job : j # k => ChildrenOf(j) \cap ChildrenOf(k) = {}
    /\ \A j \in Job : IsInjective(Children[j])
    /\ \A c \in Client : IsInjective(Program[c])
    /\ \A c, d \in Client : c # d => Range(Program[c]) \cap Range(Program[d]) = {}
    /\ \A c \in Client, j \in Job : Range(Program[c]) \cap ChildrenOf(j) = {}

Parent(j) == CHOOSE p \in Job : j \in ChildrenOf(p)

VARIABLES queue,      \* queue: jobs, each with the waiter of its parent
          active,     \* active
          sleeping,   \* workers blocked in has_work.wait
          stack,      \* the frames of each thread
          depth,      \* depth, a thread-local variable
          num,        \* num[j]: the counter of the waiter of j
          error,      \* error[j]: its error_flag
          result,     \* result[j]: how j ended
          position    \* position[c]: bodies that client c has finished

vars == <<queue, active, sleeping, stack, depth, num, error, result, position>>

Frame(at, job) == [at |-> at, job |-> job, sent |-> 0, thrown |-> FALSE]

top(th) == Last(stack[th])
Running(th, at) == stack[th] # << >> /\ top(th).at = at

\* The running frame of th becomes f; a frame is put on top of it.
Become(th, f) == stack' = [stack EXCEPT ![th] = Append(Front(@), f)]
Push(th, f, frame) == stack' = [stack EXCEPT ![th] = Front(@) \o <<f, frame>>]

----------------------------------------------------------------------------
(* submit.                                                                 *)

\* The calling thread is inside a job, or every thread is busy.
runs_inline(th, j) == j \notin Leaf /\ (depth[th] > 0 \/ (active = max /\ queue # << >>))

run_inline(th, f, j) ==
    /\ depth' = [depth EXCEPT ![th] = @ + 1]
    /\ Push(th, [f EXCEPT !.sent = @ + 1], Frame("submit", j))
    /\ UNCHANGED <<queue, sleeping, num>>

\* inc, the queue, notify_one.
enqueue(th, f, j) ==
    /\ num' = [num EXCEPT ![f.job] = @ + 1]
    /\ queue' = IF j \in Leaf THEN <<j>> \o queue ELSE Append(queue, j)
    /\ Become(th, [f EXCEPT !.sent = @ + 1])
    /\ sleeping' \in IF sleeping = {} THEN {{}} ELSE {sleeping \ {w} : w \in sleeping}
    /\ UNCHANGED depth

submit(th) ==
    /\ Running(th, "submit")
    /\ LET f == top(th)
           j == Children[f.job][f.sent + 1]
       IN  /\ ~ f.thrown /\ f.sent < Len(Children[f.job])
           /\ IF runs_inline(th, j) THEN run_inline(th, f, j) ELSE enqueue(th, f, j)
    /\ UNCHANGED <<active, error, result, position>>

throw(th) ==
    /\ Running(th, "submit") /\ ~ top(th).thrown /\ top(th).job \in MayThrow
    /\ Become(th, [top(th) EXCEPT !.thrown = TRUE])
    /\ UNCHANGED <<queue, active, sleeping, depth, num, error, result, position>>

----------------------------------------------------------------------------
(* waiter::wait, from the body and again from ~waiter; the end of a body.  *)

body_over(f) == f.thrown \/ f.sent = Len(Children[f.job])

\* pool.run(true) in wait: the thread serves the queue.
serve(th, at) ==
    /\ Push(th, [top(th) EXCEPT !.at = at], Frame("take", NoJob))
    /\ UNCHANGED <<queue, active, sleeping, depth, num, error, result, position>>

wait_again(th) ==   \* mutant: serves the queue again without looking at num
    /\ Running(th, "submit") \/ Running(th, "wait")
    /\ body_over(top(th)) /\ Children[top(th).job] # << >>
    /\ serve(th, "wait")

\* The body's own wait; a body that has thrown goes to the destructor's.
wait(th) ==
    /\ Running(th, "submit")
    /\ body_over(top(th)) /\ Children[top(th).job] # << >>
    /\ serve(th, IF top(th).thrown THEN "leave" ELSE "wait")

wait_over(f) == num[f.job] = 0

\* The body's wait is over; ~waiter waits once more.
destroy(th) ==
    /\ Running(th, "wait") /\ wait_over(top(th))
    /\ serve(th, "leave")

left_any(f) == f.at = "leave"   \* mutant
left(f) == f.at = "leave" /\ wait_over(f)

error_lost(f) == UNCHANGED error   \* mutant
\* What catches an exception in run.
set_error(f) ==
    error' = IF f.thrown THEN [error EXCEPT ![Parent(f.job)] = TRUE] ELSE error

\* A job that ran in the submitting thread: depth is not given back when it
\* throws, and the exception goes on in the submitting body.
return_inline(th, f, below) ==
    /\ depth' = IF f.thrown THEN depth ELSE [depth EXCEPT ![th] = @ - 1]
    /\ stack' = [stack EXCEPT ![th] =
                    Append(Front(Front(@)), [below EXCEPT !.thrown = f.thrown])]
    /\ UNCHANGED <<error, position>>

return_to_run(th, f, below) ==
    /\ depth' = [depth EXCEPT ![th] = @ - 1]
    /\ set_error(f)
    /\ stack' = [stack EXCEPT ![th] = Append(Front(Front(@)), [below EXCEPT !.at = "dec"])]
    /\ UNCHANGED position

return_to_client(th) ==
    /\ stack' = [stack EXCEPT ![th] = << >>]
    /\ position' = [position EXCEPT ![th] = @ + 1]
    /\ UNCHANGED <<depth, error>>

finish(th) ==
    /\ stack[th] # << >>
    /\ LET f == top(th)
       IN  /\ \/ f.at = "submit" /\ body_over(f) /\ Children[f.job] = << >>
              \/ left(f)
           /\ result' = [result EXCEPT ![f.job] = IF f.thrown THEN "threw" ELSE "ok"]
           /\ IF Len(stack[th]) = 1 THEN return_to_client(th)
              ELSE LET below == Last(Front(stack[th]))
                   IN  IF below.at = "exec" THEN return_to_run(th, f, below)
                       ELSE return_inline(th, f, below)
    /\ UNCHANGED <<queue, active, sleeping, num>>

----------------------------------------------------------------------------
(* run: flush for a thread that waits, for ever in a worker.               *)

flush(th) == Len(stack[th]) > 1 \/ th \in Client

take(th) ==
    /\ Running(th, "take") /\ th \notin sleeping
    /\ queue # << >>
    /\ active' = active + 1
    /\ queue' = Tail(queue)
    /\ depth' = [depth EXCEPT ![th] = @ + 1]
    /\ Push(th, Frame("exec", Head(queue)), Frame("submit", Head(queue)))
    /\ UNCHANGED <<sleeping, num, error, result, position>>

flushed(th) ==
    /\ Running(th, "take") /\ queue = << >> /\ flush(th)
    /\ stack' = [stack EXCEPT ![th] = Front(@)]
    /\ UNCHANGED <<queue, active, sleeping, depth, num, error, result, position>>

has_work_wait(th) ==
    /\ Running(th, "take") /\ queue = << >> /\ ~ flush(th) /\ th \notin sleeping
    /\ sleeping' = sleeping \cup {th}
    /\ UNCHANGED <<queue, active, stack, depth, num, error, result, position>>

dec(th) ==
    /\ Running(th, "dec")
    /\ num' = [num EXCEPT ![Parent(top(th).job)] = @ - 1]
    /\ Become(th, [top(th) EXCEPT !.at = "post"])
    /\ UNCHANGED <<queue, active, sleeping, depth, error, result, position>>

served(th) ==
    /\ Running(th, "post")
    /\ active' = active - 1
    /\ Become(th, Frame("take", NoJob))
    /\ UNCHANGED <<queue, sleeping, depth, num, error, result, position>>

----------------------------------------------------------------------------
(* The specification.                                                      *)

begin(c) ==
    /\ stack[c] = << >> /\ position[c] < Len(Program[c])
    /\ stack' = [stack EXCEPT ![c] = <<Frame("submit", Program[c][position[c] + 1])>>]
    /\ UNCHANGED <<queue, active, sleeping, depth, num, error, result, position>>

Init ==
    /\ queue = << >> /\ active = 0 /\ sleeping = {}
    /\ stack = [th \in Thread |-> IF th \in Worker THEN <<Frame("take", NoJob)>> ELSE << >>]
    /\ depth = [th \in Thread |-> 0]
    /\ num = [j \in Job |-> 0]
    /\ error = [j \in Job |-> FALSE]
    /\ result = [j \in Job |-> "none"]
    /\ position = [c \in Client |-> 0]

Step(th) ==
    \/ th \in Client /\ begin(th)
    \/ submit(th) \/ wait(th) \/ destroy(th) \/ finish(th)
    \/ take(th) \/ flushed(th) \/ has_work_wait(th) \/ dec(th) \/ served(th)

AllDone ==
    /\ \A c \in Client : stack[c] = << >> /\ position[c] = Len(Program[c])
    /\ sleeping = Worker

\* The clients have nothing left to do and the workers wait for work.
Idle == AllDone /\ UNCHANGED vars

Next == \/ \E th \in Thread : Step(th) \/ throw(th)
        \/ Idle

\* The scheduler runs every thread; nobody has to throw.
Spec == Init /\ [][Next]_vars /\ \A th \in Thread : WF_vars(Step(th))

----------------------------------------------------------------------------
(* Properties.                                                             *)

\* When a body is over, by return or by exception, none of its jobs is queued
\* or running: they use its local variables by reference.
NoJobOutlivesBody ==
    \A j \in Job : result[j] # "none" =>
        /\ ChildrenOf(j) \cap Range(queue) = {}
        /\ \A th \in Thread : \A i \in DOMAIN stack[th] : stack[th][i].at \in {"submit", "wait", "leave"}
              => stack[th][i].job \notin ChildrenOf(j)

\* "Wait for a set of tasks to finish, returns false iff any error"
\* (threadpool.h): a body that gets to the end of its wait knows whether one
\* of its jobs threw.
WaitTellsErrors ==
    \A j \in Job : result[j] = "ok" =>
        (error[j] <=> \E k \in ChildrenOf(j) : result[k] = "threw")

\* Every client gets to its end, although waiting threads take up other
\* clients' jobs, whose bodies wait in turn.
ClientsFinish == \A c \in Client : <>(position[c] = Len(Program[c]))

(* One statement that the code does not keep; see the README.              *)

\* "if all available threads are already running and there's work waiting, just
\* run in current thread": a client that is not inside a job runs one itself
\* only then.
InlineOnlyWhenBusy ==
    [][\A c \in Client :
          Len(stack[c]) = 1 /\ Len(stack'[c]) = 2 /\ Last(stack'[c]).at = "submit"
             => active = max /\ queue # << >>]_vars
=============================================================================
