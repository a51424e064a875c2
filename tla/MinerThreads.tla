---------------------------- MODULE MinerThreads ----------------------------
(***************************************************************************)
(* The threads of the miner, src/cryptonote_basic/miner.cpp: start, stop,  *)
(* the autodetection of the number of threads, the worker threads and the  *)
(* controller of background mining.                                        *)
(*                                                                         *)
(* start and stop are called by threads of the RPC server, which ask       *)
(* is_mining first, by the ZMQ handler, which does not, and stop by the    *)
(* core at shutdown.  update_autodetection runs in the idle thread.  A     *)
(* step is what a thread does between two reads or writes of what others   *)
(* may change meanwhile; only start and stop hold m_threads_lock all the   *)
(* way.  A thread that a list forgets goes on: boost::thread detaches.     *)
(*                                                                         *)
(* m_threads, m_threads_total and m_threads_autodetect are written without *)
(* a common lock.  The outcome modelled is the mild one, in which every    *)
(* operation on them takes effect at some moment; back() of a vector that  *)
(* stop has just emptied writes to memory that is no longer part of it.    *)
(***************************************************************************)
EXTENDS Integers, FiniteSets

CONSTANTS Rpc, Zmq, Core,   \* threads that call start and stop
          Idle, NoOne,
          Worker,           \* names of worker threads: a bound
          Controller,       \* names of background threads: a bound
          Address,
          Usages,           \* sets of pairs of threads_count and do_background; 0 asks for autodetection
          MaxThreads        \* most threads a restart or the autodetection asks for: a bound

Caller == Rpc \cup Zmq \cup Core

ASSUME MinerAssumption ==
    /\ Usages \subseteq SUBSET (Nat \X BOOLEAN) /\ MaxThreads \in Nat
    /\ {Idle, NoOne} \cap Caller = {} /\ NoOne \notin Controller

VARIABLES m_stop,
          lock,         \* who holds m_threads_lock
          m_threads,    \* the workers whose threads are in the list
          active,       \* m_threads_active
          total,        \* m_threads_total
          autodetect,   \* m_threads_autodetect.size()
          address,      \* m_mine_address
          enabled,      \* m_is_background_mining_enabled
          started,      \* m_is_background_mining_started
          handle,       \* the thread m_background_mining_thread stands for
          worker,       \* where each worker is; "none" before and after its life
          control,      \* where each background thread is
          interrupted,  \* background threads with an interruption pending
          call,         \* call[c]: where caller c is, with its arguments
          idle,         \* where the idle thread is, with its loop counter
          usage,        \* what those who start the miner ask for; chosen once
          obeyed        \* the arguments of the start in force, NoArgs after a stop

miner == <<m_stop, lock, m_threads, active, total, autodetect, address, enabled, started, handle>>
vars == <<miner, worker, control, interrupted, call, idle, usage, obeyed>>

is_mining == ~m_stop
NoArgs == [adr |-> NoOne, count |-> 0, background |-> FALSE]
At(c, at) == call[c].at = at
Alive == {w \in Worker : worker[w] # "none"}

Go(c, at) == call' = [call EXCEPT ![c].at = at]
GoIdle(at, i) == idle' = [at |-> at, i |-> i]

Init ==
    /\ m_stop = TRUE /\ lock = NoOne /\ m_threads = {} /\ active = 0
    /\ total = 0 /\ autodetect = 0 /\ address = NoOne
    /\ enabled = FALSE /\ started = FALSE /\ handle = NoOne
    /\ worker = [w \in Worker |-> "none"]
    /\ control = [k \in Controller |-> "none"] /\ interrupted = {}
    /\ call = [c \in Caller |-> [at |-> "out", args |-> NoArgs, i |-> 0]]
    /\ idle = [at |-> "out", i |-> 0]
    /\ usage \in Usages /\ obeyed = NoArgs

\* m_threads.push_back(boost::thread(...)): a new thread, which has yet to run.
push_back(w) ==
    /\ worker[w] = "none" /\ w \notin m_threads
    /\ m_threads' = m_threads \cup {w}
    /\ worker' = [worker EXCEPT ![w] = "starting"]

----------------------------------------------------------------------------
(* start.                                                                  *)

\* The RPC server asks is_mining, the ZMQ handler calls start at once.
on_start_mining(c, args) ==
    /\ At(c, "out") /\ c \notin Core
    /\ c \in Rpc => ~is_mining
    /\ call' = [call EXCEPT ![c] = [at |-> "start", args |-> args, i |-> 0]]
    /\ UNCHANGED <<miner, worker, control, interrupted, idle, usage, obeyed>>

\* What start writes before it takes the lock.
start_unlocked(c) ==
    LET args == call[c].args IN
    /\ At(c, "start")
    /\ address' = args.adr
    /\ total' = IF args.count = 0 THEN 1 ELSE args.count
    /\ autodetect' = IF args.count = 0 THEN 1 ELSE autodetect
    /\ Go(c, "start_lock")
    /\ UNCHANGED <<m_stop, lock, m_threads, active, enabled, started, handle>>
    /\ UNCHANGED <<worker, control, interrupted, idle, usage, obeyed>>

\* "it's already started", "there are active mining threads".
start_refused(c) ==
    /\ At(c, "start_lock") /\ lock = NoOne
    /\ is_mining \/ m_threads # {}
    /\ Go(c, "out")
    /\ UNCHANGED <<miner, worker, control, interrupted, idle, usage, obeyed>>

start_locked(c) ==
    /\ At(c, "start_lock") /\ lock = NoOne
    /\ ~is_mining /\ m_threads = {}
    /\ Cardinality(Worker \ Alive) >= total   \* the bound Worker
    /\ lock' = c /\ m_stop' = FALSE /\ enabled' = call[c].args.background
    /\ obeyed' = call[c].args
    /\ Go(c, "start_spawn")
    /\ UNCHANGED <<m_threads, active, total, autodetect, address, started, handle>>
    /\ UNCHANGED <<worker, control, interrupted, idle, usage>>

\* for (i = 0; i != m_threads_total; i++), which runs on when somebody lowers
\* m_threads_total meanwhile (MaxThreads bounds the excess).
start_spawn(c, w) ==
    /\ At(c, "start_spawn") /\ call[c].i # total /\ call[c].i <= MaxThreads
    /\ push_back(w)
    /\ call' = [call EXCEPT ![c].i = @ + 1]
    /\ UNCHANGED <<m_stop, lock, active, total, autodetect, address, enabled, started, handle>>
    /\ UNCHANGED <<control, interrupted, idle, usage, obeyed>>

\* A background thread that the handle still stood for is detached.
start_returns(c) ==
    /\ At(c, "start_spawn") /\ call[c].i = total
    /\ IF enabled
         THEN \E k \in Controller : /\ control[k] = "none" /\ handle' = k
                                    /\ control' = [control EXCEPT ![k] = "starting"]
         ELSE UNCHANGED <<handle, control>>
    /\ lock' = NoOne
    /\ Go(c, "out")
    /\ UNCHANGED <<m_stop, m_threads, active, total, autodetect, address, enabled, started>>
    /\ UNCHANGED <<worker, interrupted, idle, usage, obeyed>>

----------------------------------------------------------------------------
(* stop.                                                                   *)

on_stop_mining(c) ==
    /\ At(c, "out")
    /\ c \in Rpc => is_mining
    /\ Go(c, "stop_lock")
    /\ UNCHANGED <<miner, worker, control, interrupted, idle, usage, obeyed>>

\* The core stops the miner when the daemon exits and makes no other call.
Return(c) == Go(c, IF c \in Core THEN "down" ELSE "out")

stop_nothing(c) ==
    /\ At(c, "stop_lock") /\ lock = NoOne /\ m_threads = {}
    /\ obeyed' = NoArgs /\ Return(c)
    /\ UNCHANGED <<miner, worker, control, interrupted, idle, usage>>

send_stop_signal(c) ==
    /\ At(c, "stop_lock") /\ lock = NoOne /\ m_threads # {}
    /\ lock' = c /\ m_stop' = TRUE
    /\ Go(c, "stop_drain")
    /\ UNCHANGED <<m_threads, active, total, autodetect, address, enabled, started, handle>>
    /\ UNCHANGED <<worker, control, interrupted, idle, usage, obeyed>>

stop_notifies_none(c) ==   \* mutant
    /\ At(c, "stop_drain") /\ active > 0 /\ UNCHANGED vars

\* notify_all of those that wait for background mining to start.
Notified == [w \in Worker |-> IF worker[w] = "waiting" THEN "woken" ELSE worker[w]]

stop_notifies(c) ==
    /\ At(c, "stop_drain") /\ active > 0
    /\ worker' = Notified
    /\ UNCHANGED <<miner, control, interrupted, call, idle, usage, obeyed>>

stop_interrupts(c) ==
    /\ At(c, "stop_drain") /\ active = 0
    /\ interrupted' = interrupted \cup ({handle} \cap Controller)
    /\ Go(c, "stop_join")
    /\ UNCHANGED <<miner, worker, control, idle, usage, obeyed>>

\* m_background_mining_thread.join() and what follows.
stop_joins(c) ==
    /\ At(c, "stop_join")
    /\ handle \in Controller => control[handle] = "none"
    /\ handle' = NoOne /\ enabled' = FALSE
    /\ m_threads' = {} /\ autodetect' = 0 /\ lock' = NoOne
    /\ obeyed' = NoArgs /\ Return(c)
    /\ UNCHANGED <<m_stop, active, total, address, started>>
    /\ UNCHANGED <<worker, control, interrupted, idle, usage>>

----------------------------------------------------------------------------
(* update_autodetection, in the idle thread.                               *)

\* There is something to detect and AUTODETECT_WINDOW, ten seconds, is over; a
\* start that began the detection may still wait for m_threads_lock.
autodetect_due ==
    /\ idle.at = "out" /\ autodetect > 0
    /\ GoIdle("detect", 0)
    /\ UNCHANGED <<miner, worker, control, interrupted, call, usage, obeyed>>

\* Whether one thread more gained enough.
autodetect_decides ==
    /\ idle.at = "detect"
    /\ \/ autodetect > 1 /\ total' = autodetect - 1 /\ autodetect' = 0
       \/ autodetect < MaxThreads /\ total' = autodetect + 1 /\ autodetect' = autodetect + 1
    /\ GoIdle("lock", 0)
    /\ UNCHANGED <<m_stop, lock, m_threads, active, address, enabled, started, handle>>
    /\ UNCHANGED <<worker, control, interrupted, call, usage, obeyed>>

autodetect_stops_none ==   \* mutant
    /\ idle.at = "lock" /\ lock = NoOne
    /\ lock' = Idle
    /\ GoIdle("drain", 0)
    /\ UNCHANGED <<m_stop, m_threads, active, total, autodetect, address, enabled, started, handle>>
    /\ UNCHANGED <<worker, control, interrupted, call, usage, obeyed>>

autodetect_stops ==
    /\ idle.at = "lock" /\ lock = NoOne
    /\ lock' = Idle /\ m_stop' = TRUE
    /\ GoIdle("drain", 0)
    /\ UNCHANGED <<m_threads, active, total, autodetect, address, enabled, started, handle>>
    /\ UNCHANGED <<worker, control, interrupted, call, usage, obeyed>>

\* while (m_threads_active > 0) sleep; clear; the end of the lock's scope.
autodetect_clears ==
    /\ idle.at = "drain" /\ active = 0
    /\ m_threads' = {} /\ lock' = NoOne
    /\ GoIdle("restart", 0)
    /\ UNCHANGED <<m_stop, active, total, autodetect, address, enabled, started, handle>>
    /\ UNCHANGED <<worker, control, interrupted, call, usage, obeyed>>

autodetect_restarts ==
    /\ idle.at = "restart"
    /\ m_stop' = FALSE
    /\ GoIdle("spawn", 0)
    /\ UNCHANGED <<lock, m_threads, active, total, autodetect, address, enabled, started, handle>>
    /\ UNCHANGED <<worker, control, interrupted, call, usage, obeyed>>

autodetect_spawns(w) ==
    /\ idle.at = "spawn" /\ idle.i # total /\ idle.i <= MaxThreads
    /\ push_back(w)
    /\ GoIdle("spawn", idle.i + 1)
    /\ UNCHANGED <<m_stop, lock, active, total, autodetect, address, enabled, started, handle>>
    /\ UNCHANGED <<control, interrupted, call, usage, obeyed>>

autodetect_returns ==
    /\ idle.at = "spawn" /\ idle.i = total
    /\ GoIdle("out", 0)
    /\ UNCHANGED <<miner, worker, control, interrupted, call, usage, obeyed>>

----------------------------------------------------------------------------
(* worker_thread.  Whether a hash is a block's does not matter here.       *)

Move(w, at) == worker' = [worker EXCEPT ![w] = at]

\* ++m_threads_active, once the hash state is allocated.
worker_begins(w) ==
    /\ worker[w] = "starting"
    /\ active' = active + 1 /\ Move(w, "loop")
    /\ UNCHANGED <<m_stop, lock, m_threads, total, autodetect, address, enabled, started, handle>>

\* while (!m_stop)
worker_loops(w) ==
    /\ worker[w] = "loop"
    /\ Move(w, IF m_stop THEN "leaving" ELSE IF enabled THEN "asks" ELSE "hash")
    /\ UNCHANGED miner

\* while (!m_is_background_mining_started), tested without the mutex.
worker_asks(w) ==
    /\ worker[w] = "asks"
    /\ Move(w, IF ~started THEN "locks" ELSE IF m_stop THEN "loop" ELSE "hash")
    /\ UNCHANGED miner

\* m_is_background_mining_started_cond.wait
worker_waits(w) == worker[w] = "locks" /\ Move(w, "waiting") /\ UNCHANGED miner

worker_woken(w) ==
    /\ worker[w] = "woken"
    /\ Move(w, IF m_stop THEN "loop" ELSE "asks")
    /\ UNCHANGED miner

worker_hashes(w) == worker[w] = "hash" /\ Move(w, "loop") /\ UNCHANGED miner

worker_ends(w) ==
    /\ worker[w] = "leaving"
    /\ active' = active - 1 /\ Move(w, "none")
    /\ UNCHANGED <<m_stop, lock, m_threads, total, autodetect, address, enabled, started, handle>>

worker_thread(w) ==
    /\ \/ worker_begins(w) \/ worker_loops(w) \/ worker_asks(w) \/ worker_waits(w)
       \/ worker_woken(w) \/ worker_hashes(w) \/ worker_ends(w)
    /\ UNCHANGED <<control, interrupted, call, idle, usage, obeyed>>

\* A condition variable may wake a thread for no reason.
SpuriousWakeup(w) ==
    /\ worker[w] = "waiting" /\ Move(w, "woken")
    /\ UNCHANGED <<miner, control, interrupted, call, idle, usage, obeyed>>

----------------------------------------------------------------------------
(* background_worker_thread.                                               *)

Turn(k, at) == control' = [control EXCEPT ![k] = at]
SetStarted(b) ==
    /\ started' = b
    /\ UNCHANGED <<m_stop, lock, m_threads, active, total, autodetect, address, enabled, handle>>

\* get_system_times may fail, and the thread returns.
background_begins(k) ==
    /\ control[k] = "starting" /\ SetStarted(FALSE)
    /\ Turn(k, "loop") \/ Turn(k, "none")
    /\ UNCHANGED <<worker, interrupted>>

background_loops(k) ==
    /\ control[k] = "loop" /\ Turn(k, IF m_stop THEN "none" ELSE "sleep")
    /\ interrupted' = IF m_stop THEN interrupted \ {k} ELSE interrupted
    /\ UNCHANGED <<miner, worker>>

background_wakes(k) ==
    /\ control[k] = "sleep" /\ k \notin interrupted /\ Turn(k, "measure")
    /\ UNCHANGED <<miner, worker, interrupted>>

background_interrupted(k) ==
    /\ control[k] = "sleep" /\ k \in interrupted /\ Turn(k, "loop")
    /\ interrupted' = interrupted \ {k}
    /\ UNCHANGED <<miner, worker>>

\* The computer is busy, or idle, or cannot be measured.
background_measures(k) ==
    /\ control[k] = "measure" /\ UNCHANGED interrupted
    /\ \/ Turn(k, "loop") /\ UNCHANGED <<miner, worker>>
       \/ started /\ SetStarted(FALSE) /\ Turn(k, "loop") /\ UNCHANGED worker
       \/ ~started /\ SetStarted(TRUE) /\ worker' = Notified /\ Turn(k, "settle")

\* The second's sleep is outside the try block: an interruption ends the thread.
background_settles(k) ==
    /\ control[k] = "settle" /\ UNCHANGED worker
    /\ \/ k \in interrupted /\ Turn(k, "none") /\ UNCHANGED miner
          /\ interrupted' = interrupted \ {k}
       \/ k \notin interrupted /\ Turn(k, "loop")
          /\ (UNCHANGED miner \/ SetStarted(FALSE)) /\ UNCHANGED interrupted

background_worker_thread(k) ==
    /\ \/ background_begins(k) \/ background_loops(k) \/ background_wakes(k)
       \/ background_interrupted(k) \/ background_measures(k) \/ background_settles(k)
    /\ UNCHANGED <<call, idle, usage, obeyed>>

----------------------------------------------------------------------------
start(c) ==
    \/ start_unlocked(c) \/ start_refused(c) \/ start_locked(c)
    \/ start_returns(c) \/ \E w \in Worker : start_spawn(c, w)

stop(c) ==
    \/ stop_nothing(c) \/ send_stop_signal(c) \/ stop_notifies(c)
    \/ stop_interrupts(c) \/ stop_joins(c)

update_autodetection ==
    \/ autodetect_decides \/ autodetect_stops \/ autodetect_clears
    \/ autodetect_restarts \/ autodetect_returns \/ \E w \in Worker : autodetect_spawns(w)

Args == {[adr |-> a, count |-> r[1], background |-> r[2]] : a \in Address, r \in usage}

Next ==
    \/ \E c \in Caller : start(c) \/ stop(c) \/ on_stop_mining(c)
                         \/ \E args \in Args : on_start_mining(c, args)
    \/ autodetect_due \/ update_autodetection
    \/ \E w \in Worker : worker_thread(w) \/ SpuriousWakeup(w)
    \/ \E k \in Controller : background_worker_thread(k)

Spec == Init /\ [][Next]_vars

\* Every thread goes on with what it is doing, and a thread that keeps asking
\* for m_threads_lock gets it in the end.  Nobody has to call start or stop.
Fairness ==
    /\ \A c \in Caller : SF_vars(start(c)) /\ SF_vars(stop(c))
    /\ SF_vars(update_autodetection)
    /\ \A w \in Worker : WF_vars(worker_thread(w))
    /\ \A k \in Controller : WF_vars(background_worker_thread(k))

FairSpec == Spec /\ Fairness

----------------------------------------------------------------------------
\* No start asks for autodetection.
FixedThreads == \A r \in usage : r[1] > 0

\* With a fixed number of threads a stop comes to its end: every worker
\* leaves, also one that goes to sleep on the condition variable after the
\* stop signal, and the background thread is joined wherever the interruption
\* meets it.
StopEnds ==
    \A c \in Caller : FixedThreads /\ At(c, "stop_lock") ~> At(c, "out") \/ At(c, "down")

\* The autodetection does not wait for its threads for ever, with the lock
\* that start and stop need and in the thread that does the idle work of all.
AutodetectEnds == idle.at = "drain" ~> idle.at # "drain"

----------------------------------------------------------------------------
(* Four statements that the code does not keep; the README says which      *)
(* constants show it.                                                      *)

\* While mining goes on, rewards go to the address of the start that returned
\* true, and as many threads as it asked for are spread over the nonces.
\* ("Failed, mining not started" is what a refused start answers.)
ObeysTheStart ==
    is_mining /\ lock = NoOne /\ obeyed # NoArgs =>
        /\ address = obeyed.adr
        /\ autodetect = 0 => total = obeyed.count

\* A start that passes its check ("Unable to start miner because there are
\* active mining threads") finds no worker thread of an earlier time alive.
StartFindsNoThread == [][\A c \in Caller : start_locked(c) => Alive = {}]_vars

\* A worker does not sleep on while background mining is on.
WaitersWake ==
    \A w \in Worker : (worker[w] = "waiting" /\ started) ~> (worker[w] # "waiting" \/ ~started)

\* When a stop has returned, mining stays stopped until somebody starts it.
\* ("Stop mining." is what the command promises.)
StopStops == is_mining => obeyed # NoArgs

=============================================================================
