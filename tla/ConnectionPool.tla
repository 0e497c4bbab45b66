--------------------------- MODULE ConnectionPool ---------------------------
(***************************************************************************)
(* The connection pools of DatabaseProxy (MySQL) and CacheProxy (Redis):   *)
(* a FIFO queue of connections under a mutex, with a condition variable on *)
(* which acquireConnection() sleeps while the queue is empty.              *)
(*                                                                         *)
(* The mutex is held through every critical section, so each section is    *)
(* one action; sleeping releases it, and a thread that was woken has to    *)
(* take it again before it looks at the queue: between the two, any other  *)
(* thread may run a section of its own and take the connection it was      *)
(* woken for.                                                              *)
(***************************************************************************)
EXTENDS Naturals, Sequences, FiniteSets

CONSTANTS
  Threads,    \* IO threads (LS_THREAD_NUM)
  Conns,      \* connections init() opens (MYSQL_POOL_SIZE, REDIS_POOL_SIZE)
  NoConn,     \* "holds no connection"
  TimedWait   \* TRUE: wait_for(connectTimeoutSec), FALSE: wait without limit

ASSUME ThreadsAssumption == IsFiniteSet(Threads)
ASSUME ConnsAssumption == IsFiniteSet(Conns) /\ NoConn \notin Conns
ASSUME TimedWaitAssumption == TimedWait \in BOOLEAN

VARIABLES
  phase,  \* "opening", then "open" (initialized_), "closed" or "failed"
  pool,   \* pool_, the queue of connections
  pc,     \* where each thread is in acquireConnection()/releaseConnection()
  held    \* the connection each thread took out of the queue

vars == <<phase, pool, pc, held>>

\* "ready" was notified (or woke by itself), "expired" saw its deadline pass;
\* both have to take the mutex again before they can look at the queue.
PC == {"idle", "blocked", "ready", "expired", "using", "exited"}

Pooled == {pool[i] : i \in DOMAIN pool}
Sleeping == {t \in Threads : pc[t] = "blocked"}
Awake == {t \in Threads : pc[t] \in {"ready", "expired"}}
Waiting == Sleeping \cup Awake
Holding == {t \in Threads : held[t] # NoConn}

-----------------------------------------------------------------------------
Init ==
  /\ phase = "opening"
  /\ pool = << >>
  /\ pc = [t \in Threads |-> "idle"]
  /\ held = [t \in Threads |-> NoConn]

(* One turn of the loop of init(): a connection is opened and pushed.      *)
Connect(c) ==
  /\ phase = "opening"
  /\ c \notin Pooled
  /\ pool' = Append(pool, c)
  /\ UNCHANGED <<phase, pc, held>>

InitDone ==
  /\ phase = "opening"
  /\ Pooled = Conns
  /\ phase' = "open"
  /\ UNCHANGED <<pool, pc, held>>

(* A connect error: init() returns false with what it opened still in the  *)
(* queue, initialized_ stays false, and main() returns 1.                  *)
ConnectFail ==
  /\ phase = "opening"
  /\ Pooled # Conns
  /\ phase' = "failed"
  /\ UNCHANGED <<pool, pc, held>>

-----------------------------------------------------------------------------
(* MUTANT of TakeFront: front() without pop().                             *)
PeekFront(t) ==
  /\ pool # << >>
  /\ held' = [held EXCEPT ![t] = Head(pool)]
  /\ pool' = pool
  /\ pc' = [pc EXCEPT ![t] = "using"]

(* acquireConnection() once the mutex is held and the queue is not empty.  *)
TakeFront(t) ==
  /\ pool # << >>
  /\ held' = [held EXCEPT ![t] = Head(pool)]
  /\ pool' = Tail(pool)
  /\ pc' = [pc EXCEPT ![t] = "using"]

(* acquireConnection() that finds a connection on its first look.          *)
AcquireNow(t) ==
  /\ phase = "open"
  /\ pc[t] = "idle"
  /\ TakeFront(t)
  /\ UNCHANGED phase

(* acquireConnection() that finds the queue empty and sleeps.              *)
Sleep(t) ==
  /\ phase = "open"
  /\ pc[t] = "idle"
  /\ pool = << >>
  /\ pc' = [pc EXCEPT ![t] = "blocked"]
  /\ UNCHANGED <<phase, pool, held>>

(* A condition variable may wake a thread nobody notified.                 *)
SpuriousWake(t) ==
  /\ pc[t] = "blocked"
  /\ pc' = [pc EXCEPT ![t] = "ready"]
  /\ UNCHANGED <<phase, pool, held>>

(* wait_for(): the deadline, fixed when the call began, passes while the   *)
(* thread sleeps or after it was woken and before it looked.               *)
Timeout(t) ==
  /\ TimedWait
  /\ pc[t] \in {"blocked", "ready"}
  /\ pc' = [pc EXCEPT ![t] = "expired"]
  /\ UNCHANGED <<phase, pool, held>>

(* An awake thread has the mutex again and the predicate holds.            *)
AcquireWoken(t) ==
  /\ pc[t] \in {"ready", "expired"}
  /\ TakeFront(t)
  /\ UNCHANGED phase

(* A woken thread finds the queue empty: the predicate loop sleeps again.  *)
SleepAgain(t) ==
  /\ pc[t] = "ready"
  /\ pool = << >>
  /\ pc' = [pc EXCEPT ![t] = "blocked"]
  /\ UNCHANGED <<phase, pool, held>>

(* MUTANT of GiveUp: a loop that starts a new timeout after every wake-up. *)
WaitAfresh(t) ==
  /\ pc[t] = "expired"
  /\ pool = << >>
  /\ pc' = [pc EXCEPT ![t] = "blocked"]
  /\ UNCHANGED <<phase, pool, held>>

(* The deadline has passed and the queue is empty: nullptr.                *)
GiveUp(t) ==
  /\ pc[t] = "expired"
  /\ pool = << >>
  /\ pc' = [pc EXCEPT ![t] = "idle"]
  /\ UNCHANGED <<phase, pool, held>>

(* notify_one() for the sleepers of p: one of them, any one, is woken.     *)
NotifyOne(p) ==
  LET S == {s \in Threads : p[s] = "blocked"}
  IN  IF S = {} THEN {p} ELSE {[p EXCEPT ![s] = "ready"] : s \in S}

(* MUTANT of Release: push() without notify_one().                         *)
ReleaseSilently(t) ==
  /\ pc[t] = "using"
  /\ pool' = Append(pool, held[t])
  /\ held' = [held EXCEPT ![t] = NoConn]
  /\ pc' = [pc EXCEPT ![t] = "idle"]
  /\ UNCHANGED phase

(* MUTANT of Release: an error path that returns without giving back.      *)
ReturnWithoutRelease(t) ==
  /\ pc[t] = "using"
  /\ pool' = pool
  /\ held' = [held EXCEPT ![t] = NoConn]
  /\ pc' = [pc EXCEPT ![t] = "idle"]
  /\ UNCHANGED phase

(* MUTANT of Release: the pointer is cleared before it is pushed.          *)
ReleaseCleared(t) ==
  /\ pc[t] = "using"
  /\ held' = [held EXCEPT ![t] = NoConn]
  /\ pool' = Append(pool, held'[t])
  /\ pc' \in NotifyOne([pc EXCEPT ![t] = "idle"])
  /\ UNCHANGED phase

(* releaseConnection(), after the query of the proxy method has returned.  *)
Release(t) ==
  /\ pc[t] = "using"
  /\ pool' = Append(pool, held[t])
  /\ held' = [held EXCEPT ![t] = NoConn]
  /\ pc' \in NotifyOne([pc EXCEPT ![t] = "idle"])
  /\ UNCHANGED phase

-----------------------------------------------------------------------------
(* run() returns on an IO thread; it never does in the middle of a handler.*)
Exit(t) ==
  /\ phase = "open"
  /\ pc[t] = "idle"
  /\ pc' = [pc EXCEPT ![t] = "exited"]
  /\ UNCHANGED <<phase, pool, held>>

(* MUTANT of Shutdown: main() closes the pools before it joins the threads.*)
ShutdownBeforeJoin ==
  /\ phase = "open"
  /\ phase' = "closed"
  /\ pool' = << >>
  /\ UNCHANGED <<pc, held>>

(* shutdown(), which main() calls after server.stop() joined the threads.  *)
Shutdown ==
  /\ phase = "open"
  /\ \A t \in Threads : pc[t] = "exited"
  /\ phase' = "closed"
  /\ pool' = << >>
  /\ UNCHANGED <<pc, held>>

(* The process is gone; nothing is left to do.                             *)
Finished ==
  /\ phase \in {"closed", "failed"}
  /\ UNCHANGED vars

Acquire(t) == AcquireNow(t) \/ Sleep(t)
Wake(t) == SpuriousWake(t) \/ Timeout(t)
Resume(t) == AcquireWoken(t) \/ SleepAgain(t) \/ GiveUp(t)

Next ==
  \/ \E c \in Conns : Connect(c)
  \/ InitDone
  \/ ConnectFail
  \/ \E t \in Threads : Acquire(t) \/ Wake(t) \/ Resume(t) \/ Release(t) \/ Exit(t)
  \/ Shutdown
  \/ Finished

Spec == Init /\ [][Next]_vars

(* The scheduler runs a thread that can run and every query returns; the   *)
(* clock reaches every deadline. Nothing is assumed about who wins the     *)
(* mutex, nor that new work arrives or stops.                              *)
Fairness ==
  \A t \in Threads :
    /\ WF_vars(Resume(t))
    /\ WF_vars(Release(t))
    /\ WF_vars(Timeout(t))

FairSpec == Spec /\ Fairness

-----------------------------------------------------------------------------
\* The type invariant of init(), acquire, release and shutdown().
TypeOK ==
  /\ phase \in {"opening", "open", "closed", "failed"}
  /\ pool \in Seq(Conns)
  /\ pc \in [Threads -> PC]
  /\ held \in [Threads -> Conns \cup {NoConn}]

\* Between init() and shutdown() every connection is in the queue or in the
\* hands of exactly one thread, and is in the queue at most once: no
\* acquire/timeout/release path loses one, lends it twice or pushes it twice.
EveryConnectionAccountedFor ==
  /\ \A i, j \in DOMAIN pool : pool[i] = pool[j] => i = j
  /\ \A t \in Holding : held[t] \notin Pooled
  /\ \A t, u \in Holding : held[t] = held[u] => t = u
  /\ phase = "open" => Pooled \cup {held[t] : t \in Holding} = Conns

\* While a thread sleeps in acquireConnection(), each connection in the queue
\* is matched by a thread that is awake and about to look: a wakeup taken by a
\* thread that barges in, times out or goes back to sleep is never lost.
NoLostWakeup ==
  Sleeping # {} => Len(pool) <= Cardinality(Awake)

\* Who waits in acquireConnection() is only the surplus of threads over
\* connections. With LS_THREAD_NUM = REDIS_POOL_SIZE = 4 and MYSQL_POOL_SIZE = 8
\* (docker/docker-compose.yml) nobody ever waits; a method that kept its
\* connection, or a wakeup for a thread that is not there, would break it.
OnlySurplusThreadsWait ==
  Waiting # {} => Cardinality(Waiting) + Cardinality(Conns) <= Cardinality(Threads)

\* Every call of the timed acquireConnection() returns, with a connection or
\* with nullptr, whatever the other threads do.
TimedAcquireReturns ==
  \A t \in Threads : pc[t] = "blocked" ~> pc[t] \in {"using", "idle"}

\* The acquireConnection() without a deadline is not fair to a sleeper, but
\* once no new caller barges in, every sleeper gets its connection.
SleepersServedWhenLoadStops ==
  (<>[][\A t \in Threads : ~Acquire(t)]_vars) =>
     \A t \in Threads : pc[t] = "blocked" ~> pc[t] = "using"

\* The pool keeps the promise of ResourcePool: exclusive lending, at most one
\* connection per thread, and nothing lent when the pool is closed.
Abstract == INSTANCE ResourcePool WITH free <- Pooled, lent <- held
ImplementsResourcePool == Abstract!Spec
=============================================================================
