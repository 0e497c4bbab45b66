------------------------ MODULE ConnectionPoolProofs ------------------------
(***************************************************************************)
(* What ConnectionPool guarantees for every set of threads and every set   *)
(* of connections, timed or not.                                           *)
(*                                                                         *)
(* The inductive invariant is IInv: the types, the accounting of the       *)
(* connections, that a thread holds a connection exactly while it runs a   *)
(* query, and that nobody is inside the pool before init() or after the    *)
(* threads were joined.                                                    *)
(***************************************************************************)
EXTENDS ConnectionPool, QueueFacts, FiniteSetTheorems, TLAPS

\* A thread holds a connection exactly from acquire to release.
HeldWhileUsing == \A t \in Threads : held[t] # NoConn <=> pc[t] = "using"

\* main() calls the services only between init() and the join of the threads.
CallsOnlyWhileOpen ==
  /\ phase \in {"opening", "failed"} => \A t \in Threads : pc[t] = "idle"
  /\ phase = "closed" => \A t \in Threads : pc[t] = "exited"

IInv ==
  /\ TypeOK
  /\ EveryConnectionAccountedFor
  /\ HeldWhileUsing
  /\ CallsOnlyWhileOpen

-----------------------------------------------------------------------------
(* One acquireConnection() that gets a connection, whoever calls it.       *)
LEMMA TakeKeepsIInv ==
  ASSUME IInv, NEW t \in Threads, phase = "open", held[t] = NoConn,
         TakeFront(t), phase' = phase
  PROVE  IInv'
<1> DEFINE c == Head(pool)
<1>1. /\ c \in Conns /\ c \in Pooled /\ c # NoConn
      /\ pool' \in Seq(Conns)
      /\ Pooled' = Pooled \ {c}
      /\ NoDup(pool')
  <2>1. /\ pool \in Seq(Conns) /\ pool # << >> /\ NoDup(pool)
        /\ pool' = Tail(pool)
    BY DEF IInv, TypeOK, EveryConnectionAccountedFor, TakeFront, NoDup
  <2>2. Pooled = Elems(pool) /\ Pooled' = Elems(pool')
    BY DEF Pooled, Elems
  <2> QED
    BY <2>1, <2>2, PopElems, ConnsAssumption
<1>2. TypeOK'
  BY <1>1 DEF IInv, TypeOK, TakeFront, PC
<1>3. Holding' = Holding \cup {t} /\ \A u \in Holding : u # t /\ held'[u] = held[u]
  BY <1>1 DEF IInv, TypeOK, TakeFront, Holding
<1>4. held'[t] = c
  BY DEF IInv, TypeOK, TakeFront
<1>5. \A u \in Holding : held[u] \notin Pooled
  BY DEF IInv, EveryConnectionAccountedFor
<1>6. EveryConnectionAccountedFor'
  <2>1. (\A i, j \in DOMAIN pool : pool[i] = pool[j] => i = j)'
    BY <1>1 DEF NoDup
  <2>2. (\A u \in Holding : held[u] \notin Pooled)'
    BY <1>1, <1>3, <1>4, <1>5
  <2>3. (\A u, v \in Holding : held[u] = held[v] => u = v)'
    BY <1>1, <1>3, <1>4, <1>5 DEF IInv, EveryConnectionAccountedFor
  <2>4. {held'[u] : u \in Holding'} = {held[u] : u \in Holding} \cup {c}
    BY <1>3, <1>4
  <2>5. Pooled' \cup {held'[u] : u \in Holding'} = Conns
    BY <1>1, <2>4 DEF IInv, EveryConnectionAccountedFor
  <2> QED
    BY <2>1, <2>2, <2>3, <2>5 DEF EveryConnectionAccountedFor
<1>7. HeldWhileUsing'
  BY <1>1 DEF IInv, TypeOK, HeldWhileUsing, TakeFront
<1>8. CallsOnlyWhileOpen'
  BY DEF CallsOnlyWhileOpen
<1> QED
  BY <1>2, <1>6, <1>7, <1>8 DEF IInv

(* A step that only moves a thread between the places where it waits.      *)
LEMMA WaitingKeepsIInv ==
  ASSUME IInv, NEW t \in Threads, phase = "open",
         NEW p \in PC \ {"using"}, pc[t] # "using",
         pc' = [pc EXCEPT ![t] = p], UNCHANGED <<phase, pool, held>>
  PROVE  IInv'
<1>1. TypeOK'
  BY DEF IInv, TypeOK
<1>2. EveryConnectionAccountedFor'
  BY DEF IInv, EveryConnectionAccountedFor, Pooled, Holding
<1>3. HeldWhileUsing'
  BY DEF IInv, TypeOK, HeldWhileUsing
<1>4. CallsOnlyWhileOpen'
  BY DEF CallsOnlyWhileOpen
<1> QED
  BY <1>1, <1>2, <1>3, <1>4 DEF IInv

(* notify_one() moves at most one sleeper, and nobody else.                *)
LEMMA NotifyOneMoves ==
  ASSUME NEW p \in [Threads -> PC], NEW q \in NotifyOne(p)
  PROVE  /\ q \in [Threads -> PC]
         /\ \A u \in Threads : p[u] # "blocked" => q[u] = p[u]
         /\ \A u \in Threads : p[u] = "blocked" => q[u] \in {"blocked", "ready"}
         /\ \/ q = p /\ \A u \in Threads : p[u] # "blocked"
            \/ \E s \in Threads : p[s] = "blocked" /\ q = [p EXCEPT ![s] = "ready"]
BY DEF NotifyOne, PC

(* If anybody sleeps, notify_one() wakes one.                              *)
LEMMA NotifyOneWakes ==
  ASSUME NEW p, NEW q \in NotifyOne(p),
         \E u \in Threads : q[u] = "blocked"
  PROVE  \E s \in Threads : p[s] = "blocked" /\ q = [p EXCEPT ![s] = "ready"]
<1>1. CASE {s \in Threads : p[s] = "blocked"} = {}
  <2>1. q = p
    BY <1>1 DEF NotifyOne
  <2> QED
    BY <1>1, <2>1
<1>2. CASE {s \in Threads : p[s] = "blocked"} # {}
  BY <1>2 DEF NotifyOne
<1> QED
  BY <1>1, <1>2

LEMMA ReleaseKeepsIInv ==
  ASSUME IInv, NEW t \in Threads, Release(t)
  PROVE  IInv'
<1> DEFINE c == held[t]
           p == [pc EXCEPT ![t] = "idle"]
<1>1. c \in Conns /\ t \in Holding /\ c \notin Pooled
  BY DEF IInv, TypeOK, HeldWhileUsing, Release, EveryConnectionAccountedFor, Holding
<1>2. /\ pool' \in Seq(Conns)
      /\ Pooled' = Pooled \cup {c}
      /\ NoDup(pool')
  BY <1>1, PushElems
     DEF IInv, TypeOK, EveryConnectionAccountedFor, Release, NoDup, Elems, Pooled
<1>3. p \in [Threads -> PC] /\ pc' \in NotifyOne(p)
  BY DEF IInv, TypeOK, Release, PC
<1>4. /\ pc' \in [Threads -> PC]
      /\ \A u \in Threads : pc'[u] = "using" <=> u # t /\ pc[u] = "using"
  <2>1. /\ pc' \in [Threads -> PC]
        /\ \A u \in Threads : p[u] # "blocked" => pc'[u] = p[u]
        /\ \A u \in Threads : p[u] = "blocked" => pc'[u] \in {"blocked", "ready"}
    BY <1>3, NotifyOneMoves
  <2>2. p[t] = "idle" /\ \A u \in Threads : u # t => p[u] = pc[u]
    BY DEF IInv, TypeOK
  <2> QED
    BY <2>1, <2>2
<1>5. held' = [held EXCEPT ![t] = NoConn]
  BY DEF Release
<1>6. TypeOK'
  BY <1>2, <1>4, <1>5 DEF IInv, TypeOK, Release
<1>7. HeldWhileUsing'
  BY <1>4, <1>5 DEF IInv, TypeOK, HeldWhileUsing
<1>8. Holding' = Holding \ {t} /\ \A u \in Holding' : held'[u] = held[u]
  BY <1>5 DEF IInv, TypeOK, Holding
<1>9. EveryConnectionAccountedFor'
  <2>1. (\A i, j \in DOMAIN pool : pool[i] = pool[j] => i = j)'
    BY <1>2 DEF NoDup
  <2>2. (\A u \in Holding : held[u] \notin Pooled)'
    BY <1>1, <1>2, <1>8 DEF IInv, EveryConnectionAccountedFor
  <2>3. (\A u, v \in Holding : held[u] = held[v] => u = v)'
    BY <1>8 DEF IInv, EveryConnectionAccountedFor
  <2>4. {held[u] : u \in Holding} = {held'[u] : u \in Holding'} \cup {c}
    BY <1>1, <1>8
  <2>5. (phase = "open" => Pooled \cup {held[u] : u \in Holding} = Conns)'
    BY <1>2, <2>4 DEF IInv, EveryConnectionAccountedFor, Release
  <2> QED
    BY <2>1, <2>2, <2>3, <2>5 DEF EveryConnectionAccountedFor
<1>10. CallsOnlyWhileOpen'
  <2>1. phase = "open"
    BY DEF IInv, TypeOK, CallsOnlyWhileOpen, Release
  <2> QED
    BY <2>1 DEF CallsOnlyWhileOpen, Release
<1> QED
  BY <1>6, <1>7, <1>9, <1>10 DEF IInv

LEMMA InitIInv == Init => IInv
<1> SUFFICES ASSUME Init PROVE IInv
  OBVIOUS
<1>1. TypeOK
  BY DEF Init, TypeOK, PC
<1>2. Holding = {}
  BY DEF Init, Holding
<1>3. EveryConnectionAccountedFor
  BY <1>2 DEF Init, EveryConnectionAccountedFor
<1>4. HeldWhileUsing /\ CallsOnlyWhileOpen
  BY DEF Init, HeldWhileUsing, CallsOnlyWhileOpen
<1> QED
  BY <1>1, <1>3, <1>4 DEF IInv

LEMMA NextIInv == IInv /\ [Next]_vars => IInv'
<1> SUFFICES ASSUME IInv, [Next]_vars PROVE IInv'
  OBVIOUS
<1>1. ASSUME NEW c \in Conns, Connect(c)
      PROVE  IInv'
  <2>1. /\ pool' \in Seq(Conns)
        /\ Pooled' = Pooled \cup {c}
        /\ NoDup(pool')
    BY <1>1, PushElems, SMTT(30)
       DEF IInv, TypeOK, EveryConnectionAccountedFor, Connect, NoDup, Elems, Pooled
  <2>2. TypeOK'
    BY <1>1, <2>1 DEF IInv, TypeOK, Connect
  <2>3. Holding = {} /\ Holding' = {}
    BY <1>1 DEF IInv, HeldWhileUsing, CallsOnlyWhileOpen, Connect, Holding
  <2>4. EveryConnectionAccountedFor'
    BY <1>1, <2>1, <2>3 DEF EveryConnectionAccountedFor, NoDup, Connect
  <2>5. HeldWhileUsing' /\ CallsOnlyWhileOpen'
    BY <1>1 DEF IInv, HeldWhileUsing, CallsOnlyWhileOpen, Connect
  <2> QED
    BY <2>2, <2>4, <2>5 DEF IInv
<1>2. ASSUME InitDone
      PROVE  IInv'
  <2>1. TypeOK' /\ HeldWhileUsing' /\ CallsOnlyWhileOpen'
    BY <1>2 DEF IInv, TypeOK, HeldWhileUsing, CallsOnlyWhileOpen, InitDone
  <2>2. Holding = {}
    BY <1>2 DEF IInv, HeldWhileUsing, CallsOnlyWhileOpen, InitDone, Holding
  <2>3. EveryConnectionAccountedFor'
    BY <1>2, <2>2
       DEF IInv, EveryConnectionAccountedFor, InitDone, Pooled, Holding
  <2> QED
    BY <2>1, <2>3 DEF IInv
<1>3. ASSUME ConnectFail
      PROVE  IInv'
  BY <1>3 DEF IInv, TypeOK, EveryConnectionAccountedFor, HeldWhileUsing,
              CallsOnlyWhileOpen, ConnectFail, Pooled, Holding
<1>4. ASSUME NEW t \in Threads, AcquireNow(t)
      PROVE  IInv'
  BY <1>4, TakeKeepsIInv DEF AcquireNow, IInv, HeldWhileUsing
<1>5. ASSUME NEW t \in Threads, Sleep(t)
      PROVE  IInv'
  BY <1>5, WaitingKeepsIInv DEF Sleep, PC
<1>6. ASSUME NEW t \in Threads, pc[t] \in {"blocked", "ready", "expired"}
      PROVE  phase = "open"
  BY <1>6 DEF IInv, TypeOK, CallsOnlyWhileOpen
<1>7. ASSUME NEW t \in Threads, Wake(t)
      PROVE  IInv'
  BY <1>6, <1>7, WaitingKeepsIInv DEF Wake, SpuriousWake, Timeout, PC
<1>8. ASSUME NEW t \in Threads, AcquireWoken(t)
      PROVE  IInv'
  BY <1>6, <1>8, TakeKeepsIInv DEF AcquireWoken, IInv, HeldWhileUsing
<1>9. ASSUME NEW t \in Threads, SleepAgain(t) \/ GiveUp(t)
      PROVE  IInv'
  BY <1>6, <1>9, WaitingKeepsIInv DEF SleepAgain, GiveUp, PC
<1>10. ASSUME NEW t \in Threads, Exit(t)
       PROVE  IInv'
  BY <1>10, WaitingKeepsIInv DEF Exit, PC
<1>11. ASSUME Shutdown
       PROVE  IInv'
  <2>1. TypeOK' /\ HeldWhileUsing' /\ CallsOnlyWhileOpen'
    BY <1>11 DEF IInv, TypeOK, HeldWhileUsing, CallsOnlyWhileOpen, Shutdown
  <2>2. Holding' = {} /\ Pooled' = {}
    BY <1>11 DEF IInv, HeldWhileUsing, Shutdown, Holding, Pooled
  <2>3. EveryConnectionAccountedFor'
    BY <1>11, <2>2 DEF EveryConnectionAccountedFor, Shutdown
  <2> QED
    BY <2>1, <2>3 DEF IInv
<1>12. ASSUME UNCHANGED vars
       PROVE  IInv'
  BY <1>12 DEF vars, IInv, TypeOK, EveryConnectionAccountedFor, HeldWhileUsing,
               CallsOnlyWhileOpen, Pooled, Holding
<1> QED
  BY <1>1, <1>2, <1>3, <1>4, <1>5, <1>7, <1>8, <1>9, <1>10, <1>11, <1>12,
     ReleaseKeepsIInv DEF Next, Acquire, Resume, Finished

THEOREM Invariance == Spec => []IInv
BY InitIInv, NextIInv, PTL DEF Spec

\* init(), acquire, release and shutdown() keep the types of the pool.
THEOREM TypeCorrect == Spec => []TypeOK
BY Invariance, PTL DEF IInv

\* No connection is lost, lent twice or pushed twice by acquireConnection()
\* and releaseConnection(), for any pool size and any number of threads.
THEOREM ConnectionsAccountedFor == Spec => []EveryConnectionAccountedFor
BY Invariance, PTL DEF IInv
-----------------------------------------------------------------------------
(* The wakeup argument: a connection enters the queue while somebody       *)
(* sleeps only together with a thread that leaves the sleepers, and an     *)
(* awake thread stops being awake only by taking a connection or after it  *)
(* saw the queue empty.                                                    *)

(* Counting who is awake when one thread joins or leaves.                  *)
LEMMA AwakeCount ==
  ASSUME NEW A \in SUBSET Threads, NEW t \in Threads
  PROVE  /\ Cardinality(A) \in Nat
         /\ t \notin A => Cardinality(A \cup {t}) = Cardinality(A) + 1
         /\ t \in A => Cardinality(A \ {t}) = Cardinality(A) - 1
<1>1. IsFiniteSet(A)
  BY FS_Subset, ThreadsAssumption
<1> QED
  BY <1>1, FS_CardinalityType, FS_AddElement, FS_RemoveElement

LEMMA NextNoLostWakeup == IInv /\ NoLostWakeup /\ [Next]_vars => NoLostWakeup'
<1> SUFFICES ASSUME IInv, NoLostWakeup, [Next]_vars, Sleeping' # {}
             PROVE  Len(pool') <= Cardinality(Awake')
  BY DEF NoLostWakeup
<1> USE DEF NoLostWakeup
<1>1. /\ Len(pool) \in Nat
      /\ Awake \in SUBSET Threads /\ Awake' \in SUBSET Threads
      /\ Cardinality(Awake) \in Nat /\ Cardinality(Awake') \in Nat
  <2>1. Awake \in SUBSET Threads /\ Awake' \in SUBSET Threads
    BY DEF Awake
  <2>2. IsFiniteSet(Awake) /\ IsFiniteSet(Awake')
    BY <2>1, FS_Subset, ThreadsAssumption
  <2> QED
    BY <2>1, <2>2, FS_CardinalityType DEF IInv, TypeOK
<1>2. ASSUME phase # "open", UNCHANGED pc
      PROVE  Sleeping' = {}
  BY <1>2 DEF IInv, TypeOK, CallsOnlyWhileOpen, Sleeping
<1>3. CASE (\E c \in Conns : Connect(c)) \/ ConnectFail \/ InitDone
  BY <1>2, <1>3 DEF Connect, ConnectFail, InitDone
<1>4. CASE Shutdown
  BY <1>4 DEF Shutdown, Sleeping
<1>5. ASSUME UNCHANGED <<pool, pc>>
      PROVE  Len(pool') <= Cardinality(Awake')
  BY <1>5, <1>1 DEF Sleeping, Awake
<1>6. ASSUME pool' = << >>
      PROVE  Len(pool') <= Cardinality(Awake')
  BY <1>6, <1>1
<1>7. ASSUME NEW t \in Threads, TakeFront(t)
      PROVE  Len(pool') = Len(pool) - 1
  BY <1>7 DEF TakeFront, IInv, TypeOK
<1>8. ASSUME NEW t \in Threads, AcquireNow(t)
      PROVE  Len(pool') <= Cardinality(Awake')
  <2>1. Sleeping' = Sleeping /\ Awake' = Awake
    BY <1>8 DEF AcquireNow, TakeFront, Sleeping, Awake, IInv, TypeOK
  <2> QED
    BY <1>1, <1>7, <1>8, <2>1 DEF AcquireNow
<1>9. ASSUME NEW t \in Threads, Sleep(t) \/ SleepAgain(t) \/ GiveUp(t)
      PROVE  Len(pool') <= Cardinality(Awake')
  BY <1>9, <1>6 DEF Sleep, SleepAgain, GiveUp
<1>10. ASSUME NEW t \in Threads, Wake(t)
       PROVE  Len(pool') <= Cardinality(Awake')
  <2>1. /\ pool' = pool
        /\ Sleeping # {}
        /\ Awake' = Awake \cup {t}
    BY <1>10 DEF Wake, SpuriousWake, Timeout, Sleeping, Awake, IInv, TypeOK
  <2>2. Cardinality(Awake) <= Cardinality(Awake')
    <3>1. CASE t \in Awake
      <4>1. Awake' = Awake
        BY <2>1, <3>1
      <4> QED
        BY <1>1, <4>1
    <3>2. CASE t \notin Awake
      <4>1. Cardinality(Awake') = Cardinality(Awake) + 1
        BY <1>1, <2>1, <3>2, AwakeCount
      <4> QED
        BY <1>1, <4>1
    <3> QED
      BY <3>1, <3>2
  <2> QED
    BY <1>1, <2>1, <2>2
<1>11. ASSUME NEW t \in Threads, AcquireWoken(t)
       PROVE  Len(pool') <= Cardinality(Awake')
  <2>1. t \in Awake /\ Sleeping' = Sleeping /\ Awake' = Awake \ {t}
    BY <1>11 DEF AcquireWoken, TakeFront, Sleeping, Awake, IInv, TypeOK
  <2>2. Cardinality(Awake') = Cardinality(Awake) - 1
    BY <1>1, <2>1, AwakeCount
  <2>3. Len(pool') = Len(pool) - 1
    BY <1>7, <1>11 DEF AcquireWoken
  <2> QED
    BY <1>1, <2>1, <2>2, <2>3
<1>12. ASSUME NEW t \in Threads, Release(t)
       PROVE  Len(pool') <= Cardinality(Awake')
  <2> DEFINE p == [pc EXCEPT ![t] = "idle"]
  <2>1. /\ p \in [Threads -> PC] /\ pc' \in NotifyOne(p)
        /\ p[t] = "idle" /\ pc[t] = "using"
        /\ \A u \in Threads : u # t => p[u] = pc[u]
    BY <1>12 DEF Release, IInv, TypeOK, PC
  <2>2. PICK s \in Threads : p[s] = "blocked" /\ pc' = [p EXCEPT ![s] = "ready"]
    <3>1. \E u \in Threads : pc'[u] = "blocked"
      BY DEF Sleeping
    <3>2. pc' \in NotifyOne(p)
      BY <2>1
    <3> HIDE DEF p
    <3> QED
      BY <3>1, <3>2, NotifyOneWakes
  <2>3. s \in Sleeping /\ s \notin Awake /\ Awake' = Awake \cup {s}
    BY <2>1, <2>2 DEF Sleeping, Awake
  <2>4. Cardinality(Awake') = Cardinality(Awake) + 1
    BY <1>1, <2>3, AwakeCount
  <2>5. held[t] \in Conns
    BY <2>1 DEF IInv, TypeOK, HeldWhileUsing
  <2>6. Len(pool') = Len(pool) + 1
    BY <1>12, <2>5, PushElems DEF Release, IInv, TypeOK
  <2> QED
    BY <1>1, <2>3, <2>4, <2>6
<1>13. ASSUME NEW t \in Threads, Exit(t)
       PROVE  Len(pool') <= Cardinality(Awake')
  <2>1. Sleeping' = Sleeping /\ Awake' = Awake /\ pool' = pool
    BY <1>13 DEF Exit, Sleeping, Awake, IInv, TypeOK
  <2> QED
    BY <2>1
<1> QED
  BY <1>3, <1>4, <1>5, <1>8, <1>9, <1>10, <1>11, <1>12, <1>13
     DEF Next, Acquire, Resume, Finished, vars

\* notify_one() after push() is enough: no thread sleeps in acquireConnection()
\* beside a connection that nobody awake is about to take.
THEOREM WakeupsAreNotLost == Spec => []NoLostWakeup
<1>1. Init => NoLostWakeup
  BY DEF Init, NoLostWakeup, Sleeping
<1> QED
  BY <1>1, NextNoLostWakeup, Invariance, PTL DEF Spec

-----------------------------------------------------------------------------
(* Pigeonhole: whoever finds the queue empty sees every connection in the  *)
(* hands of a thread that does not wait.                                   *)
LEMMA EmptyMeansAllLent ==
  ASSUME IInv, phase = "open", pool = << >>,
         NEW W \in SUBSET Threads, \A t \in W : pc[t] # "using"
  PROVE  Cardinality(W) + Cardinality(Conns) <= Cardinality(Threads)
<1>1. Conns = {held[u] : u \in Holding} /\ Holding \cap W = {}
  BY DEF IInv, EveryConnectionAccountedFor, HeldWhileUsing, Holding, Pooled
<1>2. /\ IsFiniteSet(W) /\ IsFiniteSet(Holding) /\ IsFiniteSet(W \cup Holding)
      /\ Cardinality(W \cup Holding) <= Cardinality(Threads)
  BY FS_Subset, ThreadsAssumption DEF Holding
<1>3. Cardinality(W \cup Holding) = Cardinality(W) + Cardinality(Holding)
  <2>1. Cardinality(W \cap Holding) = 0 /\ Cardinality(W) \in Nat /\ Cardinality(Holding) \in Nat
    BY <1>1, <1>2, FS_EmptySet, FS_CardinalityType
  <2> QED
    BY <1>2, <2>1, FS_Union, SMTT(30)
<1>4. Cardinality(Conns) <= Cardinality(Holding)
  <2> DEFINE f == [u \in Holding |-> held[u]]
  <2>1. f \in Surjection(Holding, Conns)
    BY <1>1 DEF Surjection
  <2> QED
    BY <1>2, <2>1, FS_Surjection
<1>5. /\ Cardinality(Threads) \in Nat /\ Cardinality(Conns) \in Nat
      /\ Cardinality(Holding) \in Nat /\ Cardinality(W) \in Nat
      /\ Cardinality(W \cup Holding) \in Nat
  BY <1>2, FS_CardinalityType, ThreadsAssumption, ConnsAssumption
<1> QED
  BY <1>2, <1>3, <1>4, <1>5

LEMMA NextOnlySurplus ==
  IInv /\ OnlySurplusThreadsWait /\ [Next]_vars => OnlySurplusThreadsWait'
<1> SUFFICES ASSUME IInv, OnlySurplusThreadsWait, [Next]_vars, Waiting' # {}
             PROVE  Cardinality(Waiting') + Cardinality(Conns) <= Cardinality(Threads)
  BY DEF OnlySurplusThreadsWait
<1> USE DEF OnlySurplusThreadsWait, Waiting, Sleeping, Awake
<1>1. ASSUME Waiting' \subseteq Waiting
      PROVE  Cardinality(Waiting') + Cardinality(Conns) <= Cardinality(Threads)
  <2>1. Waiting \in SUBSET Threads /\ Waiting' \in SUBSET Waiting
    BY <1>1
  <2>2. IsFiniteSet(Waiting) /\ IsFiniteSet(Waiting')
    BY <2>1, FS_Subset, ThreadsAssumption
  <2>3. Cardinality(Waiting') <= Cardinality(Waiting)
    BY <2>1, <2>2, FS_Subset
  <2>4. /\ Cardinality(Threads) \in Nat /\ Cardinality(Conns) \in Nat
        /\ Cardinality(Waiting) \in Nat /\ Cardinality(Waiting') \in Nat
    BY <2>2, FS_CardinalityType, ThreadsAssumption, ConnsAssumption
  <2>5. Waiting # {}
    BY <1>1
  <2> QED
    BY <2>3, <2>4, <2>5
<1>2. ASSUME NEW t \in Threads, Sleep(t)
      PROVE  Cardinality(Waiting') + Cardinality(Conns) <= Cardinality(Threads)
  <2>1. /\ phase = "open" /\ pool = << >>
        /\ Waiting' \in SUBSET Threads
        /\ \A u \in Waiting' : pc[u] # "using"
    BY <1>2 DEF Sleep, IInv, TypeOK
  <2> QED
    BY <2>1, EmptyMeansAllLent
<1>3. ASSUME NEW t \in Threads,
             AcquireNow(t) \/ Wake(t) \/ Resume(t) \/ Exit(t)
      PROVE  Waiting' \subseteq Waiting
  BY <1>3 DEF AcquireNow, TakeFront, Wake, SpuriousWake, Timeout, Resume,
              AcquireWoken, SleepAgain, GiveUp, Exit, IInv, TypeOK
<1>4. ASSUME NEW t \in Threads, Release(t)
      PROVE  Waiting' \subseteq Waiting
  <2> DEFINE p == [pc EXCEPT ![t] = "idle"]
  <2>1. /\ p \in [Threads -> PC] /\ pc' \in NotifyOne(p)
        /\ p[t] = "idle" /\ \A u \in Threads : u # t => p[u] = pc[u]
    BY <1>4 DEF Release, IInv, TypeOK, PC
  <2>2. /\ \A u \in Threads : p[u] # "blocked" => pc'[u] = p[u]
        /\ \A u \in Threads : p[u] = "blocked" => pc'[u] \in {"blocked", "ready"}
    BY <2>1, NotifyOneMoves
  <2> QED
    BY <2>1, <2>2
<1>5. ASSUME UNCHANGED pc
      PROVE  Waiting' \subseteq Waiting
  BY <1>5
<1> QED
  BY <1>1, <1>2, <1>3, <1>4, <1>5
     DEF Next, Acquire, Connect, InitDone, ConnectFail, Shutdown, Finished, vars

\* The threads that wait for a connection are at most the surplus of threads
\* over connections.
THEOREM SurplusBoundsWaiting == Spec => []OnlySurplusThreadsWait
<1>1. Init => OnlySurplusThreadsWait
  BY DEF Init, OnlySurplusThreadsWait, Waiting, Sleeping, Awake
<1> QED
  BY <1>1, NextOnlySurplus, Invariance, PTL DEF Spec

\* With at least as many connections as IO threads, acquireConnection() never
\* waits, so it never returns nullptr either.
THEOREM WellSizedPoolNeverWaits ==
  ASSUME Cardinality(Threads) <= Cardinality(Conns)
  PROVE  Spec => [](Waiting = {})
<1>1. OnlySurplusThreadsWait => Waiting = {}
  <2> SUFFICES ASSUME OnlySurplusThreadsWait, Waiting # {} PROVE FALSE
    OBVIOUS
  <2>1. Waiting \in SUBSET Threads
    BY DEF Waiting, Sleeping, Awake
  <2>2. IsFiniteSet(Waiting) /\ Cardinality(Waiting) # 0
    BY <2>1, FS_Subset, FS_EmptySet, ThreadsAssumption
  <2>3. /\ Cardinality(Waiting) \in Nat
        /\ Cardinality(Threads) \in Nat /\ Cardinality(Conns) \in Nat
    BY <2>2, FS_CardinalityType, ThreadsAssumption, ConnsAssumption
  <2> QED
    BY <2>2, <2>3 DEF OnlySurplusThreadsWait
<1> QED
  BY <1>1, SurplusBoundsWaiting, PTL

-----------------------------------------------------------------------------
LEMMA InitRefines == Init => Abstract!Init
BY DEF Init, Abstract!Init, Pooled

LEMMA NextRefines == IInv /\ [Next]_vars => [Abstract!Next]_(Abstract!vars)
<1> SUFFICES ASSUME IInv, [Next]_vars
             PROVE  Abstract!Next \/ UNCHANGED <<Pooled, held>>
  BY DEF Abstract!vars
<1>1. ASSUME NEW c \in Conns, Connect(c)
      PROVE  Abstract!Open(c)
  <2>1. Pooled' = Pooled \cup {c} /\ c \notin Pooled /\ held' = held
    BY <1>1, PushElems DEF IInv, TypeOK, Connect, Elems, Pooled
  <2>2. Abstract!Nothing
    BY <1>1 DEF IInv, HeldWhileUsing, CallsOnlyWhileOpen, Connect, Abstract!Nothing
  <2> QED
    BY <2>1, <2>2 DEF Abstract!Open
<1>2. ASSUME NEW t \in Threads, pc[t] # "using", TakeFront(t)
      PROVE  \E c \in Conns : Abstract!Take(t, c)
  <2>1. /\ pool \in Seq(Conns) /\ pool # << >> /\ NoDup(pool)
        /\ Pooled = Elems(pool) /\ Pooled' = Elems(Tail(pool))
    BY <1>2 DEF IInv, TypeOK, EveryConnectionAccountedFor, TakeFront, NoDup, Pooled, Elems
  <2>2. /\ Head(pool) \in Conns /\ Head(pool) \in Pooled
        /\ Pooled' = Pooled \ {Head(pool)}
    BY <2>1, PopElems
  <2>3. held[t] = NoConn
    BY <1>2 DEF IInv, HeldWhileUsing
  <2> QED
    BY <1>2, <2>2, <2>3 DEF TakeFront, Abstract!Take
<1>3. ASSUME NEW t \in Threads, Release(t)
      PROVE  Abstract!Give(t)
  <2>1. held[t] \in Conns /\ held[t] # NoConn /\ held[t] \notin Pooled
    BY <1>3 DEF IInv, TypeOK, HeldWhileUsing, EveryConnectionAccountedFor, Holding, Release
  <2>2. Pooled' = Pooled \cup {held[t]}
    BY <1>3, <2>1, PushElems DEF IInv, TypeOK, Release, Elems, Pooled
  <2> QED
    BY <1>3, <2>1, <2>2 DEF Release, Abstract!Give
<1>4. ASSUME Shutdown
      PROVE  Abstract!Close
  <2>1. Abstract!Nothing /\ Holding = {}
    BY <1>4 DEF IInv, HeldWhileUsing, Shutdown, Abstract!Nothing, Holding
  <2>2. Pooled = Conns /\ Pooled' = {} /\ held' = held
    BY <1>4, <2>1 DEF IInv, EveryConnectionAccountedFor, Shutdown, Pooled
  <2> QED
    BY <2>1, <2>2 DEF Abstract!Close
<1>5. ASSUME UNCHANGED <<pool, held>>
      PROVE  UNCHANGED <<Pooled, held>>
  BY <1>5 DEF Pooled
<1> QED
  BY <1>1, <1>2, <1>3, <1>4, <1>5
     DEF Next, Acquire, AcquireNow, Sleep, Wake, SpuriousWake, Timeout, Resume,
         AcquireWoken, SleepAgain, GiveUp, Exit, InitDone, ConnectFail, Finished,
         vars, Abstract!Next

\* The queue under a mutex implements exclusive lending (ResourcePool): seen
\* from outside, DatabaseProxy and CacheProxy only lend what is free, to a
\* thread that holds nothing, and close with nothing lent.
THEOREM PoolImplementsResourcePool == Spec => ImplementsResourcePool
BY InitRefines, NextRefines, Invariance, PTL
   DEF Spec, ImplementsResourcePool, Abstract!Spec
=============================================================================
