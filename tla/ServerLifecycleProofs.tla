----------------------- MODULE ServerLifecycleProofs -----------------------
(***************************************************************************)
(* What ServerLifecycle guarantees for any number of IO threads,           *)
(* connections and exceptions.                                             *)
(*                                                                         *)
(* The inductive invariant IInv has two halves: what main() has done so    *)
(* far (MainInv), and where the operations are (PlaceInv): each in one     *)
(* place, a session has one exactly while it lives, the acceptor and the   *)
(* timer as long as main() has not begun to stop them. Every action of the *)
(* io_context moves operations in one of three ways, one lemma each.       *)
(***************************************************************************)
EXTENDS ServerLifecycle, QueueFacts

Serving == {"loop", "cancel", "stop", "close", "iocStop", "join"}
Live == {"idle", "part", "asked", "sending", "sent", "lost"}

MainInv ==
  /\ main \in {"bind", "arm", "start", "closeCache"} \cup Serving => pools = {"db", "cache"}
  /\ main = "openCache" => pools = {"db"}
  /\ main = "openDb" => pools = {}
  /\ \A t \in Threads : thread[t] = "run" => main \in Serving
  /\ main \in Starting \cup {"loop", "cancel", "stop"} => ~stopped
  /\ main \in {"close", "iocStop", "join", "closeCache", "closeDb", "exited"} => stopped
  /\ iocStopped => stopped

PlaceInv ==
  /\ OneOperationEach
  /\ \A t \in Threads : exec[t] # None => thread[t] = "run"
  /\ \A t \in Threads : second[t] => exec[t] \in {Accept, Timer}
  /\ main \in Starting => queue = << >> /\ waiting \subseteq {Timer}
  /\ main \in {"openDb", "openCache", "bind", "arm"} => waiting = {}
  /\ main = "start" => waiting = {Timer}
  /\ main = "loop" /\ running => Outstanding(Timer)
  /\ main \in {"loop", "cancel", "stop"} => Outstanding(Accept)
  /\ \A c \in Conns : Outstanding(c) => conn[c] \in Live
  /\ main # "killed" => \A c \in Conns : conn[c] \in Live => Outstanding(c)

IInv ==
  /\ TypeOK
  /\ MainInv
  /\ PlaceInv
  /\ ThreadsLeaveOnlyAfterStop

-----------------------------------------------------------------------------
(* An operation that waits ends and is queued, as reactor events and       *)
(* cancellations do.                                                       *)
LEMMA CompleteMoves ==
  ASSUME waiting \subseteq Ops, queue \in Seq(Ops), OneOperationEach,
         NEW op \in Ops, Complete(op)
  PROVE  /\ waiting' \subseteq Ops /\ queue' \in Seq(Ops)
         /\ OneOperationEach'
         /\ \A x \in Ops : Outstanding(x)' <=> Outstanding(x)
<1>1. Queued = Elems(queue) /\ Queued' = Elems(queue') /\ NoDup(queue)
  BY DEF OneOperationEach, Queued, Elems, NoDup
<1>2. CASE op \notin waiting
  BY <1>2 DEF Complete, OneOperationEach, Outstanding, Queued
<1>3. CASE op \in waiting
  <2>1. queue' = Append(queue, op) /\ waiting' = waiting \ {op} /\ exec' = exec
    BY <1>3 DEF Complete
  <2>2. op \notin Elems(queue)
    BY <1>1, <1>3 DEF OneOperationEach
  <2>3. queue' \in Seq(Ops) /\ Elems(queue') = Elems(queue) \cup {op} /\ NoDup(queue')
    BY <1>1, <2>1, <2>2, PushElems
  <2>4. OneOperationEach'
    BY <1>1, <1>3, <2>1, <2>2, <2>3 DEF OneOperationEach, NoDup
  <2>5. \A x \in Ops : Outstanding(x)' <=> Outstanding(x)
    BY <1>1, <1>3, <2>1, <2>3 DEF Outstanding
  <2> QED
    BY <2>1, <2>3, <2>4, <2>5
<1> QED
  BY <1>2, <1>3

(* run() takes the handler at the head of the queue.                       *)
LEMMA DispatchMoves ==
  ASSUME TypeOK, OneOperationEach, NEW t \in Threads, Dispatch(t)
  PROVE  /\ queue' \in Seq(Ops)
         /\ exec' \in [Threads -> Ops \cup {None}]
         /\ OneOperationEach'
         /\ \A x \in Ops : Outstanding(x)' <=> Outstanding(x)
<1> DEFINE h == Head(queue)
<1>1. Queued = Elems(queue) /\ Queued' = Elems(queue') /\ NoDup(queue)
  BY DEF OneOperationEach, Queued, Elems, NoDup
<1>2. /\ exec[t] = None /\ exec' = [exec EXCEPT ![t] = h]
      /\ queue' = Tail(queue) /\ waiting' = waiting
      /\ queue \in Seq(Ops) /\ queue # << >>
      /\ exec \in [Threads -> Ops \cup {None}] /\ waiting \subseteq Ops
  BY DEF Dispatch, Idle, TypeOK
<1>3. /\ h \in Ops /\ h \in Elems(queue)
      /\ queue' \in Seq(Ops)
      /\ Elems(queue') = Elems(queue) \ {h}
      /\ NoDup(queue')
  BY <1>1, <1>2, PopElems
<1>4. h # None /\ None \notin Ops
  BY <1>3, OpsAssumption
<1> HIDE DEF h
<1>5. h \notin waiting /\ \A u \in Threads : exec[u] # h
  BY <1>1, <1>3 DEF OneOperationEach
<1>6. /\ exec' \in [Threads -> Ops \cup {None}]
      /\ exec'[t] = h /\ \A u \in Threads : u # t => exec'[u] = exec[u]
  BY <1>2, <1>3
<1>7. OneOperationEach'
  <2>1. waiting' \cap Queued' = {}
    BY <1>1, <1>2, <1>3 DEF OneOperationEach
  <2>2. \A u \in Threads : exec'[u] \notin waiting' \cup Queued'
    BY <1>1, <1>2, <1>3, <1>5, <1>6 DEF OneOperationEach
  <2>3. \A u, v \in Threads : exec'[u] = exec'[v] /\ exec'[u] # None => u = v
    BY <1>5, <1>6 DEF OneOperationEach
  <2> QED
    BY <1>3, <2>1, <2>2, <2>3 DEF OneOperationEach, NoDup
<1>8. ASSUME NEW x \in Ops
      PROVE  Outstanding(x)' <=> Outstanding(x)
  <2>1. x # None
    BY OpsAssumption
  <2>2. (\E u \in Threads : exec'[u] = x) <=> x = h \/ \E u \in Threads : exec[u] = x
    BY <1>2, <1>6, <2>1
  <2> QED
    BY <1>1, <1>2, <1>3, <2>2 DEF Outstanding
<1> QED
  BY <1>3, <1>6, <1>7, <1>8

(* A handler returns, and leaves behind the operations S: its own again,   *)
(* that of a new session, or none.                                         *)
LEMMA ReturnMoves ==
  ASSUME TypeOK, OneOperationEach, NEW t \in Threads, exec[t] # None, Return(t),
         NEW S \in SUBSET Ops, \A x \in S : x = exec[t] \/ ~Outstanding(x),
         waiting' = waiting \cup S, queue' = queue
  PROVE  /\ waiting' \subseteq Ops
         /\ exec' \in [Threads -> Ops \cup {None}]
         /\ second' \in [Threads -> BOOLEAN]
         /\ OneOperationEach'
         /\ \A x \in Ops : Outstanding(x)' <=> x \in S \/ (Outstanding(x) /\ x # exec[t])
<1>1. Queued' = Queued
  BY DEF Queued
<1>2. /\ exec' \in [Threads -> Ops \cup {None}]
      /\ exec'[t] = None /\ \A u \in Threads : u # t => exec'[u] = exec[u]
      /\ second' \in [Threads -> BOOLEAN]
      /\ waiting' \subseteq Ops
  BY DEF Return, TypeOK
<1>3. None \notin waiting' \cup Queued'
  <2>1. Queued \subseteq Ops
    BY DEF TypeOK, Queued
  <2> QED
    BY <1>1, <1>2, <2>1, OpsAssumption
<1>4. S \cap Queued = {} /\ \A u \in Threads : u # t => exec[u] \notin S
  <2>1. \A x \in S : x # None
    BY OpsAssumption
  <2> QED
    BY <2>1 DEF OneOperationEach, Outstanding
<1>5. OneOperationEach'
  <2>1. waiting' \cap Queued' = {}
    BY <1>1, <1>4 DEF OneOperationEach
  <2>2. \A u \in Threads : exec'[u] \notin waiting' \cup Queued'
    BY <1>1, <1>2, <1>3, <1>4 DEF OneOperationEach
  <2>3. \A u, v \in Threads : exec'[u] = exec'[v] /\ exec'[u] # None => u = v
    BY <1>2 DEF OneOperationEach
  <2> QED
    BY <2>1, <2>2, <2>3 DEF OneOperationEach
<1>6. ASSUME NEW x \in Ops
      PROVE  Outstanding(x)' <=> x \in S \/ (Outstanding(x) /\ x # exec[t])
  <2>1. x # None
    BY OpsAssumption
  <2>2. exec[t] \notin waiting \cup Queued
    BY DEF OneOperationEach
  <2>3. (\E u \in Threads : exec'[u] = x) <=> x # exec[t] /\ \E u \in Threads : exec[u] = x
    BY <1>2, <2>1 DEF OneOperationEach
  <2> QED
    BY <1>1, <2>2, <2>3 DEF Outstanding
<1> QED
  BY <1>2, <1>5, <1>6

(* A handler returns and leaves nothing behind.                            *)
LEMMA ReturnEnds ==
  ASSUME TypeOK, OneOperationEach, NEW t \in Threads, exec[t] # None, Return(t),
         waiting' = waiting, queue' = queue
  PROVE  /\ waiting' \subseteq Ops
         /\ exec' \in [Threads -> Ops \cup {None}]
         /\ second' \in [Threads -> BOOLEAN]
         /\ OneOperationEach'
         /\ \A x \in Ops : Outstanding(x)' <=> Outstanding(x) /\ x # exec[t]
<1> DEFINE S == {}
<1>1. /\ S \in SUBSET Ops /\ waiting' = waiting \cup S
      /\ \A x : x \notin S
  OBVIOUS
<1> HIDE DEF S
<1>2. /\ waiting' \subseteq Ops
      /\ exec' \in [Threads -> Ops \cup {None}]
      /\ second' \in [Threads -> BOOLEAN]
      /\ OneOperationEach'
      /\ \A x \in Ops : Outstanding(x)' <=> x \in S \/ (Outstanding(x) /\ x # exec[t])
  BY <1>1, ReturnMoves
<1> QED
  BY <1>1, <1>2

(* A handler returns and its next operation is complete already.           *)
LEMMA RequeueMoves ==
  ASSUME TypeOK, OneOperationEach, NEW t \in Threads, exec[t] # None, Return(t),
         waiting' = waiting, queue' = Append(queue, exec[t])
  PROVE  /\ queue' \in Seq(Ops)
         /\ exec' \in [Threads -> Ops \cup {None}]
         /\ second' \in [Threads -> BOOLEAN]
         /\ OneOperationEach'
         /\ \A x \in Ops : Outstanding(x)' <=> Outstanding(x)
<1> DEFINE h == exec[t]
<1>1. Queued = Elems(queue) /\ Queued' = Elems(queue') /\ NoDup(queue)
  BY DEF OneOperationEach, Queued, Elems, NoDup
<1>2. /\ h \in Ops /\ queue \in Seq(Ops) /\ waiting \subseteq Ops
      /\ exec' \in [Threads -> Ops \cup {None}]
      /\ exec'[t] = None /\ \A u \in Threads : u # t => exec'[u] = exec[u]
      /\ second' \in [Threads -> BOOLEAN]
  BY DEF Return, TypeOK
<1>3. h \notin Elems(queue) /\ h \notin waiting
  BY <1>1 DEF OneOperationEach
<1>4. queue' \in Seq(Ops) /\ Elems(queue') = Elems(queue) \cup {h} /\ NoDup(queue')
  BY <1>1, <1>2, <1>3, PushElems
<1>5. None \notin waiting \cup Elems(queue')
  <2>1. Elems(queue) \subseteq Ops
    BY <1>2 DEF Elems
  <2> QED
    BY <1>2, <1>4, <2>1, OpsAssumption
<1>6. \A u \in Threads : u # t => exec[u] # h
  BY DEF OneOperationEach
<1>7. OneOperationEach'
  <2>1. waiting' \cap Queued' = {}
    BY <1>1, <1>3, <1>4 DEF OneOperationEach
  <2>2. \A u \in Threads : exec'[u] \notin waiting' \cup Queued'
    BY <1>1, <1>2, <1>4, <1>5, <1>6 DEF OneOperationEach
  <2>3. \A u, v \in Threads : exec'[u] = exec'[v] /\ exec'[u] # None => u = v
    BY <1>2 DEF OneOperationEach
  <2> QED
    BY <1>4, <2>1, <2>2, <2>3 DEF OneOperationEach, NoDup
<1>8. ASSUME NEW x \in Ops
      PROVE  Outstanding(x)' <=> Outstanding(x)
  <2>1. x # None
    BY OpsAssumption
  <2>2. (\E u \in Threads : exec'[u] = x) <=> x # h /\ \E u \in Threads : exec[u] = x
    BY <1>2, <1>6, <2>1
  <2> QED
    BY <1>1, <1>4, <2>2 DEF Outstanding
<1> QED
  BY <1>2, <1>4, <1>7, <1>8

-----------------------------------------------------------------------------
LEMMA InitIInv == Init => IInv
<1> SUFFICES ASSUME Init PROVE IInv
  OBVIOUS
<1>1. Queued = {}
  BY DEF Init, Queued
<1>2. \A x \in Ops : ~Outstanding(x)
  BY <1>1, OpsAssumption DEF Init, Outstanding
<1>3. TypeOK
  <2>1. queue \in Seq(Ops)
    BY DEF Init
  <2>2. throws \in 0 .. MaxThrows
    BY BoundAssumption DEF Init
  <2> QED
    BY <2>1, <2>2 DEF Init, TypeOK, Starting, Stages
<1>4. MainInv
  BY DEF Init, MainInv, Starting, Serving
<1>5. PlaceInv
  <2>1. OneOperationEach
    BY <1>1 DEF Init, OneOperationEach
  <2> QED
    BY <1>2, <2>1 DEF Init, PlaceInv, Ops, Live
<1>6. ThreadsLeaveOnlyAfterStop
  BY DEF Init, ThreadsLeaveOnlyAfterStop
<1> QED
  BY <1>3, <1>4, <1>5, <1>6 DEF IInv

(* The steps of main() that leave the io_context alone.                    *)
LEMMA MainKeepsIInv ==
  ASSUME IInv,
         \/ OpenPool("db", "openDb", "openCache")
         \/ OpenPool("cache", "openCache", "bind")
         \/ Bind \/ LeaveLoop \/ SetStopped \/ StopIoc \/ Join
         \/ ClosePool("cache", "closeCache", "closeDb")
         \/ ClosePool("db", "closeDb", "exited")
  PROVE  IInv'
<1> USE DEF OpenPool, Bind, LeaveLoop, SetStopped, StopIoc, Join, ClosePool, server, ioc
<1>1. /\ UNCHANGED <<waiting, queue, exec, second, thread, conn, throws, running>>
      /\ main # "killed" /\ main' # "killed"
  OBVIOUS
<1>2. OneOperationEach' /\ \A x \in Ops : Outstanding(x)' <=> Outstanding(x)
  BY <1>1 DEF IInv, PlaceInv, OneOperationEach, Outstanding, Queued
<1>3. TypeOK'
  BY DEF IInv, TypeOK, Starting, Stopping, Ended
<1>4. MainInv'
  <2>1. MainInv
    BY DEF IInv
  <2>2. CASE \/ OpenPool("db", "openDb", "openCache")
             \/ OpenPool("cache", "openCache", "bind")
    BY <2>1, <2>2 DEF MainInv, Starting, Serving
  <2>3. CASE Bind \/ LeaveLoop \/ SetStopped \/ StopIoc
    BY <2>1, <2>3 DEF MainInv, Starting, Serving
  <2>4. CASE Join
    BY <2>1, <2>4 DEF MainInv, Starting, Serving
  <2>5. CASE \/ ClosePool("cache", "closeCache", "closeDb")
             \/ ClosePool("db", "closeDb", "exited")
    BY <2>1, <2>5 DEF MainInv, Starting, Serving
  <2> QED
    BY <2>2, <2>3, <2>4, <2>5
<1>5. PlaceInv'
  <2>1. /\ main' \in Starting => main \in Starting
        /\ main' \in {"openDb", "openCache", "bind", "arm"} => main \in {"openDb", "openCache", "bind", "arm"}
        /\ main' # "start"
        /\ main' # "loop"
        /\ main' \in {"loop", "cancel", "stop"} => main \in {"loop", "cancel", "stop"}
    BY DEF Starting
  <2> QED
    BY <1>1, <1>2, <2>1 DEF IInv, PlaceInv, Ops
<1>6. ThreadsLeaveOnlyAfterStop'
  BY <1>1 DEF IInv, ThreadsLeaveOnlyAfterStop
<1> QED
  BY <1>3, <1>4, <1>5, <1>6 DEF IInv

LEMMA ScheduleKeepsIInv == ASSUME IInv, ScheduleSync PROVE IInv'
<1> USE DEF ScheduleSync, server
<1>1. Queued = {} /\ Queued' = {}
  BY DEF IInv, PlaceInv, Queued, Starting
<1>2. \A t \in Threads : exec[t] = None
  BY DEF IInv, MainInv, PlaceInv, Serving
<1>3. waiting = {} /\ waiting' = {Timer} /\ main' = "start" /\ Timer \in Ops /\ Timer \notin Conns
  BY OpsAssumption DEF IInv, PlaceInv, Ops
<1>4. \A x \in Ops : /\ ~Outstanding(x)
                     /\ Outstanding(x)' <=> x = Timer
  BY <1>1, <1>2, <1>3, OpsAssumption DEF Outstanding
<1>5. TypeOK'
  BY <1>3 DEF IInv, TypeOK, Starting
<1>6. MainInv'
  BY DEF IInv, MainInv, Starting, Serving
<1>7. PlaceInv'
  <2>1. OneOperationEach'
    BY <1>1, <1>2, <1>3, OpsAssumption DEF IInv, PlaceInv, OneOperationEach
  <2>2. \A c \in Conns : Outstanding(c) \/ conn[c] \notin Live
    BY DEF IInv, PlaceInv
  <2> QED
    BY <1>1, <1>2, <1>3, <1>4, <2>1, <2>2 DEF IInv, PlaceInv, Ops, Starting
<1>8. ThreadsLeaveOnlyAfterStop'
  BY DEF IInv, ThreadsLeaveOnlyAfterStop
<1> QED
  BY <1>5, <1>6, <1>7, <1>8 DEF IInv

LEMMA StartKeepsIInv == ASSUME IInv, Start PROVE IInv'
<1> USE DEF Start, server
<1>1. Queued = {} /\ Queued' = {}
  BY DEF IInv, PlaceInv, Queued, Starting
<1>2. \A t \in Threads : exec[t] = None
  BY DEF IInv, MainInv, PlaceInv, Serving
<1>3. /\ waiting = {Timer} /\ waiting' = {Timer, Accept} /\ main' = "loop"
      /\ Timer \in Ops /\ Accept \in Ops /\ Timer \notin Conns /\ Accept \notin Conns
  BY OpsAssumption DEF IInv, PlaceInv, Ops
<1>4. \A x \in Ops : /\ Outstanding(x) <=> x = Timer
                     /\ Outstanding(x)' <=> x \in {Timer, Accept}
  BY <1>1, <1>2, <1>3, OpsAssumption DEF Outstanding
<1>5. TypeOK'
  BY <1>3 DEF IInv, TypeOK, Starting
<1>6. MainInv'
  BY DEF IInv, MainInv, Starting, Serving
<1>7. PlaceInv'
  <2>1. OneOperationEach'
    BY <1>1, <1>2, <1>3, OpsAssumption DEF IInv, PlaceInv, OneOperationEach
  <2>2. \A c \in Conns : conn[c] \notin Live
    BY <1>3, <1>4 DEF IInv, PlaceInv, Ops
  <2>3. \A t \in Threads : ~second[t]
    BY <1>2, OpsAssumption DEF IInv, PlaceInv, Ops
  <2> QED
    BY <1>1, <1>2, <1>3, <1>4, <2>1, <2>2, <2>3 DEF IInv, PlaceInv, Ops, Starting
<1>8. ThreadsLeaveOnlyAfterStop'
  BY DEF IInv, ThreadsLeaveOnlyAfterStop
<1> QED
  BY <1>5, <1>6, <1>7, <1>8 DEF IInv

LEMMA SignalKeepsIInv == ASSUME IInv, Signal PROVE IInv'
<1> USE DEF Signal, server
<1>1. CASE running
  <2>1. UNCHANGED <<main, exec, thread, pools, waiting, queue, second, conn, throws>> /\ ~running'
    BY <1>1
  <2>2. OneOperationEach' /\ \A x \in Ops : Outstanding(x)' <=> Outstanding(x)
    BY <2>1 DEF IInv, PlaceInv, OneOperationEach, Outstanding, Queued
  <2>3. TypeOK'
    BY <2>1 DEF IInv, TypeOK
  <2>4. MainInv'
    BY <2>1 DEF IInv, MainInv
  <2>5. PlaceInv'
    BY <2>1, <2>2 DEF IInv, PlaceInv, Ops
  <2>6. ThreadsLeaveOnlyAfterStop'
    BY <2>1 DEF IInv, ThreadsLeaveOnlyAfterStop
  <2> QED
    BY <2>3, <2>4, <2>5, <2>6 DEF IInv
<1>2. CASE ~running
  <2>1. /\ main' = "killed" /\ UNCHANGED <<pools, waiting, queue, conn, throws, stopped, listening, iocStopped>>
        /\ second' = [t \in Threads |-> FALSE]
        /\ exec' = [t \in Threads |-> None] /\ thread' = [t \in Threads |-> "done"] /\ ~running'
    BY <1>2
  <2>2. OneOperationEach'
    <3>1. Queued \subseteq Ops /\ waiting \subseteq Ops /\ Queued' = Queued
      BY <2>1 DEF IInv, TypeOK, Queued
    <3> QED
      BY <2>1, <3>1, OpsAssumption DEF IInv, PlaceInv, OneOperationEach
  <2>3. \A x \in Ops : Outstanding(x)' => Outstanding(x)
    BY <2>1, OpsAssumption DEF Outstanding, Queued
  <2>4. TypeOK'
    BY <2>1 DEF IInv, TypeOK, Ended
  <2>5. MainInv'
    BY <2>1 DEF IInv, MainInv, Starting, Serving
  <2>6. PlaceInv'
    <3>1. \A t \in Threads : ~second'[t] /\ exec'[t] = None
      BY <2>1
    <3> QED
      BY <2>1, <3>1, <2>2, <2>3 DEF IInv, PlaceInv, Starting, Ops
  <2>7. ThreadsLeaveOnlyAfterStop'
    BY <2>1 DEF ThreadsLeaveOnlyAfterStop
  <2> QED
    BY <2>4, <2>5, <2>6, <2>7 DEF IInv
<1> QED
  BY <1>1, <1>2

(* syncTimer.cancel() and acceptor_.close().                               *)
LEMMA CancelKeepsIInv == ASSUME IInv, CancelTimer \/ CloseAcceptor PROVE IInv'
<1> USE DEF CancelTimer, CloseAcceptor, server
<1>1. /\ UNCHANGED <<running, pools, stopped, iocStopped, conn, throws, exec, second, thread>>
      /\ listening' \in BOOLEAN
      /\ \/ main = "cancel" /\ main' = "stop"
         \/ main = "close" /\ main' = "iocStop"
  BY DEF IInv, TypeOK, Complete
<1>2. /\ waiting' \subseteq Ops /\ queue' \in Seq(Ops)
      /\ OneOperationEach'
      /\ \A x \in Ops : Outstanding(x)' <=> Outstanding(x)
  <2>1. Complete(Timer) \/ Complete(Accept)
    OBVIOUS
  <2>2. /\ waiting \subseteq Ops /\ queue \in Seq(Ops) /\ OneOperationEach
        /\ Timer \in Ops /\ Accept \in Ops
    BY DEF IInv, TypeOK, PlaceInv, Ops
  <2> QED
    BY ONLY <2>1, <2>2, CompleteMoves
<1>3. TypeOK'
  BY <1>1, <1>2 DEF IInv, TypeOK, Stopping
<1>4. MainInv'
  BY <1>1 DEF IInv, MainInv, Starting, Serving
<1>5. PlaceInv'
  BY <1>1, <1>2 DEF IInv, PlaceInv, Ops, Starting
<1>6. ThreadsLeaveOnlyAfterStop'
  BY <1>1 DEF IInv, ThreadsLeaveOnlyAfterStop
<1> QED
  BY <1>3, <1>4, <1>5, <1>6 DEF IInv

-----------------------------------------------------------------------------
(* What a step of the io_context has to establish while main() stands      *)
(* still.                                                                  *)
LEMMA IocKeepsIInv ==
  ASSUME IInv, main \in Serving, UNCHANGED <<running, main, pools, server>>,
         TypeOK', OneOperationEach',
         \A u \in Threads : thread'[u] = thread[u] \/ thread'[u] = "dead",
         \A u \in Threads : exec'[u] # None => thread'[u] = "run",
         \A u \in Threads : second'[u] => exec'[u] \in {Accept, Timer},
         main = "loop" /\ running => Outstanding(Timer)',
         main \in {"loop", "cancel", "stop"} => Outstanding(Accept)',
         \A c \in Conns : Outstanding(c)' <=> conn'[c] \in Live
  PROVE  IInv'
<1>1. MainInv'
  BY DEF IInv, MainInv, server
<1>2. PlaceInv'
  <2>1. main' \notin Starting /\ main' # "killed"
        /\ main' \notin {"openDb", "openCache", "bind", "arm", "start"}
    BY DEF Serving, Starting
  <2> QED
    BY <2>1 DEF PlaceInv
<1>3. ThreadsLeaveOnlyAfterStop'
  <2>1. main # "killed"
    BY DEF Serving
  <2> QED
    BY <2>1 DEF IInv, ThreadsLeaveOnlyAfterStop, server
<1> QED
  BY <1>1, <1>2, <1>3 DEF IInv

(* Before a step of the io_context: main() serves, and a session has an    *)
(* operation exactly while it lives.                                       *)
LEMMA WhileServing ==
  ASSUME IInv, NEW t \in Threads, thread[t] = "run" \/ exec[t] # None
  PROVE  /\ main \in Serving
         /\ thread[t] = "run"
         /\ \A c \in Conns : Outstanding(c) <=> conn[c] \in Live
<1>1. thread[t] = "run"
  BY DEF IInv, PlaceInv
<1>2. main \in Serving
  BY <1>1 DEF IInv, MainInv
<1>3. main # "killed"
  BY <1>2 DEF Serving
<1> QED
  BY <1>1, <1>2, <1>3 DEF IInv, PlaceInv

(* A client acts, an accept fails, the timer expires.                      *)
LEMMA EventKeepsIInv ==
  ASSUME IInv, Reactor, NEW op \in Ops, op \in waiting, Complete(op),
         UNCHANGED <<running, main, pools, server, throws>>,
         conn' \in [Conns -> Stages],
         \A c \in Conns : conn'[c] \in Live <=> conn[c] \in Live
  PROVE  IInv'
<1>1. PICK t \in Threads : Idle(t)
  BY DEF Reactor
<1>2. main \in Serving /\ \A c \in Conns : Outstanding(c) <=> conn[c] \in Live
  BY <1>1, WhileServing DEF Idle
<1>3. waiting \subseteq Ops /\ queue \in Seq(Ops) /\ OneOperationEach
  BY DEF IInv, TypeOK, PlaceInv
<1>4. /\ waiting' \subseteq Ops /\ queue' \in Seq(Ops)
      /\ OneOperationEach'
      /\ \A x \in Ops : Outstanding(x)' <=> Outstanding(x)
  BY <1>3, CompleteMoves
<1>5. UNCHANGED <<exec, second, thread>>
  BY DEF Complete
<1>6. TypeOK'
  BY <1>4, <1>5 DEF IInv, TypeOK, server
<1>7. /\ \A u \in Threads : exec[u] # None => thread[u] = "run"
      /\ \A u \in Threads : second[u] => exec[u] \in {Accept, Timer}
      /\ main = "loop" /\ running => Outstanding(Timer)
      /\ main \in {"loop", "cancel", "stop"} => Outstanding(Accept)
  BY DEF IInv, PlaceInv
<1>8. Conns \subseteq Ops /\ Timer \in Ops /\ Accept \in Ops
  BY DEF Ops
<1> QED
  BY <1>2, <1>4, <1>5, <1>6, <1>7, <1>8, IocKeepsIInv

LEMMA DispatchKeepsIInv == ASSUME IInv, NEW t \in Threads, Dispatch(t) PROVE IInv'
<1>1. /\ UNCHANGED <<running, main, pools, server, waiting, second, thread, conn, throws>>
      /\ thread[t] = "run" /\ exec[t] = None /\ exec' = [exec EXCEPT ![t] = Head(queue)]
  BY DEF Dispatch, Idle
<1>2. main \in Serving /\ \A c \in Conns : Outstanding(c) <=> conn[c] \in Live
  BY <1>1, WhileServing
<1>3. /\ queue' \in Seq(Ops)
      /\ exec' \in [Threads -> Ops \cup {None}]
      /\ OneOperationEach'
      /\ \A x \in Ops : Outstanding(x)' <=> Outstanding(x)
  BY DispatchMoves DEF IInv, PlaceInv
<1>4. TypeOK'
  BY <1>1, <1>3 DEF IInv, TypeOK, server
<1>5. \A u \in Threads : u # t => exec'[u] = exec[u]
  BY <1>1 DEF IInv, TypeOK
<1>6. /\ \A u \in Threads : exec'[u] # None => thread'[u] = "run"
      /\ \A u \in Threads : second'[u] => exec'[u] \in {Accept, Timer}
  BY <1>1, <1>5, OpsAssumption DEF IInv, PlaceInv, Ops
<1>7. /\ main = "loop" /\ running => Outstanding(Timer)
      /\ main \in {"loop", "cancel", "stop"} => Outstanding(Accept)
  BY DEF IInv, PlaceInv
<1>8. Conns \subseteq Ops /\ Timer \in Ops /\ Accept \in Ops
  BY DEF Ops
<1> QED
  BY <1>1, <1>2, <1>3, <1>4, <1>6, <1>7, <1>8, IocKeepsIInv

-----------------------------------------------------------------------------
(* A handler that returns keeps the invariant if it leaves behind what the *)
(* stage of its connection asks for, and what main() relies on.            *)
LEMMA ReturnKeepsIInv ==
  ASSUME IInv, NEW t \in Threads, exec[t] # None, Return(t),
         UNCHANGED <<running, main, pools, server>>,
         waiting' \subseteq Ops, queue' \in Seq(Ops),
         exec' \in [Threads -> Ops \cup {None}], second' \in [Threads -> BOOLEAN],
         OneOperationEach',
         conn' \in [Conns -> Stages], throws' \in 0 .. MaxThrows,
         thread' \in [Threads -> {"none", "run", "done", "dead"}],
         \A u \in Threads : u # t => thread'[u] = thread[u],
         thread'[t] = thread[t] \/ thread'[t] = "dead",
         \A x \in Ops : Outstanding(x) /\ x # exec[t] => Outstanding(x)',
         exec[t] = Timer /\ main = "loop" /\ running => Outstanding(Timer)',
         exec[t] = Accept /\ main \in {"loop", "cancel", "stop"} => Outstanding(Accept)',
         \A c \in Conns : Outstanding(c)' <=> conn'[c] \in Live
  PROVE  IInv'
<1>1. main \in Serving /\ thread[t] = "run"
  BY WhileServing
<1>2. TypeOK'
  BY DEF IInv, TypeOK, server
<1>3. /\ exec'[t] = None /\ second'[t] = FALSE
      /\ \A u \in Threads : u # t => exec'[u] = exec[u] /\ second'[u] = second[u]
  BY DEF IInv, TypeOK, Return
<1>4. /\ \A u \in Threads : exec'[u] # None => thread'[u] = "run"
      /\ \A u \in Threads : second'[u] => exec'[u] \in {Accept, Timer}
  BY <1>3 DEF IInv, PlaceInv
<1>5. /\ main = "loop" /\ running => Outstanding(Timer)'
      /\ main \in {"loop", "cancel", "stop"} => Outstanding(Accept)'
  BY DEF IInv, PlaceInv, Ops
<1>6. \A u \in Threads : thread'[u] = thread[u] \/ thread'[u] = "dead"
  OBVIOUS
<1> QED
  BY <1>1, <1>2, <1>4, <1>5, <1>6, IocKeepsIInv

LEMMA AcceptedKeepsIInv == ASSUME IInv, NEW t \in Threads, Accepted(t) PROVE IInv'
<1> DEFINE S == {c \in Conns : conn[c] = "accepted"}
<1>1. /\ exec[t] = Accept /\ Accept # None /\ StartSessions(S)
      /\ UNCHANGED <<running, main, pools, server, queue, thread, throws>>
  BY OpsAssumption DEF Accepted, Executes, Ops
<1>2. /\ main \in Serving /\ thread[t] = "run" /\ TypeOK /\ OneOperationEach
      /\ \A c \in Conns : Outstanding(c) <=> conn[c] \in Live
  BY <1>1, WhileServing DEF IInv, PlaceInv
<1>3. /\ waiting' = waiting \cup S
      /\ S \in SUBSET Ops /\ Accept \notin S
      /\ \A x \in S : ~Outstanding(x)
      /\ conn' \in [Conns -> Stages]
      /\ \A c \in Conns : conn'[c] \in Live <=> c \in S \/ conn[c] \in Live
  <2>1. waiting' = waiting \cup S /\ conn' = [c \in Conns |-> IF c \in S THEN "idle" ELSE conn[c]]
    BY <1>1 DEF StartSessions
  <2>2. S \in SUBSET Ops /\ Accept \notin S
    BY OpsAssumption DEF Ops
  <2>3. \A x \in S : ~Outstanding(x)
    BY <1>2 DEF Live
  <2>4. conn' \in [Conns -> Stages]
    BY <1>2, <2>1 DEF TypeOK, Stages
  <2> QED
    BY <2>1, <2>2, <2>3, <2>4 DEF Live
<1> HIDE DEF S
<1>4. CASE stopped
  <2>1. Return(t)
    BY <1>4 DEF Accepted
  <2>2. /\ waiting' \subseteq Ops
        /\ exec' \in [Threads -> Ops \cup {None}]
        /\ second' \in [Threads -> BOOLEAN]
        /\ OneOperationEach'
        /\ \A x \in Ops : Outstanding(x)' <=> x \in S \/ (Outstanding(x) /\ x # exec[t])
    BY <1>1, <1>2, <1>3, <2>1, ReturnMoves
  <2>3. main \notin {"loop", "cancel", "stop"}
    BY <1>4 DEF IInv, MainInv
  <2>4. /\ queue' \in Seq(Ops) /\ throws' \in 0 .. MaxThrows
        /\ thread' \in [Threads -> {"none", "run", "done", "dead"}] /\ thread' = thread
    BY <1>1, <1>2 DEF TypeOK
  <2>5. \A c \in Conns : c \in Ops /\ c # Accept
    BY OpsAssumption DEF Ops
  <2>6. \A c \in Conns : Outstanding(c)' <=> conn'[c] \in Live
    BY <1>1, <1>2, <1>3, <2>2, <2>5
  <2>7. /\ exec[t] # None /\ exec[t] # Timer
        /\ \A x \in Ops : Outstanding(x) /\ x # exec[t] => Outstanding(x)'
    BY <1>1, <2>2, OpsAssumption
  <2> QED
    BY <1>1, <1>3, <2>1, <2>2, <2>3, <2>4, <2>6, <2>7, ReturnKeepsIInv
<1>5. CASE ~stopped
  <2>1. second' = [second EXCEPT ![t] = TRUE] /\ exec' = exec /\ Queued' = Queued
    BY <1>1, <1>5 DEF Accepted, Queued
  <2>2. \A x \in Ops : Outstanding(x)' <=> x \in S \/ Outstanding(x)
    BY <1>3, <2>1 DEF Outstanding
  <2>3. OneOperationEach'
    <3>1. S \cap Queued = {} /\ \A u \in Threads : exec[u] \notin S
      BY <1>3 DEF Outstanding
    <3> QED
      BY <1>1, <1>2, <1>3, <2>1, <3>1 DEF OneOperationEach
  <2>4. TypeOK'
    BY <1>1, <1>2, <1>3, <2>1 DEF TypeOK, server
  <2>5. /\ \A u \in Threads : exec'[u] # None => thread'[u] = "run"
        /\ \A u \in Threads : second'[u] => exec'[u] \in {Accept, Timer}
    BY <1>1, <1>2, <2>1 DEF IInv, PlaceInv, TypeOK
  <2>6. /\ main = "loop" /\ running => Outstanding(Timer)'
        /\ main \in {"loop", "cancel", "stop"} => Outstanding(Accept)'
        /\ \A c \in Conns : Outstanding(c)' <=> conn'[c] \in Live
    BY <1>2, <1>3, <2>2 DEF IInv, PlaceInv, Ops
  <2> QED
    BY <1>1, <1>2, <2>3, <2>4, <2>5, <2>6, IocKeepsIInv
<1> QED
  BY <1>4, <1>5

LEMMA AcceptNextKeepsIInv == ASSUME IInv, NEW t \in Threads, AcceptNext(t) PROVE IInv'
<1>1. /\ exec[t] = Accept /\ Accept # None /\ Accept # Timer /\ Accept \in Ops /\ Return(t)
      /\ UNCHANGED <<running, main, pools, server, thread, conn, throws>>
  BY OpsAssumption DEF AcceptNext, Executes, Ops
<1>2. /\ TypeOK /\ OneOperationEach
      /\ \A c \in Conns : Outstanding(c) <=> conn[c] \in Live
  BY <1>1, WhileServing DEF IInv, PlaceInv
<1>3. Outstanding(Accept)
  BY <1>1 DEF Outstanding
<1>4. /\ waiting' \subseteq Ops /\ queue' \in Seq(Ops)
      /\ exec' \in [Threads -> Ops \cup {None}]
      /\ second' \in [Threads -> BOOLEAN]
      /\ OneOperationEach'
      /\ \A x \in Ops : Outstanding(x)' <=> Outstanding(x)
  <2>1. CASE listening
    <3>1. waiting' = waiting \cup {Accept} /\ queue' = queue
      BY <2>1 DEF AcceptNext
    <3>2. {Accept} \in SUBSET Ops /\ \A x \in {Accept} : x = exec[t] \/ ~Outstanding(x)
      BY <1>1
    <3>3. queue' \in Seq(Ops)
      BY <1>2, <3>1 DEF TypeOK
    <3>4. /\ waiting' \subseteq Ops
          /\ exec' \in [Threads -> Ops \cup {None}]
          /\ second' \in [Threads -> BOOLEAN]
          /\ OneOperationEach'
          /\ \A x \in Ops : Outstanding(x)' <=> x \in {Accept} \/ (Outstanding(x) /\ x # exec[t])
      BY <1>1, <1>2, <3>1, <3>2, ReturnMoves
    <3> QED
      BY <1>1, <1>3, <3>3, <3>4
  <2>2. CASE ~listening
    <3>1. waiting' = waiting /\ queue' = Append(queue, exec[t])
      BY <1>1, <2>2 DEF AcceptNext
    <3>2. waiting' \subseteq Ops
      BY <1>2, <3>1 DEF TypeOK
    <3> QED
      BY <1>1, <1>2, <3>1, <3>2, RequeueMoves
  <2> QED
    BY <2>1, <2>2
<1>5. /\ conn' \in [Conns -> Stages] /\ throws' \in 0 .. MaxThrows
      /\ thread' \in [Threads -> {"none", "run", "done", "dead"}] /\ thread' = thread
  BY <1>1, <1>2 DEF TypeOK
<1>6. \A c \in Conns : Outstanding(c)' <=> conn'[c] \in Live
  BY <1>1, <1>2, <1>4 DEF Ops
<1>7. Outstanding(Accept)' /\ \A x \in Ops : Outstanding(x) /\ x # exec[t] => Outstanding(x)'
  BY <1>1, <1>3, <1>4
<1>8. exec[t] # None /\ exec[t] # Timer
  BY <1>1
<1> QED
  BY <1>1, <1>4, <1>5, <1>6, <1>7, <1>8, ReturnKeepsIInv

(* The timer's handler finds g_running false: the timer ends with main()   *)
(* on its way out. Otherwise the sync follows.                             *)
LEMMA TimerFiredKeepsIInv == ASSUME IInv, NEW t \in Threads, TimerFired(t) PROVE IInv'
<1>1. /\ exec[t] = Timer /\ Timer # None /\ Timer # Accept /\ Timer \notin Conns
      /\ UNCHANGED <<running, main, pools, server, waiting, queue, thread, conn, throws>>
  BY OpsAssumption DEF TimerFired, Executes, Ops
<1>2. /\ main \in Serving /\ thread[t] = "run" /\ TypeOK /\ OneOperationEach
      /\ \A c \in Conns : Outstanding(c) <=> conn[c] \in Live
  BY <1>1, WhileServing DEF IInv, PlaceInv
<1>3. CASE running
  <2>1. second' = [second EXCEPT ![t] = TRUE] /\ exec' = exec
    BY <1>3 DEF TimerFired
  <2>2. OneOperationEach' /\ \A x \in Ops : Outstanding(x)' <=> Outstanding(x)
    BY <1>1, <1>2, <2>1 DEF OneOperationEach, Outstanding, Queued
  <2>3. TypeOK'
    BY <1>1, <1>2, <2>1 DEF TypeOK, server
  <2>4. /\ \A u \in Threads : exec'[u] # None => thread'[u] = "run"
        /\ \A u \in Threads : second'[u] => exec'[u] \in {Accept, Timer}
    BY <1>1, <1>2, <2>1 DEF IInv, PlaceInv, TypeOK
  <2>5. /\ main = "loop" /\ running => Outstanding(Timer)'
        /\ main \in {"loop", "cancel", "stop"} => Outstanding(Accept)'
        /\ \A c \in Conns : Outstanding(c)' <=> conn'[c] \in Live
    BY <1>1, <1>2, <2>2 DEF IInv, PlaceInv, Ops
  <2> QED
    BY <1>1, <1>2, <2>2, <2>3, <2>4, <2>5, IocKeepsIInv
<1>4. CASE ~running
  <2>1. Return(t) /\ waiting' = waiting /\ queue' = queue
    BY <1>1, <1>4 DEF TimerFired
  <2>2. /\ waiting' \subseteq Ops
        /\ exec' \in [Threads -> Ops \cup {None}]
        /\ second' \in [Threads -> BOOLEAN]
        /\ OneOperationEach'
        /\ \A x \in Ops : Outstanding(x)' <=> Outstanding(x) /\ x # exec[t]
    BY <1>1, <1>2, <2>1, ReturnEnds
  <2>3. /\ queue' \in Seq(Ops) /\ conn' \in [Conns -> Stages] /\ throws' \in 0 .. MaxThrows
        /\ thread' \in [Threads -> {"none", "run", "done", "dead"}] /\ thread' = thread
    BY <1>1, <1>2 DEF TypeOK
  <2>4. \A c \in Conns : Outstanding(c)' <=> conn'[c] \in Live
    BY <1>1, <1>2, <2>2 DEF Ops
  <2>5. /\ exec[t] # None /\ exec[t] # Accept
        /\ \A x \in Ops : Outstanding(x) /\ x # exec[t] => Outstanding(x)'
    BY <1>1, <2>2
  <2> QED
    BY <1>1, <1>4, <2>1, <2>2, <2>3, <2>4, <2>5, ReturnKeepsIInv
<1> QED
  BY <1>3, <1>4

LEMMA SyncedKeepsIInv == ASSUME IInv, NEW t \in Threads, Synced(t) PROVE IInv'
<1>1. /\ exec[t] = Timer /\ Timer # None /\ Timer # Accept /\ Timer \in Ops /\ Timer \notin Conns
      /\ Return(t) /\ waiting' = waiting \cup {Timer} /\ queue' = queue
      /\ UNCHANGED <<running, main, pools, server, thread, conn, throws>>
  BY OpsAssumption DEF Synced, Executes, Ops
<1>2. /\ TypeOK /\ OneOperationEach
      /\ \A c \in Conns : Outstanding(c) <=> conn[c] \in Live
  BY <1>1, WhileServing DEF IInv, PlaceInv
<1>3. {Timer} \in SUBSET Ops /\ \A x \in {Timer} : x = exec[t] \/ ~Outstanding(x)
  BY <1>1
<1>4. /\ waiting' \subseteq Ops
      /\ exec' \in [Threads -> Ops \cup {None}]
      /\ second' \in [Threads -> BOOLEAN]
      /\ OneOperationEach'
      /\ \A x \in Ops : Outstanding(x)' <=> x \in {Timer} \/ (Outstanding(x) /\ x # exec[t])
  BY <1>1, <1>2, <1>3, ReturnMoves
<1>5. /\ queue' \in Seq(Ops) /\ conn' \in [Conns -> Stages] /\ throws' \in 0 .. MaxThrows
      /\ thread' \in [Threads -> {"none", "run", "done", "dead"}] /\ thread' = thread
  BY <1>1, <1>2 DEF TypeOK
<1>6. \A c \in Conns : Outstanding(c)' <=> conn'[c] \in Live
  BY <1>1, <1>2, <1>4 DEF Ops
<1>7. Outstanding(Timer)' /\ \A x \in Ops : Outstanding(x) /\ x # exec[t] => Outstanding(x)'
  BY <1>1, <1>4
<1>8. exec[t] # None /\ exec[t] # Accept
  BY <1>1
<1> QED
  BY <1>1, <1>4, <1>5, <1>6, <1>7, <1>8, ReturnKeepsIInv

(* A handler of a session that goes on: the session lives, and has an      *)
(* operation that waits or is queued.                                      *)
LEMMA SessionGoesOn ==
  ASSUME IInv, NEW t \in Threads, NEW c \in Conns, exec[t] = c, Return(t),
         \/ waiting' = waiting \cup {c} /\ queue' = queue
         \/ waiting' = waiting /\ queue' = Append(queue, c),
         NEW s \in Live, conn' = [conn EXCEPT ![c] = s],
         UNCHANGED <<running, main, pools, server, thread, throws>>
  PROVE  IInv'
<1>1. c \in Ops /\ c # None /\ c # Accept /\ c # Timer
  BY OpsAssumption DEF Ops
<1>2. /\ TypeOK /\ OneOperationEach
      /\ \A d \in Conns : Outstanding(d) <=> conn[d] \in Live
  BY <1>1, WhileServing DEF IInv, PlaceInv
<1>3. Outstanding(c)
  BY DEF Outstanding
<1>4. /\ waiting' \subseteq Ops /\ queue' \in Seq(Ops)
      /\ exec' \in [Threads -> Ops \cup {None}]
      /\ second' \in [Threads -> BOOLEAN]
      /\ OneOperationEach'
      /\ \A x \in Ops : Outstanding(x)' <=> Outstanding(x)
  <2>1. CASE waiting' = waiting \cup {c} /\ queue' = queue
    <3>1. {c} \in SUBSET Ops /\ \A x \in {c} : x = exec[t] \/ ~Outstanding(x)
      BY <1>1
    <3>2. queue' \in Seq(Ops)
      BY <1>2, <2>1 DEF TypeOK
    <3>3. /\ waiting' \subseteq Ops
          /\ exec' \in [Threads -> Ops \cup {None}]
          /\ second' \in [Threads -> BOOLEAN]
          /\ OneOperationEach'
          /\ \A x \in Ops : Outstanding(x)' <=> x \in {c} \/ (Outstanding(x) /\ x # exec[t])
      BY <1>1, <1>2, <2>1, <3>1, ReturnMoves
    <3> QED
      BY <1>3, <3>2, <3>3
  <2>2. CASE waiting' = waiting /\ queue' = Append(queue, c)
    <3>1. waiting' \subseteq Ops /\ queue' = Append(queue, exec[t])
      BY <1>2, <2>2 DEF TypeOK
    <3> QED
      BY <1>1, <1>2, <2>2, <3>1, RequeueMoves
  <2> QED
    BY <2>1, <2>2
<1>5. /\ conn' \in [Conns -> Stages] /\ throws' \in 0 .. MaxThrows
      /\ thread' \in [Threads -> {"none", "run", "done", "dead"}] /\ thread' = thread
      /\ conn'[c] = s /\ \A d \in Conns : d # c => conn'[d] = conn[d]
  BY <1>2 DEF TypeOK, Live, Stages
<1>6. \A d \in Conns : Outstanding(d)' <=> conn'[d] \in Live
  BY <1>2, <1>3, <1>4, <1>5 DEF Ops
<1>7. \A x \in Ops : Outstanding(x) /\ x # exec[t] => Outstanding(x)'
  BY <1>4
<1>8. exec[t] # None /\ exec[t] # Accept /\ exec[t] # Timer
  BY <1>1
<1> QED
  BY <1>4, <1>5, <1>6, <1>7, <1>8, ReturnKeepsIInv

(* A handler of a session that ends, with the thread or without.           *)
LEMMA SessionEnds ==
  ASSUME IInv, NEW t \in Threads, NEW c \in Conns, exec[t] = c, Return(t),
         conn' = [conn EXCEPT ![c] = "gone"],
         UNCHANGED <<running, main, pools, server, waiting, queue>>,
         throws' \in 0 .. MaxThrows,
         thread' = thread \/ thread' = [thread EXCEPT ![t] = "dead"]
  PROVE  IInv'
<1>1. c \in Ops /\ c # None /\ c # Accept /\ c # Timer /\ queue' = queue /\ waiting' = waiting
  BY OpsAssumption DEF Ops
<1>2. /\ TypeOK /\ OneOperationEach
      /\ \A d \in Conns : Outstanding(d) <=> conn[d] \in Live
  BY <1>1, WhileServing DEF IInv, PlaceInv
<1>3. /\ waiting' \subseteq Ops
      /\ exec' \in [Threads -> Ops \cup {None}]
      /\ second' \in [Threads -> BOOLEAN]
      /\ OneOperationEach'
      /\ \A x \in Ops : Outstanding(x)' <=> Outstanding(x) /\ x # exec[t]
  BY <1>1, <1>2, ReturnEnds
<1>4. /\ queue' \in Seq(Ops) /\ conn' \in [Conns -> Stages]
      /\ conn'[c] = "gone" /\ \A d \in Conns : d # c => conn'[d] = conn[d]
  BY <1>1, <1>2 DEF TypeOK, Stages
<1>5. /\ thread' \in [Threads -> {"none", "run", "done", "dead"}]
      /\ \A u \in Threads : u # t => thread'[u] = thread[u]
      /\ thread'[t] = thread[t] \/ thread'[t] = "dead"
  BY <1>2 DEF TypeOK
<1>6. \A d \in Conns : Outstanding(d)' <=> conn'[d] \in Live
  BY <1>2, <1>3, <1>4 DEF Ops, Live
<1>7. \A x \in Ops : Outstanding(x) /\ x # exec[t] => Outstanding(x)'
  BY <1>3
<1>8. exec[t] # None /\ exec[t] # Accept /\ exec[t] # Timer
  BY <1>1
<1> QED
  BY <1>3, <1>4, <1>5, <1>6, <1>7, <1>8, ReturnKeepsIInv

LEMMA SessionKeepsIInv ==
  ASSUME IInv, NEW t \in Threads, NEW c \in Conns,
         ReadOn(t, c) \/ Serve(t, c) \/ Throw(t, c) \/ Wrote(t, c) \/ Failed(t, c)
  PROVE  IInv'
<1>1. CASE Serve(t, c)
  <2>1. "sent" \in Live /\ "sending" \in Live
    BY DEF Live
  <2> QED
    BY <1>1, <2>1, SessionGoesOn DEF Serve
<1>2. CASE Throw(t, c)
  <2>1. throws' \in 0 .. MaxThrows
    BY <1>2, BoundAssumption DEF IInv, TypeOK, Throw
  <2> QED
    BY <1>2, <2>1, SessionEnds DEF Throw
<1>3. CASE Wrote(t, c)
  <2>1. "idle" \in Live /\ throws \in 0 .. MaxThrows
    BY DEF Live, IInv, TypeOK
  <2> QED
    BY <1>3, <2>1, SessionGoesOn, SessionEnds DEF Wrote
<1>4. CASE Failed(t, c)
  <2>1. throws \in 0 .. MaxThrows
    BY DEF IInv, TypeOK
  <2> QED
    BY <1>4, <2>1, SessionEnds DEF Failed
<1>5. CASE ReadOn(t, c)
  <2>1. "idle" \in Live
    BY DEF Live
  <2> QED
    BY <1>5, <2>1, SessionGoesOn DEF ReadOn
<1> QED
  BY <1>1, <1>2, <1>3, <1>4, <1>5

(* run() returns: there is always the accept, unless main() stopped.       *)
LEMMA QuitKeepsIInv == ASSUME IInv, NEW t \in Threads, Quit(t) PROVE IInv'
<1>1. /\ thread[t] = "run" /\ iocStopped' = TRUE
      /\ thread' = [thread EXCEPT ![t] = "done"]
      /\ UNCHANGED <<running, main, pools, stopped, listening, waiting, queue, exec, second, conn, throws>>
      /\ exec[t] = None
  BY DEF Quit, Idle
<1>2. main \in Serving
  BY <1>1, WhileServing
<1>3. stopped
  <2>1. CASE iocStopped
    BY <2>1 DEF IInv, MainInv
  <2>2. CASE NoWork
    <3>1. Accept \in Ops /\ Accept # None
      BY OpsAssumption DEF Ops
    <3>2. ~Outstanding(Accept)
      BY <2>2, <3>1 DEF NoWork, Outstanding, Queued
    <3> QED
      BY <1>2, <3>2 DEF IInv, MainInv, PlaceInv, Serving
  <2> QED
    BY <2>1, <2>2 DEF Quit
<1>4. TypeOK'
  BY <1>1 DEF IInv, TypeOK
<1>5. MainInv'
  BY <1>1, <1>3 DEF IInv, MainInv, TypeOK
<1>6. PlaceInv'
  <2>1. OneOperationEach' /\ \A x \in Ops : Outstanding(x)' <=> Outstanding(x)
    BY <1>1 DEF IInv, PlaceInv, OneOperationEach, Outstanding, Queued
  <2>2. \A u \in Threads : exec'[u] # None => thread'[u] = "run"
    BY <1>1 DEF IInv, PlaceInv, TypeOK
  <2> QED
    BY <1>1, <2>1, <2>2 DEF IInv, PlaceInv, Ops
<1>7. ThreadsLeaveOnlyAfterStop'
  BY <1>1, <1>3 DEF ThreadsLeaveOnlyAfterStop
<1> QED
  BY <1>4, <1>5, <1>6, <1>7 DEF IInv

LEMMA NextIInv == IInv /\ [Next]_vars => IInv'
<1> SUFFICES ASSUME IInv, [Next]_vars PROVE IInv'
  OBVIOUS
<1>1. CASE Main
  BY <1>1, MainKeepsIInv, ScheduleKeepsIInv, StartKeepsIInv, CancelKeepsIInv DEF Main
<1>2. CASE Signal
  BY <1>2, SignalKeepsIInv
<1>3. ASSUME NEW c \in Conns, Connect(c) \/ Ask(c) \/ TakeRest(c) \/ HangUp(c)
      PROVE  IInv'
  <2>1. PICK op \in Ops, from \in Stages, to \in Stages :
           Event(c, op, from, to) /\ (from \in Live <=> to \in Live)
    BY <1>3 DEF Connect, Ask, TakeRest, HangUp, Ops, Stages, Live
  <2>2. conn' \in [Conns -> Stages] /\ \A d \in Conns : conn'[d] \in Live <=> conn[d] \in Live
    BY <2>1 DEF Event, IInv, TypeOK
  <2> QED
    BY <2>1, <2>2, EventKeepsIInv DEF Event
<1>4. CASE AcceptError \/ Expire
  <2>1. Accept \in Ops /\ Timer \in Ops /\ conn' = conn /\ conn \in [Conns -> Stages]
    BY <1>4 DEF Ops, AcceptError, Expire, IInv, TypeOK
  <2> QED
    BY <1>4, <2>1, EventKeepsIInv DEF AcceptError, Expire
<1>5. ASSUME NEW t \in Threads, Dispatch(t) \/ Handler(t) \/ Quit(t)
      PROVE  IInv'
  BY <1>5, DispatchKeepsIInv, AcceptedKeepsIInv, AcceptNextKeepsIInv, TimerFiredKeepsIInv,
     SyncedKeepsIInv, SessionKeepsIInv, QuitKeepsIInv DEF Handler
<1>6. CASE UNCHANGED vars
  BY <1>6 DEF vars, server, ioc, IInv, TypeOK, MainInv, PlaceInv, OneOperationEach,
              Outstanding, Queued, ThreadsLeaveOnlyAfterStop
<1> QED
  BY <1>1, <1>2, <1>3, <1>4, <1>5, <1>6 DEF Next, Finished

THEOREM Invariance == Spec => []IInv
BY InitIInv, NextIInv, PTL DEF Spec

-----------------------------------------------------------------------------
\* main(), HttpServer and the io_context keep their types.
THEOREM TypeCorrect == Spec => []TypeOK
BY Invariance, PTL DEF IInv

\* However many IO threads there are, main() closes the pools only when no
\* handler can call the services any more.
THEOREM PoolsOutliveHandlers == Spec => []HandlersFindPoolsOpen
<1>1. IInv => HandlersFindPoolsOpen
  <2> SUFFICES ASSUME IInv, NEW t \in Threads, exec[t] # None
               PROVE  pools = {"db", "cache"}
    BY OpsAssumption DEF HandlersFindPoolsOpen, Executes, Ops
  <2>1. main \in Serving
    BY WhileServing
  <2> QED
    BY <2>1 DEF IInv, MainInv
<1> QED
  BY <1>1, Invariance, PTL

\* No two threads ever execute handlers of one session, of the acceptor or of
\* the timer.
THEOREM OneOperation == Spec => []OneOperationEach
BY Invariance, PTL DEF IInv, PlaceInv

\* The accept loop, the sync timer and every session go on until somebody ends
\* them, for any number of connections, threads and exceptions.
THEOREM NothingForgotten == Spec => []NothingIsForgotten
<1>1. IInv => NothingIsForgotten
  <2> SUFFICES ASSUME IInv, main \notin Ended
               PROVE  /\ main = "loop" /\ running => Outstanding(Accept) /\ Outstanding(Timer)
                      /\ \A c \in Conns : conn[c] \in Live => Outstanding(c)
    BY DEF NothingIsForgotten, Live
  <2> QED
    BY DEF IInv, PlaceInv, Ended
<1> QED
  BY <1>1, Invariance, PTL

\* run() does not return before stop().
THEOREM LeaveAfterStop == Spec => []ThreadsLeaveOnlyAfterStop
BY Invariance, PTL DEF IInv
=============================================================================
