--------------------------- MODULE ServerLifecycle ---------------------------
(***************************************************************************)
(* The process: main(), its signal handler, HttpServer and the IO threads  *)
(* that share one io_context, from the opening of the pools to the return  *)
(* of main().                                                              *)
(*                                                                         *)
(* What the io_context works on are the operations of the acceptor, of the *)
(* sync timer and of the sessions. An operation waits in the reactor, or   *)
(* its handler is in the queue, or a thread executes the handler, which    *)
(* may start the next operation of the same object. Nobody but these       *)
(* operations keeps run() from returning: there is no work guard.          *)
(* Clients may do anything at any time; of a connection its stage is kept. *)
(***************************************************************************)
EXTENDS Naturals, Sequences

CONSTANTS
  Threads,        \* IO threads (LS_THREAD_NUM)
  Conns,          \* bound: connections in the life of the process
  Accept, Timer,  \* the operations of acceptor_ and syncTimer
  None,           \* "executes no handler"
  MaxThrows       \* bound: exceptions that leave a handler

Ops == Conns \cup {Accept, Timer}

ASSUME OpsAssumption ==
  /\ Accept \notin Conns /\ Timer \notin Conns /\ Accept # Timer
  /\ None \notin Ops
ASSUME BoundAssumption == MaxThrows \in Nat

VARIABLES
  running,     \* g_running
  main,        \* where main() is
  pools,       \* which of "db" and "cache" are open
  stopped,     \* HttpServer::stopped_
  listening,   \* acceptor_ is open
  iocStopped,  \* ioc_.stop() was called
  waiting,     \* operations the reactor waits for
  queue,       \* operations whose handler is ready
  exec,        \* the operation whose handler a thread executes
  second,      \* the thread is past the check in the middle of that handler
  thread,      \* "none", "run", "done" (run() returned) or "dead" (it threw)
  conn,        \* the stage of each connection
  throws       \* how much of the bound is used up

server == <<stopped, listening, iocStopped>>
ioc == <<waiting, queue, exec, second, thread>>
vars == <<running, main, pools, server, ioc, conn, throws>>

Starting == {"openDb", "openCache", "bind", "arm", "start"}
Stopping == {"cancel", "stop", "close", "iocStop", "join", "closeCache", "closeDb"}
Ended == {"exited", "failed", "aborted", "killed"}

\* "idle" while a read waits, "part" with a segment that does not complete a
\* request, "asked" with one that does, "sending" with a part of the response
\* still to be taken by the kernel, "sent" with none, "lost" when the client
\* went away.
Stages ==
  {"none", "accepted", "idle", "part", "asked", "sending", "sent", "lost", "gone"}

Queued == {queue[i] : i \in DOMAIN queue}

-----------------------------------------------------------------------------
Init ==
  /\ running = TRUE
  /\ main = "openDb"
  /\ pools = {}
  /\ stopped = FALSE /\ listening = FALSE /\ iocStopped = FALSE
  /\ waiting = {}
  /\ queue = << >>
  /\ exec = [t \in Threads |-> None]
  /\ second = [t \in Threads |-> FALSE]
  /\ thread = [t \in Threads |-> "none"]
  /\ conn = [c \in Conns |-> "none"]
  /\ throws = 0

(* db->init(), cache->init(): main() returns 1 when one of them fails.     *)
OpenPool(pool, here, next) ==
  /\ main = here
  /\ \/ main' = next /\ pools' = pools \cup {pool}
     \/ main' = "failed" /\ UNCHANGED pools
  /\ UNCHANGED <<running, server, ioc, conn, throws>>

(* The constructor of HttpServer listens, or throws through main().        *)
Bind ==
  /\ main = "bind"
  /\ \/ main' = "arm" /\ listening' = TRUE
     \/ main' = "aborted" /\ UNCHANGED listening
  /\ UNCHANGED <<running, pools, stopped, iocStopped, ioc, conn, throws>>

ScheduleSync ==
  /\ main = "arm"
  /\ main' = "start"
  /\ waiting' = waiting \cup {Timer}
  /\ UNCHANGED <<running, pools, server, queue, exec, second, thread, conn, throws>>

\* MUTANT of Start: the threads run before anything is accepted.
StartThreadsOnly ==
  /\ main = "start"
  /\ main' = "loop"
  /\ thread' = [t \in Threads |-> "run"]
  /\ UNCHANGED <<running, pools, server, waiting, queue, exec, second, conn, throws>>

Start ==
  /\ main = "start"
  /\ main' = "loop"
  /\ waiting' = waiting \cup {Accept}
  /\ thread' = [t \in Threads |-> "run"]
  /\ UNCHANGED <<running, pools, server, queue, exec, second, conn, throws>>

(* The first signal asks for the shutdown, the second one kills.           *)
Signal ==
  /\ main \notin Ended
  /\ running' = FALSE
  /\ IF running
     THEN UNCHANGED <<main, exec, second, thread>>
     ELSE /\ main' = "killed"
          /\ exec' = [t \in Threads |-> None]
          /\ second' = [t \in Threads |-> FALSE]
          /\ thread' = [t \in Threads |-> "done"]
  /\ UNCHANGED <<pools, server, waiting, queue, conn, throws>>

LeaveLoop ==
  /\ main = "loop"
  /\ ~running
  /\ main' = "cancel"
  /\ UNCHANGED <<running, pools, server, ioc, conn, throws>>

\* An operation ends, if it waits: its handler becomes ready.
Complete(op) ==
  /\ waiting' = waiting \ {op}
  /\ queue' = IF op \in waiting THEN Append(queue, op) ELSE queue
  /\ UNCHANGED <<exec, second, thread>>

(* syncTimer.cancel(): a waiting timer ends; one that is queued, or that   *)
(* the sync re-arms later, does not notice.                                *)
CancelTimer ==
  /\ main = "cancel"
  /\ main' = "stop"
  /\ Complete(Timer)
  /\ UNCHANGED <<running, pools, server, conn, throws>>

(* HttpServer::stop(), step by step.                                       *)
SetStopped ==
  /\ main = "stop"
  /\ main' = "close"
  /\ stopped' = TRUE
  /\ UNCHANGED <<running, pools, listening, iocStopped, ioc, conn, throws>>

CloseAcceptor ==
  /\ main = "close"
  /\ main' = "iocStop"
  /\ listening' = FALSE
  /\ Complete(Accept)
  /\ UNCHANGED <<running, pools, stopped, iocStopped, conn, throws>>

\* MUTANT of StopIoc: relies on the closed acceptor to end run().
SkipStopIoc ==
  /\ main = "iocStop"
  /\ main' = "join"
  /\ UNCHANGED <<running, pools, server, ioc, conn, throws>>

StopIoc ==
  /\ main = "iocStop"
  /\ main' = "join"
  /\ iocStopped' = TRUE
  /\ UNCHANGED <<running, pools, stopped, listening, ioc, conn, throws>>

\* MUTANT of Join: detaches the threads.
Detach ==
  /\ main = "join"
  /\ main' = "closeCache"
  /\ UNCHANGED <<running, pools, server, ioc, conn, throws>>

Join ==
  /\ main = "join"
  /\ \A t \in Threads : thread[t] \in {"done", "dead"}
  /\ main' = "closeCache"
  /\ UNCHANGED <<running, pools, server, ioc, conn, throws>>

(* cache->shutdown(), db->shutdown(), return 0.                            *)
ClosePool(pool, here, next) ==
  /\ main = here
  /\ main' = next
  /\ pools' = pools \ {pool}
  /\ UNCHANGED <<running, server, ioc, conn, throws>>

Main ==
  \/ OpenPool("db", "openDb", "openCache")
  \/ OpenPool("cache", "openCache", "bind")
  \/ Bind
  \/ ScheduleSync
  \/ Start
  \/ LeaveLoop
  \/ CancelTimer
  \/ SetStopped
  \/ CloseAcceptor
  \/ StopIoc
  \/ Join
  \/ ClosePool("cache", "closeCache", "closeDb")
  \/ ClosePool("db", "closeDb", "exited")

-----------------------------------------------------------------------------
\* A thread is in run() with no handler to execute: it runs the reactor.
Idle(t) == thread[t] = "run" /\ exec[t] = None
Reactor == ~iocStopped /\ \E t \in Threads : Idle(t)

(* A client: it connects, its request arrives in whole or in part, it      *)
(* takes the rest of a response, it goes away.                             *)
Event(c, op, from, to) ==
  /\ Reactor
  /\ op \in waiting
  /\ conn[c] = from
  /\ conn' = [conn EXCEPT ![c] = to]
  /\ Complete(op)
  /\ UNCHANGED <<running, main, pools, server, throws>>

Connect(c) == listening /\ Event(c, Accept, "none", "accepted")
Ask(c) == Event(c, c, "idle", "part") \/ Event(c, c, "idle", "asked")
TakeRest(c) == Event(c, c, "sending", "sent")
HangUp(c) == Event(c, c, "idle", "lost") \/ Event(c, c, "sending", "lost")

(* An accept that fails (EMFILE): nobody is accepted.                      *)
AcceptError ==
  /\ Reactor
  /\ listening
  /\ Accept \in waiting
  /\ Complete(Accept)
  /\ UNCHANGED <<running, main, pools, server, conn, throws>>

(* 300 seconds have passed.                                                *)
Expire ==
  /\ Reactor
  /\ Timer \in waiting
  /\ Complete(Timer)
  /\ UNCHANGED <<running, main, pools, server, conn, throws>>

-----------------------------------------------------------------------------
(* run(): an idle thread executes the handler at the head of the queue.    *)
Dispatch(t) ==
  /\ Idle(t)
  /\ ~iocStopped
  /\ queue # << >>
  /\ exec' = [exec EXCEPT ![t] = Head(queue)]
  /\ queue' = Tail(queue)
  /\ UNCHANGED <<running, main, pools, server, waiting, second, thread, conn, throws>>

Executes(t, op, past) == exec[t] = op /\ second[t] = past

Return(t) ==
  /\ exec' = [exec EXCEPT ![t] = None]
  /\ second' = [second EXCEPT ![t] = FALSE]

\* MUTANT of StartSessions: the new session replaces the others.
ReplaceSessions(S) ==
  /\ conn' = [c \in S |-> "idle"]
  /\ waiting' = waiting \cup S

\* The sessions of the connections in S start with doRead().
StartSessions(S) ==
  /\ conn' = [c \in Conns |-> IF c \in S THEN "idle" ELSE conn[c]]
  /\ waiting' = waiting \cup S

\* MUTANT of Accepted: an accept error ends the accept loop.
AcceptedOrQuit(t) ==
  LET S == {c \in Conns : conn[c] = "accepted"}
  IN  /\ Executes(t, Accept, FALSE)
      /\ StartSessions(S)
      /\ IF stopped \/ S = {}
         THEN Return(t)
         ELSE second' = [second EXCEPT ![t] = TRUE] /\ UNCHANGED exec
      /\ UNCHANGED <<running, main, pools, server, queue, thread, throws>>

(* The handler of doAccept(): a session for whom it accepted, if anyone,   *)
(* and the check of stopped_ ...                                           *)
Accepted(t) ==
  /\ Executes(t, Accept, FALSE)
  /\ StartSessions({c \in Conns : conn[c] = "accepted"})
  /\ IF stopped
     THEN Return(t)
     ELSE second' = [second EXCEPT ![t] = TRUE] /\ UNCHANGED exec
  /\ UNCHANGED <<running, main, pools, server, queue, thread, throws>>

(* ... then doAccept(), which main() may have overtaken: on a closed       *)
(* acceptor the accept fails at once.                                      *)
AcceptNext(t) ==
  /\ Executes(t, Accept, TRUE)
  /\ IF listening
     THEN waiting' = waiting \cup {Accept} /\ UNCHANGED queue
     ELSE queue' = Append(queue, Accept) /\ UNCHANGED waiting
  /\ Return(t)
  /\ UNCHANGED <<running, main, pools, server, thread, conn, throws>>

\* MUTANT of TimerFired: arms the timer, then syncs.
TimerFiredArm(t) ==
  /\ Executes(t, Timer, FALSE)
  /\ IF running
     THEN /\ second' = [second EXCEPT ![t] = TRUE]
          /\ waiting' = waiting \cup {Timer}
          /\ UNCHANGED exec
     ELSE Return(t) /\ UNCHANGED waiting
  /\ UNCHANGED <<running, main, pools, server, queue, thread, conn, throws>>

(* The handler of scheduleSync(): the check of g_running, then             *)
(* syncViewCounts(), ...                                                   *)
TimerFired(t) ==
  /\ Executes(t, Timer, FALSE)
  /\ IF running
     THEN second' = [second EXCEPT ![t] = TRUE] /\ UNCHANGED exec
     ELSE Return(t)
  /\ UNCHANGED <<running, main, pools, server, waiting, queue, thread, conn, throws>>

(* ... then the timer again, even when main() has cancelled it meanwhile.  *)
Synced(t) ==
  /\ Executes(t, Timer, TRUE)
  /\ waiting' = waiting \cup {Timer}
  /\ Return(t)
  /\ UNCHANGED <<running, main, pools, server, queue, thread, conn, throws>>

\* MUTANT of Serve: the callback returns and nobody writes the response.
ServeSilently(t, c) ==
  /\ exec[t] = c /\ conn[c] = "asked"
  /\ Return(t)
  /\ UNCHANGED <<running, main, pools, server, waiting, queue, thread, conn, throws>>

(* onRead() without a whole request: reads on.                             *)
ReadOn(t, c) ==
  /\ exec[t] = c /\ conn[c] = "part"
  /\ conn' = [conn EXCEPT ![c] = "idle"]
  /\ waiting' = waiting \cup {c}
  /\ Return(t)
  /\ UNCHANGED <<running, main, pools, server, queue, thread, throws>>

(* onRead() with a whole request: the callback answers, and async_write()  *)
(* hands the kernel all of the response or as much as it takes.            *)
Serve(t, c) ==
  /\ exec[t] = c /\ conn[c] = "asked"
  /\ \/ /\ conn' = [conn EXCEPT ![c] = "sent"]
        /\ queue' = Append(queue, c)
        /\ UNCHANGED waiting
     \/ /\ conn' = [conn EXCEPT ![c] = "sending"]
        /\ waiting' = waiting \cup {c}
        /\ UNCHANGED queue
  /\ Return(t)
  /\ UNCHANGED <<running, main, pools, server, thread, throws>>

(* An exception leaves the callback: the session goes, and so does run().  *)
Throw(t, c) ==
  /\ throws < MaxThrows
  /\ exec[t] = c /\ conn[c] = "asked"
  /\ throws' = throws + 1
  /\ conn' = [conn EXCEPT ![c] = "gone"]
  /\ thread' = [thread EXCEPT ![t] = "dead"]
  /\ Return(t)
  /\ UNCHANGED <<running, main, pools, server, waiting, queue>>

(* onWrite(): reads on, or closes.                                         *)
Wrote(t, c) ==
  /\ exec[t] = c /\ conn[c] = "sent"
  /\ \/ conn' = [conn EXCEPT ![c] = "idle"] /\ waiting' = waiting \cup {c}
     \/ conn' = [conn EXCEPT ![c] = "gone"] /\ UNCHANGED waiting
  /\ Return(t)
  /\ UNCHANGED <<running, main, pools, server, queue, thread, throws>>

(* onRead() or onWrite() with an error: nothing follows.                   *)
Failed(t, c) ==
  /\ exec[t] = c /\ conn[c] = "lost"
  /\ conn' = [conn EXCEPT ![c] = "gone"]
  /\ Return(t)
  /\ UNCHANGED <<running, main, pools, server, waiting, queue, thread, throws>>

(* run() returns when the io_context was stopped or has no work left.      *)
NoWork == waiting = {} /\ queue = << >> /\ \A t \in Threads : exec[t] = None
Quit(t) ==
  /\ Idle(t)
  /\ iocStopped \/ NoWork
  /\ iocStopped' = TRUE
  /\ thread' = [thread EXCEPT ![t] = "done"]
  /\ UNCHANGED <<running, main, pools, stopped, listening, waiting, queue, exec, second, conn, throws>>

Handler(t) ==
  \/ Accepted(t)
  \/ AcceptNext(t)
  \/ TimerFired(t)
  \/ Synced(t)
  \/ \E c \in Conns :
       ReadOn(t, c) \/ Serve(t, c) \/ Throw(t, c) \/ Wrote(t, c) \/ Failed(t, c)

Finished == main \in Ended /\ UNCHANGED vars

Next ==
  \/ Main
  \/ Signal
  \/ \E c \in Conns : Connect(c) \/ Ask(c) \/ TakeRest(c) \/ HangUp(c)
  \/ AcceptError
  \/ Expire
  \/ \E t \in Threads : Dispatch(t) \/ Handler(t) \/ Quit(t)
  \/ Finished

Spec == Init /\ [][Next]_vars

\* main() and the IO threads are scheduled, and every handler returns: its
\* queries do. Nothing makes a client act, a signal come or the timer expire.
FairSpec ==
  /\ Spec
  /\ WF_vars(Main)
  /\ \A t \in Threads : WF_vars(Dispatch(t)) /\ WF_vars(Handler(t)) /\ WF_vars(Quit(t))

-----------------------------------------------------------------------------
\* The type invariant of main(), HttpServer and the io_context.
TypeOK ==
  /\ running \in BOOLEAN
  /\ main \in Starting \cup {"loop"} \cup Stopping \cup Ended
  /\ pools \subseteq {"db", "cache"}
  /\ stopped \in BOOLEAN /\ listening \in BOOLEAN /\ iocStopped \in BOOLEAN
  /\ waiting \subseteq Ops
  /\ queue \in Seq(Ops)
  /\ exec \in [Threads -> Ops \cup {None}]
  /\ second \in [Threads -> BOOLEAN]
  /\ thread \in [Threads -> {"none", "run", "done", "dead"}]
  /\ conn \in [Conns -> Stages]
  /\ throws \in 0 .. MaxThrows

\* Whoever calls the services finds both pools open: main() closes them only
\* after the last handler, that of a sync begun before the signal included.
HandlersFindPoolsOpen ==
  \A t \in Threads :
    \/ Executes(t, Timer, TRUE)
    \/ exec[t] \in Conns /\ conn[exec[t]] = "asked"
    => pools = {"db", "cache"}

\* An object has one operation at a time: no two threads ever run handlers of
\* the same session, of the acceptor or of the timer, although there is no
\* strand and no lock.
OneOperationEach ==
  /\ waiting \cap Queued = {}
  /\ \A i, j \in DOMAIN queue : queue[i] = queue[j] => i = j
  /\ \A t \in Threads : exec[t] \notin waiting \cup Queued
  /\ \A t, u \in Threads : exec[t] = exec[u] /\ exec[t] # None => t = u

Outstanding(op) == op \in waiting \cup Queued \/ \E t \in Threads : exec[t] = op

\* Nothing is forgotten: while the server runs there is an accept and a timer,
\* and until it is gone each session has an operation, through errors,
\* exceptions in other handlers and the races with main().
NothingIsForgotten ==
  main \notin Ended =>
    /\ main = "loop" /\ running => Outstanding(Accept) /\ Outstanding(Timer)
    /\ \A c \in Conns : conn[c] \in {"idle", "part", "asked", "sending", "sent", "lost"}
                      => Outstanding(c)

\* run() returns only after stop(), although no work guard holds it: on an IO
\* thread that was not lost to an exception the server does not fall silent.
ThreadsLeaveOnlyAfterStop ==
  main # "killed" => \A t \in Threads : thread[t] = "done" => stopped

\* Once asked to stop, main() returns (or is killed): the join does not wait
\* for ever, whatever the threads were doing when stop() came.
ShutdownCompletes == ~running ~> main \in Ended

\* While a thread is left, whoever was accepted, has asked (for a part) or was
\* answered is served, until the io_context is stopped.
ServedWhileAThreadIsLeft ==
  \A c \in Conns, s \in {"accepted", "part", "asked", "sent", "lost"} :
    conn[c] = s ~> \/ conn[c] # s
                   \/ iocStopped \/ main \in Ended
                   \/ \A t \in Threads : thread[t] = "dead"

\* The shutdown loses no request that is being processed (project summary,
\* section 4.1): none is left in the middle of its response.
NoRequestLostByShutdown ==
  main = "exited" => \A c \in Conns : conn[c] # "sending"
=============================================================================
