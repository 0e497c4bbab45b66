---------------------------- MODULE ResourcePool ----------------------------
(***************************************************************************)
(* What a connection pool promises its callers, without the mutex, the     *)
(* condition variable and the queue that DatabaseProxy and CacheProxy use  *)
(* to keep the promise: a connection is either free or lent to one thread, *)
(* a thread holds at most one, and the pool is closed with nothing lent.   *)
(***************************************************************************)
CONSTANTS
  Threads,  \* the IO threads that run request handlers
  Conns,    \* the connections the pool opens
  NoConn    \* "holds no connection"

VARIABLES
  free,     \* connections the pool can hand out
  lent      \* lent[t] is the connection thread t holds, or NoConn

vars == <<free, lent>>

Init ==
  /\ free = {}
  /\ lent = [t \in Threads |-> NoConn]

Nothing == \A t \in Threads : lent[t] = NoConn

Open(c) ==
  /\ c \notin free
  /\ Nothing
  /\ free' = free \cup {c}
  /\ UNCHANGED lent

Take(t, c) ==
  /\ lent[t] = NoConn
  /\ c \in free
  /\ free' = free \ {c}
  /\ lent' = [lent EXCEPT ![t] = c]

Give(t) ==
  /\ lent[t] # NoConn
  /\ lent[t] \notin free
  /\ free' = free \cup {lent[t]}
  /\ lent' = [lent EXCEPT ![t] = NoConn]

Close ==
  /\ free = Conns
  /\ Nothing
  /\ free' = {}
  /\ UNCHANGED lent

Next ==
  \/ \E c \in Conns : Open(c)
  \/ \E t \in Threads, c \in Conns : Take(t, c)
  \/ \E t \in Threads : Give(t)
  \/ Close

Spec == Init /\ [][Next]_vars
=============================================================================
