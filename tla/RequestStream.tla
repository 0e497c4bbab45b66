---------------------------- MODULE RequestStream ----------------------------
(***************************************************************************)
(* What one HTTP connection promises its client, without segments, buffer  *)
(* and parser: requests are served one at a time, in the order they were   *)
(* asked, each at most once and as it was sent; each is answered at most   *)
(* once, after it was served; nothing happens once the connection is gone. *)
(***************************************************************************)
EXTENDS Naturals, Sequences

CONSTANT Messages  \* everything a client can ask

VARIABLES
  asked,     \* the requests sent so far
  served,    \* the requests handed to the HTTP callback so far
  answered,  \* how many responses were sent
  open       \* the server still listens to this client

vars == <<asked, served, answered, open>>

Init ==
  /\ asked = << >>
  /\ served = << >>
  /\ answered = 0
  /\ open = TRUE

Ask(m) ==
  /\ open
  /\ Len(asked) = answered
  /\ asked' = Append(asked, m)
  /\ UNCHANGED <<served, answered, open>>

\* Serving may fail for good, and the connection with it.
Serve ==
  /\ open
  /\ Len(served) < Len(asked)
  /\ served' = Append(served, asked[Len(served) + 1])
  /\ open' \in BOOLEAN
  /\ UNCHANGED <<asked, answered>>

Answer ==
  /\ open
  /\ answered < Len(served)
  /\ answered' = answered + 1
  /\ UNCHANGED <<asked, served, open>>

Close ==
  /\ open
  /\ open' = FALSE
  /\ UNCHANGED <<asked, served, answered>>

Next == (\E m \in Messages : Ask(m)) \/ Serve \/ Answer \/ Close

Spec == Init /\ [][Next]_vars
=============================================================================
