---------------------------- MODULE CommentCache ----------------------------
(***************************************************************************)
(* CommentService for one article: getComments() reads through the Redis   *)
(* list comment:list:{id} and fills it from MySQL, createComment() inserts *)
(* into MySQL and deletes the list. Every Redis command and SQL statement  *)
(* is one action, and the IO threads interleave between them.              *)
(*                                                                         *)
(* A comment is its id: its place in comments, the sequence of create_time *)
(* values (whole seconds, so several comments can share one).              *)
(***************************************************************************)
EXTENDS Integers, Sequences, FiniteSets

CONSTANTS
  Threads,       \* IO threads
  Limits,        \* the limits requests come with, clamped to 1 .. 50
  InitComments,  \* comments of the article that are there at the start
  MaxRequests,   \* bound: how many requests arrive
  MaxFaults      \* bound: failed commands, evictions and crashes

ASSUME ThreadsAssumption == IsFiniteSet(Threads)
ASSUME LimitsAssumption == Limits # {} /\ Limits \subseteq 1 .. 50
ASSUME BoundsAssumption ==
  /\ InitComments \in Nat /\ MaxRequests \in Nat /\ MaxFaults \in Nat

VARIABLES
  comments,         \* MySQL: create_time of comment 1, 2, ...
  list, ttl,        \* Redis: the list, << >> if there is no key; it has a TTL
  pc,               \* the command each thread runs next
  limit,            \* of the getComments() request
  page,             \* json list: the comments of its reply
  todo,             \* rows of the SELECT that have not been pushed yet
  existed,          \* history: comments that were there when it arrived
  requests, faults  \* how much of the bounds is used up

redis == <<list, ttl>>
locals == <<limit, page, todo, existed>>
vars == <<comments, redis, pc, locals, requests, faults>>

Filling == {"push", "expire"}
PC == {"idle", "range", "select", "count", "check", "insert", "del"} \cup Filling

MaxLimit == CHOOSE n \in Limits : \A m \in Limits : m <= n

Elements(s) == {s[i] : i \in DOMAIN s}

Goto(t, label) == pc' = [pc EXCEPT ![t] = label]

(* A command that works, and one that fails and takes from the bound.      *)
Works == UNCHANGED faults
Fails == faults < MaxFaults /\ faults' = faults + 1

(* LRANGE 0 n-1                                                            *)
FirstOf(s, n) == SubSeq(s, 1, IF n <= Len(s) THEN n ELSE Len(s))

(* ORDER BY create_time DESC LIMIT n; equal times come in any order.       *)
Newest(n) ==
  LET k == IF n <= Len(comments) THEN n ELSE Len(comments)
  IN  {s \in [1 .. k -> DOMAIN comments] :
         /\ \A i, j \in 1 .. k : i < j => s[i] # s[j] /\ comments[s[i]] >= comments[s[j]]
         /\ \A c \in DOMAIN comments, i \in 1 .. k :
              comments[s[i]] >= comments[c] \/ \E j \in 1 .. k : s[j] = c}

-----------------------------------------------------------------------------
Init ==
  /\ comments = [c \in 1 .. InitComments |-> 0]
  /\ list = << >>
  /\ ttl = FALSE
  /\ pc = [t \in Threads |-> "idle"]
  /\ limit = [t \in Threads |-> 0]
  /\ page = [t \in Threads |-> << >>]
  /\ todo = [t \in Threads |-> << >>]
  /\ existed = [t \in Threads |-> 0]
  /\ requests = 0
  /\ faults = 0

(* getComments(articleId, limit)                                           *)
GetArrives(t, n) ==
  /\ pc[t] = "idle" /\ requests < MaxRequests
  /\ requests' = requests + 1
  /\ limit' = [limit EXCEPT ![t] = n]
  /\ page' = [page EXCEPT ![t] = << >>]
  /\ existed' = [existed EXCEPT ![t] = Len(comments)]
  /\ Goto(t, "range")
  /\ UNCHANGED <<comments, redis, todo, faults>>

(* MUTANT of Lrange: no item of a hit can be parsed, so it counts as none. *)
LrangeUnparsed(t) ==
  /\ pc[t] = "range"
  /\ Works
  /\ UNCHANGED page
  /\ Goto(t, "select")
  /\ UNCHANGED <<comments, redis, limit, todo, existed, requests>>

(* LRANGE: a hit goes on to the count, an empty or failed one to MySQL.    *)
Lrange(t) ==
  /\ pc[t] = "range"
  /\ \/ Works /\ page' = [page EXCEPT ![t] = FirstOf(list, limit[t])]
     \/ Fails /\ UNCHANGED page
  /\ Goto(t, IF page'[t] = << >> THEN "select" ELSE "count")
  /\ UNCHANGED <<comments, redis, limit, todo, existed, requests>>

(* getCommentsByArticleId(); a failed query is an empty result.            *)
Select(t) ==
  /\ pc[t] = "select"
  /\ \/ Works /\ \E s \in Newest(limit[t]) : todo' = [todo EXCEPT ![t] = s]
     \/ Fails /\ todo' = [todo EXCEPT ![t] = << >>]
  /\ Goto(t, "push")
  /\ UNCHANGED <<comments, redis, limit, page, existed, requests>>

Pushed(c) == list' = << c >> \o list /\ UNCHANGED ttl

(* MUTANT of Push: a row that was not cached is left out of the reply.     *)
PushSkips(t) ==
  /\ pc[t] = "push" /\ todo[t] # << >>
  /\ \/ Works /\ Pushed(Head(todo[t])) /\ page' = [page EXCEPT ![t] = Append(@, Head(todo[t]))]
     \/ Fails /\ UNCHANGED <<redis, page>>
  /\ todo' = [todo EXCEPT ![t] = Tail(@)]
  /\ UNCHANGED <<comments, pc, limit, existed, requests>>

(* One turn of the loop: LPUSH, whose result is ignored.                   *)
Push(t) ==
  /\ pc[t] = "push" /\ todo[t] # << >>
  /\ \/ Works /\ Pushed(Head(todo[t]))
     \/ Fails /\ UNCHANGED redis
  /\ page' = [page EXCEPT ![t] = Append(page[t], Head(todo[t]))]
  /\ todo' = [todo EXCEPT ![t] = Tail(todo[t])]
  /\ UNCHANGED <<comments, pc, limit, existed, requests>>

PushesDone(t) ==
  /\ pc[t] = "push" /\ todo[t] = << >>
  /\ Goto(t, "expire")
  /\ UNCHANGED <<comments, redis, locals, requests, faults>>

(* MUTANT of Expire: the TTL is set on a key that does not exist.          *)
ExpireWrongKey(t) ==
  /\ pc[t] = "expire"
  /\ Works
  /\ Goto(t, "count")
  /\ UNCHANGED <<comments, redis, locals, requests>>

(* EXPIRE 1800 after the last LPUSH; no effect if the key is gone.         *)
Expire(t) ==
  /\ pc[t] = "expire"
  /\ \/ Works /\ ttl' = (list # << >>)
     \/ Fails /\ UNCHANGED ttl
  /\ Goto(t, "count")
  /\ UNCHANGED <<comments, list, locals, requests>>

(* getCommentCount() and the reply; its failure is not checked, so that it *)
(* counts 0 or reads from a null result (see Crash).                       *)
Count(t) ==
  /\ pc[t] = "count"
  /\ Works \/ Fails
  /\ Goto(t, "idle")
  /\ UNCHANGED <<comments, redis, locals, requests>>

-----------------------------------------------------------------------------
(* createComment() with a content that passes the checks.                  *)
CreateArrives(t) ==
  /\ pc[t] = "idle" /\ requests < MaxRequests
  /\ requests' = requests + 1
  /\ Goto(t, "check")
  /\ UNCHANGED <<comments, redis, locals, faults>>

(* getArticleById(): found, or not read and answered with a 404.           *)
Check(t) ==
  /\ pc[t] = "check"
  /\ \/ Works /\ Goto(t, "insert")
     \/ Fails /\ Goto(t, "idle")
  /\ UNCHANGED <<comments, redis, locals, requests>>

(* INSERT: the clock may have advanced since the last comment.             *)
Latest == IF comments = << >> THEN 0 ELSE comments[Len(comments)]
Inserted == \E s \in {Latest, Latest + 1} : comments' = Append(comments, s)

(* A failure, of which MySQL may have executed the statement, is a 500.    *)
Insert(t) ==
  /\ pc[t] = "insert"
  /\ \/ Works /\ Inserted /\ Goto(t, "del")
     \/ Fails /\ (Inserted \/ UNCHANGED comments) /\ Goto(t, "idle")
  /\ UNCHANGED <<redis, locals, requests>>

Gone == list' = << >> /\ ttl' = FALSE

(* MUTANT of Del: the comment is pushed, with the id 0 the reply has.      *)
DelPushes(t) ==
  /\ pc[t] = "del"
  /\ Works
  /\ list' = << 0 >> \o list
  /\ Goto(t, "idle")
  /\ UNCHANGED <<comments, ttl, locals, requests>>

(* DEL, whose result is ignored, and the 201.                              *)
Del(t) ==
  /\ pc[t] = "del"
  /\ \/ Works /\ Gone
     \/ Fails /\ UNCHANGED redis
  /\ Goto(t, "idle")
  /\ UNCHANGED <<comments, locals, requests>>

-----------------------------------------------------------------------------
(* The 1800 s of the key are over.                                         *)
ListExpires ==
  /\ ttl
  /\ Gone
  /\ UNCHANGED <<comments, pc, locals, requests, faults>>

(* allkeys-lru drops the key.                                              *)
ListEvicted ==
  /\ list # << >>
  /\ Fails
  /\ Gone
  /\ UNCHANGED <<comments, pc, locals, requests>>

(* The process dies with every request in it and is started again.         *)
Crash ==
  /\ Fails
  /\ pc' = [t \in Threads |-> "idle"]
  /\ todo' = [t \in Threads |-> << >>]
  /\ UNCHANGED <<comments, redis, limit, page, existed, requests>>

(* The bound on requests is used up and nothing is under way or cached.    *)
Quiet ==
  /\ requests = MaxRequests /\ \A t \in Threads : pc[t] = "idle"
  /\ UNCHANGED vars

Step(t) ==
  \/ Lrange(t) \/ Select(t) \/ Push(t) \/ PushesDone(t) \/ Expire(t) \/ Count(t)
  \/ Check(t) \/ Insert(t) \/ Del(t)

Next ==
  \/ \E t \in Threads : Step(t) \/ CreateArrives(t) \/ \E n \in Limits : GetArrives(t, n)
  \/ ListExpires \/ ListEvicted \/ Crash
  \/ Quiet

Spec == Init /\ [][Next]_vars

(* Commands return, threads run on, and a key with a TTL expires.          *)
Fairness ==
  /\ \A t \in Threads : WF_vars(Step(t))
  /\ WF_vars(ListExpires)

FairSpec == Spec /\ Fairness

-----------------------------------------------------------------------------
\* The type invariant of MySQL, the list and the requests.
TypeOK ==
  /\ comments \in Seq(Nat)
  /\ list \in Seq(1 .. Len(comments))
  /\ ttl \in BOOLEAN
  /\ pc \in [Threads -> PC]
  /\ limit \in [Threads -> 0 .. 50]
  /\ page \in [Threads -> Seq(1 .. Len(comments))]
  /\ todo \in [Threads -> Seq(1 .. Len(comments))]
  /\ existed \in [Threads -> 0 .. Len(comments)]
  /\ requests \in 0 .. MaxRequests
  /\ faults \in 0 .. MaxFaults

\* No list lives forever unless a command failed: a list without a TTL is being
\* filled by a thread that will set one, even if DEL, expiry and other fills
\* come between its pushes.
UntimedListIsBeingFilled ==
  faults = 0 /\ list # << >> /\ ~ttl => \E t \in Threads : pc[t] \in Filling

\* However many fills overlap, each thread (and each failed command) adds its
\* rows at most once to a list that is not empty: duplicates are bounded.
ListIsBounded ==
  Len(list) <= (Cardinality(Threads) + faults) * MaxLimit

\* Redis may fail, be filled, emptied or deleted under a reader that missed: what
\* it returns is complete up to its limit, or nothing because the SELECT failed.
\* Fewer comments than asked for come only from the list (LimitIsReturned).
MissIsCompleteOrEmpty ==
  \A t \in Threads :
    pc[t] = "expire" =>
      page[t] = << >> \/ Len(page[t]) >= existed[t] \/ Len(page[t]) >= limit[t]

\* Expiry is the backstop for a stale list (plan.md, section 8): whatever races
\* with its DEL, a comment that is in MySQL is eventually listed, or the list is
\* gone and the next reader sees MySQL.
StaleListsExpire ==
  \A c \in 1 .. InitComments + MaxRequests :
    c <= Len(comments) ~> list = << >> \/ c \in Elements(list)

\* The backstop works as long as the process lives and Redis answers: unless a
\* command failed or the process died, no interleaving of fills, inserts and
\* deletions leaves a stale list for good.
StaleListsExpireUnlessFaulty ==
  \A c \in 1 .. InitComments + MaxRequests :
    c <= Len(comments) ~> list = << >> \/ c \in Elements(list) \/ faults > 0

\* limit is the number of comments returned (docs/API.md, section 5): a reply
\* holds as many as were asked for, if that many existed when it was asked.
LimitIsReturned ==
  \A t \in Threads :
    pc[t] = "count" => Len(page[t]) >= existed[t] \/ Len(page[t]) >= limit[t]
=============================================================================
