---------------------------- MODULE ArticleViews ----------------------------
(***************************************************************************)
(* View counting in ArticleService: getArticleDetail(), getHotArticles()   *)
(* and syncViewCounts() run on the IO threads and share Redis and MySQL.   *)
(*                                                                         *)
(* Every Redis command and every SQL statement is one action; between two  *)
(* of them any other thread may run. The keys of one article are           *)
(*   info   article:info:{id}    the cached page, abstracted to its count  *)
(*   view   article:view:{id}    the INCR counter                          *)
(*   hot    its score in the sorted set hot:articles:weekly                *)
(* and viewCount is its articles.view_count in MySQL. The sync timer of    *)
(* main() is armed again by the handler it started, when the sync is done. *)
(***************************************************************************)
EXTENDS Integers, Sequences, FiniteSets

CONSTANTS
  Threads,      \* IO threads
  Articles,     \* the rows of the table articles
  InitViews,    \* their view_count before the first start (init.sql)
  None,         \* a key that does not exist
  SyncTop,      \* how many articles a sync reads from the ranking (100)
  HotTop,       \* the limit of a hot list request
  MaxRequests,  \* bound: how many requests arrive
  MaxFaults     \* bound: failed commands, evictions and crashes

ASSUME ArticlesAssumption ==
  /\ IsFiniteSet(Articles) /\ Articles # {}
  /\ InitViews \in [Articles -> Nat]
ASSUME NoneAssumption == None \notin Nat
ASSUME BoundsAssumption ==
  /\ SyncTop \in Nat /\ HotTop \in Nat
  /\ MaxRequests \in Nat /\ MaxFaults \in Nat

VARIABLES
  info, view, hot,    \* Redis
  viewCount,          \* MySQL
  armed,              \* syncTimer waits for its 300 s
  pc,                 \* the command each thread runs next
  art,                \* id: the article it is about
  count,              \* article->viewCount of the request
  redisViews,         \* what INCR or GET article:view returned
  hotIds,             \* the rest of the list ZREVRANGE returned
  requests, faults,   \* how much of the bounds is used up
  visits,             \* history: INCRs executed for the article
  gen,                \* history: how often its counter key was created
  readGen,            \* history: the creation redisViews was read from
  savedGen,           \* history: the creation viewCount came from; 0: init.sql
  shown               \* history: the count the last detail page showed

redis == <<info, view, hot, gen, visits>>
mysql == <<viewCount, savedGen>>
locals == <<art, count, redisViews, readGen, hotIds>>
vars == <<redis, mysql, armed, pc, locals, requests, faults, shown>>

Detail == {"getInfo", "readDb", "incr", "zadd", "setInfo"}
Hot == {"hotRange", "hotDb", "hotRead", "hotGet"}
Sync == {"syncRange", "syncGet", "syncSet"}
PC == {"idle"} \cup Detail \cup Hot \cup Sync

Larger(x, y) == IF x >= y THEN x ELSE y

Goto(t, label) == pc' = [pc EXCEPT ![t] = label]

(* A command that works, and one that fails and takes from the bound.      *)
Works == UNCHANGED faults
Fails == faults < MaxFaults /\ faults' = faults + 1

(* ZREVRANGE hot:articles:weekly 0 n-1; equal scores come in any order.    *)
Ranked == {a \in Articles : hot[a] # None}
TopRanked(n) ==
  LET k == IF n <= Cardinality(Ranked) THEN n ELSE Cardinality(Ranked)
  IN  {s \in [1 .. k -> Ranked] :
         /\ \A i, j \in 1 .. k : i < j => s[i] # s[j] /\ hot[s[i]] >= hot[s[j]]
         /\ \A a \in Ranked, i \in 1 .. k :
              hot[s[i]] >= hot[a] \/ \E j \in 1 .. k : s[j] = a}

-----------------------------------------------------------------------------
(* The stores as docker/mysql/init.sql and an empty Redis leave them; main() has *)
(* armed the timer.                                                        *)
Init ==
  /\ info = [a \in Articles |-> None]
  /\ view = [a \in Articles |-> None]
  /\ hot = [a \in Articles |-> None]
  /\ viewCount = InitViews
  /\ armed = TRUE
  /\ pc = [t \in Threads |-> "idle"]
  /\ art = [t \in Threads |-> CHOOSE a \in Articles : TRUE]
  /\ count = [t \in Threads |-> 0]
  /\ redisViews = [t \in Threads |-> 0]
  /\ hotIds = [t \in Threads |-> << >>]
  /\ requests = 0
  /\ faults = 0
  /\ visits = [a \in Articles |-> 0]
  /\ gen = [a \in Articles |-> 0]
  /\ readGen = [t \in Threads |-> 0]
  /\ savedGen = [a \in Articles |-> 0]
  /\ shown = [a \in Articles |-> 0]

-----------------------------------------------------------------------------
(* getArticleDetail(id), one action per command.                           *)
DetailArrives(t, a) ==
  /\ pc[t] = "idle" /\ requests < MaxRequests
  /\ requests' = requests + 1
  /\ art' = [art EXCEPT ![t] = a]
  /\ Goto(t, "getInfo")
  /\ UNCHANGED <<redis, mysql, armed, count, redisViews, readGen, hotIds, faults, shown>>

InfoHit(t) ==
  /\ pc[t] = "getInfo" /\ info[art[t]] # None
  /\ shown' = [shown EXCEPT ![art[t]] = info[art[t]]]
  /\ Works
  /\ Goto(t, "idle")
  /\ UNCHANGED <<redis, mysql, armed, locals, requests>>

InfoMiss(t) ==
  /\ pc[t] = "getInfo"
  /\ (info[art[t]] = None /\ Works) \/ Fails
  /\ Goto(t, "readDb")
  /\ UNCHANGED <<redis, mysql, armed, locals, requests, shown>>

ReadArticle(t) ==
  /\ pc[t] = "readDb"
  /\ Works
  /\ count' = [count EXCEPT ![t] = viewCount[art[t]]]
  /\ Goto(t, "incr")
  /\ UNCHANGED <<redis, mysql, armed, art, redisViews, readGen, hotIds, requests, shown>>

(* No connection in time, or the query fails: the reply is a 404.          *)
ReadArticleFails(t) ==
  /\ pc[t] = "readDb"
  /\ Fails
  /\ Goto(t, "idle")
  /\ UNCHANGED <<redis, mysql, armed, locals, requests, shown>>

(* INCR as Redis executes it, creating the key if it has to.               *)
Counted(a) ==
  /\ view' = [view EXCEPT ![a] = IF view[a] = None THEN 1 ELSE view[a] + 1]
  /\ gen' = IF view[a] = None THEN [gen EXCEPT ![a] = gen[a] + 1] ELSE gen
  /\ visits' = [visits EXCEPT ![a] = visits[a] + 1]
  /\ UNCHANGED <<info, hot>>

(* The local variables after incr() returned n; a NULL reply returns 0.    *)
Returned(t, n) ==
  /\ redisViews' = [redisViews EXCEPT ![t] = n]
  /\ count' = [count EXCEPT ![t] = Larger(count[t], n)]
  /\ UNCHANGED <<art, readGen, hotIds>>

Incr(t) ==
  /\ pc[t] = "incr"
  /\ \/ Works /\ Counted(art[t]) /\ Returned(t, view'[art[t]])
     \/ Fails /\ Counted(art[t]) /\ Returned(t, 0)
     \/ Fails /\ UNCHANGED redis /\ Returned(t, 0)
  /\ Goto(t, "zadd")
  /\ UNCHANGED <<mysql, armed, requests, shown>>

(* MUTANT of Zadd: an article is ranked once its counter leads MySQL's.    *)
ZaddWhenAhead(t) ==
  /\ pc[t] = "zadd"
  /\ Works
  /\ hot' = IF redisViews[t] >= count[t] THEN [hot EXCEPT ![art[t]] = redisViews[t]] ELSE hot
  /\ Goto(t, "setInfo")
  /\ UNCHANGED <<info, view, gen, visits, mysql, armed, locals, requests, shown>>

(* ZADD hot:articles:weekly; a score that fell is written like any other.  *)
Zadd(t) ==
  /\ pc[t] = "zadd"
  /\ \/ Works /\ hot' = [hot EXCEPT ![art[t]] = redisViews[t]]
     \/ Fails /\ UNCHANGED hot
  /\ Goto(t, "setInfo")
  /\ UNCHANGED <<info, view, gen, visits, mysql, armed, locals, requests, shown>>

(* SETEX, whose result is ignored, and the response.                       *)
SetInfo(t) ==
  /\ pc[t] = "setInfo"
  /\ \/ Works /\ info' = [info EXCEPT ![art[t]] = count[t]]
     \/ Fails /\ UNCHANGED info
  /\ shown' = [shown EXCEPT ![art[t]] = count[t]]
  /\ Goto(t, "idle")
  /\ UNCHANGED <<view, hot, gen, visits, mysql, armed, locals, requests>>

-----------------------------------------------------------------------------
(* getHotArticles(limit): per ranked id a SELECT and a GET of the counter. *)
HotArrives(t) ==
  /\ pc[t] = "idle" /\ requests < MaxRequests
  /\ requests' = requests + 1
  /\ Goto(t, "hotRange")
  /\ UNCHANGED <<redis, mysql, armed, locals, faults, shown>>

(* An empty ranking and a ZREVRANGE that failed look alike.                *)
HotRange(t) ==
  /\ pc[t] = "hotRange"
  /\ \/ Works /\ \E s \in TopRanked(HotTop) : hotIds' = [hotIds EXCEPT ![t] = s]
     \/ Fails /\ hotIds' = [hotIds EXCEPT ![t] = << >>]
  /\ Goto(t, IF hotIds'[t] = << >> THEN "hotDb" ELSE "hotRead")
  /\ UNCHANGED <<redis, mysql, armed, art, count, redisViews, readGen, requests, shown>>

(* Without a ranking the list is one SELECT; a failed one gives none.      *)
HotFallback(t) ==
  /\ pc[t] = "hotDb"
  /\ Works \/ Fails
  /\ Goto(t, "idle")
  /\ UNCHANGED <<redis, mysql, armed, locals, requests, shown>>

(* getArticleById(); an article that cannot be read is left out.           *)
HotRead(t) ==
  /\ pc[t] = "hotRead" /\ hotIds[t] # << >>
  /\ art' = [art EXCEPT ![t] = Head(hotIds[t])]
  /\ hotIds' = [hotIds EXCEPT ![t] = Tail(hotIds[t])]
  /\ \/ /\ Works
        /\ count' = [count EXCEPT ![t] = viewCount[Head(hotIds[t])]]
        /\ Goto(t, "hotGet")
     \/ /\ Fails
        /\ UNCHANGED <<count, pc>>
  /\ UNCHANGED <<redis, mysql, armed, redisViews, readGen, requests, shown>>

(* The count of the list entry: the larger of MySQL's and the counter.     *)
HotGet(t) ==
  /\ pc[t] = "hotGet"
  /\ \/ /\ Works
        /\ view[art[t]] # None
        /\ count' = [count EXCEPT ![t] = Larger(count[t], view[art[t]])]
     \/ /\ Works
        /\ view[art[t]] = None
        /\ UNCHANGED count
     \/ Fails /\ UNCHANGED count
  /\ Goto(t, "hotRead")
  /\ UNCHANGED <<redis, mysql, armed, art, redisViews, readGen, hotIds, requests, shown>>

HotDone(t) ==
  /\ pc[t] = "hotRead" /\ hotIds[t] = << >>
  /\ Goto(t, "idle")
  /\ UNCHANGED <<redis, mysql, armed, locals, requests, faults, shown>>

-----------------------------------------------------------------------------
(* MUTANT of TimerFires: the handler arms the timer before it syncs.       *)
TimerRearmsFirst(t) ==
  /\ armed /\ pc[t] = "idle"
  /\ armed' = TRUE
  /\ Goto(t, "syncRange")
  /\ UNCHANGED <<redis, mysql, locals, requests, faults, shown>>

(* The 300 s are over and an IO thread runs the handler of async_wait.     *)
TimerFires(t) ==
  /\ armed /\ pc[t] = "idle"
  /\ armed' = FALSE
  /\ Goto(t, "syncRange")
  /\ UNCHANGED <<redis, mysql, locals, requests, faults, shown>>

(* syncViewCounts(): the ids of the ranking, then a GET and an UPDATE each.*)
SyncRange(t) ==
  /\ pc[t] = "syncRange"
  /\ \/ Works /\ \E s \in TopRanked(SyncTop) : hotIds' = [hotIds EXCEPT ![t] = s]
     \/ Fails /\ hotIds' = [hotIds EXCEPT ![t] = << >>]
  /\ Goto(t, "syncGet")
  /\ UNCHANGED <<redis, mysql, armed, art, count, redisViews, readGen, requests, shown>>

(* MUTANT of SyncGet: the optional is used without looking into it.        *)
SyncGetUnchecked(t) ==
  /\ pc[t] = "syncGet" /\ hotIds[t] # << >>
  /\ LET a == Head(hotIds[t]) IN
       /\ hotIds' = [hotIds EXCEPT ![t] = Tail(hotIds[t])]
       /\ art' = [art EXCEPT ![t] = a]
       /\ redisViews' = [redisViews EXCEPT ![t] = view[a]]
       /\ readGen' = [readGen EXCEPT ![t] = gen[a]]
       /\ Works /\ Goto(t, "syncSet")
  /\ UNCHANGED <<redis, mysql, armed, count, requests, shown>>

(* A counter that is not there (or not read) leaves the article out.       *)
SyncGet(t) ==
  /\ pc[t] = "syncGet" /\ hotIds[t] # << >>
  /\ LET a == Head(hotIds[t]) IN
       /\ hotIds' = [hotIds EXCEPT ![t] = Tail(hotIds[t])]
       /\ \/ /\ Works /\ view[a] # None
             /\ art' = [art EXCEPT ![t] = a]
             /\ redisViews' = [redisViews EXCEPT ![t] = view[a]]
             /\ readGen' = [readGen EXCEPT ![t] = gen[a]]
             /\ Goto(t, "syncSet")
          \/ /\ (view[a] = None /\ Works) \/ Fails
             /\ UNCHANGED <<art, redisViews, readGen, pc>>
  /\ UNCHANGED <<redis, mysql, armed, count, requests, shown>>

(* MUTANT of SyncSet: incrementViewCount() instead of setViewCount().      *)
SyncAdds(t) ==
  /\ pc[t] = "syncSet"
  /\ Works
  /\ viewCount' = [viewCount EXCEPT ![art[t]] = viewCount[art[t]] + redisViews[t]]
  /\ savedGen' = [savedGen EXCEPT ![art[t]] = readGen[t]]
  /\ Goto(t, "syncGet")
  /\ UNCHANGED <<redis, armed, locals, requests, shown>>

(* setViewCount(); that it failed is ignored.                              *)
SyncSet(t) ==
  /\ pc[t] = "syncSet"
  /\ \/ /\ Works
        /\ viewCount' = [viewCount EXCEPT ![art[t]] = redisViews[t]]
        /\ savedGen' = [savedGen EXCEPT ![art[t]] = readGen[t]]
     \/ Fails /\ UNCHANGED mysql
  /\ Goto(t, "syncGet")
  /\ UNCHANGED <<redis, armed, locals, requests, shown>>

(* MUTANT of SyncDone: the handler does not call scheduleSync() again.     *)
SyncDoneForGood(t) ==
  /\ pc[t] = "syncGet" /\ hotIds[t] = << >>
  /\ Goto(t, "idle")
  /\ UNCHANGED <<redis, mysql, armed, locals, requests, faults, shown>>

(* The list is done, and scheduleSync() arms the timer again.              *)
SyncDone(t) ==
  /\ pc[t] = "syncGet" /\ hotIds[t] = << >>
  /\ armed' = TRUE
  /\ Goto(t, "idle")
  /\ UNCHANGED <<redis, mysql, locals, requests, faults, shown>>

-----------------------------------------------------------------------------
(* EX 3600 on the cached page.                                             *)
InfoExpires(a) ==
  /\ info[a] # None
  /\ info' = [info EXCEPT ![a] = None]
  /\ UNCHANGED <<view, hot, gen, visits, mysql, armed, pc, locals, requests, faults, shown>>

(* maxmemory-policy allkeys-lru drops a key, or a restarted Redis lost it. *)
CounterEvicted(a) ==
  /\ view[a] # None
  /\ Fails
  /\ view' = [view EXCEPT ![a] = None]
  /\ UNCHANGED <<info, hot, gen, visits, mysql, armed, pc, locals, requests, shown>>

RankingEvicted ==
  /\ Ranked # {}
  /\ Fails
  /\ hot' = [a \in Articles |-> None]
  /\ UNCHANGED <<info, view, gen, visits, mysql, armed, pc, locals, requests, shown>>

(* The process dies with every request in it and is started again.         *)
Crash ==
  /\ Fails
  /\ pc' = [t \in Threads |-> "idle"]
  /\ armed' = TRUE
  /\ UNCHANGED <<redis, mysql, locals, requests, shown>>

Arrives(t) == HotArrives(t) \/ \E a \in Articles : DetailArrives(t, a)

Step(t) ==
  \/ InfoHit(t) \/ InfoMiss(t) \/ ReadArticle(t) \/ ReadArticleFails(t)
  \/ Incr(t) \/ Zadd(t) \/ SetInfo(t)
  \/ HotRange(t) \/ HotFallback(t) \/ HotRead(t) \/ HotGet(t) \/ HotDone(t)
  \/ SyncRange(t) \/ SyncGet(t) \/ SyncSet(t) \/ SyncDone(t)

Next ==
  \/ \E t \in Threads : Arrives(t) \/ TimerFires(t) \/ Step(t)
  \/ \E a \in Articles : InfoExpires(a) \/ CounterEvicted(a)
  \/ RankingEvicted
  \/ Crash

Spec == Init /\ [][Next]_vars

(* The scheduler runs a thread that has a command to run, every command    *)
(* returns, and the io_context runs the timer's handler once it is due and *)
(* a thread is free.                                                       *)
Fairness ==
  /\ \A t \in Threads : WF_vars(Step(t))
  /\ WF_vars(\E t \in Threads : TimerFires(t))

FairSpec == Spec /\ Fairness

-----------------------------------------------------------------------------
\* The type invariant of the three operations, the timer and the two stores.
TypeOK ==
  /\ info \in [Articles -> Nat \cup {None}]
  /\ view \in [Articles -> Nat \cup {None}]
  /\ hot \in [Articles -> Nat \cup {None}]
  /\ viewCount \in [Articles -> Nat]
  /\ armed \in BOOLEAN
  /\ pc \in [Threads -> PC]
  /\ art \in [Threads -> Articles]
  /\ count \in [Threads -> Nat]
  /\ redisViews \in [Threads -> Nat]
  /\ hotIds \in [Threads -> Seq(Articles)]
  /\ requests \in 0 .. MaxRequests
  /\ faults \in 0 .. MaxFaults
  /\ visits \in [Articles -> Nat]
  /\ gen \in [Articles -> Nat]
  /\ readGen \in [Threads -> Nat]
  /\ savedGen \in [Articles -> Nat]
  /\ shown \in [Articles -> Nat]

Bound(a) == Larger(InitViews[a], visits[a])

\* No interleaving, failed command, eviction or crash makes the ranking, the
\* cached page, MySQL or a page that is shown count a view nobody made: a sync
\* that added the counter instead of storing it would count views twice.
NoPhantomViews ==
  \A a \in Articles :
    /\ view[a] # None => view[a] <= visits[a]
    /\ hot[a] # None => hot[a] <= visits[a]
    /\ info[a] # None => info[a] <= Bound(a)
    /\ viewCount[a] <= Bound(a)
    /\ shown[a] <= Bound(a)

\* The timer is never lost and never doubled: it is armed exactly when no
\* thread is in syncViewCounts(), and at most one thread is.
OneSyncAtATime ==
  /\ armed <=> \A t \in Threads : pc[t] \notin Sync
  /\ \A t, u \in Threads : pc[t] \in Sync /\ pc[u] \in Sync => t = u

\* A view that was counted is on its way to MySQL: as long as no command
\* failed, an article that has a counter is in the ranking that
\* syncViewCounts() walks, or the thread that counted is about to put it there.
CountedIsRanked ==
  faults = 0 =>
    \A a \in Articles : view[a] # None =>
      hot[a] # None \/ \E t \in Threads : pc[t] = "zadd" /\ art[t] = a

\* A sync lowers view_count only when it stores the first value of a counter
\* key that Redis created since the last store: two syncs never overtake each
\* other, and a slow one never stores an older value of the same counter.
SyncNeverGoesBack ==
  [][\A a \in Articles : viewCount'[a] < viewCount[a] => savedGen'[a] # savedGen[a]]_vars

\* Unless a command fails, what syncViewCounts() can rank it stores: every value
\* the counter reached is in MySQL eventually.
CountedViewsReachMySQL ==
  \A a \in Articles, n \in 1 .. MaxRequests :
    view[a] = n ~> (savedGen[a] # 0 /\ viewCount[a] >= n) \/ faults > 0

\* The interface value never falls back (project summary, section 4.2: the larger
\* of MySQL's and Redis' count is displayed).
ShownNeverFalls ==
  [][\A a \in Articles : shown'[a] >= shown[a]]_vars

\* The ranking always reflects the latest heat (same section): when no detail
\* request is under way, the score of an article is its counter.
RankingIsLatest ==
  (\A t \in Threads : pc[t] \notin Detail) => hot = view
=============================================================================
