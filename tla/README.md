# Verification of LightningServer

LightningServer is a small forum: a C++ HTTP server (`src/backend`) that keeps
articles and comments in MySQL, caches them in Redis, counts the views of
articles in Redis and writes the counts back to MySQL on a timer, and a Vue
client (`src/frontend`). This directory holds TLA+ models of it, TLC
configurations that check them on small instances, and proofs that TLAPS checks
for every instance.

    tlc -config MySqlPool.cfg ConnectionPool.tla
    tlapm ConnectionPoolProofs.tla

## 1. Inventory

| Component | Source | State | Operations | Interacts with |
|---|---|---|---|---|
| MySQL pool | `backend/src/db/DatabaseProxy.cpp` | queue of connections, `mutex_`, `cv_`, `initialized_` | `init`, `acquireConnection` (waits at most 5 s), `releaseConnection`, `shutdown`, one method per SQL statement | called by the services on the IO threads, opened and closed by `main` |
| Redis pool | `backend/src/cache/CacheProxy.cpp` | the same | the same, but `acquireConnection` waits without limit; one method per command | the same |
| View counting | `backend/src/service/ArticleService.cpp` | none of its own: Redis keys `article:info`, `article:view`, `hot:articles:weekly`, MySQL `articles.view_count` | `getArticleDetail`, `getHotArticles`, `syncViewCounts`, `listArticles` | both pools; the timer of `main` |
| Comments | `backend/src/service/CommentService.cpp` | Redis list `comment:list:{id}`, MySQL `comments` | `getComments`, `createComment` | both pools |
| Routing | `backend/src/handler/ApiHandler.cpp` | none | one handler per route, status codes, parameter defaults | session above, services below |
| HTTP session | `backend/src/net/HttpSession.cpp`, `Buffer.h` | socket, buffer, the pending read or write | `onRead`, `handleRequest`, `onWrite` | parser, routing |
| HTTP parser | `backend/src/net/HttpParser.cpp` | none: each call starts over | `parse` | consumes the buffer of the session |
| Server | `backend/src/net/HttpServer.cpp` | `io_context`, acceptor, IO threads, `stopped_` | `start`, `doAccept`, `stop` | creates sessions |
| Process | `backend/src/main.cpp` | `g_running`, `syncTimer` | start order, `scheduleSync`, signals, shutdown order | everything |
| Mock stores | both proxies, `MOCK_DB`, `MOCK_CACHE` | static maps without a lock | the same methods | replaces the pools |
| Client | `frontend/src` | per view: list, total, page, loading | fetch on mount, page change, submit | HTTP, answers in any order |
| Configuration | `backend/src/util/Config.cpp`, `Platform.h` | none | read the environment once | constants of everything else |
| Deployment | `docker/` | seeded rows, Redis `allkeys-lru`, `restart: unless-stopped` | | initial states and faults |

All handlers of one server run on `LS_THREAD_NUM` IO threads. A handler blocks
its thread through every Redis command and SQL statement it issues, and no lock
is held from one command to the next. So the state that two requests share is
Redis and MySQL, and everything between two commands of one handler can happen
in between.

What is hard in this code, and where: `PROJECT.json` lists the hazards with
their lines. The main ones are

* the pools: a notified thread that loses the connection to one that barges in,
  a timeout that races with a notification, a method that keeps its connection,
  the close of a pool in use;
* view counting: three commands per view that interleave with those of other
  views and of the sync, commands whose failure is ignored, evicted keys, a
  counter that starts at 0 next to a MySQL value that does not;
* comments: a list filled by several pushes and an `EXPIRE` while others fill or
  delete it, a crash half way;
* HTTP: requests cut or glued by TCP, a parser that consumes before it knows
  that it can finish and then searches a body for a header, sockets that are kept
  open;
* process: exceptions that end IO threads, a shutdown that drops queued work,
  objects shared between `main` and the IO threads.

What makes each component correct:

* pools: no connection is lost, duplicated or closed in use; no thread waits
  while a connection is free; who waits gets an answer;
* view counting: no view is invented; what is counted is ranked and reaches
  MySQL; one sync at a time, never storing an older value of the same counter;
* comments: ids in the cache exist in MySQL; a stale list ends; no list lives
  forever; duplicates are bounded;
* HTTP: no byte is lost or reordered in the buffer; requests are served once, in
  order and as they were sent; every one is answered; a session ends with its
  client;
* process: after a signal the process ends, no handler finds its pools closed;
  until then accept loop, timer and sessions go on, each with one operation.

## 2. Modules

| Module | What it is |
|---|---|
| `ResourcePool` | abstract: exclusive lending of connections |
| `ConnectionPool` | the pools of both proxies; implements `ResourcePool` |
| `ConnectionPoolProofs` | its theorems |
| `ArticleViews` | `ArticleService` and the sync timer over Redis and MySQL |
| `MCArticleViews` | values of `InitViews` for TLC, and the checks of `ArticlePages` as assumptions |
| `ArticleViewsProofs` | its theorems |
| `ArticlePages` | `listArticles()` and `getArticles()` as operators, checked against division by `MCArticleViews` |
| `ArticlePagesProofs` | every article is on one page |
| `CommentCache` | `CommentService` for one article over Redis and MySQL |
| `CommentCacheProofs` | its theorems |
| `ApiHandler` | the routes: which status codes a request can get (operators only) |
| `RequestStream` | abstract: what one HTTP connection promises |
| `HttpConnection` | client, byte stream, `HttpSession`, `Buffer`, `HttpParser`; implements `RequestStream`, uses `ApiHandler` |
| `MCHttpConnection` | the requests of its runs |
| `HttpConnectionProofs` | its theorems |
| `ServerLifecycle` | `main()`, the signal handler, `HttpServer`, the IO threads and their `io_context` |
| `ServerLifecycleProofs` | its theorems |
| `QueueFacts` | lemmas about queues for two of the proof modules |

Operators whose comment begins with `MUTANT of` are not part of any
specification. Each is a plausible bug of the operator it names; substituting it
makes TLC find the property listed with it in `PROJECT.json` violated, which
shows that the property depends on that code.

### ConnectionPool

`pool` is `pool_`, `held` the local variable `conn` of a proxy method, `phase`
is `initialized_` and how far `main` is, `pc` is where a thread is. `TimedWait`
is TRUE for MySQL (`wait_for`) and FALSE for Redis (`wait`).

A critical section under `mutex_` is one action. A sleeping thread is in one of
three states: `blocked` in the wait set, `ready` after a notification or a
spurious wake-up, `expired` after its deadline. The last two have to take the
mutex again, and until they do any other thread can run a section of its own.
This is where wakeups are lost if they are lost at all. The deadline is fixed
when `wait_for` is called, so a thread that goes back to sleep can still expire;
an expired thread looks at the queue once more (`AcquireWoken`) before it returns
`nullptr` (`GiveUp`).

The query between acquire and release is the state `using`. That it returns is
an assumption about the stores: they answer, or the connection breaks. The code
sets no read timeout, so a store that does neither blocks the thread. Every proxy
method releases on all of its paths.

### ArticleViews

One action is one Redis command or SQL statement, `pc` the command a thread runs
next. The document `article:info:{id}` is abstracted to the count it contains,
articles to model values. A command works (`Works`) or fails (`Fails`); a failed
one takes from the bound `MaxFaults`, and so do the eviction of a counter or of
the ranking and a crash of the process. A failed `INCR` may have been executed.
Expiry of `article:info` is free. For the other commands, executed but with the
reply lost is the same as executed, as the code ignores the result.

A Redis counter disappears when it is evicted and starts again at 1. The history
variable `gen` numbers these creations, `readGen` and `savedGen` record from
which creation a sync read and which one MySQL holds; `visits` counts the
executed `INCR`s and `shown` is the count in the last detail page. No action's
guard or effect on the program's state depends on a history variable.

The sync timer is `armed` while it waits. It is armed again by the handler it
started, after the sync (`SyncDone`).

`getHotArticles()` reads the ranking (`HotRange`) and then one article and one
counter after the other, or, without a ranking, its list by one `SELECT`
(`HotFallback`). `ArticlePages` has the list of articles as operators: what
`getArticles()` returns is the page with the total, or an empty page with a total
of 0 (no connection, no `COUNT`) or with the right one (no page).

### CommentCache

One article. A comment is its id, that is its place in `comments`, which holds
`create_time` in whole seconds, so that the order of `ORDER BY create_time DESC`
is free among equal times. `list` is the Redis list (`<< >>` when there is no
key, as in Redis) and `ttl` whether it has a TTL. `createComment()` pushes
nothing; it deletes the list after its `INSERT`. The bounds are as above. A
comment's content is not modelled: the checks that reject a request change no
state. `Crash` ends every request in progress and the process starts again
(`restart: unless-stopped`); the stores keep what they have.

### HttpConnection

One connection, from the accepted socket to the end of its session. `wire` is
what the client has sent and the session has not read; a read takes any number of
its bytes up to the size of `readBuf_`, so a segment ends anywhere. `buf` is the
`Buffer`: its cells, `readIndex_` and `writeIndex_`, with `makeSpace()` moving or
growing as the code does. A byte is the pair of its request and its place in it,
so that a byte lost, repeated or moved is seen.

`parse()` searches everything that is unread for a blank line, takes the lines up
to it out of the buffer, and only then looks for the body. When the body is not
there yet, `parse()` has no memory of the header: the next call searches the body
for a blank line, as if a new request began in it. JSON may have blank lines, so a
request of the model says where its header ends (`head`) and in which pieces of its
body a blank line ends (`blank`), each with what `parse()` would read in the lines
before it: a method, a path, a version, a length. Where these lines have fewer than
three words (`FewWords`), `parse()` drops them and returns false (`Taken`).
`Parse` is the whole function. When what it finds before a blank line begins behind
another blank line or at the start of a request, and is of one request
(`WholeLines`), its outcome is what that request says; when the beginning of these
lines is lost, or they began in one request and end in the next, they may say any
of `Fragments`, or have no end, as the blank line itself may have been cut.

`handled` records the bytes that the callback was given. `Genuine` counts how many
of them, from the first on, are the client's requests; the session is `Astray` once
something else was handled, which `OnlySplitBodiesAreMistaken` shows to be a part of
the body of the request whose turn it was. From then on answers and requests no
longer belong together, and the other properties of a request except it by name.

Two abstractions are left. Two blank lines share no byte (of `\r\n\r\n\r\n` the
code finds one, and the rest is an empty line that it skips). A `Content-Length`
that is no number, in lines read out of a body, is not a case of its own: it
throws, as the id that is no int does, which is one of the fragments.

`op` is the one asynchronous operation of the session. `written` is the moment
between the end of the write and the call of `onWrite()`: the client may have its
response and send the next request then. `Handle` is `handleRequest()` with the
whole callback: its answer is any that `ApiHandler!HandleRequest` allows, and an
exception (`std::stoi` of a number that is no int) ends the session. The client
waits for each response before it sends again. One that pipelines loses the second
request, since `onWrite()` empties the buffer; no browser and no nginx does this,
and it is left out.

### ServerLifecycle

`main` is where `main()` is, one action per step that another thread can see.
`waiting`, `queue` and `exec` are where the operations of the `io_context` are: in
the reactor, ready, or executed by a thread. An operation is named for the object
it belongs to: the acceptor, the sync timer, or a connection. `Return` ends a
handler. The handlers of the acceptor and of the timer have a check in the middle
(`!stopped_`, `g_running`) and go on after it; `second` says that a thread is past
it, so that `main()` can cancel, close or stop in between. Of a connection only
its stage is kept: idle, `part` when a read brings a part of a request and the
handler reads on (`ReadOn`), `asked` when it brings the rest, and so on to the end
of the response. What it reads is in `HttpConnection`, what the handlers do to
the stores in `ArticleViews` and `CommentCache`, and how they take connections in
`ConnectionPool`.

`run()` returns when the `io_context` was stopped or has no operation left
(`Quit`); there is no work guard. An exception that leaves a handler ends the
thread (`Throw`, at most `MaxThrows`). A second signal during the shutdown kills
the process. Sharing the acceptor and the timer object between `main()` and the
IO threads without a lock is a data race; the model has every order of the calls,
not the torn states inside them.

`HandlersFindPoolsOpen` is what `ConnectionPool` assumes when its `Shutdown` waits
for the threads to be gone.

## 3. Runs

| Run | Instance | What it shows |
|---|---|---|
| `MySqlPool` | 4 threads, 2 connections, timed | `TypeOK`; `EveryConnectionAccountedFor`; `NoLostWakeup`: while a thread sleeps, every queued connection is matched by a thread that is awake; `OnlySurplusThreadsWait`; `TimedAcquireReturns`; `ImplementsResourcePool` (refinement) |
| `RedisPool` | the same, untimed | `NoLostWakeup`; `SleepersServedWhenLoadStops` |
| `Views` | 2 threads, 2 articles, 2 view requests, 2 faults | `TypeOK`; `NoPhantomViews`; `OneSyncAtATime`; `CountedIsRanked`; `SyncNeverGoesBack`; `CountedViewsReachMySQL` (liveness, unless something failed) |
| `Comments` | 2 threads, 1 comment at the start, 4 requests, limit 2, 1 fault | `TypeOK`; `UntimedListIsBeingFilled`; `ListIsBounded`; `MissIsCompleteOrEmpty`: a reply that needs MySQL does not depend on what happens to Redis; `StaleListsExpireUnlessFaulty` (liveness) |
| `Http` | 3 requests of 6 kinds, 4 kinds of fragments, buffer of 2 cells, reads of up to 4 | `TypeOK`; `OnlySplitBodiesAreMistaken`: the first thing handled that is no request of the client is part of a body that was split off and has a blank line; until then `UnreadBytesInOrder`; `NothingDiscardedAfterResponse`; `OnlySplitBodiesAreLost`; `BufferHoldsOneRequest`; `HangsUpOnlyForAReason`; `WholeRequestIsHandled`; `AnsweredUnlessBodyLost` and `SessionEndsWithItsClient` (liveness); `ImplementsRequestStream` (refinement) |
| `Lifecycle` | 2 IO threads, 2 connections, 2 exceptions | `TypeOK`; `HandlersFindPoolsOpen`; `OneOperationEach`; `NothingIsForgotten`; `ThreadsLeaveOnlyAfterStop`; `ShutdownCompletes` and `ServedWhileAThreadIsLeft` (liveness) |
| `ViewsShown` | violation | `ShownNeverFalls` |
| `ViewsRanking` | violation | `RankingIsLatest` |
| `CommentsLimit` | violation | `LimitIsReturned` |
| `CommentsCrash` | violation | `StaleListsExpire` |
| `HttpHalf` | violation | `EveryRequestAnswered` |
| `LifecycleDrain` | violation | `NoRequestLostByShutdown` |

The bounds. Four threads on two connections are the least with two threads that
wait at the same time while two hold a connection: one can be notified, lose the
race, and the other time out. Two threads are the least with a race in the
services: one request, and one sync or another request that overlaps it. Two
view requests give a counter that is read by a sync, grows, and is read again.
Two faults give a lost reply together with an eviction, or an eviction and a
crash. Two initial views against a counter of at most two let the counter start
behind MySQL and catch up with it. Two articles let the ranking have an order, and
`HotTop = 1` a request that does not see all of it. Two fills and two inserts of
comments overlap in `Comments`. The requests of `Http` are shorter and longer than
the buffer and than one read, with and without a body, kept alive and closed,
answered and thrown. Three have a body with a blank line: what stands before it is
no request, a request with a body of its own that leaves a rest, and a request that
is not kept alive; what is cut may read like a request that is kept alive, like one
that is not, like one that throws, and like none. Three requests make the buffer
grow, move its unread bytes and be reused. The two exceptions of `Lifecycle` can take both threads; two connections
let a handler of one run while the other is accepted. Runs with a fair specification use no symmetry.

The violations are places where a document of the repository promises more than
the code does. `ViewsShown`: the sync stores the Redis counter even when it is
smaller than `view_count`, and so the number in the interface falls for every
seeded article, although the project summary (section 4.2) says that it never
does. `ViewsRanking`: `INCR` and `ZADD` of two requests interleave, and the
ranking keeps the older score, although it is said to reflect always the latest.
`CommentsLimit`: a list filled by a request with a small limit is a hit for a
larger one, which is answered with fewer comments than there are; replies that
missed the list are never short (`MissIsCompleteOrEmpty`).
`CommentsCrash`: the process dies between two pushes; what was pushed stays, with
no TTL, where `plan.md` counts on expiry as the backstop. In `Comments`
the same holds unless a command failed or the process died.
`HttpHalf`: the summary (section 4.6) says that the parser copes with half
packets, that it finds the header by its blank line and reads the body by its
length. A request whose body comes in a later segment than its header is never
handled. In the trace its body has a blank line: the lines before it are handled as
a request, of a method and a path that nobody asked for, and answered with 404, and
`onWrite()` throws the rest of the body away. Without a blank line nothing is
handled, and the client waits for an answer that does not come. `LifecycleDrain`: the summary (section 4.1) says that stopping loses no
request in progress, and `plan.md` that the queue drains; `ioc_.stop()` abandons
a response that is half written.

Two more places where a document and the code disagree need no run, since one
function shows them. `docs/API.md:93` says that every visit of an article's page
increments the view count; a visit that finds `article:info` in Redis returns before
`INCR` (`ArticleService.cpp:55-58`), so of the visits within an hour one counts, and
`visits` in `ArticleViews` counts the `INCR`s that were executed. The project summary
(lines 72 and 101) describes a work guard, `workGuard_`, that keeps
`io_context::run()` from returning; there is none in the code. That `run()`
nevertheless returns only after `stop()` is `ThreadsLeaveOnlyAfterStop`, and it
holds because the acceptor always has an operation.

What some of the properties do not say. `NoPhantomViews` is an upper bound; a lost
count or a score of 0 does not violate it, and the hazards say so. The cut of a sync
at the 100 first of the ranking (`SyncTop`) does not bite with the two articles of
`Views`: `CountedViewsReachMySQL` is about articles within the cut. The runs of
`CommentCache` do not know which comments were meant to be the same, so that the
duplicate of a client's retry is a comment like any other. `AnsweredUnlessBodyLost`
is one leads-to for all requests: a client that waits has at most one request without
an answer, the last one, so that "fewer answers than requests" leads to "as many" is
an answer to it.

### Fairness

* `ConnectionPool`: a thread that can run, runs (`Resume`), a store answers or the
  connection breaks, so that a query returns and its connection is released (`Release`), the clock reaches a deadline
  (`Timeout`). Nothing is assumed about who gets the mutex first, so a thread
  may lose to newcomers again and again; that is why the untimed pool promises
  service only when the load stops.
* `ArticleViews`: threads run on and commands return (`Step`), and the
  `io_context` runs the timer's handler on a free thread once it is due.
* `CommentCache`: threads run on, commands return, and Redis expires a key that
  has a TTL (`ListExpires`).

* `HttpConnection`: bytes that were sent arrive (`Read`), or an error does once the
  client is gone; a response that is written gets to the kernel (`Written`); the
  handlers that are ready run (`OnWrite`).
* `ServerLifecycle`: `main()` runs on, idle threads take ready handlers and leave
  `run()` when they can, and a handler that a thread executes returns, since its
  commands do. Signals, clients and the timer are not forced to act.

No request has to arrive, and neither eviction nor expiry of `article:info` has
to happen.

## 4. Proofs

Each `*Proofs` module has one step per action in the proof that an invariant is
preserved. The theorems hold for any finite set of threads and any sizes and
bounds, under the named assumptions of the component's module: sets that are
finite, bounds that are naturals, `None` and `NoConn` different from what they
stand beside.

`ConnectionPoolProofs`. `EveryConnectionAccountedFor` is not inductive alone: a
release would push whatever `held` is. `IInv` adds that a thread holds a
connection exactly while it is `using`, and that nobody is inside the pool
before `init()` or after the join. On top of it, `NoLostWakeup` is proved by
counting: a release adds one connection and wakes one thread, if any sleeps; a
thread that takes or finds nothing removes one of each or finds the queue empty.
`OnlySurplusThreadsWait` is a pigeonhole argument: whoever goes to sleep sees an
empty queue, so all connections are with threads that do not wait.
`WellSizedPoolNeverWaits` draws the conclusion for the deployed sizes, four
threads on eight and four connections: no thread ever waits for a connection. The
pool implements `ResourcePool`, each step a step of it or a stutter.

`ArticleViewsProofs`. `NoPhantomViews` needs the same bound for what threads
carry from one command to the next (`LocalsBounded`). It holds because the
number of views never falls, so a value that was bounded when it was read is
bounded whenever it is written. `SyncNeverGoesBack` needs `InOrder`: as long as
they come from the same creation of the counter key, the value in MySQL, the
value a sync has read and the counter are in this order; between the read and
the write of a sync nobody else writes MySQL, by `OneSyncAtATime`.
`CountedIsRanked` is inductive with the types.

`CommentCacheProofs`. Type correctness says that ids in the list, in replies and
in rows still to be pushed are ids of comments that exist.
`UntimedListIsBeingFilled` is inductive with it: a deletion or an expiry in the
middle of a fill empties the list, the next push is of a thread that is still
filling, and only `EXPIRE` ends filling.

`ServerLifecycleProofs`. None of the safety invariants is inductive alone. `IInv`
joins what `main()` has done so far (`MainInv`: which pools are open where, that a
thread runs only between `start()` and the join, that `stopped` and `iocStopped`
go with the place of `main()`) with where the operations are (`PlaceInv`: each in
one place; a session has one exactly while it lives; the acceptor has one until
`main()` closes it, the timer while the server runs; only a running thread executes
a handler). Every action of the `io_context` moves operations in one of a few
ways - one ends and is queued, a thread takes the head of the queue, a handler
returns and leaves some behind, or queues its next one - with one lemma each
(`CompleteMoves`, `DispatchMoves`, `ReturnMoves`, `ReturnEnds`, `RequeueMoves`),
and the proof of an action names its lemma. That `run()` returns only after
`stop()` (`LeaveAfterStop`) is where both halves meet: a thread leaves for want of
work only if the acceptor has no operation, and that is so only once `stopped_`
is set. The safety invariants of the run `Lifecycle` are all proved.

`ArticlePagesProofs`. `EveryArticleOnOnePage`: whatever page size is asked for, each
row of the table is on exactly one page whose offset fits an int, because two pages
begin at least a page size apart (`PagesApart`). The overflow of
`(page - 1) * pageSize` is part of the model (`AsInt`, with `MaxInt` a constant);
a page for which it overflows is not `Reachable` and may repeat rows.

`HttpConnectionProofs`. `IInv` is `Common`, which always holds (types, the indices of
the buffer, that what is unread was sent, that only what was handled is answered), and either `Core` or `Derailed`. `Core` says where
the pieces of the last request are (`InvPieces`): if it was handled, nothing is unread
and nothing on the way; otherwise either its header is not complete and all of its
pieces are, in order, in the buffer and behind it on the wire (`AwaitsHeader`), or its
header is gone and the rest is there without it (`LostItsHeader`). None of the
properties implies this. `Derailed` names the request whose body was taken for
another, and keeps only what stays true of the history: everything handled before
was the client's own, and what was handled in its turn is part of that body, with a
blank line in it. Every action keeps `Core` or enters `Derailed`, which it enters only
by a read behind a lost header, and nothing leaves `Derailed`. So
`OnlySplitBodiesAreMistaken` (`MistakenBodiesWereSplit`) holds throughout, and the
properties that except `Astray` need `Core` alone. `PlainBodiesKeepInStep` draws the
conclusion for clients whose bodies have no blank line behind a line of three words:
`Astray` is never true, so that no exception is ever used.

That the cells between the two indices keep their bytes is shown once for
each operation of `Buffer` (`RetrieveBytes`, `MakeSpaceBytes`, `AppendedBytes`), what
`parse()` makes of either state in `ParseFromHeader` and `ParseBehindLostHeader`, and
a read combines the two (`ParsedSegment`). The bound of the buffer needs
that `rd` is at most the number of pieces already gone of a request that lost its
header: with it, a buffer that has to grow still fits the request.

`BytesStayInOrder` speaks of `Stream`, a recursive function of the requests, and
the provers have no induction for it. The behaviour itself is the induction:
the function exists for no requests, and each `Send` extends it by one
(`HasStream`, `StreamExists`), so that in every state it satisfies its equations.
It needs no `Core`: whatever `parse()` takes for a request, it takes bytes from the
front, so that what is left stays the end of the stream (`UnreadStep`, `EndsStream`).
`Refinement` maps each step to a step of `RequestStream` or a stutter
(`NextRefines`): a `Send` asks, a read that completes a request serves, and only
`Written` answers. The mapping counts what is `Genuine`, and shows the connection as
closed from the moment it is `Astray`: there the promise ends, and all that comes
after is a stutter.

`CommentCacheProofs`, the bound of the list. `ListIsBounded` needs to know how many
more rows can come: a thread in its `SELECT` owes up to the largest limit, one that
pushes owes the rows it still has. `Rows` is the set of these owed rows, and
`RoomForAll`, the inductive invariant, bounds the length of the list and the number
of them together. Only a `LRANGE` that finds the list empty or fails adds to
what is owed: in the first case the owed rows alone are within the bound, in the
second the failure raises it by one fill. The largest limit exists by well-founded
induction on a set of naturals (`LeastNatural`). `MissIsCompleteOrEmpty` is inductive
with `RepliesAddUp`: page and rows still to be pushed are together what the `SELECT`
returned, whether the pushes work or not.

With these, every safety property of the passing runs - invariants, action
properties and refinements - has a theorem. Only model-checked are the liveness properties,
which need fairness and `ENABLED` and are beyond the proof system: `TimedAcquireReturns`,
`SleepersServedWhenLoadStops`, `CountedViewsReachMySQL`, `StaleListsExpireUnlessFaulty`,
`AnsweredUnlessBodyLost`, `SessionEndsWithItsClient`, `ShutdownCompletes` and
`ServedWhileAThreadIsLeft`. The violations are traces of TLC.

## 5. Plan

What is left:

1. The safety that `CountedViewsReachMySQL` rests on, as a theorem: when the timer is
   armed again, MySQL holds at least what the counters of the ranked articles were when
   the sync read the ranking. It needs a history variable with these counters, and a
   run of its size that stays small.
2. A composition of `ConnectionPool` with a handler that takes a Redis and then a
   MySQL connection. No handler holds both at once, so that it would show less
   than the two pools do apart.

## 6. Not modelled

* The order of articles of the same second, which MySQL may choose anew for each page
  (`ORDER BY create_time DESC`): `ArticlePages` is about one order.
* Malformed requests: a client's header without an end, with a request line that does
  not parse, a line without a colon or a `Content-Length` that is no number. The last
  one throws like the exceptions that are modelled. What `parse()` reads in the body of
  a well-formed request is modelled, malformed or not.
* The `Connection` header, which `keepAlive()` never finds: the version decides.
* Clients that pipeline (see `HttpConnection`).
* Mock stores: static maps without a lock, whose concurrent use is undefined.
* The Vue client: its state is the last answer that arrived. The article list hides its
  pager while it loads, so its fetches do not overlap; those of the comments do, which
  is listed as a hazard.
* Data races on the acceptor and the timer object (see `ServerLifecycle`).
* Dead connections: a hiredis context that failed keeps failing and goes back to
  the pool. The services see it as commands that fail, within the bound.
* A statement of a process that died which MySQL executes only after the restart.
* Shutdown in `ArticleViews` and `CommentCache`: `stop()` lets a handler that
  runs finish, so it adds no new state of the stores; the timer's `g_running`
  check is left out with it.
* Several instances of the server on the same stores: the deployment has one.
* Counts near 2^31, where `static_cast<int>` and `std::stoi` would matter.
* JSON and SQL texts, logging, configuration parsing, vendored code.
