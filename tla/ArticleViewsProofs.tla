------------------------- MODULE ArticleViewsProofs -------------------------
(***************************************************************************)
(* What view counting guarantees for any number of IO threads, articles,   *)
(* requests, failed commands, evictions and crashes.                       *)
(***************************************************************************)
EXTENDS ArticleViews, FiniteSetTheorems, SequenceTheorems, TLAPS

(* ZREVRANGE returns a list of article ids.                                *)
LEMMA TopRankedType ==
  ASSUME NEW n \in Nat, NEW s \in TopRanked(n)
  PROVE  s \in Seq(Articles)
<1> DEFINE k == IF n <= Cardinality(Ranked) THEN n ELSE Cardinality(Ranked)
<1>1. IsFiniteSet(Ranked)
  <2>1. Ranked \in SUBSET Articles
    BY DEF Ranked
  <2> QED
    BY <2>1, FS_Subset, ArticlesAssumption
<1>2. k \in Nat
  BY <1>1, FS_CardinalityType
<1>3. s \in [1 .. k -> Ranked]
  BY DEF TopRanked
<1>4. s \in [1 .. k -> Articles]
  BY <1>3 DEF Ranked
<1> HIDE DEF k
<1> QED
  BY <1>2, <1>4, SeqDef

(* The head and the rest of a list of ids that is not empty.               *)
LEMMA PopType ==
  ASSUME NEW s \in Seq(Articles), s # << >>
  PROVE  Head(s) \in Articles /\ Tail(s) \in Seq(Articles)
OBVIOUS

LEMMA LargerType ==
  ASSUME NEW x \in Nat, NEW y \in Nat
  PROVE  /\ Larger(x, y) \in Nat /\ Larger(x, y) >= x /\ Larger(x, y) >= y
         /\ \A z \in Nat : x <= z /\ y <= z => Larger(x, y) <= z
BY DEF Larger

LEMMA FaultsType ==
  ASSUME faults \in 0 .. MaxFaults, Works \/ Fails
  PROVE  faults' \in 0 .. MaxFaults
BY BoundsAssumption DEF Works, Fails

LEMMA InitTypeOK == Init => TypeOK
<1> SUFFICES ASSUME Init PROVE TypeOK
  OBVIOUS
<1>1. (CHOOSE a \in Articles : TRUE) \in Articles
  BY ArticlesAssumption
<1>2. << >> \in Seq(Articles)
  OBVIOUS
<1> QED
  BY <1>1, <1>2, ArticlesAssumption, BoundsAssumption DEF Init, TypeOK, PC

LEMMA NextTypeOK == TypeOK /\ [Next]_vars => TypeOK'
<1> SUFFICES ASSUME TypeOK, [Next]_vars PROVE TypeOK'
  OBVIOUS
<1> USE DEF TypeOK
<1>pc. ASSUME NEW t \in Threads, NEW l \in PC, Goto(t, l)
       PROVE  pc' \in [Threads -> PC]
  BY <1>pc DEF Goto
<1>pcs. PC = {"idle", "getInfo", "readDb", "incr", "zadd", "setInfo", "hotRange",
              "hotDb", "hotRead", "hotGet", "syncRange", "syncGet", "syncSet"}
  BY DEF PC, Detail, Hot, Sync
<1> USE DEF redis, mysql, locals
<1>1. ASSUME NEW t \in Threads, NEW a \in Articles, DetailArrives(t, a)
      PROVE  TypeOK'
  <2>1. requests' \in 0 .. MaxRequests
    BY <1>1, BoundsAssumption DEF DetailArrives
  <2>2. pc' \in [Threads -> PC] /\ art' \in [Threads -> Articles]
    BY <1>1, <1>pc, <1>pcs DEF DetailArrives
  <2> QED
    BY <1>1, <2>1, <2>2 DEF DetailArrives
<1>2. ASSUME NEW t \in Threads, InfoHit(t)
      PROVE  TypeOK'
  <2>1. art[t] \in Articles /\ info[art[t]] \in Nat
    BY <1>2 DEF InfoHit
  <2>2. shown' \in [Articles -> Nat]
    BY <1>2, <2>1 DEF InfoHit
  <2> QED
    BY <1>2, <2>2, <1>pc, <1>pcs, FaultsType DEF InfoHit
<1>3. ASSUME NEW t \in Threads, InfoMiss(t) \/ ReadArticleFails(t) \/ HotFallback(t)
      PROVE  TypeOK'
  BY <1>3, <1>pc, <1>pcs, FaultsType DEF InfoMiss, ReadArticleFails, HotFallback
<1>4. ASSUME NEW t \in Threads, ReadArticle(t)
      PROVE  TypeOK'
  BY <1>4, <1>pc, <1>pcs, FaultsType DEF ReadArticle
<1>5. ASSUME NEW t \in Threads, Incr(t)
      PROVE  TypeOK'
  <2>1. /\ pc' \in [Threads -> PC] /\ faults' \in 0 .. MaxFaults
        /\ UNCHANGED <<mysql, armed, requests, shown, art, readGen, hotIds>>
    BY <1>5, <1>pc, <1>pcs, FaultsType DEF Incr, Returned
  <2>2. /\ view' \in [Articles -> Nat \cup {None}] /\ UNCHANGED <<info, hot>>
        /\ gen' \in [Articles -> Nat] /\ visits' \in [Articles -> Nat]
    <3>1. ASSUME Counted(art[t])
          PROVE  /\ view' \in [Articles -> Nat \cup {None}] /\ UNCHANGED <<info, hot>>
                 /\ gen' \in [Articles -> Nat] /\ visits' \in [Articles -> Nat]
      <4>1. art[t] \in Articles /\ gen[art[t]] + 1 \in Nat /\ visits[art[t]] + 1 \in Nat
        BY SMTT(30)
      <4>2. (IF view[art[t]] = None THEN 1 ELSE view[art[t]] + 1) \in Nat
        BY <4>1, SMTT(30)
      <4>3. view' \in [Articles -> Nat \cup {None}]
        BY <3>1, <4>1, <4>2 DEF Counted
      <4>4. gen' \in [Articles -> Nat] /\ visits' \in [Articles -> Nat]
        BY <3>1, <4>1 DEF Counted
      <4> QED
        BY <3>1, <4>3, <4>4 DEF Counted
    <3> QED
      BY <1>5, <3>1 DEF Incr
  <2>3. PICK n \in Nat : Returned(t, n)
    <3>1. ASSUME Counted(art[t])
          PROVE  view'[art[t]] \in Nat
      BY <3>1, NoneAssumption DEF Counted
    <3> QED
      BY <1>5, <3>1 DEF Incr
  <2>4. redisViews' \in [Threads -> Nat] /\ count' \in [Threads -> Nat]
    BY <2>3, LargerType DEF Returned
  <2> QED
    BY <2>1, <2>2, <2>4
<1>6. ASSUME NEW t \in Threads, Zadd(t)
      PROVE  TypeOK'
  BY <1>6, <1>pc, <1>pcs, FaultsType DEF Zadd
<1>7. ASSUME NEW t \in Threads, SetInfo(t)
      PROVE  TypeOK'
  BY <1>7, <1>pc, <1>pcs, FaultsType DEF SetInfo
<1>8. ASSUME NEW t \in Threads, HotArrives(t)
      PROVE  TypeOK'
  BY <1>8, <1>pc, <1>pcs, BoundsAssumption, SMTT(30) DEF HotArrives
<1>9. ASSUME NEW t \in Threads, HotRange(t) \/ SyncRange(t)
      PROVE  TypeOK'
  <2>1. hotIds' \in [Threads -> Seq(Articles)]
    <3>1. << >> \in Seq(Articles)
      OBVIOUS
    <3> QED
      BY <1>9, <3>1, TopRankedType, BoundsAssumption DEF HotRange, SyncRange
  <2>2. pc' \in [Threads -> PC] /\ faults' \in 0 .. MaxFaults
    BY <1>9, <1>pc, <1>pcs, FaultsType DEF HotRange, SyncRange
  <2> QED
    BY <1>9, <2>1, <2>2 DEF HotRange, SyncRange
<1>10. ASSUME NEW t \in Threads, HotRead(t)
       PROVE  TypeOK'
  <2>1. Head(hotIds[t]) \in Articles /\ Tail(hotIds[t]) \in Seq(Articles)
    BY <1>10, PopType DEF HotRead
  <2> QED
    BY <1>10, <2>1, <1>pc, <1>pcs, FaultsType DEF HotRead
<1>11. ASSUME NEW t \in Threads, HotGet(t)
       PROVE  TypeOK'
  <2>1. count' \in [Threads -> Nat]
    <3>1. /\ count[t] \in Nat
          /\ view[art[t]] # None => Larger(count[t], view[art[t]]) \in Nat
      BY LargerType
    <3> QED
      BY <1>11, <3>1 DEF HotGet
  <2> QED
    BY <1>11, <2>1, <1>pc, <1>pcs, FaultsType DEF HotGet
<1>12. ASSUME NEW t \in Threads, HotDone(t) \/ TimerFires(t) \/ SyncDone(t)
       PROVE  TypeOK'
  BY <1>12, <1>pc, <1>pcs DEF HotDone, TimerFires, SyncDone
<1>13. ASSUME NEW t \in Threads, SyncGet(t)
       PROVE  TypeOK'
  <2>1. Head(hotIds[t]) \in Articles /\ Tail(hotIds[t]) \in Seq(Articles)
    BY <1>13, PopType DEF SyncGet
  <2>2. hotIds' \in [Threads -> Seq(Articles)]
    BY <1>13, <2>1 DEF SyncGet
  <2>3. /\ art' \in [Threads -> Articles]
        /\ redisViews' \in [Threads -> Nat] /\ readGen' \in [Threads -> Nat]
    BY <1>13, <2>1, ZenonT(60) DEF SyncGet
  <2>4. pc' \in [Threads -> PC] /\ faults' \in 0 .. MaxFaults
    BY <1>13, <1>pc, <1>pcs, FaultsType DEF SyncGet
  <2> QED
    BY <1>13, <2>2, <2>3, <2>4 DEF SyncGet
<1>14. ASSUME NEW t \in Threads, SyncSet(t)
       PROVE  TypeOK'
  <2>1. viewCount' \in [Articles -> Nat] /\ savedGen' \in [Articles -> Nat]
    <3>1. art[t] \in Articles /\ redisViews[t] \in Nat /\ readGen[t] \in Nat
      OBVIOUS
    <3>2. CASE UNCHANGED mysql
      BY <3>2
    <3>3. CASE /\ viewCount' = [viewCount EXCEPT ![art[t]] = redisViews[t]]
               /\ savedGen' = [savedGen EXCEPT ![art[t]] = readGen[t]]
      BY <3>1, <3>3
    <3> QED
      BY <1>14, <3>2, <3>3 DEF SyncSet
  <2>2. pc' \in [Threads -> PC] /\ faults' \in 0 .. MaxFaults
    BY <1>14, <1>pc, <1>pcs, FaultsType DEF SyncSet
  <2> QED
    BY <1>14, <2>1, <2>2 DEF SyncSet
<1>15. ASSUME NEW a \in Articles, InfoExpires(a) \/ CounterEvicted(a)
       PROVE  TypeOK'
  <2>1. CASE InfoExpires(a)
    BY <2>1 DEF InfoExpires
  <2>2. CASE CounterEvicted(a)
    BY <2>2, FaultsType DEF CounterEvicted
  <2> QED
    BY <1>15, <2>1, <2>2
<1>16. CASE RankingEvicted \/ Crash
  BY <1>16, <1>pcs, FaultsType DEF RankingEvicted, Crash
<1>17. CASE UNCHANGED vars
  BY <1>17 DEF vars
<1> QED
  BY <1>1, <1>2, <1>3, <1>4, <1>5, <1>6, <1>7, <1>8, <1>9, <1>10, <1>11, <1>12,
     <1>13, <1>14, <1>15, <1>16, <1>17 DEF Next, Arrives, Step

\* The stores, the timer and the threads keep their types.
THEOREM TypeCorrect == Spec => []TypeOK
BY InitTypeOK, NextTypeOK, PTL DEF Spec
-----------------------------------------------------------------------------
(* Bounded is inductive: what a thread carries from one command to the     *)
(* next is bounded by the views that were made, because that number never  *)
(* falls, so whatever it writes later is bounded too.                      *)
CarriesCount == {"incr", "zadd", "setInfo", "hotGet"}
CarriesRedis == {"zadd", "syncSet"}

LocalsBounded ==
  \A t \in Threads :
    /\ pc[t] \in CarriesCount => count[t] <= Bound(art[t])
    /\ pc[t] \in CarriesRedis => redisViews[t] <= visits[art[t]]

Bounded == NoPhantomViews /\ LocalsBounded

LEMMA BoundType ==
  ASSUME TypeOK, NEW a \in Articles
  PROVE  /\ Bound(a) \in Nat /\ visits[a] \in Nat
         /\ InitViews[a] <= Bound(a) /\ visits[a] <= Bound(a)
BY ArticlesAssumption, LargerType DEF Bound, TypeOK

LEMMA InitBounded == Init => Bounded
<1> SUFFICES ASSUME Init PROVE Bounded
  OBVIOUS
<1>1. TypeOK
  BY InitTypeOK
<1>2. NoPhantomViews
  BY <1>1, BoundType DEF Init, NoPhantomViews
<1>3. LocalsBounded
  BY DEF Init, LocalsBounded, CarriesCount, CarriesRedis
<1> QED
  BY <1>2, <1>3 DEF Bounded

(* A step after which every value is an old one, or 0, or bounded.         *)
LEMMA BoundsGrow ==
  ASSUME TypeOK, NEW a \in Articles, Counted(a)
  PROVE  /\ \A b \in Articles : visits[b] <= visits'[b] /\ Bound(b) <= Bound(b)'
         /\ visits'[a] = visits[a] + 1
         /\ view[a] # None /\ view[a] <= visits[a] => view'[a] <= visits'[a]
         /\ view[a] = None => view'[a] <= visits'[a]
         /\ view'[a] \in Nat
         /\ \A b \in Articles \ {a} : view'[b] = view[b] /\ visits'[b] = visits[b]
<1>1. /\ visits' = [visits EXCEPT ![a] = visits[a] + 1]
      /\ view' = [view EXCEPT ![a] = IF view[a] = None THEN 1 ELSE view[a] + 1]
      /\ \A b \in Articles : visits[b] \in Nat
      /\ visits \in [Articles -> Nat] /\ view \in [Articles -> Nat \cup {None}]
  BY DEF Counted, TypeOK
<1>2. \A b \in Articles : visits[b] <= visits'[b] /\ visits'[b] \in Nat
  BY <1>1
<1>3. \A b \in Articles : Bound(b) <= Bound(b)'
  <2> SUFFICES ASSUME NEW b \in Articles PROVE Bound(b) <= Bound(b)'
    OBVIOUS
  <2>1. /\ InitViews[b] \in Nat /\ visits[b] \in Nat
        /\ visits'[b] \in Nat /\ visits[b] <= visits'[b]
    BY <1>1, <1>2, ArticlesAssumption
  <2> QED
    BY <2>1 DEF Bound, Larger
<1>4. \A b \in Articles \ {a} : view'[b] = view[b] /\ visits'[b] = visits[b]
  BY <1>1
<1>5. visits'[a] = visits[a] + 1 /\ view'[a] = IF view[a] = None THEN 1 ELSE view[a] + 1
  BY <1>1
<1>6. view[a] # None => view[a] \in Nat
  BY <1>1
<1> QED
  BY <1>1, <1>2, <1>3, <1>4, <1>5, <1>6

LEMMA NextBounded == TypeOK /\ TypeOK' /\ Bounded /\ [Next]_vars => Bounded'
<1> SUFFICES ASSUME TypeOK, TypeOK', Bounded, [Next]_vars PROVE Bounded'
  OBVIOUS
<1> USE DEF redis, mysql, locals, CarriesCount, CarriesRedis
<1>0. \A a \in Articles :
        /\ Bound(a) \in Nat /\ visits[a] \in Nat
        /\ InitViews[a] <= Bound(a) /\ visits[a] <= Bound(a)
  BY BoundType
<1>0p. \A a \in Articles :
         Bound(a)' \in Nat /\ visits'[a] \in Nat /\ visits'[a] <= Bound(a)'
  <2> SUFFICES ASSUME NEW a \in Articles
               PROVE  Bound(a)' \in Nat /\ visits'[a] \in Nat /\ visits'[a] <= Bound(a)'
    OBVIOUS
  <2>1. InitViews[a] \in Nat /\ visits'[a] \in Nat
    BY ArticlesAssumption DEF TypeOK
  <2> QED
    BY <2>1 DEF Bound, Larger
<1>1. ASSUME UNCHANGED visits
      PROVE  \A a \in Articles : Bound(a)' = Bound(a)
  BY <1>1 DEF Bound
(* Steps that leave the stores and what is carried to the next command.    *)
<1>2. ASSUME UNCHANGED <<redis, mysql, shown>>
      PROVE  NoPhantomViews'
  BY <1>1, <1>2 DEF Bounded, NoPhantomViews
<1>3. ASSUME NEW t \in Threads, UNCHANGED visits,
             \A u \in Threads \ {t} : pc'[u] = pc[u] /\ art'[u] = art[u]
                                      /\ count'[u] = count[u] /\ redisViews'[u] = redisViews[u],
             pc'[t] \in CarriesCount => count'[t] <= Bound(art'[t]),
             pc'[t] \in CarriesRedis => redisViews'[t] <= visits[art'[t]]
      PROVE  LocalsBounded'
  <2> SUFFICES ASSUME NEW u \in Threads
               PROVE  /\ pc'[u] \in CarriesCount => count'[u] <= Bound(art[u])'
                      /\ pc'[u] \in CarriesRedis => redisViews'[u] <= visits'[art'[u]]
    BY DEF LocalsBounded
  <2>1. art'[u] \in Articles
    BY DEF TypeOK
  <2>2. Bound(art[u])' = Bound(art'[u])
    BY <1>3 DEF Bound
  <2>3. CASE u = t
    BY <1>3, <2>2, <2>3
  <2>4. CASE u # t
    BY <1>3, <2>2, <2>4 DEF Bounded, LocalsBounded
  <2> QED
    BY <2>3, <2>4
<1>4. ASSUME NEW t \in Threads,
             \/ \E a \in Articles : DetailArrives(t, a)
             \/ InfoMiss(t) \/ ReadArticleFails(t)
             \/ HotArrives(t) \/ HotRange(t) \/ HotFallback(t) \/ HotDone(t)
             \/ TimerFires(t) \/ SyncRange(t) \/ SyncDone(t)
      PROVE  Bounded'
  <2>1. UNCHANGED <<redis, mysql, shown>>
    BY <1>4 DEF DetailArrives, InfoMiss, ReadArticleFails, HotArrives, HotRange,
                HotFallback, HotDone,
                TimerFires, SyncRange, SyncDone
  <2>2. pc'[t] \notin CarriesCount /\ pc'[t] \notin CarriesRedis
    BY <1>4 DEF DetailArrives, InfoMiss, ReadArticleFails, HotArrives, HotRange,
                HotFallback, HotDone,
                TimerFires, SyncRange, SyncDone, Goto, TypeOK
  <2>3. \A u \in Threads \ {t} : /\ pc'[u] = pc[u] /\ art'[u] = art[u]
                                 /\ count'[u] = count[u] /\ redisViews'[u] = redisViews[u]
    BY <1>4 DEF DetailArrives, InfoMiss, ReadArticleFails, HotArrives, HotRange,
                HotFallback, HotDone,
                TimerFires, SyncRange, SyncDone, Goto, TypeOK
  <2> QED
    BY <1>2, <1>3, <2>1, <2>2, <2>3 DEF Bounded
<1>5. ASSUME NEW t \in Threads, InfoHit(t)
      PROVE  Bounded'
  <2>1. LocalsBounded'
    BY <1>3, <1>5 DEF InfoHit, Goto, TypeOK
  <2>2. NoPhantomViews'
    BY <1>1, <1>5, SMTT(30) DEF InfoHit, Bounded, NoPhantomViews, TypeOK
  <2> QED
    BY <2>1, <2>2 DEF Bounded
<1>6. ASSUME NEW t \in Threads, ReadArticle(t)
      PROVE  Bounded'
  <2>1. LocalsBounded'
    BY <1>3, <1>6 DEF ReadArticle, Goto, TypeOK, Bounded, NoPhantomViews
  <2> QED
    BY <1>2, <1>6, <2>1 DEF ReadArticle, Bounded
<1>7. ASSUME NEW t \in Threads, Incr(t)
      PROVE  Bounded'
  <2>0. PICK a \in Articles : a = art[t]
    BY DEF TypeOK
  <2>1. a \in Articles /\ pc[t] = "incr" /\ count[t] \in Nat /\ count[t] <= Bound(a)
    BY <1>7, <2>0 DEF Incr, Bounded, LocalsBounded, TypeOK
  <2>2. /\ \A b \in Articles : visits[b] <= visits'[b] /\ Bound(b) <= Bound(b)'
        /\ \A b \in Articles : visits'[b] \in Nat /\ Bound(b)' \in Nat
                               /\ visits'[b] <= Bound(b)'
        /\ \A b \in Articles : view'[b] # None => view'[b] <= visits'[b]
    <3>1. CASE Counted(a)
      <4>1. \A b \in Articles : visits[b] <= visits'[b] /\ Bound(b) <= Bound(b)'
        BY <2>1, <3>1, BoundsGrow
      <4>2. view[a] # None => view[a] <= visits[a]
        BY <2>1 DEF Bounded, NoPhantomViews
      <4>3. view'[a] <= visits'[a]
        BY <2>1, <3>1, <4>2, BoundsGrow
      <4>4. \A b \in Articles \ {a} : view'[b] = view[b] /\ visits'[b] = visits[b]
        BY <2>1, <3>1, BoundsGrow
      <4>5. \A b \in Articles : view'[b] # None => view'[b] <= visits'[b]
        BY <4>3, <4>4 DEF Bounded, NoPhantomViews
      <4> QED
        BY <1>0p, <4>1, <4>5
    <3>2. CASE UNCHANGED redis
      <4>1. \A b \in Articles : visits'[b] = visits[b] /\ Bound(b)' = Bound(b)
        BY <1>1, <3>2
      <4>2. \A b \in Articles : view'[b] # None => view'[b] <= visits'[b]
        BY <3>2 DEF Bounded, NoPhantomViews
      <4> QED
        BY <1>0, <1>0p, <4>1, <4>2
    <3> QED
      BY <1>7, <2>0, <3>1, <3>2 DEF Incr
  <2>3. UNCHANGED <<info, hot, mysql, shown>>
    BY <1>7 DEF Incr, Counted
  <2>4. NoPhantomViews'
    <3> SUFFICES ASSUME NEW b \in Articles
                 PROVE  /\ view'[b] # None => view'[b] <= visits'[b]
                        /\ hot[b] # None => hot[b] <= visits'[b]
                        /\ info[b] # None => info[b] <= Bound(b)'
                        /\ viewCount[b] <= Bound(b)'
                        /\ shown[b] <= Bound(b)'
      BY <2>3 DEF NoPhantomViews
    <3>1. /\ hot[b] # None => hot[b] \in Nat /\ hot[b] <= visits[b]
          /\ info[b] # None => info[b] \in Nat /\ info[b] <= Bound(b)
          /\ viewCount[b] \in Nat /\ viewCount[b] <= Bound(b)
          /\ shown[b] \in Nat /\ shown[b] <= Bound(b)
      BY DEF Bounded, NoPhantomViews, TypeOK
    <3>2. /\ visits[b] \in Nat /\ visits'[b] \in Nat /\ visits[b] <= visits'[b]
          /\ Bound(b) \in Nat /\ Bound(b)' \in Nat /\ Bound(b) <= Bound(b)'
      BY <1>0, <2>2
    <3> QED
      BY <2>2, <3>1, <3>2
  <2>5. PICK n \in Nat : Returned(t, n) /\ n <= visits'[a]
    <3>1. ASSUME Counted(a)
          PROVE  view'[a] \in Nat /\ view'[a] <= visits'[a]
      BY <2>1, <2>2, <3>1, BoundsGrow, NoneAssumption
    <3> QED
      BY <1>7, <2>0, <2>1, <2>2, <3>1 DEF Incr
  <2>6. /\ pc' = [pc EXCEPT ![t] = "zadd"] /\ art' = art
        /\ redisViews' = [redisViews EXCEPT ![t] = n]
        /\ count' = [count EXCEPT ![t] = Larger(count[t], n)]
    BY <1>7, <2>5 DEF Incr, Goto, Returned
  <2>7. Larger(count[t], n) <= Bound(a)'
    <3>1. /\ Bound(a) \in Nat /\ Bound(a)' \in Nat /\ visits'[a] \in Nat
          /\ Bound(a) <= Bound(a)' /\ visits'[a] <= Bound(a)'
      BY <1>0, <2>1, <2>2
    <3> QED
      BY <2>1, <2>5, <3>1 DEF Larger
  <2>8. LocalsBounded'
    <3> SUFFICES ASSUME NEW u \in Threads
                 PROVE  /\ pc'[u] \in CarriesCount => count'[u] <= Bound(art[u])'
                        /\ pc'[u] \in CarriesRedis => redisViews'[u] <= visits'[art'[u]]
      BY DEF LocalsBounded
    <3>1. CASE u = t
      BY <2>0, <2>1, <2>5, <2>6, <2>7, <3>1 DEF TypeOK, Bound
    <3>2. CASE u # t
      <4>1. /\ pc'[u] = pc[u] /\ art'[u] = art[u] /\ art[u] \in Articles
            /\ count'[u] = count[u] /\ redisViews'[u] = redisViews[u]
            /\ count[u] \in Nat /\ redisViews[u] \in Nat
        BY <2>6, <3>2 DEF TypeOK
      <4> QED
        BY <4>1, <2>2, <2>6, <1>0 DEF Bounded, LocalsBounded
    <3> QED
      BY <3>1, <3>2
  <2> QED
    BY <2>4, <2>8 DEF Bounded
<1>8. ASSUME NEW t \in Threads, Zadd(t)
      PROVE  Bounded'
  <2>1. LocalsBounded'
    BY <1>3, <1>8 DEF Zadd, Goto, TypeOK, Bounded, LocalsBounded
  <2>2. redisViews[t] <= visits[art[t]]
    BY <1>8 DEF Zadd, Bounded, LocalsBounded
  <2>3. NoPhantomViews'
    BY <1>1, <1>8, <2>2 DEF Zadd, Bounded, NoPhantomViews, TypeOK
  <2> QED
    BY <2>1, <2>3 DEF Bounded
<1>9. ASSUME NEW t \in Threads, SetInfo(t)
      PROVE  Bounded'
  <2>1. LocalsBounded'
    BY <1>3, <1>9 DEF SetInfo, Goto, TypeOK
  <2>2. count[t] <= Bound(art[t])
    BY <1>9 DEF SetInfo, Bounded, LocalsBounded
  <2>3. NoPhantomViews'
    BY <1>1, <1>9, <2>2, SMTT(30) DEF SetInfo, Bounded, NoPhantomViews, TypeOK
  <2> QED
    BY <2>1, <2>3 DEF Bounded
<1>10. ASSUME NEW t \in Threads, HotRead(t)
       PROVE  Bounded'
  <2>1. Head(hotIds[t]) \in Articles
    BY <1>10, PopType DEF HotRead, TypeOK
  <2>2. LocalsBounded'
    BY <1>3, <1>10, <2>1 DEF HotRead, Goto, TypeOK, Bounded, NoPhantomViews
  <2> QED
    BY <1>2, <1>10, <2>2 DEF HotRead, Bounded
<1>11. ASSUME NEW t \in Threads, HotGet(t)
       PROVE  Bounded'
  <2>1. LocalsBounded'
    BY <1>3, <1>11 DEF HotGet, Goto, TypeOK
  <2> QED
    BY <1>2, <1>11, <2>1 DEF HotGet, Bounded
<1>12. ASSUME NEW t \in Threads, SyncGet(t)
       PROVE  Bounded'
  <2>1. Head(hotIds[t]) \in Articles
    BY <1>12, PopType DEF SyncGet, TypeOK
  <2>2. LocalsBounded'
    BY <1>3, <1>12, <2>1 DEF SyncGet, Goto, TypeOK, Bounded, NoPhantomViews
  <2> QED
    BY <1>2, <1>12, <2>2 DEF SyncGet, Bounded
<1>13. ASSUME NEW t \in Threads, SyncSet(t)
       PROVE  Bounded'
  <2>1. LocalsBounded'
    BY <1>3, <1>13 DEF SyncSet, Goto, TypeOK
  <2>2. redisViews[t] \in Nat /\ redisViews[t] <= Bound(art[t]) /\ art[t] \in Articles
    BY <1>0, <1>13 DEF SyncSet, Bounded, LocalsBounded, TypeOK
  <2>3. \A a \in Articles : viewCount'[a] <= Bound(a)
    BY <1>13, <2>2 DEF SyncSet, Bounded, NoPhantomViews, TypeOK
  <2>4. NoPhantomViews'
    BY <1>1, <1>13, <2>3 DEF SyncSet, Bounded, NoPhantomViews
  <2> QED
    BY <2>1, <2>4 DEF Bounded
<1>14. ASSUME NEW a \in Articles, InfoExpires(a) \/ CounterEvicted(a)
       PROVE  Bounded'
  <2>1. UNCHANGED <<pc, locals, visits, mysql, shown, hot>>
    BY <1>14 DEF InfoExpires, CounterEvicted
  <2>2. LocalsBounded'
    BY <1>1, <2>1 DEF Bounded, LocalsBounded, TypeOK
  <2>3. \A b \in Articles : /\ info'[b] # None => info'[b] = info[b]
                            /\ view'[b] # None => view'[b] = view[b]
    <3>1. CASE InfoExpires(a)
      BY <3>1 DEF InfoExpires, TypeOK
    <3>2. CASE CounterEvicted(a)
      BY <3>2 DEF CounterEvicted, TypeOK
    <3> QED
      BY <1>14, <3>1, <3>2
  <2>4. NoPhantomViews'
    BY <1>1, <2>1, <2>3 DEF Bounded, NoPhantomViews
  <2> QED
    BY <2>2, <2>4 DEF Bounded
<1>15. CASE RankingEvicted
  BY <1>1, <1>15 DEF RankingEvicted, Bounded, NoPhantomViews, LocalsBounded, TypeOK
<1>16. CASE Crash
  BY <1>2, <1>16 DEF Crash, Bounded, LocalsBounded
<1>17. CASE UNCHANGED vars
  BY <1>1, <1>2, <1>17 DEF vars, Bounded, LocalsBounded, TypeOK
<1> QED
  BY <1>4, <1>5, <1>6, <1>7, <1>8, <1>9, <1>10, <1>11, <1>12, <1>13, <1>14, <1>15,
     <1>16, <1>17 DEF Next, Arrives, Step

\* No store and no page ever counts a view that nobody made, whatever fails.
THEOREM NoViewIsInvented == Spec => []NoPhantomViews
<1>1. Bounded => NoPhantomViews
  BY DEF Bounded
<1> QED
  BY <1>1, InitBounded, NextBounded, TypeCorrect, PTL DEF Spec
-----------------------------------------------------------------------------
(* Which steps enter and leave syncViewCounts().                           *)
LEMMA SyncMembership ==
  ASSUME TypeOK, [Next]_vars
  PROVE  \/ /\ UNCHANGED armed
            /\ \A u \in Threads : pc'[u] \in Sync <=> pc[u] \in Sync
         \/ \E t \in Threads :
              /\ armed /\ ~armed' /\ pc[t] = "idle" /\ pc'[t] \in Sync
              /\ \A u \in Threads \ {t} : pc'[u] = pc[u]
         \/ \E t \in Threads :
              /\ armed' /\ pc[t] \in Sync /\ pc'[t] = "idle"
              /\ \A u \in Threads \ {t} : pc'[u] = pc[u]
         \/ armed' /\ \A u \in Threads : pc'[u] = "idle"
<1> USE DEF Sync, Goto, TypeOK
<1>1. ASSUME NEW t \in Threads, TimerFires(t)
      PROVE  /\ armed /\ ~armed' /\ pc[t] = "idle" /\ pc'[t] \in Sync
             /\ \A u \in Threads \ {t} : pc'[u] = pc[u]
  BY <1>1 DEF TimerFires
<1>2. ASSUME NEW t \in Threads, SyncDone(t)
      PROVE  /\ armed' /\ pc[t] \in Sync /\ pc'[t] = "idle"
             /\ \A u \in Threads \ {t} : pc'[u] = pc[u]
  BY <1>2 DEF SyncDone
<1>3. ASSUME NEW t \in Threads,
             \/ Arrives(t)
             \/ InfoHit(t) \/ InfoMiss(t) \/ ReadArticle(t) \/ ReadArticleFails(t)
             \/ Incr(t) \/ Zadd(t) \/ SetInfo(t)
             \/ HotRange(t) \/ HotFallback(t) \/ HotRead(t) \/ HotGet(t) \/ HotDone(t)
             \/ SyncRange(t) \/ SyncGet(t) \/ SyncSet(t)
      PROVE  /\ UNCHANGED armed
             /\ \A u \in Threads : pc'[u] \in Sync <=> pc[u] \in Sync
  BY <1>3 DEF Arrives, DetailArrives, HotArrives, InfoHit, InfoMiss, ReadArticle,
              ReadArticleFails, Incr, Zadd, SetInfo, HotRange, HotFallback, HotRead,
              HotGet, HotDone,
              SyncRange, SyncGet, SyncSet
<1>4. ASSUME \/ \E a \in Articles : InfoExpires(a) \/ CounterEvicted(a)
             \/ RankingEvicted \/ UNCHANGED vars
      PROVE  UNCHANGED <<armed, pc>>
  BY <1>4 DEF InfoExpires, CounterEvicted, RankingEvicted, vars
<1>5. ASSUME Crash
      PROVE  armed' /\ \A u \in Threads : pc'[u] = "idle"
  BY <1>5 DEF Crash
<1> QED
  BY <1>1, <1>2, <1>3, <1>4, <1>5 DEF Next, Step

LEMMA NextOneSync == TypeOK /\ OneSyncAtATime /\ [Next]_vars => OneSyncAtATime'
<1> SUFFICES ASSUME TypeOK, OneSyncAtATime, [Next]_vars PROVE OneSyncAtATime'
  OBVIOUS
<1>1. armed \in BOOLEAN
  BY DEF TypeOK
<1>2. CASE /\ UNCHANGED armed
           /\ \A u \in Threads : pc'[u] \in Sync <=> pc[u] \in Sync
  BY <1>2 DEF OneSyncAtATime
<1>3. ASSUME NEW t \in Threads,
             armed, ~armed', pc'[t] \in Sync,
             \A u \in Threads \ {t} : pc'[u] = pc[u]
      PROVE  OneSyncAtATime'
  BY <1>3 DEF OneSyncAtATime
<1>4. ASSUME NEW t \in Threads,
             armed', pc[t] \in Sync, pc'[t] = "idle",
             \A u \in Threads \ {t} : pc'[u] = pc[u]
      PROVE  OneSyncAtATime'
  BY <1>4 DEF OneSyncAtATime, Sync
<1>5. CASE armed' /\ \A u \in Threads : pc'[u] = "idle"
  BY <1>5 DEF OneSyncAtATime, Sync
<1> QED
  BY <1>2, <1>3, <1>4, <1>5, SyncMembership

\* The timer is never lost and never doubled, across crashes and failures.
THEOREM TimerDrivesOneSync == Spec => []OneSyncAtATime
<1>1. Init => OneSyncAtATime
  BY DEF Init, OneSyncAtATime, Sync
<1> QED
  BY <1>1, NextOneSync, TypeCorrect, PTL DEF Spec

-----------------------------------------------------------------------------
(* Why a sync never goes back: while a counter key lives it only grows, so *)
(* the value in MySQL, the value a sync has read and the counter are in    *)
(* this order as long as they come from the same creation of the key; and  *)
(* nobody writes MySQL between the read and the write of a sync, because   *)
(* there is only one.                                                      *)
SavedBehind(a) ==
  /\ savedGen[a] <= gen[a]
  /\ view[a] # None /\ savedGen[a] = gen[a] => viewCount[a] <= view[a]

ReadBetween(t) ==
  LET a == art[t] IN
    /\ readGen[t] <= gen[a]
    /\ readGen[t] = savedGen[a] => viewCount[a] <= redisViews[t]
    /\ view[a] # None /\ readGen[t] = gen[a] => redisViews[t] <= view[a]

InOrder ==
  /\ \A a \in Articles : SavedBehind(a)
  /\ \A t \in Threads : pc[t] = "syncSet" => ReadBetween(t)

LEMMA NextInOrder ==
  TypeOK /\ TypeOK' /\ OneSyncAtATime /\ InOrder /\ [Next]_vars => InOrder'
<1> SUFFICES ASSUME TypeOK, TypeOK', OneSyncAtATime, InOrder, [Next]_vars PROVE InOrder'
  OBVIOUS
<1> USE DEF redis, mysql, locals
<1>1. ASSUME UNCHANGED <<view, gen, mysql>>
      PROVE  \A a \in Articles : SavedBehind(a)'
  BY <1>1 DEF InOrder, SavedBehind
(* A thread that stays at its UPDATE, while the stores stay as they are.   *)
<1>2. ASSUME UNCHANGED <<view, gen, mysql>>, NEW u \in Threads, pc[u] = "syncSet",
             art'[u] = art[u], redisViews'[u] = redisViews[u], readGen'[u] = readGen[u]
      PROVE  ReadBetween(u)'
  BY <1>2 DEF InOrder, ReadBetween
<1>3. ASSUME NEW t \in Threads,
             \/ Arrives(t)
             \/ InfoHit(t) \/ InfoMiss(t) \/ ReadArticle(t) \/ ReadArticleFails(t)
             \/ Zadd(t) \/ SetInfo(t)
             \/ HotRange(t) \/ HotFallback(t) \/ HotRead(t) \/ HotGet(t) \/ HotDone(t)
             \/ TimerFires(t) \/ SyncRange(t) \/ SyncDone(t)
      PROVE  InOrder'
  <2>1. /\ UNCHANGED <<view, gen, mysql>>
        /\ pc'[t] # "syncSet"
        /\ \A u \in Threads \ {t} :
             /\ pc'[u] = pc[u] /\ art'[u] = art[u]
             /\ redisViews'[u] = redisViews[u] /\ readGen'[u] = readGen[u]
    BY <1>3 DEF Arrives, DetailArrives, HotArrives, InfoHit, InfoMiss, ReadArticle,
                ReadArticleFails, Zadd, SetInfo, HotRange, HotFallback, HotRead,
                HotGet, HotDone,
                TimerFires, SyncRange, SyncDone, Goto, TypeOK
  <2> QED
    BY <1>1, <1>2, <2>1 DEF InOrder
<1>4. ASSUME NEW t \in Threads, Incr(t)
      PROVE  InOrder'
  <2>0. PICK a \in Articles : a = art[t]
    BY DEF TypeOK
  <2>1. /\ UNCHANGED <<mysql, art, readGen>>
        /\ pc[t] = "incr" /\ pc'[t] = "zadd"
        /\ \A u \in Threads \ {t} : pc'[u] = pc[u] /\ redisViews'[u] = redisViews[u]
    BY <1>4 DEF Incr, Returned, Goto, TypeOK
  <2>2. CASE UNCHANGED redis
    BY <1>1, <1>2, <2>1, <2>2 DEF InOrder
  <2>3. CASE Counted(a)
    <3>1. \A b \in Articles :
            /\ view[b] # None => view'[b] \in Nat /\ view[b] <= view'[b] /\ gen'[b] = gen[b]
            /\ view[b] = None /\ view'[b] # None => gen'[b] = gen[b] + 1
            /\ view'[b] = None => gen'[b] = gen[b]
      <4> SUFFICES ASSUME NEW b \in Articles
                   PROVE  /\ view[b] # None => /\ view'[b] \in Nat /\ view[b] <= view'[b]
                                               /\ gen'[b] = gen[b]
                          /\ view[b] = None /\ view'[b] # None => gen'[b] = gen[b] + 1
                          /\ view'[b] = None => gen'[b] = gen[b]
        OBVIOUS
      <4>1. view[b] # None => view[b] \in Nat
        BY DEF TypeOK
      <4>2. CASE b # a
        <5>1. view'[b] = view[b] /\ gen'[b] = gen[b]
          BY <2>3, <4>2 DEF Counted, TypeOK
        <5> QED
          BY <4>1, <5>1
      <4>3. CASE b = a /\ view[a] = None
        <5>1. view'[b] = 1 /\ gen'[b] = gen[b] + 1
          BY <2>3, <4>3 DEF Counted, TypeOK
        <5> QED
          BY <4>3, <5>1, NoneAssumption
      <4>4. CASE b = a /\ view[a] # None
        <5>1. view'[b] = view[b] + 1 /\ gen'[b] = gen[b]
          BY <2>3, <4>4 DEF Counted, TypeOK
        <5>2. view'[b] \in Nat /\ view'[b] # None
          BY <4>1, <4>4, <5>1, NoneAssumption
        <5> QED
          BY <4>1, <4>4, <5>1, <5>2
      <4> QED
        BY <4>2, <4>3, <4>4
    <3>2. \A b \in Articles : SavedBehind(b)'
      <4> SUFFICES ASSUME NEW b \in Articles PROVE SavedBehind(b)'
        OBVIOUS
      <4>1. /\ gen[b] \in Nat /\ gen'[b] \in Nat /\ savedGen[b] \in Nat
            /\ viewCount[b] \in Nat
            /\ view[b] # None => view[b] \in Nat
            /\ savedGen'[b] = savedGen[b] /\ viewCount'[b] = viewCount[b]
        BY <2>1 DEF TypeOK
      <4> QED
        BY <3>1, <4>1 DEF InOrder, SavedBehind
    <3>3. ASSUME NEW u \in Threads, pc'[u] = "syncSet"
          PROVE  ReadBetween(u)'
      <4>0. PICK b \in Articles : b = art[u]
        BY DEF TypeOK
      <4>1. /\ art'[u] = b /\ redisViews'[u] = redisViews[u] /\ readGen'[u] = readGen[u]
            /\ pc[u] = "syncSet"
            /\ savedGen'[b] = savedGen[b] /\ viewCount'[b] = viewCount[b]
        BY <2>1, <3>3, <4>0
      <4>2. /\ gen[b] \in Nat /\ gen'[b] \in Nat /\ readGen[u] \in Nat
            /\ redisViews[u] \in Nat
            /\ view[b] # None => view[b] \in Nat
        BY DEF TypeOK
      <4>3. ReadBetween(u)
        BY <4>1 DEF InOrder
      <4> QED
        BY <3>1, <4>0, <4>1, <4>2, <4>3 DEF ReadBetween
    <3> QED
      BY <3>2, <3>3 DEF InOrder
  <2> QED
    BY <1>4, <2>0, <2>2, <2>3 DEF Incr
<1>5. ASSUME NEW t \in Threads, SyncGet(t)
      PROVE  InOrder'
  <2>1. PICK a \in Articles : a = Head(hotIds[t])
    BY <1>5, PopType DEF SyncGet, TypeOK
  <2>2. /\ UNCHANGED <<view, gen, mysql>> /\ pc[t] = "syncGet"
        /\ \A u \in Threads \ {t} :
             /\ pc'[u] = pc[u] /\ art'[u] = art[u]
             /\ redisViews'[u] = redisViews[u] /\ readGen'[u] = readGen[u]
    BY <1>5 DEF SyncGet, Goto, TypeOK
  <2>3. ASSUME pc'[t] = "syncSet"
        PROVE  ReadBetween(t)'
    <3>1. /\ view[a] # None /\ art'[t] = a
          /\ redisViews'[t] = view[a] /\ readGen'[t] = gen[a]
      BY <1>5, <2>1, <2>3 DEF SyncGet, Goto, TypeOK
    <3>2. /\ view[a] \in Nat /\ gen[a] \in Nat /\ SavedBehind(a)
      BY <3>1 DEF TypeOK, InOrder
    <3> QED
      BY <2>2, <3>1, <3>2 DEF ReadBetween, SavedBehind
  <2> QED
    BY <1>1, <1>2, <2>2, <2>3 DEF InOrder
<1>6. ASSUME NEW t \in Threads, SyncSet(t)
      PROVE  InOrder'
  <2>0. PICK a \in Articles : a = art[t]
    BY DEF TypeOK
  <2>1. /\ UNCHANGED <<view, gen>> /\ pc[t] = "syncSet" /\ ReadBetween(t)
        /\ pc'[t] = "syncGet" /\ \A u \in Threads \ {t} : pc'[u] = pc[u]
    BY <1>6 DEF SyncSet, Goto, TypeOK, InOrder
  <2>2. \A u \in Threads : pc'[u] # "syncSet"
    BY <2>1 DEF OneSyncAtATime, Sync
  <2>3. ASSUME NEW b \in Articles
        PROVE  SavedBehind(b)'
    <3>1. CASE UNCHANGED mysql
      BY <1>1, <2>1, <3>1
    <3>2. CASE /\ viewCount' = [viewCount EXCEPT ![art[t]] = redisViews[t]]
               /\ savedGen' = [savedGen EXCEPT ![art[t]] = readGen[t]]
      <4>1. CASE b = a
        <5>1. viewCount'[b] = redisViews[t] /\ savedGen'[b] = readGen[t]
          BY <2>0, <3>2, <4>1 DEF TypeOK
        <5> QED
          BY <2>0, <2>1, <4>1, <5>1 DEF SavedBehind, ReadBetween
      <4>2. CASE b # a
        <5>1. viewCount'[b] = viewCount[b] /\ savedGen'[b] = savedGen[b]
          BY <2>0, <3>2, <4>2 DEF TypeOK
        <5> QED
          BY <2>1, <5>1 DEF SavedBehind, InOrder
      <4> QED
        BY <4>1, <4>2
    <3> QED
      BY <1>6, <3>1, <3>2 DEF SyncSet
  <2> QED
    BY <2>2, <2>3 DEF InOrder
<1>7. ASSUME NEW a \in Articles, InfoExpires(a) \/ CounterEvicted(a)
      PROVE  InOrder'
  <2>1. UNCHANGED <<pc, art, redisViews, readGen, gen, mysql>>
    BY <1>7 DEF InfoExpires, CounterEvicted
  <2>2. \A b \in Articles : view'[b] # None => view'[b] = view[b]
    <3>1. CASE InfoExpires(a)
      BY <3>1 DEF InfoExpires
    <3>2. CASE CounterEvicted(a)
      BY <3>2 DEF CounterEvicted, TypeOK
    <3> QED
      BY <1>7, <3>1, <3>2
  <2>3. \A b \in Articles : SavedBehind(b)'
    BY <2>1, <2>2 DEF SavedBehind, InOrder
  <2>4. \A u \in Threads : art[u] \in Articles
    BY DEF TypeOK
  <2>5. \A u \in Threads : pc'[u] = "syncSet" => ReadBetween(u)'
    BY <2>1, <2>2, <2>4 DEF ReadBetween, InOrder
  <2> QED
    BY <2>3, <2>5 DEF InOrder
<1>8. CASE RankingEvicted
  <2>1. UNCHANGED <<view, gen, mysql, pc, art, redisViews, readGen>>
    BY <1>8 DEF RankingEvicted
  <2> QED
    BY <1>1, <1>2, <2>1 DEF InOrder
<1>9. CASE Crash
  <2>1. UNCHANGED <<view, gen, mysql>> /\ \A u \in Threads : pc'[u] = "idle"
    BY <1>9 DEF Crash
  <2> QED
    BY <1>1, <2>1 DEF InOrder
<1>10. CASE UNCHANGED vars
  BY <1>1, <1>2, <1>10 DEF vars, InOrder
<1> QED
  BY <1>3, <1>4, <1>5, <1>6, <1>7, <1>8, <1>9, <1>10 DEF Next, Step

LEMMA OrderMakesSyncMonotonic ==
  TypeOK /\ InOrder /\ [Next]_vars =>
    [\A a \in Articles : viewCount'[a] < viewCount[a] => savedGen'[a] # savedGen[a]]_vars
<1> SUFFICES ASSUME TypeOK, InOrder, [Next]_vars, NEW a \in Articles,
                    viewCount'[a] < viewCount[a]
             PROVE  savedGen'[a] # savedGen[a]
  BY DEF vars, mysql
<1>1. viewCount' # viewCount
  BY DEF TypeOK
<1>2. PICK t \in Threads : SyncSet(t)
  BY <1>1 DEF Next, Arrives, Step, DetailArrives, HotArrives, InfoHit, InfoMiss,
              ReadArticle,
              ReadArticleFails, Incr, Zadd, SetInfo, HotRange, HotFallback, HotRead,
              HotGet, HotDone,
              TimerFires, SyncRange, SyncGet, SyncDone, InfoExpires, CounterEvicted,
              RankingEvicted, Crash, vars, mysql
<1>3. /\ viewCount' = [viewCount EXCEPT ![art[t]] = redisViews[t]]
      /\ savedGen' = [savedGen EXCEPT ![art[t]] = readGen[t]]
  BY <1>1, <1>2 DEF SyncSet, mysql
<1>4. a = art[t]
  BY <1>3 DEF TypeOK
<1>5. viewCount'[a] = redisViews[t] /\ savedGen'[a] = readGen[t]
  BY <1>3, <1>4 DEF TypeOK
<1>6. ReadBetween(t)
  BY <1>2 DEF SyncSet, InOrder
<1>7. viewCount[a] \in Nat /\ redisViews[t] \in Nat
  BY DEF TypeOK
<1> QED
  BY <1>4, <1>5, <1>6, <1>7 DEF ReadBetween

\* syncViewCounts() lowers view_count only from one creation of the counter
\* key to the next, for every interleaving with requests, failures, evictions
\* and crashes.
THEOREM SyncIsMonotonic == Spec => SyncNeverGoesBack
<1>1. Init => InOrder
  BY ArticlesAssumption DEF Init, InOrder, SavedBehind
<1> QED
  BY <1>1, NextInOrder, OrderMakesSyncMonotonic, TimerDrivesOneSync, TypeCorrect, PTL
     DEF Spec, SyncNeverGoesBack

-----------------------------------------------------------------------------
LEMMA NextCountedIsRanked ==
  TypeOK /\ TypeOK' /\ CountedIsRanked /\ [Next]_vars => CountedIsRanked'
<1> SUFFICES ASSUME TypeOK, TypeOK', CountedIsRanked, [Next]_vars, faults' = 0,
                    NEW a \in Articles, view'[a] # None
             PROVE  hot'[a] # None \/ \E t \in Threads : pc'[t] = "zadd" /\ art'[t] = a
  BY DEF CountedIsRanked
<1> USE DEF redis, mysql, locals
<1>1. ~Fails
  BY DEF Fails, TypeOK
<1>2. faults = 0
  BY <1>1 DEF Next, Arrives, Step, DetailArrives, HotArrives, InfoHit, InfoMiss,
              ReadArticle,
              ReadArticleFails, Incr, Zadd, SetInfo, HotRange, HotFallback, HotRead,
              HotGet, HotDone,
              TimerFires, SyncRange, SyncGet, SyncSet, SyncDone, InfoExpires,
              CounterEvicted, RankingEvicted, Crash, vars, Works
<1>3. view[a] # None => hot[a] # None \/ \E t \in Threads : pc[t] = "zadd" /\ art[t] = a
  BY <1>2 DEF CountedIsRanked
<1>4. ASSUME NEW t \in Threads, Incr(t)
      PROVE  hot'[a] # None \/ \E u \in Threads : pc'[u] = "zadd" /\ art'[u] = a
  <2>1. /\ pc' = [pc EXCEPT ![t] = "zadd"] /\ art' = art /\ hot' = hot /\ Counted(art[t])
    BY <1>1, <1>4 DEF Incr, Counted, Returned, Goto
  <2>2. CASE a = art[t]
    BY <2>1, <2>2 DEF TypeOK
  <2>3. CASE a # art[t]
    <3>1. view'[a] = view[a]
      BY <2>1, <2>3 DEF Counted, TypeOK
    <3> QED
      BY <1>3, <2>1, <3>1 DEF TypeOK
  <2> QED
    BY <2>2, <2>3
<1>5. ASSUME NEW t \in Threads, Zadd(t)
      PROVE  hot'[a] # None \/ \E u \in Threads : pc'[u] = "zadd" /\ art'[u] = a
  <2>1. /\ hot' = [hot EXCEPT ![art[t]] = redisViews[t]] /\ view' = view
        /\ art' = art /\ \A u \in Threads \ {t} : pc'[u] = pc[u]
    BY <1>1, <1>5 DEF Zadd, Goto, TypeOK
  <2>2. \A b \in Articles : hot[b] # None => hot'[b] # None
    BY <2>1, NoneAssumption DEF TypeOK
  <2>3. hot'[art[t]] # None
    BY <2>1, NoneAssumption DEF TypeOK
  <2> QED
    BY <1>3, <2>1, <2>2, <2>3
(* Everybody else leaves the two keys and the threads at their ZADD alone. *)
<1>6. ASSUME UNCHANGED <<view, hot>>,
             \A u \in Threads : pc[u] = "zadd" => pc'[u] = "zadd" /\ art'[u] = art[u]
      PROVE  hot'[a] # None \/ \E u \in Threads : pc'[u] = "zadd" /\ art'[u] = a
  BY <1>3, <1>6
<1>7. ASSUME NEW t \in Threads,
             \/ Arrives(t)
             \/ InfoHit(t) \/ InfoMiss(t) \/ ReadArticle(t) \/ SetInfo(t)
             \/ HotRange(t) \/ HotFallback(t) \/ HotRead(t) \/ HotGet(t) \/ HotDone(t)
             \/ TimerFires(t) \/ SyncRange(t) \/ SyncGet(t) \/ SyncSet(t) \/ SyncDone(t)
      PROVE  /\ UNCHANGED <<view, hot>>
             /\ \A u \in Threads : pc[u] = "zadd" => pc'[u] = "zadd" /\ art'[u] = art[u]
  BY <1>7 DEF Arrives, DetailArrives, HotArrives, InfoHit, InfoMiss, ReadArticle, SetInfo,
              HotRange, HotFallback, HotRead, HotGet, HotDone, TimerFires, SyncRange,
              SyncGet, SyncSet,
              SyncDone, Goto, TypeOK
<1>8. ASSUME UNCHANGED vars \/ \E b \in Articles : InfoExpires(b)
      PROVE  /\ UNCHANGED <<view, hot>>
             /\ \A u \in Threads : pc[u] = "zadd" => pc'[u] = "zadd" /\ art'[u] = art[u]
  BY <1>8 DEF vars, InfoExpires
<1>9. /\ \A t \in Threads : ~ReadArticleFails(t)
      /\ \A b \in Articles : ~CounterEvicted(b)
      /\ ~RankingEvicted /\ ~Crash
  BY <1>1 DEF ReadArticleFails, CounterEvicted, RankingEvicted, Crash
<1> QED
  BY <1>4, <1>5, <1>6, <1>7, <1>8, <1>9 DEF Next, Step

\* While nothing fails, every article whose views are counted is in the
\* ranking, or the request that counted is about to put it there.
THEOREM CountedGetsRanked == Spec => []CountedIsRanked
<1>1. Init => CountedIsRanked
  BY DEF Init, CountedIsRanked
<1> QED
  BY <1>1, NextCountedIsRanked, TypeCorrect, PTL DEF Spec
=============================================================================
