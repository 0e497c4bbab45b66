------------------------- MODULE CommentCacheProofs -------------------------
(***************************************************************************)
(* What the comment list guarantees for any number of threads, comments,   *)
(* limits and requests.                                                    *)
(***************************************************************************)
EXTENDS CommentCache, FiniteSetTheorems, SequenceTheorems, WellFoundedInduction, TLAPS

(* Ids stay ids when comments are added.                                   *)
LEMMA MoreIds ==
  ASSUME NEW m \in Nat, NEW n \in Nat, m <= n, NEW s \in Seq(1 .. m)
  PROVE  s \in Seq(1 .. n)
<1>1. 1 .. m \subseteq 1 .. n
  OBVIOUS
<1> QED
  BY <1>1, SeqMonotonic

(* What LRANGE returns, and what is left of the list: ids, like the list.  *)
LEMMA FirstOfType ==
  ASSUME NEW S, NEW s \in Seq(S), NEW n \in Nat
  PROVE  FirstOf(s, n) \in Seq(S)
<1> DEFINE k == IF n <= Len(s) THEN n ELSE Len(s)
<1>1. k \in 0 .. Len(s) /\ Len(s) \in Nat
  OBVIOUS
<1>2. \A i \in 1 .. k : s[i] \in S
  BY <1>1, ElementOfSeq
<1> QED
  BY <1>1, <1>2, SubSeqProperties DEF FirstOf

LEMMA NewestType ==
  ASSUME comments \in Seq(Nat), NEW n \in Nat, NEW s \in Newest(n)
  PROVE  s \in Seq(1 .. Len(comments))
<1> DEFINE k == IF n <= Len(comments) THEN n ELSE Len(comments)
<1>1. k \in Nat
  OBVIOUS
<1>2. s \in [1 .. k -> 1 .. Len(comments)]
  BY DEF Newest
<1> HIDE DEF k
<1> QED
  BY <1>1, <1>2, SeqDef

LEMMA LimitType ==
  ASSUME limit \in [Threads -> 0 .. 50], NEW t \in Threads
  PROVE  limit[t] \in Nat
<1>1. limit[t] \in 0 .. 50
  OBVIOUS
<1> QED
  BY <1>1

LEMMA FaultsType ==
  ASSUME faults \in 0 .. MaxFaults, Works \/ Fails
  PROVE  faults' \in 0 .. MaxFaults
BY BoundsAssumption DEF Works, Fails

(* INSERT adds one comment, the last.                                      *)
LEMMA InsertedType ==
  ASSUME comments \in Seq(Nat), Inserted
  PROVE  comments' \in Seq(Nat) /\ Len(comments') = Len(comments) + 1
<1>1. Latest \in Nat
  <2>1. comments # << >> => comments[Len(comments)] \in Nat
    OBVIOUS
  <2> QED
    BY <2>1 DEF Latest
<1>2. PICK s \in Nat : comments' = Append(comments, s)
  BY <1>1 DEF Inserted
<1> QED
  BY <1>2

LEMMA InitTypeOK == Init => TypeOK
<1> SUFFICES ASSUME Init PROVE TypeOK
  OBVIOUS
<1>1. comments \in [1 .. InitComments -> Nat] /\ InitComments \in Nat
  BY BoundsAssumption DEF Init
<1>2. comments \in Seq(Nat)
  BY <1>1, SeqDef
<1>3. Len(comments) \in Nat /\ << >> \in Seq(1 .. Len(comments))
  BY <1>2
<1> QED
  <2>1. pc \in [Threads -> PC] /\ ttl \in BOOLEAN
    BY DEF Init, PC
  <2>2. /\ list \in Seq(1 .. Len(comments))
        /\ page \in [Threads -> Seq(1 .. Len(comments))]
        /\ todo \in [Threads -> Seq(1 .. Len(comments))]
    BY <1>3 DEF Init
  <2>3. limit \in [Threads -> 0 .. 50] /\ existed \in [Threads -> 0 .. Len(comments)]
    <3>1. 0 \in 0 .. 50 /\ 0 \in 0 .. Len(comments)
      BY <1>3
    <3>2. limit = [t \in Threads |-> 0] /\ existed = [t \in Threads |-> 0]
      BY DEF Init
    <3> QED
      BY <3>1, <3>2
  <2>4. requests \in 0 .. MaxRequests /\ faults \in 0 .. MaxFaults
    BY BoundsAssumption DEF Init
  <2> QED
    BY <1>2, <2>1, <2>2, <2>3, <2>4 DEF TypeOK

LEMMA NextTypeOK == TypeOK /\ [Next]_vars => TypeOK'
<1> SUFFICES ASSUME TypeOK, [Next]_vars PROVE TypeOK'
  OBVIOUS
<1> USE DEF TypeOK
<1>ids. Len(comments) \in Nat /\ << >> \in Seq(1 .. Len(comments))
  OBVIOUS
<1>pc. ASSUME NEW t \in Threads, NEW l \in PC, Goto(t, l)
       PROVE  pc' \in [Threads -> PC]
  BY <1>pc DEF Goto
<1>lim. \A t \in Threads : limit[t] \in Nat
  <2>1. limit \in [Threads -> 0 .. 50]
    OBVIOUS
  <2> QED
    BY <2>1, LimitType
<1>pcs. PC = {"idle", "range", "select", "count", "check", "insert", "del", "push", "expire"}
  BY DEF PC, Filling
<1> USE DEF redis, locals
<1>1. ASSUME NEW t \in Threads, NEW n \in Limits, GetArrives(t, n)
      PROVE  TypeOK'
  <2>1. requests' \in 0 .. MaxRequests /\ n \in 0 .. 50
    BY <1>1, BoundsAssumption, LimitsAssumption DEF GetArrives
  <2>2. pc' \in [Threads -> PC]
    BY <1>1, <1>pc, <1>pcs DEF GetArrives
  <2>3. page' \in [Threads -> Seq(1 .. Len(comments))] /\ existed' \in [Threads -> 0 .. Len(comments)]
    BY <1>1, <1>ids DEF GetArrives
  <2> QED
    BY <1>1, <2>1, <2>2, <2>3 DEF GetArrives
<1>2. ASSUME NEW t \in Threads, Lrange(t)
      PROVE  TypeOK'
  <2>1. FirstOf(list, limit[t]) \in Seq(1 .. Len(comments))
    <3>1. list \in Seq(1 .. Len(comments))
      OBVIOUS
    <3> QED
      BY <1>lim, <3>1, FirstOfType
  <2>2. page' \in [Threads -> Seq(1 .. Len(comments))]
    BY <1>2, <2>1 DEF Lrange
  <2>3. pc' \in [Threads -> PC] /\ faults' \in 0 .. MaxFaults
    BY <1>2, <1>pc, <1>pcs, FaultsType DEF Lrange
  <2> QED
    BY <1>2, <2>2, <2>3 DEF Lrange
<1>3. ASSUME NEW t \in Threads, Select(t)
      PROVE  TypeOK'
  <2>1. todo' \in [Threads -> Seq(1 .. Len(comments))]
    <3>2. \A s \in Newest(limit[t]) : s \in Seq(1 .. Len(comments))
      BY <1>lim, NewestType
    <3>3. PICK s \in Seq(1 .. Len(comments)) : todo' = [todo EXCEPT ![t] = s]
      BY <1>3, <1>ids, <3>2 DEF Select
    <3> QED
      BY <3>3
  <2>2. pc' \in [Threads -> PC] /\ faults' \in 0 .. MaxFaults
    BY <1>3, <1>pc, <1>pcs, FaultsType DEF Select
  <2> QED
    BY <1>3, <2>1, <2>2 DEF Select
<1>4. ASSUME NEW t \in Threads, Push(t)
      PROVE  TypeOK'
  <2> DEFINE c == Head(todo[t])
  <2>1. c \in 1 .. Len(comments) /\ Tail(todo[t]) \in Seq(1 .. Len(comments))
    BY <1>4, SMTT(30) DEF Push
  <2>2. << c >> \o list \in Seq(1 .. Len(comments))
    BY <2>1
  <2>3. Append(page[t], c) \in Seq(1 .. Len(comments))
    BY <2>1
  <2>4. list' \in Seq(1 .. Len(comments)) /\ ttl' = ttl
    BY <1>4, <2>2 DEF Push, Pushed
  <2>5. /\ page' \in [Threads -> Seq(1 .. Len(comments))]
        /\ todo' \in [Threads -> Seq(1 .. Len(comments))]
    BY <1>4, <2>1, <2>3 DEF Push
  <2>6. faults' \in 0 .. MaxFaults
    BY <1>4, FaultsType DEF Push
  <2> QED
    BY <1>4, <2>4, <2>5, <2>6 DEF Push
<1>5. ASSUME NEW t \in Threads, PushesDone(t) \/ Expire(t) \/ Count(t) \/ Check(t)
      PROVE  TypeOK'
  <2>1. pc' \in [Threads -> PC] /\ faults' \in 0 .. MaxFaults /\ ttl' \in BOOLEAN
    BY <1>5, <1>pc, <1>pcs, FaultsType DEF PushesDone, Expire, Count, Check
  <2> QED
    BY <1>5, <2>1 DEF PushesDone, Expire, Count, Check
<1>6. ASSUME NEW t \in Threads, CreateArrives(t)
      PROVE  TypeOK'
  <2>1. pc' \in [Threads -> PC] /\ requests' \in 0 .. MaxRequests
    BY <1>6, <1>pc, <1>pcs, BoundsAssumption DEF CreateArrives
  <2> QED
    BY <1>6, <2>1 DEF CreateArrives
<1>7. ASSUME NEW t \in Threads, Insert(t)
      PROVE  TypeOK'
  <2>1. comments' \in Seq(Nat) /\ Len(comments) <= Len(comments') /\ Len(comments') \in Nat
    BY <1>7, <1>ids, InsertedType DEF Insert
  <2>2. pc' \in [Threads -> PC] /\ faults' \in 0 .. MaxFaults
    BY <1>7, <1>pc, <1>pcs, FaultsType DEF Insert
  <2>3. /\ list' \in Seq(1 .. Len(comments'))
        /\ \A u \in Threads : page[u] \in Seq(1 .. Len(comments'))
        /\ \A u \in Threads : todo[u] \in Seq(1 .. Len(comments'))
    BY <1>7, <1>ids, <2>1, MoreIds DEF Insert
  <2>4. 0 .. Len(comments) \subseteq 0 .. Len(comments')
    BY <1>ids, <2>1
  <2>5. UNCHANGED <<redis, locals, requests>>
    BY <1>7 DEF Insert
  <2>6. page' \in [Threads -> Seq(1 .. Len(comments'))]
        /\ todo' \in [Threads -> Seq(1 .. Len(comments'))]
    BY <2>3, <2>5
  <2>7. existed' \in [Threads -> 0 .. Len(comments')]
    BY <2>4, <2>5
  <2> QED
    BY <2>1, <2>2, <2>3, <2>5, <2>6, <2>7
<1>8. ASSUME Gone
      PROVE  list' \in Seq(1 .. Len(comments)) /\ ttl' \in BOOLEAN
  BY <1>8, <1>ids DEF Gone
<1>9. ASSUME NEW t \in Threads, Del(t)
      PROVE  TypeOK'
  <2>1. list' \in Seq(1 .. Len(comments)) /\ ttl' \in BOOLEAN
    BY <1>8, <1>9 DEF Del
  <2>2. pc' \in [Threads -> PC] /\ faults' \in 0 .. MaxFaults
    BY <1>9, <1>pc, <1>pcs, FaultsType DEF Del
  <2> QED
    BY <1>9, <2>1, <2>2 DEF Del
<1>10. CASE ListExpires \/ ListEvicted
  BY <1>8, <1>10, FaultsType DEF ListExpires, ListEvicted
<1>11. CASE Crash
  <2>1. /\ pc' \in [Threads -> PC] /\ faults' \in 0 .. MaxFaults
        /\ todo' \in [Threads -> Seq(1 .. Len(comments))]
    BY <1>11, <1>ids, <1>pcs, FaultsType DEF Crash
  <2> QED
    BY <1>11, <2>1 DEF Crash
<1>12. CASE UNCHANGED vars
  BY <1>12 DEF vars
<1> QED
  BY <1>1, <1>2, <1>3, <1>4, <1>5, <1>6, <1>7, <1>9, <1>10, <1>11, <1>12
     DEF Next, Step, Quiet

\* A list holds ids of comments that are in MySQL, and so does every reply.
THEOREM TypeCorrect == Spec => []TypeOK
BY InitTypeOK, NextTypeOK, PTL DEF Spec

-----------------------------------------------------------------------------
LEMMA NextUntimed ==
  TypeOK /\ TypeOK' /\ UntimedListIsBeingFilled /\ [Next]_vars => UntimedListIsBeingFilled'
<1> SUFFICES ASSUME TypeOK, TypeOK', UntimedListIsBeingFilled, [Next]_vars,
                    faults' = 0, list' # << >>, ~ttl'
             PROVE  \E t \in Threads : pc'[t] \in Filling
  BY DEF UntimedListIsBeingFilled
<1> USE DEF redis, locals
<1>1. ~Fails
  BY DEF Fails, TypeOK
<1>2. faults = 0
  BY <1>1 DEF Next, Step, GetArrives, Lrange, Select, Push, PushesDone, Expire, Count,
              CreateArrives, Check, Insert, Del, ListExpires, ListEvicted, Crash, Quiet,
              vars, Works
<1>3. ~Gone
  BY DEF Gone
<1>4. ASSUME NEW t \in Threads, Push(t)
      PROVE  \E u \in Threads : pc'[u] \in Filling
  BY <1>4 DEF Push, Filling
<1>5. ASSUME NEW t \in Threads, Expire(t)
      PROVE  FALSE
  BY <1>1, <1>5 DEF Expire
(* Everybody else leaves the list alone and does not leave Filling.        *)
<1>6. ASSUME UNCHANGED redis,
             \A u \in Threads : pc[u] \in Filling => pc'[u] \in Filling
      PROVE  \E u \in Threads : pc'[u] \in Filling
  BY <1>2, <1>6 DEF UntimedListIsBeingFilled
<1>7. ASSUME NEW t \in Threads,
             \/ \E n \in Limits : GetArrives(t, n)
             \/ Lrange(t) \/ Select(t) \/ PushesDone(t) \/ Count(t)
             \/ CreateArrives(t) \/ Check(t) \/ Insert(t)
      PROVE  /\ UNCHANGED redis
             /\ \A u \in Threads : pc[u] \in Filling => pc'[u] \in Filling
  BY <1>7 DEF GetArrives, Lrange, Select, PushesDone, Count, CreateArrives, Check, Insert,
              Goto, Filling, TypeOK
<1>8. \A t \in Threads : ~Del(t)
  BY <1>1, <1>3 DEF Del
<1>9. ~ListExpires /\ ~ListEvicted /\ ~Crash
  BY <1>1, <1>3 DEF ListExpires, ListEvicted, Crash
<1> QED
  BY <1>4, <1>5, <1>6, <1>7, <1>8, <1>9 DEF Next, Step, Quiet, vars

\* Unless a command failed, a list without a TTL has a thread that will set it.
THEOREM UntimedListsAreFilling == Spec => []UntimedListIsBeingFilled
<1>1. Init => UntimedListIsBeingFilled
  BY DEF Init, UntimedListIsBeingFilled
<1> QED
  BY <1>1, NextUntimed, TypeCorrect, PTL DEF Spec

-----------------------------------------------------------------------------
(* How long the list can get. A thread that found no list owes it the rows *)
(* it will select, then those it has not pushed yet.                       *)

(* A set of naturals has a least element.                                  *)
LEMMA LeastNatural ==
  ASSUME NEW T \in SUBSET Nat, T # {}
  PROVE  \E n \in T : \A m \in T : n <= m
<1> DEFINE R == OpToRel(<, Nat)
<1>1. \A m, n \in Nat : <<m, n>> \in R <=> m < n
  BY DEF OpToRel
<1>2. IsWellFoundedOn(R, Nat)
  BY NatLessThanWellFounded
<1> HIDE DEF R
<1>3. PICK n \in T : \A m \in T : ~(<<m, n>> \in R)
  BY <1>2, WFMin
<1>4. ASSUME NEW m \in T
      PROVE  n <= m
  <2>1. m \in Nat /\ n \in Nat /\ ~(m < n)
    BY <1>1, <1>3
  <2> QED
    BY <2>1
<1> QED
  BY <1>4

LEMMA MaxLimitIsMax ==
  /\ MaxLimit \in Limits
  /\ MaxLimit \in Nat
  /\ \A n \in Limits : n \in Nat \ {0} /\ n <= MaxLimit
<1> DEFINE top == 50
           T == {top - n : n \in Limits}
<1>1. \A n \in Limits : n \in 1 .. top
  BY LimitsAssumption
<1> HIDE DEF top
<1>2. top \in Nat
  BY DEF top
<1>3. \E n \in Limits : \A m \in Limits : m <= n
  <2>1. T \in SUBSET Nat /\ T # {}
    <3>1. PICK n \in Limits : TRUE
      BY LimitsAssumption
    <3>2. \A m \in Limits : top - m \in Nat
      BY <1>1, <1>2
    <3> QED
      BY <3>1, <3>2
  <2>2. PICK k \in T : \A m \in T : k <= m
    BY <2>1, LeastNatural
  <2>3. PICK n \in Limits : k = top - n
    BY <2>2
  <2>4. \A m \in Limits : top - n <= top - m
    BY <2>2, <2>3
  <2> QED
    BY <1>1, <1>2, <2>3, <2>4
<1>4. MaxLimit \in Limits /\ \A m \in Limits : m <= MaxLimit
  BY <1>3 DEF MaxLimit
<1> QED
  BY <1>1, <1>2, <1>4

\* How many rows each thread owes.
Owed ==
  [t \in Threads |->
     CASE pc[t] = "select" -> MaxLimit
       [] pc[t] = "push"   -> Len(todo[t])
       [] OTHER            -> 0]

\* The rows that are owed, each <<t, i>> for the i-th last of t.
Rows(f) == {p \in Threads \X (1 .. MaxLimit) : p[2] <= f[p[1]]}

\* A list of so many comments, and what is owed, are within the bound.
Room(len, f, n) ==
  len + Cardinality(Rows(f)) <= (Cardinality(Threads) + n) * MaxLimit

\* Requests ask for a limit, and no SELECT returns more rows than that.
LimitsAreKept ==
  \A t \in Threads :
    /\ pc[t] \in {"range", "select"} => limit[t] \in Limits
    /\ pc[t] = "push" => Len(todo[t]) <= MaxLimit

RoomForAll == Room(Len(list), Owed, faults)

LEMMA RowsCount ==
  ASSUME NEW f
  PROVE  /\ IsFiniteSet(Rows(f))
         /\ Cardinality(Rows(f)) \in Nat
         /\ Cardinality(Threads) \in Nat
         /\ Cardinality(Rows(f)) <= Cardinality(Threads) * MaxLimit
<1> DEFINE P == Threads \X (1 .. MaxLimit)
<1>1. IsFiniteSet(1 .. MaxLimit) /\ Cardinality(1 .. MaxLimit) = MaxLimit
  BY MaxLimitIsMax, FS_Interval
<1>2. IsFiniteSet(P) /\ Cardinality(P) = Cardinality(Threads) * MaxLimit
  BY <1>1, ThreadsAssumption, FS_Product
<1>3. Rows(f) \in SUBSET P
  BY DEF Rows
<1> HIDE DEF P
<1>4. IsFiniteSet(Rows(f)) /\ Cardinality(Rows(f)) <= Cardinality(P)
  BY <1>2, <1>3, FS_Subset
<1> QED
  BY <1>2, <1>4, ThreadsAssumption, FS_CardinalityType

(* When the list is gone every thread may fill it once.                    *)
LEMMA RoomWhenGone ==
  ASSUME NEW f, NEW n \in Nat
  PROVE  Room(0, f, n)
<1> DEFINE C == Cardinality(Threads)
           M == MaxLimit
           K == Cardinality(Rows(f))
<1>1. C \in Nat /\ M \in Nat /\ K \in Nat /\ K <= C * M
  BY RowsCount, MaxLimitIsMax
<1>2. Room(0, f, n) <=> 0 + K <= (C + n) * M
  BY DEF Room
<1> HIDE DEF C, M, K
<1>3. (C + n) * M = C * M + n * M /\ n * M \in Nat /\ C * M \in Nat
  BY <1>1
<1> QED
  BY <1>1, <1>2, <1>3

(* A longer list, fewer rows owed: what a change of both does to the room. *)
LEMMA RoomFor ==
  ASSUME NEW f, NEW g, NEW n \in Nat, NEW k \in Nat, NEW l \in Nat,
         Room(k, f, n), l + Cardinality(Rows(g)) <= k + Cardinality(Rows(f))
  PROVE  Room(l, g, n)
<1>1. Cardinality(Rows(f)) \in Nat /\ Cardinality(Rows(g)) \in Nat
      /\ Cardinality(Threads) \in Nat /\ MaxLimit \in Nat
  BY RowsCount, MaxLimitIsMax
<1>2. (Cardinality(Threads) + n) * MaxLimit \in Nat
  BY <1>1
<1> QED
  BY <1>1, <1>2 DEF Room

(* A failed command makes room for one more fill.                          *)
LEMMA RoomAfterFault ==
  ASSUME NEW f, NEW g, NEW n \in Nat, NEW k \in Nat,
         Room(k, f, n), Cardinality(Rows(g)) <= Cardinality(Rows(f)) + MaxLimit
  PROVE  Room(k, g, n + 1)
<1> DEFINE C == Cardinality(Threads)
           M == MaxLimit
           K == Cardinality(Rows(f))
           L == Cardinality(Rows(g))
<1>1. C \in Nat /\ M \in Nat /\ K \in Nat /\ L \in Nat /\ L <= K + M
  BY RowsCount, MaxLimitIsMax
<1>2. k + K <= (C + n) * M /\ (Room(k, g, n + 1) <=> k + L <= (C + (n + 1)) * M)
  BY DEF Room
<1> HIDE DEF C, M, K, L
<1>3. (C + (n + 1)) * M = (C + n) * M + M /\ (C + n) * M \in Nat
  BY <1>1
<1> QED
  BY <1>1, <1>2, <1>3

(* Threads that owe less owe fewer rows.                                   *)
LEMMA RowsFewer ==
  ASSUME NEW f \in [Threads -> Nat], NEW g \in [Threads -> Nat],
         \A t \in Threads : g[t] <= f[t]
  PROVE  Cardinality(Rows(g)) <= Cardinality(Rows(f))
<1>1. Rows(g) \in SUBSET Rows(f)
  <2> SUFFICES ASSUME NEW t \in Threads, NEW i \in 1 .. MaxLimit, i <= g[t]
               PROVE  i <= f[t]
    BY DEF Rows
  <2> QED
    BY MaxLimitIsMax
<1> QED
  BY <1>1, RowsCount, FS_Subset

(* A pushed row is owed no longer.                                         *)
LEMMA RowsOneLess ==
  ASSUME NEW f \in [Threads -> Nat], NEW g \in [Threads -> Nat], NEW t \in Threads,
         f[t] \in 1 .. MaxLimit, g = [f EXCEPT ![t] = f[t] - 1]
  PROVE  Cardinality(Rows(g)) + 1 = Cardinality(Rows(f))
<1> DEFINE x == <<t, f[t]>>
<1>1. x \in Rows(f)
  BY DEF Rows
<1>2. Rows(g) = Rows(f) \ {x}
  <2>1. ASSUME NEW u \in Threads, NEW i \in 1 .. MaxLimit
        PROVE  i <= g[u] <=> (i <= f[u] /\ <<u, i>> # x)
    <3>1. CASE u = t
      <4>1. g[u] = f[t] - 1 /\ f[t] \in Nat /\ i \in Nat
        BY <3>1, MaxLimitIsMax
      <4>2. <<u, i>> = x <=> i = f[t]
        BY <3>1
      <4> QED
        BY <3>1, <4>1, <4>2
    <3>2. CASE u # t
      BY <3>2
    <3> QED
      BY <3>1, <3>2
  <2> HIDE DEF x
  <2> QED
    BY <2>1 DEF Rows
<1>3. IsFiniteSet(Rows(f)) /\ Cardinality(Rows(f)) \in Nat
      /\ Cardinality(Rows(g)) \in Nat
  BY RowsCount
<1> HIDE DEF x
<1>4. Cardinality(Rows(f) \ {x}) = Cardinality(Rows(f)) - 1
  BY <1>1, <1>3, FS_RemoveElement
<1>5. Cardinality(Rows(g)) = Cardinality(Rows(f)) - 1
  BY <1>2, <1>4
<1> QED
  BY <1>3, <1>5

(* One more thread that fills owes no more than a limit of rows.           *)
LEMMA RowsOneFill ==
  ASSUME NEW f \in [Threads -> Nat], NEW g \in [Threads -> Nat], NEW t \in Threads,
         \A u \in Threads \ {t} : g[u] <= f[u]
  PROVE  Cardinality(Rows(g)) <= Cardinality(Rows(f)) + MaxLimit
<1> DEFINE F == {t} \X (1 .. MaxLimit)
<1>1. IsFiniteSet(F) /\ Cardinality(F) = MaxLimit
  <2>1. IsFiniteSet(1 .. MaxLimit) /\ Cardinality(1 .. MaxLimit) = MaxLimit
    BY MaxLimitIsMax, FS_Interval
  <2>2. IsFiniteSet({t}) /\ Cardinality({t}) = 1
    BY FS_Singleton
  <2>3. Cardinality(F) = 1 * MaxLimit /\ IsFiniteSet(F)
    BY <2>1, <2>2, FS_Product, ZenonT(60)
  <2> QED
    BY <2>3, MaxLimitIsMax
<1>2. Rows(g) \in SUBSET (Rows(f) \cup F)
  <2> SUFFICES ASSUME NEW u \in Threads, NEW i \in 1 .. MaxLimit, i <= g[u]
               PROVE  i <= f[u] \/ u = t
    BY DEF Rows
  <2> QED
    BY MaxLimitIsMax
<1> HIDE DEF F
<1>3. IsFiniteSet(Rows(f)) /\ Cardinality(Rows(f)) \in Nat /\ Cardinality(Rows(g)) \in Nat
  BY RowsCount
<1>4. /\ IsFiniteSet(Rows(f) \cup F)
      /\ Cardinality(Rows(f) \cup F) =
           Cardinality(Rows(f)) + Cardinality(F) - Cardinality(Rows(f) \cap F)
  BY <1>1, <1>3, FS_Union
<1>5. Cardinality(Rows(f) \cap F) \in Nat /\ Cardinality(Rows(f) \cup F) \in Nat
  <2>1. IsFiniteSet(Rows(f) \cap F)
    BY <1>3, FS_Intersection
  <2> QED
    BY <1>4, <2>1, FS_CardinalityType
<1>6. Cardinality(Rows(g)) <= Cardinality(Rows(f) \cup F)
  BY <1>2, <1>4, FS_Subset
<1> QED
  BY <1>1, <1>3, <1>4, <1>5, <1>6, MaxLimitIsMax

LEMMA OwedType ==
  ASSUME TypeOK, TypeOK'
  PROVE  /\ Owed \in [Threads -> Nat] /\ Owed' \in [Threads -> Nat]
         /\ Len(list) \in Nat /\ Len(list') \in Nat
         /\ faults \in Nat /\ faults' \in Nat
<1>1. \A t \in Threads : Len(todo[t]) \in Nat /\ Len(todo'[t]) \in Nat
  BY DEF TypeOK
<1> QED
  BY <1>1, MaxLimitIsMax, BoundsAssumption DEF TypeOK, Owed

LEMMA NewestLength ==
  ASSUME comments \in Seq(Nat), NEW n \in Nat, NEW s \in Newest(n)
  PROVE  /\ Len(s) \in Nat /\ Len(s) <= n
         /\ Len(s) >= Len(comments) \/ Len(s) >= n
<1> DEFINE k == IF n <= Len(comments) THEN n ELSE Len(comments)
<1>1. k \in Nat /\ k <= n /\ (k >= Len(comments) \/ k >= n)
  OBVIOUS
<1>2. s \in [1 .. k -> 1 .. Len(comments)]
  BY DEF Newest
<1> HIDE DEF k
<1>3. Len(s) = k
  BY <1>1, <1>2, LenProperties, SeqDef
<1> QED
  BY <1>1, <1>3

(* A hit is not empty: a limit is at least 1.                              *)
LEMMA HitIsNotEmpty ==
  ASSUME NEW S, NEW s \in Seq(S), s # << >>, NEW n \in Nat \ {0}
  PROVE  FirstOf(s, n) # << >>
<1> DEFINE k == IF n <= Len(s) THEN n ELSE Len(s)
<1>1. k \in 1 .. Len(s) /\ Len(s) \in Nat
  OBVIOUS
<1> HIDE DEF k
<1>2. Len(SubSeq(s, 1, k)) = k
  BY <1>1
<1>3. FirstOf(s, n) = SubSeq(s, 1, k)
  BY DEF FirstOf, k
<1> QED
  BY <1>1, <1>2, <1>3

LEMMA NextLimits ==
  TypeOK /\ LimitsAreKept /\ [Next]_vars => LimitsAreKept'
<1> SUFFICES ASSUME TypeOK, LimitsAreKept, [Next]_vars, NEW u \in Threads
             PROVE  /\ pc'[u] \in {"range", "select"} => limit'[u] \in Limits
                    /\ pc'[u] = "push" => Len(todo'[u]) <= MaxLimit
  BY DEF LimitsAreKept
<1> DEFINE Kept == /\ pc'[u] \in {"range", "select"} => limit'[u] \in Limits
                   /\ pc'[u] = "push" => Len(todo'[u]) <= MaxLimit
<1>1. /\ pc[u] \in {"range", "select"} => limit[u] \in Limits
      /\ pc[u] = "push" => Len(todo[u]) <= MaxLimit
      /\ pc \in [Threads -> PC] /\ todo[u] \in Seq(1 .. Len(comments))
      /\ limit \in [Threads -> 0 .. 50] /\ todo \in [Threads -> Seq(1 .. Len(comments))]
      /\ comments \in Seq(Nat)
  BY DEF LimitsAreKept, TypeOK
<1> USE DEF redis, locals, Goto
<1>2. ASSUME NEW t \in Threads, NEW n \in Limits, GetArrives(t, n)
      PROVE  Kept
  BY <1>1, <1>2 DEF GetArrives
<1>3. ASSUME NEW t \in Threads, Lrange(t)
      PROVE  Kept
  BY <1>1, <1>3 DEF Lrange
<1>4. ASSUME NEW t \in Threads, Select(t)
      PROVE  Kept
  <2>1. CASE u = t
    <3>1. limit[t] \in Limits /\ limit[t] \in Nat /\ limit[t] <= MaxLimit
      BY <1>1, <1>4, <2>1, MaxLimitIsMax DEF Select
    <3>2. PICK s : /\ todo' = [todo EXCEPT ![t] = s]
                   /\ s \in Newest(limit[t]) \/ s = << >>
      BY <1>4 DEF Select
    <3>3. Len(s) \in Nat /\ Len(s) <= limit[t]
      <4>1. CASE s = << >>
        BY <3>1, <4>1
      <4>2. CASE s \in Newest(limit[t])
        BY <1>1, <3>1, <4>2, NewestLength
      <4> QED
        BY <3>2, <4>1, <4>2
    <3>4. todo'[u] = s
      BY <1>1, <2>1, <3>2
    <3>5. Len(todo'[u]) <= MaxLimit
      BY <3>1, <3>3, <3>4, MaxLimitIsMax
    <3>6. pc'[u] = "push"
      BY <1>1, <1>4, <2>1 DEF Select
    <3> QED
      BY <3>5, <3>6
  <2>2. CASE u # t
    BY <1>1, <1>4, <2>2 DEF Select
  <2> QED
    BY <2>1, <2>2
<1>5. ASSUME NEW t \in Threads, Push(t)
      PROVE  Kept
  <2>1. CASE u = t
    <3>1. todo[u] # << >> /\ todo'[u] = Tail(todo[u]) /\ pc'[u] = "push" /\ pc[u] = "push"
      BY <1>1, <1>5, <2>1 DEF Push
    <3>2. Len(Tail(todo[u])) <= Len(todo[u]) /\ Len(todo[u]) \in Nat
          /\ Len(Tail(todo[u])) \in Nat
      BY <1>1, <3>1
    <3> QED
      BY <1>1, <3>1, <3>2, MaxLimitIsMax
  <2>2. CASE u # t
    BY <1>1, <1>5, <2>2 DEF Push
  <2> QED
    BY <2>1, <2>2
<1>6. ASSUME NEW t \in Threads,
             \/ PushesDone(t) \/ Expire(t) \/ Count(t) \/ CreateArrives(t)
             \/ Check(t) \/ Insert(t) \/ Del(t)
      PROVE  Kept
  BY <1>1, <1>6 DEF PushesDone, Expire, Count, CreateArrives, Check, Insert, Del
<1>7. CASE ListExpires \/ ListEvicted \/ UNCHANGED vars
  BY <1>1, <1>7 DEF ListExpires, ListEvicted, vars
<1>8. CASE Crash
  BY <1>8 DEF Crash
<1> QED
  BY <1>2, <1>3, <1>4, <1>5, <1>6, <1>7, <1>8 DEF Next, Step, Quiet

(* A step that adds nothing, to the list or to what a thread owes.         *)
LEMMA RoomKept ==
  ASSUME TypeOK, TypeOK', RoomForAll, Works \/ Fails,
         Len(list') <= Len(list), \A t \in Threads : Owed'[t] <= Owed[t]
  PROVE  RoomForAll'
<1>1. Owed \in [Threads -> Nat] /\ Owed' \in [Threads -> Nat]
      /\ Len(list) \in Nat /\ Len(list') \in Nat /\ faults \in Nat
  BY OwedType
<1> DEFINE f == Owed
           g == Owed'
           k == Len(list)
           l == Len(list')
<1> HIDE DEF f, g, k, l
<1>2. Cardinality(Rows(g)) <= Cardinality(Rows(f))
      /\ Cardinality(Rows(g)) \in Nat /\ Cardinality(Rows(f)) \in Nat
      /\ k \in Nat /\ l \in Nat /\ l <= k
  BY <1>1, RowsFewer, RowsCount DEF f, g, k, l
<1>3. Room(l, g, faults)
  <2>1. Room(k, f, faults)
    BY DEF RoomForAll, f, k
  <2>2. l + Cardinality(Rows(g)) <= k + Cardinality(Rows(f))
    BY <1>2
  <2> QED
    BY <1>1, <1>2, <2>1, <2>2, RoomFor
<1>4. Room(l, g, faults + 1)
  <2>1. Cardinality(Rows(g)) <= Cardinality(Rows(g)) + MaxLimit
    BY <1>2, MaxLimitIsMax
  <2> QED
    BY <1>1, <1>2, <1>3, <2>1, RoomAfterFault
<1>5. faults' = faults \/ faults' = faults + 1
  BY DEF Works, Fails
<1>6. Room(l, g, faults')
  BY <1>3, <1>4, <1>5
<1> QED
  BY <1>6 DEF RoomForAll, g, l, Room, Rows

LEMMA RoomInEmptyList ==
  ASSUME TypeOK, TypeOK', list' = << >>
  PROVE  RoomForAll'
<1>1. Len(list') = 0 /\ faults' \in Nat
  BY OwedType
<1> DEFINE g == Owed'
<1> HIDE DEF g
<1>2. Room(Len(list'), g, faults')
  BY <1>1, RoomWhenGone
<1> QED
  BY <1>2 DEF RoomForAll, g, Room, Rows

LEMMA NextRoom ==
  TypeOK /\ TypeOK' /\ LimitsAreKept /\ RoomForAll /\ [Next]_vars => RoomForAll'
<1> SUFFICES ASSUME TypeOK, TypeOK', LimitsAreKept, RoomForAll, [Next]_vars
             PROVE  RoomForAll'
  OBVIOUS
<1>1. /\ Owed \in [Threads -> Nat] /\ Owed' \in [Threads -> Nat]
      /\ Len(list) \in Nat /\ Len(list') \in Nat
      /\ faults \in Nat /\ faults' \in Nat
  BY OwedType
<1>2. /\ pc \in [Threads -> PC] /\ todo \in [Threads -> Seq(1 .. Len(comments))]
      /\ list \in Seq(1 .. Len(comments))
      /\ limit \in [Threads -> 0 .. 50] /\ page \in [Threads -> Seq(1 .. Len(comments))]
  BY DEF TypeOK
<1>owe. \A t \in Threads :
          /\ Owed[t] = CASE pc[t] = "select" -> MaxLimit
                         [] pc[t] = "push"   -> Len(todo[t])
                         [] OTHER            -> 0
          /\ Owed'[t] = CASE pc'[t] = "select" -> MaxLimit
                          [] pc'[t] = "push"   -> Len(todo'[t])
                          [] OTHER             -> 0
  BY DEF Owed
<1> USE DEF redis, locals, Goto
(* Who neither selects nor pushes owes as much as before, or nothing more. *)
<1>3. ASSUME NEW t \in Threads,
             \/ \E n \in Limits : GetArrives(t, n)
             \/ PushesDone(t) \/ Expire(t) \/ Count(t) \/ CreateArrives(t)
             \/ Check(t) \/ Insert(t)
      PROVE  RoomForAll'
  <2>1. list' = list /\ (Works \/ Fails)
    BY <1>3 DEF GetArrives, PushesDone, Expire, Count, CreateArrives, Check, Insert, Works
  <2>2. todo' = todo /\ \A u \in Threads :
          pc'[u] = pc[u] \/ pc'[u] \notin {"select", "push"}
    BY <1>2, <1>3 DEF GetArrives, PushesDone, Expire, Count, CreateArrives, Check, Insert
  <2>3. \A u \in Threads : Owed'[u] <= Owed[u]
    <3> SUFFICES ASSUME NEW u \in Threads
                 PROVE  Owed'[u] <= Owed[u]
      OBVIOUS
    <3>1. Owed'[u] = Owed[u] \/ Owed'[u] = 0
      BY <1>owe, <2>2
    <3> QED
      BY <1>1, <3>1
  <2> QED
    BY <1>1, <2>1, <2>3, RoomKept
<1>4. ASSUME NEW t \in Threads, Lrange(t)
      PROVE  RoomForAll'
  <2>1. list' = list /\ todo' = todo /\ pc[t] = "range"
        /\ \A u \in Threads \ {t} : pc'[u] = pc[u]
    BY <1>2, <1>4 DEF Lrange
  <2>2. CASE list = << >>
    BY <2>1, <2>2, RoomInEmptyList
  <2>3. CASE list # << >> /\ Works
    <3>1. limit[t] \in Nat \ {0}
      BY <2>1, MaxLimitIsMax DEF LimitsAreKept
    <3>2. FirstOf(list, limit[t]) # << >>
      BY <1>2, <2>3, <3>1, HitIsNotEmpty
    <3>3. CASE pc'[t] = "count"
      <4>1. \A u \in Threads : Owed'[u] <= Owed[u]
        <5> SUFFICES ASSUME NEW u \in Threads
                     PROVE  Owed'[u] <= Owed[u]
          OBVIOUS
        <5>1. CASE u = t
          <6>1. Owed'[u] = 0
            BY <1>owe, <3>3, <5>1
          <6> QED
            BY <1>1, <6>1
        <5>2. CASE u # t
          <6>1. Owed'[u] = Owed[u]
            BY <1>owe, <2>1, <5>2
          <6> QED
            BY <1>1, <6>1
        <5> QED
          BY <5>1, <5>2
      <4> QED
        BY <1>1, <2>1, <2>3, <4>1, RoomKept
    <3>4. CASE Fails
      BY <1>1, <2>3, <3>4 DEF Works, Fails
    <3>5. pc'[t] = "count" \/ Fails
      <4>1. CASE page' = [page EXCEPT ![t] = FirstOf(list, limit[t])]
        <5>1. page'[t] # << >>
          BY <1>2, <3>2, <4>1
        <5> QED
          BY <1>2, <1>4, <5>1 DEF Lrange
      <4> QED
        BY <1>4, <4>1 DEF Lrange
    <3> QED
      BY <3>3, <3>4, <3>5
  <2>4. CASE Fails
    <3> DEFINE f == Owed
               g == Owed'
    <3>1. \A u \in Threads \ {t} : g[u] <= f[u]
      <4> SUFFICES ASSUME NEW u \in Threads \ {t}
                   PROVE  g[u] <= f[u]
        OBVIOUS
      <4>1. g[u] = f[u]
        BY <1>owe, <2>1
      <4> QED
        BY <1>1, <4>1
    <3> HIDE DEF f, g
    <3>2. Cardinality(Rows(g)) <= Cardinality(Rows(f)) + MaxLimit
      BY <1>1, <3>1, RowsOneFill DEF f, g
    <3>3. Room(Len(list), f, faults)
      BY DEF RoomForAll, f
    <3>4. Room(Len(list), g, faults + 1)
      BY <1>1, <3>2, <3>3, RoomAfterFault
    <3>5. Room(Len(list'), g, faults')
      BY <2>1, <2>4, <3>4 DEF Fails
    <3> QED
      BY <3>5 DEF RoomForAll, g, Room, Rows
  <2> QED
    BY <1>4, <2>2, <2>3, <2>4 DEF Lrange
<1>5. ASSUME NEW t \in Threads, Select(t)
      PROVE  RoomForAll'
  <2>1. list' = list /\ (Works \/ Fails) /\ pc[t] = "select" /\ pc'[t] = "push"
        /\ \A u \in Threads \ {t} : pc'[u] = pc[u] /\ todo'[u] = todo[u]
    BY <1>2, <1>5 DEF Select
  <2>2. LimitsAreKept'
    BY NextLimits
  <2>3. Len(todo'[t]) <= MaxLimit
    BY <2>1, <2>2 DEF LimitsAreKept
  <2>4. \A u \in Threads : Owed'[u] <= Owed[u]
    <3> SUFFICES ASSUME NEW u \in Threads
                 PROVE  Owed'[u] <= Owed[u]
      OBVIOUS
    <3>1. CASE u = t
      BY <1>owe, <2>1, <2>3, <3>1
    <3>2. CASE u # t
      <4>1. Owed'[u] = Owed[u]
        BY <1>owe, <2>1, <3>2
      <4> QED
        BY <1>1, <4>1
    <3> QED
      BY <3>1, <3>2
  <2> QED
    BY <1>1, <2>1, <2>4, RoomKept
<1>6. ASSUME NEW t \in Threads, Push(t)
      PROVE  RoomForAll'
  <2>1. pc[t] = "push" /\ todo[t] # << >> /\ pc' = pc
        /\ todo' = [todo EXCEPT ![t] = Tail(todo[t])]
    BY <1>6 DEF Push
  <2>2. Len(todo[t]) \in Nat \ {0} /\ Len(Tail(todo[t])) = Len(todo[t]) - 1
    BY <1>2, <2>1
  <2>3. Owed[t] = Len(todo[t]) /\ Owed'[t] = Len(todo[t]) - 1
    <3>1. todo'[t] = Tail(todo[t])
      BY <1>2, <2>1
    <3> QED
      BY <1>owe, <2>1, <2>2, <3>1
  <2>4. \A u \in Threads \ {t} : Owed'[u] = Owed[u]
    BY <1>owe, <1>2, <2>1
  <2>5. CASE Fails /\ UNCHANGED redis
    <3>1. \A u \in Threads : Owed'[u] <= Owed[u]
      <4> SUFFICES ASSUME NEW u \in Threads
                   PROVE  Owed'[u] <= Owed[u]
        OBVIOUS
      <4>1. CASE u = t
        BY <2>2, <2>3, <4>1
      <4>2. CASE u # t
        BY <1>1, <2>4, <4>2
      <4> QED
        BY <4>1, <4>2
    <3> QED
      BY <1>1, <2>5, <3>1, RoomKept
  <2>6. CASE Works /\ Pushed(Head(todo[t]))
    <3> DEFINE f == Owed
               g == Owed'
    <3>1. Len(list') = Len(list) + 1
      <4>1. Head(todo[t]) \in 1 .. Len(comments)
        BY <1>2, <2>1
      <4>2. list' = << Head(todo[t]) >> \o list
        BY <2>6 DEF Pushed
      <4> QED
        BY <1>2, <4>1, <4>2
    <3>2. f[t] \in 1 .. MaxLimit
      <4>1. Len(todo[t]) <= MaxLimit
        BY <2>1 DEF LimitsAreKept
      <4> QED
        BY <2>2, <2>3, <4>1, MaxLimitIsMax
    <3> HIDE DEF f, g
    <3>3. g = [f EXCEPT ![t] = f[t] - 1]
      <4>1. f \in [Threads -> Nat] /\ g \in [Threads -> Nat]
        BY <1>1 DEF f, g
      <4>2. g[t] = f[t] - 1 /\ \A u \in Threads \ {t} : g[u] = f[u]
        BY <2>3, <2>4 DEF f, g
      <4> QED
        BY <4>1, <4>2
    <3>4. Cardinality(Rows(g)) + 1 = Cardinality(Rows(f))
      BY <1>1, <3>2, <3>3, RowsOneLess DEF f, g
    <3>5. Cardinality(Rows(f)) \in Nat /\ Cardinality(Rows(g)) \in Nat
      BY RowsCount
    <3>6. Len(list) + 1 + Cardinality(Rows(g)) <= Len(list) + Cardinality(Rows(f))
      BY <1>1, <3>4, <3>5
    <3>7. Room(Len(list), f, faults)
      BY DEF RoomForAll, f
    <3>8. Room(Len(list) + 1, g, faults)
      BY <1>1, <3>6, <3>7, RoomFor
    <3>9. Room(Len(list'), g, faults')
      BY <2>6, <3>1, <3>8 DEF Works
    <3> QED
      BY <3>9 DEF RoomForAll, g, Room, Rows
  <2> QED
    BY <1>6, <2>5, <2>6 DEF Push
<1>7. ASSUME NEW t \in Threads, Del(t)
      PROVE  RoomForAll'
  <2>1. CASE Gone
    BY <2>1, RoomInEmptyList DEF Gone
  <2>2. CASE Fails /\ UNCHANGED redis
    <3>1. \A u \in Threads : Owed'[u] <= Owed[u]
      <4> SUFFICES ASSUME NEW u \in Threads
                   PROVE  Owed'[u] <= Owed[u]
        OBVIOUS
      <4>1. todo'[u] = todo[u] /\ (pc'[u] = pc[u] \/ pc'[u] = "idle")
        BY <1>2, <1>7 DEF Del
      <4>2. Owed'[u] = Owed[u] \/ Owed'[u] = 0
        BY <1>owe, <4>1
      <4> QED
        BY <1>1, <4>2
    <3> QED
      BY <1>1, <2>2, <3>1, RoomKept
  <2> QED
    BY <1>7, <2>1, <2>2 DEF Del
<1>8. CASE ListExpires \/ ListEvicted
  BY <1>8, RoomInEmptyList DEF ListExpires, ListEvicted, Gone
<1>9. CASE Crash
  <2>1. list' = list /\ Fails
    BY <1>9 DEF Crash
  <2>2. \A u \in Threads : Owed'[u] <= Owed[u]
    <3> SUFFICES ASSUME NEW u \in Threads
                 PROVE  Owed'[u] <= Owed[u]
      OBVIOUS
    <3>1. pc'[u] = "idle"
      BY <1>9 DEF Crash
    <3>2. Owed'[u] = 0
      BY <1>owe, <3>1
    <3> QED
      BY <1>1, <3>2
  <2> QED
    BY <1>1, <2>1, <2>2, RoomKept
<1>10. CASE UNCHANGED vars
  BY <1>10 DEF vars, RoomForAll, Room, Rows, Owed
<1> QED
  BY <1>3, <1>4, <1>5, <1>6, <1>7, <1>8, <1>9, <1>10 DEF Next, Step, Quiet

\* However many fills overlap, every thread adds its rows at most once to a list
\* that is not empty, and every failed command lets one more fill through.
THEOREM ListsAreBounded == Spec => []ListIsBounded
<1>1. Init => LimitsAreKept /\ RoomForAll
  <2> SUFFICES ASSUME Init
               PROVE  LimitsAreKept /\ RoomForAll
    OBVIOUS
  <2>1. LimitsAreKept
    BY DEF Init, LimitsAreKept
  <2>2. Len(list) = 0 /\ faults = 0
    BY DEF Init
  <2>3. Room(Len(list), Owed, faults)
    BY <2>2, RoomWhenGone
  <2> QED
    BY <2>1, <2>3 DEF RoomForAll
<1>2. TypeOK /\ RoomForAll => ListIsBounded
  <2> SUFFICES ASSUME TypeOK, RoomForAll
               PROVE  ListIsBounded
    OBVIOUS
  <2>1. /\ Len(list) \in Nat /\ faults \in Nat
        /\ Cardinality(Rows(Owed)) \in Nat
        /\ Cardinality(Threads) \in Nat /\ MaxLimit \in Nat
    <3>1. Len(list) \in Nat /\ faults \in Nat
      BY BoundsAssumption DEF TypeOK
    <3>2. Cardinality(Rows(Owed)) \in Nat /\ Cardinality(Threads) \in Nat
      BY RowsCount
    <3> QED
      BY <3>1, <3>2, MaxLimitIsMax
  <2>2. (Cardinality(Threads) + faults) * MaxLimit \in Nat
    BY <2>1
  <2> QED
    BY <2>1, <2>2 DEF RoomForAll, Room, ListIsBounded
<1> QED
  BY <1>1, <1>2, NextLimits, NextRoom, TypeCorrect, PTL DEF Spec

-----------------------------------------------------------------------------
\* A reply that needs MySQL starts empty, and what its SELECT returned goes from
\* the rows to be pushed into the page one by one, whatever becomes of the list.
RepliesAddUp ==
  \A t \in Threads :
    /\ pc[t] \in {"range", "select"} => page[t] = << >>
    /\ pc[t] = "push" =>
         \/ page[t] = << >> /\ todo[t] = << >>
         \/ Len(page[t]) + Len(todo[t]) >= existed[t]
         \/ Len(page[t]) + Len(todo[t]) >= limit[t]

LEMMA NextReplies ==
  /\ TypeOK /\ RepliesAddUp /\ MissIsCompleteOrEmpty /\ [Next]_vars
  => RepliesAddUp' /\ MissIsCompleteOrEmpty'
<1> DEFINE AddsUp(u) ==
             /\ pc'[u] \in {"range", "select"} => page'[u] = << >>
             /\ pc'[u] = "push" =>
                  \/ page'[u] = << >> /\ todo'[u] = << >>
                  \/ Len(page'[u]) + Len(todo'[u]) >= existed'[u]
                  \/ Len(page'[u]) + Len(todo'[u]) >= limit'[u]
             /\ pc'[u] = "expire" =>
                  \/ page'[u] = << >>
                  \/ Len(page'[u]) >= existed'[u]
                  \/ Len(page'[u]) >= limit'[u]
<1> SUFFICES ASSUME TypeOK, RepliesAddUp, MissIsCompleteOrEmpty, [Next]_vars,
                    NEW u \in Threads
             PROVE  AddsUp(u)
  BY DEF RepliesAddUp, MissIsCompleteOrEmpty
<1>1. /\ pc[u] \in {"range", "select"} => page[u] = << >>
      /\ pc[u] = "push" =>
           \/ page[u] = << >> /\ todo[u] = << >>
           \/ Len(page[u]) + Len(todo[u]) >= existed[u]
           \/ Len(page[u]) + Len(todo[u]) >= limit[u]
      /\ pc[u] = "expire" =>
           \/ page[u] = << >>
           \/ Len(page[u]) >= existed[u]
           \/ Len(page[u]) >= limit[u]
  BY DEF RepliesAddUp, MissIsCompleteOrEmpty
<1>2. /\ pc \in [Threads -> PC]
      /\ limit \in [Threads -> 0 .. 50]
      /\ page \in [Threads -> Seq(1 .. Len(comments))]
      /\ todo \in [Threads -> Seq(1 .. Len(comments))]
      /\ existed \in [Threads -> 0 .. Len(comments)]
      /\ comments \in Seq(Nat)
  BY DEF TypeOK
<1>num. limit[u] \in Nat /\ existed[u] \in Nat /\ existed[u] <= Len(comments)
  <2> DEFINE l == limit[u]
             e == existed[u]
             c == Len(comments)
  <2>1. l \in 0 .. 50 /\ e \in 0 .. c /\ c \in Nat
    BY <1>2
  <2> HIDE DEF l, e, c
  <2>2. l \in Nat /\ e \in Nat /\ e <= c
    BY <2>1
  <2> QED
    BY <2>2 DEF l, e, c
<1> USE DEF redis, locals, Goto
<1>3. ASSUME NEW t \in Threads, NEW n \in Limits, GetArrives(t, n)
      PROVE  AddsUp(u)
  BY <1>1, <1>2, <1>3 DEF GetArrives
<1>4. ASSUME NEW t \in Threads, Lrange(t)
      PROVE  AddsUp(u)
  BY <1>1, <1>2, <1>4 DEF Lrange
<1>5. ASSUME NEW t \in Threads, Select(t)
      PROVE  AddsUp(u)
  <2>1. CASE u = t
    <3>1. /\ pc[u] = "select" /\ pc'[u] = "push" /\ page[u] = << >>
          /\ UNCHANGED <<page, existed, limit>>
      BY <1>1, <1>2, <1>5, <2>1 DEF Select
    <3>2. PICK s : /\ todo' = [todo EXCEPT ![t] = s]
                   /\ s \in Newest(limit[t]) \/ s = << >>
      BY <1>5 DEF Select
    <3>3. todo'[u] = s /\ page'[u] = << >> /\ Len(page'[u]) = 0
      BY <1>2, <2>1, <3>1, <3>2
    <3>4. CASE s = << >>
      BY <3>1, <3>3, <3>4
    <3>5. CASE s \in Newest(limit[u])
      <4>1. limit[u] \in Nat /\ existed[u] \in Nat /\ existed[u] <= Len(comments)
        BY <1>num
      <4>2. /\ Len(s) \in Nat
            /\ Len(s) >= Len(comments) \/ Len(s) >= limit[u]
        BY <1>2, <3>5, <4>1, NewestLength
      <4> QED
        BY <1>2, <3>1, <3>3, <4>1, <4>2
    <3> QED
      BY <2>1, <3>2, <3>4, <3>5
  <2>2. CASE u # t
    BY <1>1, <1>2, <1>5, <2>2 DEF Select
  <2> QED
    BY <2>1, <2>2
<1>6. ASSUME NEW t \in Threads, Push(t)
      PROVE  AddsUp(u)
  <2>1. CASE u = t
    <3>1. /\ todo[u] # << >> /\ pc[u] = "push" /\ pc'[u] = "push"
          /\ page'[u] = Append(page[u], Head(todo[u]))
          /\ todo'[u] = Tail(todo[u])
          /\ UNCHANGED <<existed, limit>>
      BY <1>2, <1>6, <2>1 DEF Push
    <3>2. /\ page[u] \in Seq(1 .. Len(comments))
          /\ todo[u] \in Seq(1 .. Len(comments))
      BY <1>2
    <3>3. /\ Len(page'[u]) = Len(page[u]) + 1
          /\ Len(todo'[u]) = Len(todo[u]) - 1
          /\ Len(page[u]) \in Nat /\ Len(todo[u]) \in Nat
      BY <3>1, <3>2
    <3>4. \/ Len(page[u]) + Len(todo[u]) >= existed[u]
          \/ Len(page[u]) + Len(todo[u]) >= limit[u]
      BY <1>1, <3>1
    <3> DEFINE k == Len(page[u])
               m == Len(todo[u])
    <3> HIDE DEF k, m
    <3>5. k \in Nat /\ m \in Nat /\ (k + 1) + (m - 1) = k + m
      <4>1. k \in Nat /\ m \in Nat
        BY <3>3 DEF k, m
      <4> QED
        BY <4>1
    <3>6. Len(page'[u]) + Len(todo'[u]) = Len(page[u]) + Len(todo[u])
      BY <3>3, <3>5 DEF k, m
    <3> QED
      BY <1>num, <3>1, <3>4, <3>6
  <2>2. CASE u # t
    BY <1>1, <1>2, <1>6, <2>2 DEF Push
  <2> QED
    BY <2>1, <2>2
<1>7. ASSUME NEW t \in Threads, PushesDone(t)
      PROVE  AddsUp(u)
  <2>1. CASE u = t
    <3>1. /\ todo[u] = << >> /\ pc[u] = "push" /\ pc'[u] = "expire"
          /\ UNCHANGED locals
      BY <1>2, <1>7, <2>1 DEF PushesDone
    <3>2. Len(todo[u]) = 0 /\ Len(page[u]) \in Nat
      BY <1>2, <3>1
    <3> QED
      BY <1>1, <3>1, <3>2
  <2>2. CASE u # t
    BY <1>1, <1>2, <1>7, <2>2 DEF PushesDone
  <2> QED
    BY <2>1, <2>2
<1>8. ASSUME NEW t \in Threads,
             \/ Expire(t) \/ Count(t) \/ CreateArrives(t)
             \/ Check(t) \/ Insert(t) \/ Del(t)
      PROVE  AddsUp(u)
  BY <1>1, <1>2, <1>8 DEF Expire, Count, CreateArrives, Check, Insert, Del
<1>9. CASE ListExpires \/ ListEvicted \/ UNCHANGED vars
  BY <1>1, <1>9 DEF ListExpires, ListEvicted, vars
<1>10. CASE Crash
  BY <1>10 DEF Crash
<1> QED
  BY <1>3, <1>4, <1>5, <1>6, <1>7, <1>8, <1>9, <1>10 DEF Next, Step, Quiet

\* Whatever happens to the list and to Redis meanwhile, a reply from MySQL has all
\* the comments that were asked for and existed, or none if the SELECT failed.
THEOREM MissesAreComplete == Spec => []MissIsCompleteOrEmpty
<1>1. Init => RepliesAddUp /\ MissIsCompleteOrEmpty
  BY DEF Init, RepliesAddUp, MissIsCompleteOrEmpty
<1> QED
  BY <1>1, NextReplies, TypeCorrect, PTL DEF Spec
=============================================================================
