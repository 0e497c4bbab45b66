------------------------- MODULE ArticlePagesProofs -------------------------
(***************************************************************************)
(* The pages of the article list partition the articles.                   *)
(***************************************************************************)
EXTENDS ArticlePages, TLAPS

ConstantsFit ==
  /\ MaxInt \in Nat
  /\ MaxPageSize \in Nat
  /\ DefaultPageSize \in 1 .. MaxPageSize

(* (page - 1) * pageSize as long as it is an int.                          *)
LEMMA OffsetExact ==
  ASSUME ConstantsFit, NEW page \in Nat, NEW pageSize \in 1 .. MaxPageSize, Reachable(page, pageSize)
  PROVE  Offset(page, pageSize) = (page - 1) * pageSize
<1> DEFINE x == (page - 1) * pageSize
<1>1. x \in 0 .. MaxInt
  BY DEF Reachable, ConstantsFit
<1> HIDE DEF x
<1>2. AsInt(x) = x
  BY <1>1 DEF AsInt, ConstantsFit
<1> QED
  BY <1>2 DEF Offset, x

(* A row is on the page whose offset it exceeds by at most pageSize, and   *)
(* on no other.                                                            *)
LEMMA OnPageExact ==
  ASSUME ConstantsFit, NEW S, NEW rows \in Seq(S), NEW k \in 1 .. Len(rows),
         NEW page \in Nat, NEW pageSize \in 1 .. MaxPageSize, Reachable(page, pageSize)
  PROVE  OnPage(rows, k, page, pageSize) <=>
           (page - 1) * pageSize < k /\ k <= (page - 1) * pageSize + pageSize
<1> DEFINE offset == (page - 1) * pageSize
           last == IF offset + pageSize <= Len(rows) THEN offset + pageSize ELSE Len(rows)
           shown == SubSeq(rows, offset + 1, last)
<1>1. offset \in Nat /\ pageSize \in Nat /\ Offset(page, pageSize) = offset
  BY OffsetExact DEF Reachable, ConstantsFit
<1> HIDE DEF offset
<1>2. RowsOfPage(rows, page, pageSize) = shown
  BY <1>1 DEF RowsOfPage
<1>3. last \in Nat /\ last <= Len(rows) /\ Len(rows) \in Nat
  BY <1>1
<1>4. /\ DOMAIN shown = 1 .. last - offset
      /\ \A i \in 1 .. last - offset : shown[i] = rows[offset + i]
  <2> HIDE DEF last
  <2> QED
    BY <1>1, <1>3
<1>5. OnPage(rows, k, page, pageSize) <=> k - offset \in 1 .. last - offset
  <2>1. k - offset \in 1 .. last - offset => shown[k - offset] = rows[k]
    <3> HIDE DEF last, shown
    <3> QED
      BY <1>1, <1>3, <1>4
  <2> HIDE DEF last, shown
  <2> QED
    BY <1>1, <1>2, <1>4, <2>1 DEF OnPage
<1>6. k - offset \in 1 .. last - offset <=> offset < k /\ k <= offset + pageSize
  BY <1>1
<1> QED
  BY <1>5, <1>6 DEF offset

(* Two different pages begin at least a page apart.                        *)
LEMMA PagesApart ==
  ASSUME ConstantsFit, NEW p \in Nat, NEW q \in Nat, NEW n \in 1 .. MaxPageSize, p < q
  PROVE  (p - 1) * n + n <= (q - 1) * n
<1>1. (q - 1) * n = (p - 1) * n + (q - p) * n
  BY DEF ConstantsFit
<1>2. (q - p) * n >= n
  BY DEF ConstantsFit
<1> QED
  BY <1>1, <1>2 DEF ConstantsFit

\* Every article is on exactly one of the pages that getArticles() can compute
\* without overflow, whatever page size the client asks for.
THEOREM EveryArticleOnOnePage ==
  ASSUME ConstantsFit, NEW asked \in Int,
         NEW S, NEW rows \in Seq(S), Len(rows) <= MaxInt, NEW k \in 1 .. Len(rows)
  PROVE  LET n == ValidPageSize(asked)
         IN  \E p \in Nat : /\ Reachable(p, n) /\ OnPage(rows, k, p, n)
                            /\ \A q \in Nat :
                                 Reachable(q, n) /\ OnPage(rows, k, q, n) => q = p
<1> DEFINE n == ValidPageSize(asked)
<1>1. n \in 1 .. MaxPageSize
  BY DEF ValidPageSize, ConstantsFit
<1> HIDE DEF n
<1> DEFINE d == (k - 1) \div n
<1>2. d \in Nat /\ d * n <= k - 1 /\ k - 1 < d * n + n
  BY <1>1 DEF ConstantsFit
<1> HIDE DEF d
<1>3. Reachable(d + 1, n) /\ OnPage(rows, k, d + 1, n)
  <2>1. (d + 1) - 1 = d /\ d + 1 \in Nat
    BY <1>2
  <2>2. Reachable(d + 1, n)
    BY <1>1, <1>2, <2>1 DEF Reachable, ConstantsFit
  <2> QED
    BY <1>1, <1>2, <2>1, <2>2, OnPageExact DEF ConstantsFit
<1>4. ASSUME NEW q \in Nat, Reachable(q, n), OnPage(rows, k, q, n)
      PROVE  q = d + 1
  <2>1. (q - 1) * n < k /\ k <= (q - 1) * n + n
    BY <1>1, <1>4, OnPageExact
  <2>2. d + 1 \in Nat /\ ((d + 1) - 1) * n < k /\ k <= ((d + 1) - 1) * n + n
    BY <1>1, <1>3, <1>2, OnPageExact
  <2>3. ~(q < d + 1)
    <3>1. q < d + 1 => (q - 1) * n + n <= ((d + 1) - 1) * n
      BY <1>1, <2>2, PagesApart
    <3> QED
      BY <1>1, <2>1, <2>2, <3>1 DEF ConstantsFit
  <2>4. ~(d + 1 < q)
    <3>1. d + 1 < q => ((d + 1) - 1) * n + n <= (q - 1) * n
      BY <1>1, <2>2, PagesApart
    <3> QED
      BY <1>1, <2>1, <2>2, <3>1 DEF ConstantsFit
  <2> QED
    BY <2>2, <2>3, <2>4
<1>5. d + 1 \in Nat
  BY <1>2
<1> QED
  BY <1>3, <1>4, <1>5 DEF n
=============================================================================
