--------------------------- MODULE MCArticleViews ---------------------------
(* Instances of ArticleViews for TLC: what view_count is in MySQL when the *)
(* server first starts. And the article list on small instances.           *)
EXTENDS ArticleViews

\* A count that the counter reaches within the bound of requests.
MCInitViews == [a \in Articles |-> 2]

\* A count that is far ahead of a new counter, like the rows of init.sql.
MCSeededViews == [a \in Articles |-> 9]

-----------------------------------------------------------------------------
(* A small int, so that the offset of the last pages overflows.            *)
Pages == INSTANCE ArticlePages WITH MaxInt <- 15, MaxPageSize <- 3, DefaultPageSize <- 2

\* A page asked for, valid or not, holds the rows that division says, or none
\* when a query failed; and the total says so only when there was no count.
ASSUME ListedByDivision ==
  \A total \in 0 .. 8, page \in -1 .. 9, pageSize \in -1 .. 5 :
    LET rows == [i \in 1 .. total |-> i]
        answers == Pages!ListArticles(rows, page, pageSize)
        ByDivision(r) ==
          LET OfPage(row) == (row - 1) \div r.pageSize = r.page - 1
          IN  IF Pages!Reachable(r.page, r.pageSize)
              THEN SelectSeq(rows, OfPage) ELSE << >>
    IN  /\ \A r \in answers : /\ r.list \in {ByDivision(r), << >>}
                             /\ r.total \in {total, 0}
                             /\ r.total = 0 => r.list = << >>
        /\ \E r \in answers : r.list = ByDivision(r) /\ r.total = total

\* Every row is on one page that can be reached.
ASSUME ListedOnce ==
  \A total \in 0 .. 8, pageSize \in 1 .. 3 :
    LET rows == [i \in 1 .. total |-> i]
    IN  \A k \in 1 .. total :
          Cardinality({p \in 1 .. 9 : /\ Pages!Reachable(p, pageSize)
                                     /\ Pages!OnPage(rows, k, p, pageSize)}) = 1
=============================================================================
