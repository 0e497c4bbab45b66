---------------------------- MODULE ArticlePages ----------------------------
(***************************************************************************)
(* The article list: ApiHandler::handleGetArticles(),                      *)
(* ArticleService::listArticles() and DatabaseProxy::getArticles().        *)
(* It changes no state, so these are operators on the rows of the table    *)
(* in the order of the query (create_time DESC; the order of equal times   *)
(* is the database's).                                                     *)
(***************************************************************************)
EXTENDS Integers, Sequences

CONSTANTS
  MaxInt,          \* the largest int (2^31 - 1)
  MaxPageSize,     \* 50
  DefaultPageSize  \* 10

\* What a build makes of an int that overflows: it wraps.
AsInt(x) == ((x + MaxInt + 1) % (2 * (MaxInt + 1))) - MaxInt - 1

\* listArticles() replaces a page or size that makes no sense.
ValidPage(page) == IF page < 1 THEN 1 ELSE page
ValidPageSize(pageSize) == IF pageSize \in 1 .. MaxPageSize THEN pageSize ELSE DefaultPageSize

Offset(page, pageSize) == AsInt((page - 1) * pageSize)

\* ... LIMIT pageSize OFFSET offset. MySQL rejects a negative offset.
RowsOfPage(rows, page, pageSize) ==
  LET offset == Offset(page, pageSize)
      last == IF offset + pageSize <= Len(rows) THEN offset + pageSize ELSE Len(rows)
  IN  IF offset < 0 THEN << >> ELSE SubSeq(rows, offset + 1, last)

\* The page and the total; without a connection or a COUNT neither, and without
\* the page's SELECT an empty page of all the same.
GetArticles(rows, page, pageSize) ==
  { [list |-> RowsOfPage(rows, page, pageSize), total |-> Len(rows)],
    [list |-> << >>, total |-> 0],
    [list |-> << >>, total |-> Len(rows)] }

ListArticles(rows, page, pageSize) ==
  LET p == ValidPage(page)
      n == ValidPageSize(pageSize)
  IN  {[list |-> r.list, total |-> r.total, page |-> p, pageSize |-> n] :
         r \in GetArticles(rows, p, n)}

-----------------------------------------------------------------------------
\* The pages a client can ask for without an overflow of the offset.
Reachable(page, pageSize) == page >= 1 /\ (page - 1) * pageSize <= MaxInt

\* Row k of the table is on this page of the list, at its place.
OnPage(rows, k, page, pageSize) ==
  LET shown == RowsOfPage(rows, page, pageSize)
      i == k - Offset(page, pageSize)
  IN  i \in DOMAIN shown /\ shown[i] = rows[k]
=============================================================================
