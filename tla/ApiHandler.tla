----------------------------- MODULE ApiHandler -----------------------------
(***************************************************************************)
(* The routing of ApiHandler::handleRequest(): which answers a request can *)
(* get. A route is the set of status codes its handler may set, as the     *)
(* services and their stores decide; Throws, which is no status code,      *)
(* stands for an exception that leaves HttpSession::onRead().              *)
(*                                                                         *)
(* A request is a record; of its text only what routing looks at is kept:  *)
(*   method   "GET", "POST", "OPTIONS" or another                          *)
(*   path     "health", "articles", "hot", "detail", "comments" or "other" *)
(*   fitsInt  FALSE when the number in the path is no int: (\d+) matches   *)
(*            any number of digits, and std::stoi() throws out_of_range    *)
(***************************************************************************)
Throws == 0

GetArticles == {200}
GetHotArticles == {200}
GetArticleDetail == {200, 404}
GetComments == {200}

\* The result's code, or 400 for whatever was thrown meanwhile.
CreateComment == {201, 400, 404, 500}

IdRoute(r) == r.path = "comments" \/ (r.path = "detail" /\ r.method = "GET")

HandleRequest(r) ==
  IF IdRoute(r) /\ ~r.fitsInt THEN {Throws}
  ELSE CASE r.path = "health" /\ r.method = "GET"    -> {200}
         [] r.path = "articles" /\ r.method = "GET"  -> GetArticles
         [] r.path = "hot" /\ r.method = "GET"       -> GetHotArticles
         [] r.path = "detail" /\ r.method = "GET"    -> GetArticleDetail
         [] r.path = "comments" /\ r.method = "GET"  -> GetComments
         [] r.path = "comments" /\ r.method = "POST" -> CreateComment
         [] r.path = "comments" /\ r.method \notin {"GET", "POST"} -> {405}
         [] OTHER -> {404}
=============================================================================
