-------------------------- MODULE MCHttpConnection --------------------------
(* The requests of the runs of HttpConnection.                             *)
EXTENDS HttpConnection, TLC

Lines(method, path, fitsInt, version, body) ==
  [method |-> method, path |-> path, fitsInt |-> fitsInt,
   version |-> version, body |-> body]

Request(method, path, fitsInt, version, head, body, blank) ==
  [method |-> method, path |-> path, fitsInt |-> fitsInt,
   version |-> version, head |-> head, body |-> body, blank |-> blank]

\* Three words, the third of them a version, a word like any other, and fewer.
Prose(version, body) == Lines("other", "other", TRUE, version, body)
Words == Prose("a word", 0)
NoWords == Prose(FewWords, 0)

\* Longer and shorter than the buffer and than one read; with and without a
\* body; kept alive and closed; answered and thrown. Of the bodies with a blank
\* line one is no request, one a request with a body that leaves a rest, and
\* one a request that is not kept alive.
MixedRequests ==
  { Request("GET", "articles", TRUE, "HTTP/1.1", 2, 0, << >>),
    Request("GET", "detail", FALSE, "HTTP/1.1", 1, 0, << >>),
    Request("POST", "comments", TRUE, "HTTP/1.1", 3, 2, 5 :> NoWords),
    Request("OPTIONS", "comments", TRUE, "HTTP/1.1", 5, 0, << >>),
    Request("POST", "comments", TRUE, "HTTP/1.0", 1, 3, 2 :> Prose("HTTP/1.1", 1)),
    Request("POST", "comments", TRUE, "HTTP/1.1", 1, 3, 3 :> Words) }

\* What is left of lines may read like a request that is kept alive, like one
\* that is not, like one that throws, and like none.
AnyLines ==
  { Prose("HTTP/1.1", 1), Words, NoWords,
    Lines("GET", "detail", FALSE, "HTTP/1.1", 0) }

\* {"content": "about HTTP/1.1 and more",
\*
\* "commenter": "a reader"}
Comment ==
  { Request("POST", "comments", TRUE, "HTTP/1.1", 1, 3,
            3 :> Prose("HTTP/1.1", 0)) }
=============================================================================
