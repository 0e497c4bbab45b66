--------------------------- MODULE HttpConnection ---------------------------
(***************************************************************************)
(* One TCP connection: a client, an HttpSession with its Buffer and its    *)
(* HttpParser, and the kernel's byte stream between them. The session has  *)
(* one asynchronous operation at a time, so its handlers never overlap;    *)
(* what is concurrent is the client and the network. A segment may end     *)
(* anywhere, and the client may have the response, and send its next       *)
(* request, before the session's onWrite() runs. A client waits for each   *)
(* response before it sends again (it does not pipeline).                  *)
(*                                                                         *)
(* A byte is <<n, j>>, piece j of request n. Of a request only this is     *)
(* kept, beside what ApiHandler routes on:                                 *)
(*   head     its pieces up to the blank line, which the last one completes*)
(*   body     its pieces after it (Content-Length; 0 without a body)       *)
(*   version  "HTTP/1.0" (nginx, to its upstream) or "HTTP/1.1"            *)
(*   blank    for each piece in which a blank line of its BODY ends (JSON  *)
(*            may have them), what parse() would read in the lines before  *)
(*            it: a request without a head. Its version is FewWords when   *)
(*            the first line has fewer than three words, and some other    *)
(*            string when the third word is no version or there is no line *)
(*            at all. A Content-Length that is no number ends the session  *)
(*            by an exception, as an id that is no int does, and stands    *)
(*            for one. Two blank lines share no byte.                      *)
(* Of lines that begin in the middle of a body, or in one request and end  *)
(* in the next, nothing is kept: they say any of Fragments.                *)
(***************************************************************************)
EXTENDS Naturals, Sequences, FiniteSetsExt, ApiHandler

CONSTANTS
  Requests,     \* the requests a client may send
  Fragments,    \* what lines whose beginning is lost may say
  InitialSize,  \* Buffer::kInitialSize
  ReadMax,      \* the size of readBuf_
  MaxRequests   \* bound: requests on this connection

FewWords == "few words"

ASSUME RequestsAssumption ==
  \A r \in Requests :
    /\ r.head \in Nat \ {0} /\ r.body \in Nat /\ r.version # FewWords
    /\ DOMAIN r.blank \subseteq r.head + 1 .. r.head + r.body
    /\ \A j \in DOMAIN r.blank : r.blank[j].body \in Nat
ASSUME FragmentsAssumption == \A f \in Fragments : f.body \in Nat
ASSUME SizesAssumption ==
  InitialSize \in Nat /\ ReadMax \in Nat \ {0} /\ MaxRequests \in Nat

VARIABLES
  sent,     \* the requests the client has sent
  wire,     \* their bytes that the session has not read
  client,   \* "open" or "closed"
  op,       \* what the session waits for
  buf,      \* buffer_
  reply,    \* the response being written, and whether to close after it
  handled,  \* history: the bytes of every request that was handled
  replies   \* the status codes the client has received

vars == <<sent, wire, client, op, buf, reply, handled, replies>>

\* "writing" until the last byte of the response is with the kernel, "written"
\* until onWrite() runs, "gone" when the session was destroyed.
Op == {"reading", "writing", "written", "gone"}

Shorter(x, y) == IF x <= y THEN x ELSE y

Bytes(n, r) == [j \in 1 .. r.head + r.body |-> <<n, j>>]

-----------------------------------------------------------------------------
(* Buffer: cells buffer_, rd readIndex_, wr writeIndex_. A cell that was   *)
(* never written holds Blank.                                              *)
Blank == <<0, 0>>
EmptyBuffer == [cells |-> [i \in 1 .. InitialSize |-> Blank], rd |-> 0, wr |-> 0]

Readable(b) == SubSeq(b.cells, b.rd + 1, b.wr)

RetrieveAll(b) == [b EXCEPT !.rd = 0, !.wr = 0]

Retrieve(b, len) ==
  IF len < b.wr - b.rd THEN [b EXCEPT !.rd = @ + len] ELSE RetrieveAll(b)

\* MUTANT of MakeSpace: the indices move, the unread bytes do not.
IndicesOnly(b, len) ==
  IF Len(b.cells) - b.wr + b.rd < len
  THEN [b EXCEPT !.cells = [i \in 1 .. b.wr + len |->
                              IF i <= Len(b.cells) THEN b.cells[i] ELSE Blank]]
  ELSE [b EXCEPT !.rd = 0, !.wr = b.wr - b.rd]

\* MUTANT of MakeSpace: grows by what is asked for and never moves.
GrowOnly(b, len) ==
  [b EXCEPT !.cells = [i \in 1 .. Len(b.cells) + len |->
                         IF i <= Len(b.cells) THEN b.cells[i] ELSE Blank]]

\* makeSpace(): grow when even the read part would not be enough, or move the
\* unread bytes to the front.
MakeSpace(b, len) ==
  IF Len(b.cells) - b.wr + b.rd < len
  THEN [b EXCEPT !.cells = [i \in 1 .. b.wr + len |->
                              IF i <= Len(b.cells) THEN b.cells[i] ELSE Blank]]
  ELSE [cells |-> [i \in DOMAIN b.cells |->
                     IF i <= b.wr - b.rd THEN b.cells[b.rd + i] ELSE b.cells[i]],
        rd |-> 0, wr |-> b.wr - b.rd]

EnsureWritable(b, len) ==
  IF Len(b.cells) - b.wr < len THEN MakeSpace(b, len) ELSE b

AppendBytes(b, data) ==
  LET e == EnsureWritable(b, Len(data))
  IN  [e EXCEPT !.cells = [i \in DOMAIN @ |->
                             IF i \in e.wr + 1 .. e.wr + Len(data)
                             THEN data[i - e.wr] ELSE @[i]],
                !.wr = @ + Len(data)]

-----------------------------------------------------------------------------
(* HttpParser::parse(): what it may leave in the buffer, and the request,  *)
(* or Incomplete, with what its lines say. It looks for a blank line in    *)
(* whatever is unread, and what it finds leaves the buffer before the body *)
(* is looked for. So behind a header that was taken out without its body   *)
(* it looks for a header in that body.                                     *)
Incomplete == << >>

NoRequest ==
  [method |-> "", path |-> "", fitsInt |-> TRUE, version |-> FewWords, body |-> 0]

EndsLines(b) == b[2] = sent[b[1]].head \/ b[2] \in DOMAIN sent[b[1]].blank
StartsLines(b) == b[2] = 1 \/ EndsLines(<<b[1], b[2] - 1>>)
Says(b) ==
  LET r == sent[b[1]] IN IF b[2] = r.head THEN r ELSE r.blank[b[2]]

Ends(s) == {i \in DOMAIN s : EndsLines(s[i])}
FirstEnd(s) == CHOOSE i \in Ends(s) : \A j \in Ends(s) : i <= j

\* The lines up to the first blank line are all there, and of one request.
WholeLines(s) == StartsLines(s[1]) /\ s[FirstEnd(s)][1] = s[1][1]

\* MUTANT of Taken: the body is copied but not taken out of the buffer.
TakenButBody(b, e, said) ==
  LET s == Readable(b)
      rest == Retrieve(b, e)
  IN  IF said.version = FewWords \/ Len(Readable(rest)) < said.body
      THEN [left |-> rest, req |-> Incomplete, says |-> said]
      ELSE [left |-> rest, req |-> SubSeq(s, 1, e + said.body), says |-> said]

\* MUTANT of Taken: a body that fills the buffer to its end is waited for.
TakenLate(b, e, said) ==
  LET s == Readable(b)
      rest == Retrieve(b, e)
  IN  IF said.version = FewWords \/ Len(Readable(rest)) <= said.body
      THEN [left |-> rest, req |-> Incomplete, says |-> said]
      ELSE [left |-> Retrieve(rest, said.body),
            req |-> SubSeq(s, 1, e + said.body), says |-> said]

\* MUTANT of Taken: whatever part of the body is there will do.
TakenShort(b, e, said) ==
  [left |-> RetrieveAll(b), req |-> Readable(b), says |-> said]

\* The lines up to e are taken out, and the body they announce if it is there.
Taken(b, e, said) ==
  LET s == Readable(b)
      rest == Retrieve(b, e)
  IN  IF said.version = FewWords \/ Len(Readable(rest)) < said.body
      THEN [left |-> rest, req |-> Incomplete, says |-> said]
      ELSE [left |-> Retrieve(rest, said.body),
            req |-> SubSeq(s, 1, e + said.body), says |-> said]

\* MUTANT of Parse: a header without an end is dropped.
ParseDropping(b) ==
  LET s == Readable(b)
  IN  IF Ends(s) = {}
      THEN {[left |-> RetrieveAll(b), req |-> Incomplete, says |-> NoRequest]}
      ELSE {Taken(b, FirstEnd(s), Says(s[FirstEnd(s)]))}

\* Where the lines are not whole any end is possible, and none: the blank line
\* itself may have been cut.
Parse(b) ==
  LET s == Readable(b)
      nothing == [left |-> b, req |-> Incomplete, says |-> NoRequest]
  IN  IF Ends(s) = {} THEN {nothing}
      ELSE IF WholeLines(s) THEN {Taken(b, FirstEnd(s), Says(s[FirstEnd(s)]))}
      ELSE {nothing} \cup {Taken(b, e, f) : e \in Ends(s), f \in Fragments}

\* keepAlive() looks for "Connection" among keys that parseHeaders() has put
\* into lower case: only the version decides, whatever the client asked for.
KeepAlive(r) == r.version = "HTTP/1.1"

\* HttpSession::handleRequest(): the response and whether to close after it.
Respond(r) ==
  [status : IF r.method = "OPTIONS" THEN {200} ELSE HandleRequest(r),
   close : {~KeepAlive(r)}]

NoReply == [status |-> 0, close |-> FALSE]

-----------------------------------------------------------------------------
\* start() of an accepted session: doRead().
Init ==
  /\ sent = << >>
  /\ wire = << >>
  /\ client = "open"
  /\ op = "reading"
  /\ buf = EmptyBuffer
  /\ reply = NoReply
  /\ handled = << >>
  /\ replies = << >>

\* The client waits for as many answers as it has sent requests. It takes an
\* answer for its own, whatever the server answered.
Send(r) ==
  /\ client = "open"
  /\ op # "gone"
  /\ Len(sent) < MaxRequests
  /\ Len(replies) >= Len(sent)
  /\ sent' = Append(sent, r)
  /\ wire' = wire \o Bytes(Len(sent) + 1, r)
  /\ UNCHANGED <<client, op, buf, reply, handled, replies>>

\* The client leaves, or its timeout (10 s in the frontend) has passed.
Leave ==
  /\ client = "open"
  /\ client' = "closed"
  /\ UNCHANGED <<sent, wire, op, buf, reply, handled, replies>>

\* Where onRead() ends: another read, a response, or an exception, which
\* leaves the IO thread's run() and takes the session with it.
Handle(p) ==
  \/ /\ p.req = Incomplete
     /\ UNCHANGED <<op, reply, handled>>
  \/ /\ p.req # Incomplete
     /\ handled' = Append(handled, p.req)
     /\ \E a \in Respond(p.says) :
          IF a.status = Throws
          THEN op' = "gone" /\ UNCHANGED reply
          ELSE op' = "writing" /\ reply' = a

\* onRead() with the next len bytes of the stream.
OnRead(len) ==
  /\ op = "reading"
  /\ len <= Shorter(Len(wire), ReadMax)
  /\ wire' = SubSeq(wire, len + 1, Len(wire))
  /\ \E p \in Parse(AppendBytes(buf, SubSeq(wire, 1, len))) :
       buf' = p.left /\ Handle(p)
  /\ UNCHANGED <<sent, client, replies>>

\* MUTANT of OnReadError: reads again instead of giving up.
ReadAgain ==
  /\ op = "reading"
  /\ client = "closed"
  /\ wire' = << >>
  /\ UNCHANGED <<sent, client, op, buf, reply, handled, replies>>

\* onRead() with an error: end of file behind the last byte, or a reset.
OnReadError ==
  /\ op = "reading"
  /\ client = "closed"
  /\ op' = "gone"
  /\ UNCHANGED <<sent, wire, client, buf, reply, handled, replies>>

\* MUTANT of Written: the write is started again.
WrittenAgain ==
  /\ op = "writing"
  /\ replies' = Append(replies, reply.status)
  /\ UNCHANGED <<sent, wire, client, op, buf, reply, handled>>

\* async_write() has handed the whole response to the kernel.
Written ==
  /\ op = "writing"
  /\ op' = "written"
  /\ replies' = Append(replies, reply.status)
  /\ UNCHANGED <<sent, wire, client, buf, reply, handled>>

\* MUTANT of OnWrite: forgets to read on.
OnWriteIdle ==
  /\ op = "written"
  /\ op' = IF reply.close THEN "gone" ELSE op
  /\ buf' = RetrieveAll(buf)
  /\ UNCHANGED <<sent, wire, client, reply, handled, replies>>

\* MUTANT of OnWrite: closes even a kept-alive connection.
OnWriteClose ==
  /\ op = "written"
  /\ op' = "gone"
  /\ UNCHANGED <<sent, wire, client, buf, reply, handled, replies>>

\* onWrite(): close, or empty the buffer and read on.
OnWrite ==
  /\ op = "written"
  /\ IF reply.close
     THEN op' = "gone" /\ UNCHANGED buf
     ELSE op' = "reading" /\ buf' = RetrieveAll(buf)
  /\ UNCHANGED <<sent, wire, client, reply, handled, replies>>

\* onWrite() with an error.
OnWriteError ==
  /\ op = "writing"
  /\ client = "closed"
  /\ op' = "gone"
  /\ UNCHANGED <<sent, wire, client, buf, reply, handled, replies>>

Read == \E len \in 1 .. Shorter(Len(wire), ReadMax) : OnRead(len)

\* The session is gone and the client has seen it.
Finished ==
  /\ op = "gone"
  /\ client = "closed"
  /\ UNCHANGED vars

Next ==
  \/ \E r \in Requests : Send(r)
  \/ Leave
  \/ Read
  \/ OnReadError
  \/ Written
  \/ OnWrite
  \/ OnWriteError
  \/ Finished

Spec == Init /\ [][Next]_vars

\* The network delivers what was sent, in pieces of its own choosing, the
\* client takes its response, and an IO thread runs what is ready. Nothing
\* makes the client send or leave.
FairSpec ==
  /\ Spec
  /\ WF_vars(Read)
  /\ WF_vars(OnReadError)
  /\ WF_vars(Written)
  /\ WF_vars(OnWrite)

-----------------------------------------------------------------------------
\* The type invariant of the session, its buffer and the stream.
TypeOK ==
  /\ sent \in Seq(Requests)
  /\ \A i \in DOMAIN wire : wire[i][1] \in DOMAIN sent
  /\ client \in {"open", "closed"}
  /\ op \in Op
  /\ buf.rd \in 0 .. buf.wr /\ buf.wr \in 0 .. Len(buf.cells)
  /\ reply.close \in BOOLEAN
  /\ Len(replies) <= Len(handled)

\* Every byte a client has sent, in order.
Stream ==
  LET f[n \in 0 .. Len(sent)] ==
        IF n = 0 THEN << >> ELSE f[n - 1] \o Bytes(n, sent[n])
  IN  f[Len(sent)]

\* What Buffer holds unread, followed by what is still on the way, is the end
\* of what the client sent: append(), makeSpace() and retrieve() never lose,
\* repeat or overwrite a byte in the middle, wherever the segments end.
UnreadBytesInOrder ==
  LET u == Readable(buf) \o wire
      from == Len(Stream) - Len(u)
  IN  from >= 0 /\ u = SubSeq(Stream, from + 1, Len(Stream))

\* The requests that were handled and are the client's own, from the first on
\* (what is handled for a request begins with its first piece), and whether
\* something else was handled after them.
Genuine ==
  Max({m \in 0 .. Len(handled) : \A n \in 1 .. m : handled[n][1] = <<n, 1>>})
Astray == Genuine < Len(handled)

\* The callback is given the client's requests, in order and byte for byte. The
\* first thing that is none of them is a part of the body of the request whose
\* turn it was: its header was taken out without the body, and the body holds a
\* blank line behind lines that read like a request.
OnlySplitBodiesAreMistaken ==
  \A n \in DOMAIN handled : n <= Genuine + 1 =>
    LET r == sent[n]
        h == handled[n]
    IN  \/ h = Bytes(n, r)
        \/ /\ h[1][1] = n /\ h[1][2] > r.head
           /\ \E i \in DOMAIN h :
                /\ h[i][1] = n /\ h[i][2] \in DOMAIN r.blank
                /\ r.blank[h[i][2]].version # FewWords

\* onWrite() empties the buffer without looking. With a client that waits for
\* its response nothing of the next request can be there, although that client
\* may send it before onWrite() runs; unless a body was taken for a request.
NothingDiscardedAfterResponse ==
  op \in {"writing", "written"} => Readable(buf) = << >> \/ Astray

\* The only requests that arrive whole and are never handled are those whose
\* body came in a later segment than the end of their header. What is left in
\* the buffer then is their body, or nothing when it ends with a blank line.
OnlySplitBodiesAreLost ==
  op = "reading" /\ wire = << >> /\ Len(handled) < Len(sent) /\ ~Astray =>
    LET n == Len(sent)
        r == sent[n]
        u == Readable(buf)
    IN  /\ Len(handled) = n - 1
        /\ r.body > 0
        /\ IF u = << >> THEN r.head + r.body \in DOMAIN r.blank
           ELSE u[1][1] = n /\ u[1][2] > r.head

\* However a header is cut into segments, the read that brings the last of it
\* and the whole body hands the request to the callback in that same step.
WholeRequestIsHandled ==
  [][wire # << >> /\ wire' = << >> /\ ~Astray
       /\ wire[1][2] <= sent[Len(sent)].head =>
       handled' = Append(handled, Bytes(Len(sent), sent[Len(sent)]))]_vars

\* Buffer has no limit (kMaxSize is never compared), but it never grows past
\* the longest request: what was answered makes room for what comes. (After a
\* body was taken for a request the next one may join what is left of it.)
BufferHoldsOneRequest ==
  \/ Len(buf.cells) <= InitialSize
  \/ \E n \in DOMAIN sent : Len(buf.cells) <= sent[n].head + sent[n].body
  \/ Astray

\* The server hangs up on a client that is still there only after the response
\* to a request that is not HTTP/1.1, or for a number that is no int, or after
\* it took a body for a request.
HangsUpOnlyForAReason ==
  op = "gone" /\ client = "open" /\ ~Astray =>
    LET n == Len(handled)
    IN  /\ n > 0
        /\ IF Len(replies) = n THEN sent[n].version # "HTTP/1.1"
                               ELSE IdRoute(sent[n]) /\ ~sent[n].fitsInt

\* Of the last request a body is left that parse() did not wait for, or nothing.
BodyLost ==
  LET u == Readable(buf) \o wire
  IN  /\ op = "reading"
      /\ Len(handled) < Len(sent)
      /\ u # << >> => u[1][2] > sent[u[1][1]].head

\* Every request is answered, unless the session ends, or its body was lost or
\* taken for a request. (The client waits, so the last request is the one that
\* is not answered.)
AnsweredUnlessBodyLost ==
  Len(replies) < Len(sent) ~>
    Len(replies) >= Len(sent) \/ op = "gone" \/ BodyLost \/ Astray

\* The parser copes with half packets: it finds the end of the header by its
\* blank line and reads the body by its length (project summary, section 4.6).
\* So every request is handled as it was sent and answered, unless the session
\* ends.
EveryRequestAnswered ==
  \A n \in 1 .. MaxRequests :
    Len(sent) >= n ~> \/ Len(replies) >= n /\ handled[n] = Bytes(n, sent[n])
                      \/ op = "gone"

\* A session outlives its client only until its next operation fails: none
\* stays behind, whatever it was doing.
SessionEndsWithItsClient == client = "closed" ~> op = "gone"

\* The session keeps the promise of RequestStream: one request at a time, in
\* order, at most once, and the callback sees the bytes that were sent; until a
\* body is taken for a request. There the promise ends, as if the connection
\* were gone.
Abstract == INSTANCE RequestStream WITH
  Messages <- {Bytes(n, r) : n \in 1 .. MaxRequests, r \in Requests},
  asked <- [n \in 1 .. Shorter(Len(sent), Genuine + 1) |-> Bytes(n, sent[n])],
  served <- SubSeq(handled, 1, Genuine),
  answered <- Shorter(Len(replies), Genuine),
  open <- op # "gone" /\ ~Astray
ImplementsRequestStream == Abstract!Spec
=============================================================================
