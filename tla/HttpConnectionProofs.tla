------------------------ MODULE HttpConnectionProofs ------------------------
(***************************************************************************)
(* What one HTTP connection guarantees for any requests, any sizes of the  *)
(* buffer and of a read, any segmentation and any number of requests.      *)
(***************************************************************************)
EXTENDS HttpConnection, SequenceTheorems, WellFoundedInduction, TLAPS

Byte == Nat \X Nat

\* The buffer's cells and indices are what Buffer keeps them to be.
WellFormed(b) ==
  /\ b \in [cells : Seq(Byte), rd : Nat, wr : Nat]
  /\ b.rd <= b.wr
  /\ b.wr <= Len(b.cells)

\* The elements of s are the pieces of request n that come after piece k.
Pieces(s, n, k) == \A i \in 1 .. Len(s) : s[i] = <<n, k + i>>

\* The bytes of s are pieces of the first n requests.
Owned(s, n) == \A i \in 1 .. Len(s) : s[i][1] \in 1 .. n

\* v is s without its first elements.
Behind(v, s) ==
  \E k \in 0 .. Len(s) :
    Len(v) = Len(s) - k /\ \A i \in 1 .. Len(s) - k : v[i] = s[k + i]

Size(r) == r.head + r.body

\* The buffer holds no more than the longest request the client has sent.
FitsOneRequest(b) ==
  \/ Len(b.cells) <= InitialSize
  \/ \E n \in DOMAIN sent : Len(b.cells) <= Size(sent[n])

\* Of the last request k pieces are consumed; the others are in b or on w.
Waiting(b, w, k) ==
  /\ Pieces(Readable(b), Len(sent), k)
  /\ Pieces(w, Len(sent), k + Len(Readable(b)))
  /\ k + Len(Readable(b)) + Len(w) = Size(sent[Len(sent)])

\* The header has not arrived yet, and nothing of the request is consumed.
AwaitsHeader(b, w) ==
  /\ Waiting(b, w, 0)
  /\ Len(Readable(b)) < sent[Len(sent)].head
  /\ b.rd = 0

\* The header was consumed without the body, and of the body perhaps what ends
\* with a blank line: what follows begins with a line.
LostItsHeader(b, w) ==
  /\ sent[Len(sent)].body > 0
  /\ \E k \in {sent[Len(sent)].head} \cup DOMAIN sent[Len(sent)].blank :
       Waiting(b, w, k) /\ b.rd <= k

\* h is a part of the body of request n, which is r, and was taken for a request.
Mistaken(n, r, h) ==
  /\ h[1][1] = n /\ h[1][2] > r.head
  /\ \E i \in DOMAIN h :
       /\ h[i][1] = n /\ h[i][2] \in DOMAIN r.blank
       /\ r.blank[h[i][2]].version # FewWords

InvType ==
  /\ sent \in Seq(Requests)
  /\ wire \in Seq(Byte)
  /\ client \in {"open", "closed"}
  /\ op \in Op
  /\ WellFormed(buf)
  /\ reply \in [status : Nat, close : BOOLEAN]
  /\ handled \in Seq(Seq(Byte))
  /\ replies \in Seq(Nat)

InvOwned == Owned(Readable(buf) \o wire, Len(sent))

InvAnswers ==
  /\ Len(replies) <= Len(handled)
  /\ op = "writing" => Len(replies) < Len(handled)

\* What holds whatever was taken for a request.
Common == InvType /\ InvOwned /\ InvAnswers

\* Requests are sent, handled and answered in turn, the last one perhaps not
\* handled, or handled and not answered.
InvTurns ==
  /\ Len(sent) <= Len(replies) + 1
  /\ Len(handled) <= Len(sent)
  /\ Len(replies) <= Len(handled)
  /\ op \in {"reading", "written"} => Len(handled) = Len(replies)
  /\ op = "writing" => Len(handled) = Len(replies) + 1
  /\ op = "written" => Len(handled) > 0

InvHandled == \A n \in 1 .. Len(handled) : handled[n] = Bytes(n, sent[n])

\* Where the pieces of the last request are.
InvPieces ==
  IF Len(handled) = Len(sent)
  THEN wire = << >> /\ buf.wr = 0
  ELSE AwaitsHeader(buf, wire) \/ LostItsHeader(buf, wire)

InvAnswered == op \in {"writing", "written"} => buf.wr = 0

InvReply ==
  op \in {"writing", "written"} =>
    reply.close = ~KeepAlive(sent[Len(handled)])

InvSize == FitsOneRequest(buf)

InvReason ==
  op = "gone" /\ client = "open" =>
    /\ Len(handled) > 0
    /\ IF Len(replies) = Len(handled)
       THEN sent[Len(handled)].version # "HTTP/1.1"
       ELSE IdRoute(sent[Len(handled)]) /\ ~sent[Len(handled)].fitsInt

\* All that was handled are the client's requests.
Core ==
  /\ InvTurns
  /\ InvHandled
  /\ InvPieces
  /\ InvAnswered
  /\ InvReply
  /\ InvSize
  /\ InvReason

\* What was handled for the n-th was a part of its body; before that all was
\* well.
DerailedAt(n) ==
  /\ n <= Len(handled) /\ n <= Len(sent) /\ n <= Len(replies) + 1
  /\ \A m \in 1 .. n - 1 : handled[m] = Bytes(m, sent[m])
  /\ Mistaken(n, sent[n], handled[n])

Derailed == \E n \in Nat \ {0} : DerailedAt(n)

IInv == Common /\ (Core \/ Derailed)

-----------------------------------------------------------------------------
(* The operations of Buffer.                                               *)

LEMMA FunctionIsSeq ==
  ASSUME NEW S, NEW n \in Nat, NEW f \in [1 .. n -> S]
  PROVE  f \in Seq(S) /\ Len(f) = n
BY SeqDef, LenProperties

(* Assignments to two fields of a buffer, as one record.                   *)
LEMMA NewIndices ==
  ASSUME NEW C, NEW b \in [cells : C, rd : Nat, wr : Nat],
         NEW x \in Nat, NEW y \in Nat
  PROVE  [b EXCEPT !.rd = x, !.wr = y] \in [cells : C, rd : Nat, wr : Nat]
BY Zenon

LEMMA NewCells ==
  ASSUME NEW C, NEW b \in [cells : C, rd : Nat, wr : Nat],
         NEW x \in C, NEW y \in Nat
  PROVE  [b EXCEPT !.cells = x, !.wr = y] \in [cells : C, rd : Nat, wr : Nat]
BY Zenon

(* peek() and readableBytes(): the unread bytes, one by one.               *)
LEMMA ReadableBytes ==
  ASSUME NEW b, WellFormed(b)
  PROVE  /\ Readable(b) \in Seq(Byte)
         /\ Len(Readable(b)) = b.wr - b.rd
         /\ Len(Readable(b)) \in Nat
         /\ \A i \in 1 .. b.wr - b.rd : Readable(b)[i] = b.cells[b.rd + i]
<1>1. b.cells \in Seq(Byte) /\ b.rd \in Nat /\ b.wr \in Nat
      /\ b.rd <= b.wr /\ b.wr <= Len(b.cells)
  BY DEF WellFormed
<1>2. \A i \in b.rd + 1 .. b.wr : b.cells[i] \in Byte
  BY <1>1, ElementOfSeq
<1>3. /\ Readable(b) \in Seq(Byte)
      /\ Len(Readable(b)) = IF b.rd + 1 <= b.wr THEN b.wr - (b.rd + 1) + 1 ELSE 0
      /\ \A i \in 1 .. b.wr - (b.rd + 1) + 1 :
           Readable(b)[i] = b.cells[(b.rd + 1) + i - 1]
  <2> DEFINE m == b.rd + 1
  <2>1. m \in Int /\ b.wr \in Int
    BY <1>1
  <2>2. \A i \in m .. b.wr : b.cells[i] \in Byte
    BY <1>2
  <2>3. Readable(b) = SubSeq(b.cells, m, b.wr)
    BY DEF Readable
  <2> HIDE DEF m
  <2>4. /\ Readable(b) \in Seq(Byte)
        /\ Len(Readable(b)) = IF m <= b.wr THEN b.wr - m + 1 ELSE 0
        /\ \A i \in 1 .. b.wr - m + 1 : Readable(b)[i] = b.cells[m + i - 1]
    BY <2>1, <2>2, <2>3, SubSeqProperties
  <2> QED
    BY <2>4 DEF m
<1>4. \A i \in 1 .. b.wr - b.rd : Readable(b)[i] = b.cells[b.rd + i]
  <2> SUFFICES ASSUME NEW i \in 1 .. b.wr - b.rd
               PROVE  Readable(b)[i] = b.cells[b.rd + i]
    OBVIOUS
  <2>1. i \in 1 .. b.wr - (b.rd + 1) + 1 /\ (b.rd + 1) + i - 1 = b.rd + i
    BY <1>1
  <2> QED
    BY <1>3, <2>1
<1> QED
  BY <1>1, <1>3, <1>4

(* retrieve(): the unread bytes but the first n.                           *)
LEMMA RetrieveBytes ==
  ASSUME NEW b, WellFormed(b), NEW n \in 0 .. b.wr - b.rd
  PROVE  /\ WellFormed(Retrieve(b, n))
         /\ Retrieve(b, n).cells = b.cells
         /\ Retrieve(b, n).wr - Retrieve(b, n).rd = b.wr - b.rd - n
         /\ Retrieve(b, n).rd <= b.rd + n
         /\ n = b.wr - b.rd => Retrieve(b, n).wr = 0
         /\ \A i \in 1 .. b.wr - b.rd - n :
              Readable(Retrieve(b, n))[i] = Readable(b)[n + i]
<1> DEFINE r == Retrieve(b, n)
<1>1. b \in [cells : Seq(Byte), rd : Nat, wr : Nat]
      /\ b.rd <= b.wr /\ b.wr <= Len(b.cells)
  BY DEF WellFormed
<1>2. CASE n < b.wr - b.rd
  <2>1. r = [b EXCEPT !.rd = b.rd + n]
    BY <1>2 DEF Retrieve
  <2>2. r.cells = b.cells /\ r.wr = b.wr /\ r.rd = b.rd + n
        /\ r \in [cells : Seq(Byte), rd : Nat, wr : Nat]
    BY <1>1, <2>1
  <2>3. WellFormed(r)
    BY <1>1, <1>2, <2>2 DEF WellFormed
  <2> HIDE DEF r
  <2>4. \A i \in 1 .. r.wr - r.rd : Readable(r)[i] = r.cells[r.rd + i]
    BY <2>3, ReadableBytes
  <2>5. \A i \in 1 .. b.wr - b.rd : Readable(b)[i] = b.cells[b.rd + i]
    BY ReadableBytes
  <2>6. \A i \in 1 .. b.wr - b.rd - n : Readable(r)[i] = Readable(b)[n + i]
    <3> SUFFICES ASSUME NEW i \in 1 .. b.wr - b.rd - n
                 PROVE  Readable(r)[i] = Readable(b)[n + i]
      OBVIOUS
    <3>1. i \in 1 .. r.wr - r.rd /\ n + i \in 1 .. b.wr - b.rd
          /\ r.rd + i = b.rd + (n + i)
      BY <1>1, <2>2
    <3> QED
      BY <2>2, <2>4, <2>5, <3>1
  <2>7. r.wr - r.rd = b.wr - b.rd - n /\ r.rd <= b.rd + n
    BY <1>1, <2>2
  <2> QED
    BY <1>1, <1>2, <2>2, <2>3, <2>6, <2>7 DEF r
<1>3. CASE ~(n < b.wr - b.rd)
  <2>1. r = [b EXCEPT !.rd = 0, !.wr = 0]
    BY <1>3 DEF Retrieve, RetrieveAll
  <2>2. r \in [cells : Seq(Byte), rd : Nat, wr : Nat]
    BY <1>1, <2>1, NewIndices
  <2>3. r.cells = b.cells /\ r.wr = 0 /\ r.rd = 0
    BY <1>1, <2>1
  <2> HIDE DEF r
  <2>4. WellFormed(r)
    BY <1>1, <2>2, <2>3 DEF WellFormed
  <2>5. n = b.wr - b.rd
    BY <1>1, <1>3
  <2> QED
    BY <1>1, <2>3, <2>4, <2>5 DEF r
<1> QED
  BY <1>2, <1>3

(* retrieveAll() empties the buffer and leaves its size.                   *)
LEMMA RetrieveAllBytes ==
  ASSUME NEW b, WellFormed(b)
  PROVE  /\ WellFormed(RetrieveAll(b))
         /\ RetrieveAll(b).cells = b.cells
         /\ RetrieveAll(b).wr = 0
<1> DEFINE r == RetrieveAll(b)
<1>1. b \in [cells : Seq(Byte), rd : Nat, wr : Nat]
  BY DEF WellFormed
<1>2. r \in [cells : Seq(Byte), rd : Nat, wr : Nat]
  BY <1>1, NewIndices DEF RetrieveAll
<1>3. r.cells = b.cells /\ r.rd = 0 /\ r.wr = 0
  BY <1>1 DEF RetrieveAll
<1> HIDE DEF r
<1>4. WellFormed(r)
  BY <1>1, <1>2, <1>3 DEF WellFormed
<1> QED
  BY <1>3, <1>4 DEF r

(* makeSpace(): room for n bytes, by growing to exactly what is needed     *)
(* behind the written bytes or by moving the unread ones; they stay.       *)
LEMMA MakeSpaceBytes ==
  ASSUME NEW b, WellFormed(b), NEW n \in Nat, Len(b.cells) - b.wr < n
  PROVE  LET m == MakeSpace(b, n)
         IN  /\ WellFormed(m)
             /\ m.wr + n <= Len(m.cells)
             /\ m.wr - m.rd = b.wr - b.rd
             /\ m.rd <= b.rd
             /\ \A i \in 1 .. b.wr - b.rd : m.cells[m.rd + i] = b.cells[b.rd + i]
             /\ Len(m.cells) \in {Len(b.cells), b.wr + n}
<1> DEFINE m == MakeSpace(b, n)
<1>1. b \in [cells : Seq(Byte), rd : Nat, wr : Nat]
      /\ b.rd <= b.wr /\ b.wr <= Len(b.cells) /\ Len(b.cells) \in Nat
  BY DEF WellFormed
<1>2. Blank \in Byte
  BY DEF Blank, Byte
<1>3. \A i \in 1 .. Len(b.cells) : b.cells[i] \in Byte
  BY <1>1, ElementOfSeq
<1>4. CASE Len(b.cells) - b.wr + b.rd < n
  <2> DEFINE c == [i \in 1 .. b.wr + n |-> IF i <= Len(b.cells) THEN b.cells[i] ELSE Blank]
  <2>1. m = [b EXCEPT !.cells = c]
    BY <1>4 DEF MakeSpace
  <2>2. \A i \in 1 .. b.wr + n : c[i] \in Byte
    BY <1>1, <1>2, <1>3
  <2>3. c \in [1 .. b.wr + n -> Byte] /\ b.wr + n \in Nat
    BY <1>1, <2>2
  <2>4. c \in Seq(Byte) /\ Len(c) = b.wr + n
    BY <2>3, FunctionIsSeq
  <2>5. \A i \in 1 .. b.wr - b.rd : c[b.rd + i] = b.cells[b.rd + i]
    BY <1>1
  <2> HIDE DEF c
  <2>6. m.cells = c /\ m.rd = b.rd /\ m.wr = b.wr
        /\ m \in [cells : Seq(Byte), rd : Nat, wr : Nat]
    BY <1>1, <2>1, <2>4
  <2> HIDE DEF m
  <2>7. WellFormed(m)
    BY <1>1, <2>4, <2>6 DEF WellFormed
  <2> QED
    BY <1>1, <2>4, <2>5, <2>6, <2>7 DEF m
<1>5. CASE ~(Len(b.cells) - b.wr + b.rd < n)
  <2> DEFINE c == [i \in DOMAIN b.cells |->
                     IF i <= b.wr - b.rd THEN b.cells[b.rd + i] ELSE b.cells[i]]
  <2>1. m = [cells |-> c, rd |-> 0, wr |-> b.wr - b.rd]
    BY <1>5 DEF MakeSpace
  <2>2. \A i \in 1 .. Len(b.cells) : c[i] \in Byte
    BY <1>1, <1>3
  <2>3. c \in [1 .. Len(b.cells) -> Byte]
    BY <1>1, <2>2
  <2>4. \A i \in 1 .. b.wr - b.rd : c[i] = b.cells[b.rd + i]
    BY <1>1
  <2> HIDE DEF c
  <2>5. c \in Seq(Byte) /\ Len(c) = Len(b.cells)
    BY <1>1, <2>3, FunctionIsSeq
  <2>6. m.cells = c /\ m.rd = 0 /\ m.wr = b.wr - b.rd
        /\ m \in [cells : Seq(Byte), rd : Nat, wr : Nat]
    BY <1>1, <2>1, <2>5
  <2> HIDE DEF m
  <2>7. WellFormed(m)
    BY <1>1, <2>5, <2>6 DEF WellFormed
  <2> QED
    BY <1>1, <1>5, <2>4, <2>5, <2>6, <2>7 DEF m
<1> QED
  BY <1>4, <1>5

(* append() makes room where there is none and adds data behind the unread *)
(* bytes, which stay; it grows the buffer only to what is then written.    *)
LEMMA AppendedBytes ==
  ASSUME NEW b, WellFormed(b), NEW data \in Seq(Byte)
  PROVE  LET a == AppendBytes(b, data)
         IN  /\ WellFormed(a)
             /\ a.wr - a.rd = b.wr - b.rd + Len(data)
             /\ a.rd <= b.rd
             /\ \A i \in 1 .. b.wr - b.rd : Readable(a)[i] = Readable(b)[i]
             /\ \A i \in 1 .. Len(data) : Readable(a)[b.wr - b.rd + i] = data[i]
             /\ Len(a.cells) \in {Len(b.cells), b.wr + Len(data)}
<1> DEFINE a == AppendBytes(b, data)
           e == EnsureWritable(b, Len(data))
<1>1. b.rd \in Nat /\ b.wr \in Nat /\ b.rd <= b.wr /\ b.wr <= Len(b.cells)
      /\ Len(b.cells) \in Nat /\ Len(data) \in Nat
  BY DEF WellFormed
<1>2. /\ WellFormed(e)
      /\ e.wr + Len(data) <= Len(e.cells)
      /\ e.wr - e.rd = b.wr - b.rd
      /\ e.rd <= b.rd
      /\ \A i \in 1 .. b.wr - b.rd : e.cells[e.rd + i] = b.cells[b.rd + i]
      /\ Len(e.cells) \in {Len(b.cells), b.wr + Len(data)}
  <2>1. CASE Len(b.cells) - b.wr < Len(data)
    <3>1. e = MakeSpace(b, Len(data))
      BY <2>1 DEF EnsureWritable
    <3> QED
      BY <1>1, <2>1, <3>1, MakeSpaceBytes
  <2>2. CASE ~(Len(b.cells) - b.wr < Len(data))
    <3>1. e = b
      BY <2>2 DEF EnsureWritable
    <3> HIDE DEF e
    <3> QED
      BY <1>1, <2>2, <3>1
  <2> QED
    BY <2>1, <2>2
<1> DEFINE c == [i \in DOMAIN e.cells |->
                   IF i \in e.wr + 1 .. e.wr + Len(data)
                   THEN data[i - e.wr] ELSE e.cells[i]]
<1>3. a = [e EXCEPT !.cells = c, !.wr = e.wr + Len(data)]
  BY DEF AppendBytes
<1> HIDE DEF a, e
<1>4. e \in [cells : Seq(Byte), rd : Nat, wr : Nat]
      /\ e.rd <= e.wr /\ e.wr <= Len(e.cells) /\ Len(e.cells) \in Nat
  BY <1>2 DEF WellFormed
<1>5. \A i \in 1 .. Len(e.cells) : c[i] \in Byte
  <2>1. \A i \in 1 .. Len(e.cells) : e.cells[i] \in Byte
    BY <1>4, ElementOfSeq
  <2>2. \A i \in 1 .. Len(data) : data[i] \in Byte
    BY ElementOfSeq
  <2> QED
    BY <1>1, <1>4, <2>1, <2>2
<1>6. c \in [1 .. Len(e.cells) -> Byte]
  BY <1>4, <1>5
<1>7. /\ \A i \in 1 .. e.wr : c[i] = e.cells[i]
      /\ \A i \in 1 .. Len(data) : c[e.wr + i] = data[i]
  BY <1>1, <1>2, <1>4, SMTT(30)
<1> HIDE DEF c
<1>8. c \in Seq(Byte) /\ Len(c) = Len(e.cells)
  BY <1>4, <1>6, FunctionIsSeq
<1>9. a \in [cells : Seq(Byte), rd : Nat, wr : Nat]
      /\ a.cells = c /\ a.rd = e.rd /\ a.wr = e.wr + Len(data)
  <2>1. e.wr + Len(data) \in Nat
    BY <1>1, <1>4
  <2>2. a \in [cells : Seq(Byte), rd : Nat, wr : Nat]
    BY <1>3, <1>4, <1>8, <2>1, NewCells
  <2>3. a.cells = c /\ a.rd = e.rd /\ a.wr = e.wr + Len(data)
    BY <1>3, <1>4, <1>8, <2>1
  <2> QED
    BY <2>2, <2>3
<1>10. WellFormed(a)
  BY <1>1, <1>2, <1>4, <1>8, <1>9 DEF WellFormed
<1>11. \A i \in 1 .. a.wr - a.rd : Readable(a)[i] = a.cells[a.rd + i]
  BY <1>10, ReadableBytes
<1>12. \A i \in 1 .. b.wr - b.rd : Readable(b)[i] = b.cells[b.rd + i]
  BY ReadableBytes
<1>13. \A i \in 1 .. b.wr - b.rd : Readable(a)[i] = Readable(b)[i]
  <2> SUFFICES ASSUME NEW i \in 1 .. b.wr - b.rd
               PROVE  Readable(a)[i] = Readable(b)[i]
    OBVIOUS
  <2>1. Readable(a)[i] = c[e.rd + i]
    BY <1>1, <1>2, <1>4, <1>9, <1>11
  <2>2. e.rd + i \in 1 .. e.wr
    BY <1>1, <1>2, <1>4
  <2>3. c[e.rd + i] = e.cells[e.rd + i]
    BY <1>7, <2>2
  <2> QED
    BY <1>2, <1>12, <2>1, <2>3
<1>14. \A i \in 1 .. Len(data) : Readable(a)[b.wr - b.rd + i] = data[i]
  <2> SUFFICES ASSUME NEW i \in 1 .. Len(data)
               PROVE  Readable(a)[b.wr - b.rd + i] = data[i]
    OBVIOUS
  <2>1. a.wr - a.rd = b.wr - b.rd + Len(data)
    BY <1>1, <1>2, <1>4, <1>9
  <2>2. b.wr - b.rd + i \in 1 .. a.wr - a.rd
    BY <1>1, <2>1
  <2>3. a.rd + (b.wr - b.rd + i) = e.wr + i
    BY <1>1, <1>2, <1>4, <1>9
  <2>4. Readable(a)[b.wr - b.rd + i] = c[e.wr + i]
    BY <1>9, <1>11, <2>2, <2>3
  <2> QED
    BY <1>7, <2>4
<1> QED
  BY <1>1, <1>2, <1>4, <1>8, <1>9, <1>10, <1>13, <1>14 DEF a

-----------------------------------------------------------------------------
(* What reading and parsing do to the unread bytes.                        *)

(* Numbers have a least one. The relation is one set, for WFMin.           *)
LEMMA HasLeast ==
  ASSUME NEW T \in SUBSET Nat, T # {}
  PROVE  \E m \in T : \A j \in T : m <= j
<1> DEFINE R == {p \in Nat \X Nat : p[1] < p[2]}
<1>1. IsWellFoundedOn(R, Nat)
  BY NatLessThanWellFounded, Zenon DEF OpToRel
<1>2. \A x, y \in Nat : x < y => <<x, y>> \in R
  OBVIOUS
<1> HIDE DEF R
<1>3. PICK x \in T : \A y \in T : ~(<<y, x>> \in R)
  BY <1>1, WFMin, Zenon
<1>4. \A y \in T : ~(y < x)
  BY <1>2, <1>3, Zenon
<1> QED
  BY <1>4

(* a holds the unread bytes of b without the first k.                      *)
Drops(a, b, k) ==
  /\ WellFormed(a)
  /\ a.cells = b.cells
  /\ k \in 0 .. b.wr - b.rd
  /\ a.wr - a.rd = b.wr - b.rd - k
  /\ a.rd <= b.rd + k
  /\ k > 0 /\ k = b.wr - b.rd => a.wr = 0
  /\ \A i \in 1 .. b.wr - b.rd - k : Readable(a)[i] = Readable(b)[k + i]

LEMMA RetrieveDrops ==
  ASSUME NEW b, WellFormed(b), NEW n \in 0 .. b.wr - b.rd
  PROVE  Drops(Retrieve(b, n), b, n)
BY RetrieveBytes DEF Drops

LEMMA DropsTwice ==
  ASSUME NEW b, WellFormed(b), NEW c, NEW a, NEW k, NEW n,
         Drops(c, b, k), Drops(a, c, n)
  PROVE  Drops(a, b, k + n)
<1>1. /\ WellFormed(a) /\ WellFormed(c) /\ a.cells = b.cells
      /\ k \in 0 .. b.wr - b.rd /\ n \in 0 .. c.wr - c.rd
      /\ c.wr - c.rd = b.wr - b.rd - k
      /\ a.wr - a.rd = c.wr - c.rd - n
      /\ c.rd <= b.rd + k /\ a.rd <= c.rd + n
      /\ k > 0 /\ k = b.wr - b.rd => c.wr = 0
      /\ n > 0 /\ n = c.wr - c.rd => a.wr = 0
  BY DEF Drops
<1>2. /\ b.wr \in Nat /\ b.rd \in Nat /\ c.wr \in Nat /\ c.rd \in Nat
      /\ a.wr \in Nat /\ a.rd \in Nat /\ c.rd <= c.wr /\ a.rd <= a.wr
  BY <1>1 DEF WellFormed
<1>3. ASSUME NEW i \in 1 .. b.wr - b.rd - (k + n)
      PROVE  Readable(a)[i] = Readable(b)[k + n + i]
  <2>1. i \in 1 .. c.wr - c.rd - n /\ n + i \in 1 .. b.wr - b.rd - k
        /\ k + (n + i) = k + n + i
    BY <1>1, <1>2
  <2>2. Readable(a)[i] = Readable(c)[n + i]
    BY <2>1 DEF Drops
  <2>3. Readable(c)[n + i] = Readable(b)[k + (n + i)]
    BY <2>1 DEF Drops
  <2> QED
    BY <2>1, <2>2, <2>3
<1>4. /\ k + n \in 0 .. b.wr - b.rd
      /\ a.wr - a.rd = b.wr - b.rd - (k + n)
      /\ a.rd <= b.rd + (k + n)
  BY <1>1, <1>2
<1>5. ASSUME k + n > 0, k + n = b.wr - b.rd
      PROVE  a.wr = 0
  <2>1. n = c.wr - c.rd
    BY <1>1, <1>2, <1>5
  <2>2. CASE n > 0
    BY <1>1, <2>1, <2>2
  <2>3. CASE n = 0
    <3>1. c.wr = 0
      BY <1>1, <1>2, <1>5, <2>3
    <3> QED
      BY <1>1, <1>2, <2>3, <3>1
  <2> QED
    BY <1>1, <2>2, <2>3
<1> QED
  BY <1>1, <1>3, <1>4, <1>5 DEF Drops

(* Lines up to e and the body they announce, if it is there.               *)
LEMMA TakenOutcome ==
  ASSUME NEW b, WellFormed(b), NEW e \in 1 .. b.wr - b.rd,
         NEW said, said.body \in Nat
  PROVE  LET p == Taken(b, e, said)
             all == said.version # FewWords /\ e + said.body <= b.wr - b.rd
         IN  /\ p.says = said
             /\ ~all => p.req = Incomplete /\ Drops(p.left, b, e)
             /\ all => /\ p.req = SubSeq(Readable(b), 1, e + said.body)
                       /\ Drops(p.left, b, e + said.body)
<1> DEFINE s == Readable(b)
           rest == Retrieve(b, e)
           d == said.body
           p == Taken(b, e, said)
<1>1. b.wr \in Nat /\ b.rd \in Nat /\ b.rd <= b.wr /\ e \in 0 .. b.wr - b.rd
  BY DEF WellFormed
<1>2. Drops(rest, b, e)
  BY <1>1, RetrieveDrops
<1> HIDE DEF rest
<1>3. /\ WellFormed(rest) /\ rest.wr - rest.rd = b.wr - b.rd - e
      /\ Len(Readable(rest)) = rest.wr - rest.rd
  BY <1>2, ReadableBytes DEF Drops
<1>4. p = IF said.version = FewWords \/ Len(Readable(rest)) < d
          THEN [left |-> rest, req |-> Incomplete, says |-> said]
          ELSE [left |-> Retrieve(rest, d), req |-> SubSeq(s, 1, e + d), says |-> said]
  BY DEF Taken, rest
<1> HIDE DEF p, s
<1>5. CASE said.version = FewWords \/ Len(Readable(rest)) < d
  <2>1. p.left = rest /\ p.req = Incomplete /\ p.says = said
    BY <1>4, <1>5
  <2>2. ~(said.version # FewWords /\ e + d <= b.wr - b.rd)
    BY <1>1, <1>3, <1>5
  <2> QED
    BY <1>2, <2>1, <2>2 DEF p
<1>6. CASE ~(said.version = FewWords \/ Len(Readable(rest)) < d)
  <2>1. p.left = Retrieve(rest, d) /\ p.req = SubSeq(s, 1, e + d) /\ p.says = said
    BY <1>4, <1>6
  <2>2. said.version # FewWords /\ e + d <= b.wr - b.rd /\ d \in 0 .. rest.wr - rest.rd
    BY <1>1, <1>3, <1>6
  <2>3. Drops(p.left, b, e + d)
    BY <1>2, <1>3, <2>1, <2>2, RetrieveDrops, DropsTwice
  <2> QED
    BY <2>1, <2>2, <2>3 DEF p, s
<1> QED
  BY <1>5, <1>6

LEMMA RequestTypes ==
  ASSUME NEW r \in Requests
  PROVE  /\ r.head \in Nat \ {0} /\ r.body \in Nat /\ r.version # FewWords
         /\ Size(r) = r.head + r.body /\ Size(r) \in Nat \ {0}
         /\ DOMAIN r.blank \subseteq r.head + 1 .. r.head + r.body
         /\ \A j \in DOMAIN r.blank : r.blank[j].body \in Nat
BY RequestsAssumption DEF Size

(* A blank line that a byte of a request completes says how long a body is. *)
LEMMA SaysBody ==
  ASSUME sent \in Seq(Requests), NEW c, c[1] \in 1 .. Len(sent), EndsLines(c)
  PROVE  Says(c).body \in Nat
<1>1. sent[c[1]] \in Requests
  BY ElementOfSeq
<1> QED
  BY <1>1, RequestTypes DEF EndsLines, Says

(* The first blank line, where there is one.                               *)
LEMMA FirstEndIsFirst ==
  ASSUME NEW s \in Seq(Byte), Ends(s) # {}
  PROVE  /\ FirstEnd(s) \in Ends(s) /\ \A j \in Ends(s) : FirstEnd(s) <= j
         /\ FirstEnd(s) \in 1 .. Len(s) /\ EndsLines(s[FirstEnd(s)])
<1>1. Ends(s) \subseteq 1 .. Len(s) /\ Ends(s) \in SUBSET Nat
  BY DEF Ends
<1>2. \E i \in Ends(s) : \A j \in Ends(s) : i <= j
  BY <1>1, HasLeast
<1>3. FirstEnd(s) \in Ends(s) /\ \A j \in Ends(s) : FirstEnd(s) <= j
  BY <1>2 DEF FirstEnd
<1> QED
  BY <1>1, <1>3 DEF Ends

(* What parse() hands on is a beginning of what it finds, and what it      *)
(* leaves is the rest, whatever its lines say.                             *)
LEMMA ParseOutcome ==
  ASSUME sent \in Seq(Requests), NEW b, WellFormed(b),
         Owned(Readable(b), Len(sent)), NEW p \in Parse(b)
  PROVE  \E k \in 0 .. b.wr - b.rd :
           /\ Drops(p.left, b, k)
           /\ p.req = Incomplete \/ p.req = SubSeq(Readable(b), 1, k)
<1> DEFINE s == Readable(b)
           nothing == [left |-> b, req |-> Incomplete, says |-> NoRequest]
<1>1. /\ s \in Seq(Byte) /\ Len(s) = b.wr - b.rd /\ b.wr \in Nat /\ b.rd \in Nat
      /\ b.rd <= b.wr
  BY ReadableBytes DEF WellFormed
<1>2. Drops(b, b, 0)
  BY <1>1 DEF Drops
<1>3. ASSUME p = nothing
      PROVE  \E k \in 0 .. b.wr - b.rd :
               /\ Drops(p.left, b, k)
               /\ p.req = Incomplete \/ p.req = SubSeq(s, 1, k)
  <2>1. p.left = b /\ p.req = Incomplete
    BY <1>3
  <2> QED
    BY <1>1, <1>2, <2>1
<1>4. ASSUME NEW e \in 1 .. Len(s), NEW said, said.body \in Nat, p = Taken(b, e, said)
      PROVE  \E k \in 0 .. b.wr - b.rd :
               /\ Drops(p.left, b, k)
               /\ p.req = Incomplete \/ p.req = SubSeq(s, 1, k)
  <2> DEFINE all == said.version # FewWords /\ e + said.body <= b.wr - b.rd
  <2>1. /\ ~all => p.req = Incomplete /\ Drops(p.left, b, e)
        /\ all => /\ p.req = SubSeq(s, 1, e + said.body)
                  /\ Drops(p.left, b, e + said.body)
    BY <1>1, <1>4, TakenOutcome
  <2>2. e \in 0 .. b.wr - b.rd /\ (all => e + said.body \in 0 .. b.wr - b.rd)
    BY <1>1, <1>4
  <2> HIDE DEF all, s
  <2> QED
    BY <2>1, <2>2
<1>5. CASE Ends(s) = {}
  BY <1>3, <1>5 DEF Parse
<1>6. CASE Ends(s) # {}
  <2> DEFINE e == FirstEnd(s)
  <2>1. e \in 1 .. Len(s) /\ EndsLines(s[e])
    BY <1>1, <1>6, FirstEndIsFirst
  <2>2. Says(s[e]).body \in Nat
    BY <2>1, SaysBody DEF Owned
  <2>3. Ends(s) \subseteq 1 .. Len(s)
    BY <1>1 DEF Ends
  <2>4. \/ p = nothing \/ p = Taken(b, e, Says(s[e]))
        \/ \E i \in Ends(s), f \in Fragments : p = Taken(b, i, f)
    BY <1>6 DEF Parse
  <2>5. ASSUME NEW i \in Ends(s), NEW f \in Fragments, p = Taken(b, i, f)
        PROVE  \E k \in 0 .. b.wr - b.rd :
                 /\ Drops(p.left, b, k)
                 /\ p.req = Incomplete \/ p.req = SubSeq(s, 1, k)
    BY <1>4, <2>3, <2>5, FragmentsAssumption
  <2> QED
    BY <1>3, <1>4, <2>1, <2>2, <2>4, <2>5
<1> QED
  BY <1>5, <1>6

LEMMA LastRequest ==
  ASSUME sent \in Seq(Requests), Len(sent) > 0
  PROVE  LET r == sent[Len(sent)]
         IN  /\ r \in Requests
             /\ r.head \in Nat \ {0} /\ r.body \in Nat /\ r.version # FewWords
             /\ Size(r) = r.head + r.body /\ Size(r) \in Nat \ {0}
             /\ DOMAIN r.blank \subseteq r.head + 1 .. r.head + r.body
             /\ \A j \in DOMAIN r.blank : r.blank[j].body \in Nat
<1>1. sent[Len(sent)] \in Requests
  BY ElementOfSeq
<1> QED
  BY <1>1, RequestTypes

(* A segment moves from the wire to the buffer, wherever it ends.          *)
LEMMA SegmentTaken ==
  ASSUME NEW w \in Seq(Byte), NEW n \in 1 .. Len(w)
  PROVE  /\ SubSeq(w, 1, n) \in Seq(Byte)
         /\ Len(SubSeq(w, 1, n)) = n
         /\ \A i \in 1 .. n : SubSeq(w, 1, n)[i] = w[i]
         /\ SubSeq(w, n + 1, Len(w)) \in Seq(Byte)
         /\ Len(SubSeq(w, n + 1, Len(w))) = Len(w) - n
         /\ \A i \in 1 .. Len(w) - n : SubSeq(w, n + 1, Len(w))[i] = w[n + i]
OBVIOUS

LEMMA SegmentKeepsWaiting ==
  ASSUME NEW b, WellFormed(b), NEW w \in Seq(Byte), NEW k \in Nat,
         Waiting(b, w, k), NEW n \in 1 .. Len(w)
  PROVE  Waiting(AppendBytes(b, SubSeq(w, 1, n)), SubSeq(w, n + 1, Len(w)), k)
<1> DEFINE data == SubSeq(w, 1, n)
           v == SubSeq(w, n + 1, Len(w))
           a == AppendBytes(b, data)
           r == Readable(b)
           q == Readable(a)
<1>1. /\ data \in Seq(Byte) /\ Len(data) = n /\ \A i \in 1 .. n : data[i] = w[i]
      /\ Len(v) = Len(w) - n /\ \A i \in 1 .. Len(w) - n : v[i] = w[n + i]
  BY SegmentTaken
<1> HIDE DEF data, v
<1>2. /\ WellFormed(a)
      /\ a.wr - a.rd = b.wr - b.rd + Len(data)
      /\ \A i \in 1 .. b.wr - b.rd : q[i] = r[i]
      /\ \A i \in 1 .. Len(data) : q[b.wr - b.rd + i] = data[i]
  BY <1>1, AppendedBytes, ZenonT(60)
<1> HIDE DEF a
<1>3. Len(r) = b.wr - b.rd /\ Len(r) \in Nat /\ Len(q) = a.wr - a.rd /\ Len(q) \in Nat
  BY <1>2, ReadableBytes
<1> HIDE DEF r, q
<1>4. /\ \A i \in 1 .. Len(r) : r[i] = <<Len(sent), k + i>>
      /\ \A i \in 1 .. Len(w) : w[i] = <<Len(sent), k + Len(r) + i>>
      /\ k + Len(r) + Len(w) = Size(sent[Len(sent)])
  BY DEF Waiting, Pieces, r
<1>5. Len(q) = Len(r) + n
  BY <1>1, <1>2, <1>3
<1>6. \A i \in 1 .. Len(q) : q[i] = <<Len(sent), k + i>>
  <2> SUFFICES ASSUME NEW i \in 1 .. Len(q)
               PROVE  q[i] = <<Len(sent), k + i>>
    OBVIOUS
  <2>1. CASE i <= Len(r)
    BY <1>2, <1>3, <1>4, <2>1, SMTT(30)
  <2>2. CASE i > Len(r)
    <3> DEFINE j == i - Len(r)
    <3>1. j \in 1 .. n /\ j \in 1 .. Len(w) /\ Len(r) + j = i
          /\ k + Len(r) + j = k + i
      BY <1>3, <1>5, <2>2
    <3> HIDE DEF j
    <3>2. q[i] = w[j]
      BY <1>1, <1>2, <1>3, <3>1
    <3> QED
      BY <1>4, <3>1, <3>2
  <2> QED
    BY <1>3, <2>1, <2>2
<1>7. \A i \in 1 .. Len(v) : v[i] = <<Len(sent), k + Len(q) + i>>
  <2> SUFFICES ASSUME NEW i \in 1 .. Len(v)
               PROVE  v[i] = <<Len(sent), k + Len(q) + i>>
    OBVIOUS
  <2>1. n + i \in 1 .. Len(w) /\ k + Len(r) + (n + i) = k + Len(q) + i
    BY <1>1, <1>3, <1>5
  <2>2. v[i] = w[n + i]
    BY <1>1
  <2> QED
    BY <1>4, <2>1, <2>2
<1>8. k + Len(q) + Len(v) = Size(sent[Len(sent)])
  BY <1>1, <1>3, <1>4, <1>5
<1> QED
  BY <1>6, <1>7, <1>8 DEF Waiting, Pieces, q, a, v, data

(* The search for the blank line finds the end of the header, where it is. *)
(* The blank lines among pieces of the last request.                       *)
LEMMA EndsOfPieces ==
  ASSUME sent \in Seq(Requests), Len(sent) > 0, NEW s \in Seq(Byte), NEW k \in Nat,
         Pieces(s, Len(sent), k)
  PROVE  LET r == sent[Len(sent)]
         IN  \A i \in 1 .. Len(s) :
               /\ s[i][1] = Len(sent) /\ s[i][2] = k + i
               /\ i \in Ends(s) <=> k + i = r.head \/ k + i \in DOMAIN r.blank
<1>1. Len(s) \in Nat /\ DOMAIN s = 1 .. Len(s)
  OBVIOUS
<1> SUFFICES ASSUME NEW i \in 1 .. Len(s)
             PROVE  LET r == sent[Len(sent)]
                    IN  /\ s[i][1] = Len(sent) /\ s[i][2] = k + i
                        /\ i \in Ends(s) <=> k + i = r.head \/ k + i \in DOMAIN r.blank
  OBVIOUS
<1>2. s[i] = <<Len(sent), k + i>>
  BY DEF Pieces
<1>3. s[i][1] = Len(sent) /\ s[i][2] = k + i
  BY <1>2
<1> QED
  BY <1>1, <1>3 DEF Ends, EndsLines

(* Taking the first pieces of the last request out of the buffer.          *)
LEMMA DropKeepsWaiting ==
  ASSUME NEW b, WellFormed(b), NEW w, NEW k \in Nat, Waiting(b, w, k), b.rd <= k,
         NEW a, NEW n, Drops(a, b, n), sent[Len(sent)].head \in Nat,
         Size(sent[Len(sent)]) \in Nat, Len(w) \in Nat
  PROVE  Waiting(a, w, k + n) /\ a.rd <= k + n
<1> DEFINE s == Readable(b)
           u == Readable(a)
           N == Len(sent)
           z == Size(sent[Len(sent)])
<1>1. /\ WellFormed(a) /\ n \in 0 .. b.wr - b.rd
      /\ a.wr - a.rd = b.wr - b.rd - n /\ a.rd <= b.rd + n
      /\ \A i \in 1 .. b.wr - b.rd - n : u[i] = s[n + i]
  BY DEF Drops
<1>2. /\ Len(s) = b.wr - b.rd /\ Len(u) = a.wr - a.rd /\ Len(s) \in Nat /\ Len(u) \in Nat
      /\ a.rd \in Nat /\ b.rd \in Nat /\ b.wr \in Nat
  BY <1>1, ReadableBytes DEF WellFormed
<1>3. /\ \A i \in 1 .. Len(s) : s[i] = <<N, k + i>>
      /\ \A i \in 1 .. Len(w) : w[i] = <<N, k + Len(s) + i>>
      /\ k + Len(s) + Len(w) = z
  BY DEF Waiting, Pieces
<1> HIDE DEF s, u, N, z
<1>4. Len(u) = Len(s) - n /\ n \in Nat /\ k + n + Len(u) = k + Len(s)
  BY <1>1, <1>2
<1>5. \A i \in 1 .. Len(u) : u[i] = <<N, k + n + i>>
  <2> SUFFICES ASSUME NEW i \in 1 .. Len(u)
               PROVE  u[i] = <<N, k + n + i>>
    OBVIOUS
  <2>1. n + i \in 1 .. Len(s) /\ k + (n + i) = k + n + i /\ i \in 1 .. b.wr - b.rd - n
    BY <1>2, <1>4
  <2>2. u[i] = s[n + i]
    BY <1>1, <2>1
  <2> QED
    BY <1>3, <2>1, <2>2
<1>6. \A i \in 1 .. Len(w) : w[i] = <<N, k + n + Len(u) + i>>
  BY <1>3, <1>4
<1>7. k + n + Len(u) + Len(w) = z
  BY <1>3, <1>4
<1>8. a.rd <= k + n
  BY <1>1, <1>2, <1>4, SMTT(30)
<1> QED
  BY <1>5, <1>6, <1>7, <1>8 DEF Waiting, Pieces, s, u, N, z

\* What parse() may make of the last request, of which w is still on the way.
ParsedRightly(p, w) ==
  LET r == sent[Len(sent)]
  IN  \/ /\ p.req = Incomplete
         /\ AwaitsHeader(p.left, w) \/ LostItsHeader(p.left, w)
      \/ /\ p.req = Bytes(Len(sent), r) /\ p.says = r
         /\ w = << >> /\ p.left.wr = 0

(* Behind a lost header the lines up to a blank line of the body are taken *)
(* out, and handed on with what follows if they read like a request.       *)
LEMMA ParseBehindLostHeader ==
  ASSUME sent \in Seq(Requests), Len(sent) > 0, NEW b, WellFormed(b),
         NEW w \in Seq(Byte), LostItsHeader(b, w), NEW p \in Parse(b)
  PROVE  \/ p.req = Incomplete /\ LostItsHeader(p.left, w)
         \/ Mistaken(Len(sent), sent[Len(sent)], p.req)
<1> DEFINE N == Len(sent)
           r == sent[N]
           s == Readable(b)
           cuts == {r.head} \cup DOMAIN r.blank
<1>1. /\ r.head \in Nat \ {0} /\ r.body \in Nat /\ Size(r) \in Nat
      /\ DOMAIN r.blank \subseteq r.head + 1 .. r.head + r.body
      /\ \A j \in DOMAIN r.blank : r.blank[j].body \in Nat
      /\ N \in Nat
  BY LastRequest
<1>2. /\ s \in Seq(Byte) /\ Len(s) = b.wr - b.rd /\ Len(s) \in Nat
      /\ Len(w) \in Nat
  BY ReadableBytes
<1>3. PICK k \in cuts : Waiting(b, w, k) /\ b.rd <= k
  BY DEF LostItsHeader
<1>4. k \in Nat /\ k >= r.head
  BY <1>1, <1>3
<1>5. \A i \in 1 .. Len(s) :
        /\ s[i][1] = N /\ s[i][2] = k + i
        /\ i \in Ends(s) <=> k + i \in DOMAIN r.blank
  <2>1. \A i \in 1 .. Len(s) :
          /\ s[i][1] = N /\ s[i][2] = k + i
          /\ i \in Ends(s) <=> k + i = r.head \/ k + i \in DOMAIN r.blank
    BY <1>2, <1>3, <1>4, EndsOfPieces DEF Waiting
  <2>2. \A i \in 1 .. Len(s) : k + i # r.head
    BY <1>1, <1>4
  <2> QED
    BY <2>1, <2>2
<1>6. CASE Ends(s) = {}
  <2>1. p = [left |-> b, req |-> Incomplete, says |-> NoRequest]
    BY <1>6 DEF Parse
  <2>2. p.left = b /\ p.req = Incomplete
    BY <2>1
  <2> QED
    BY <2>2
<1>7. CASE Ends(s) # {}
  <2> DEFINE e == FirstEnd(s)
             said == r.blank[k + e]
             all == said.version # FewWords /\ e + said.body <= b.wr - b.rd
  <2>1. /\ e \in Ends(s) /\ e \in 1 .. Len(s)
    BY <1>2, <1>7, FirstEndIsFirst
  <2>2. /\ s[e][1] = N /\ s[e][2] = k + e /\ k + e \in DOMAIN r.blank
        /\ s[1][1] = N /\ s[1][2] = k + 1
    BY <1>2, <1>5, <2>1
  <2>3. k + e # r.head /\ k + 1 - 1 = k
    BY <1>1, <1>4, <2>1
  <2>4. StartsLines(s[1])
    <3>1. EndsLines(<<N, k>>)
      BY <1>3 DEF EndsLines
    <3>2. <<s[1][1], s[1][2] - 1>> = <<N, k>>
      BY <1>4, <2>2, <2>3
    <3> QED
      BY <3>1, <3>2 DEF StartsLines
  <2>5. Says(s[e]) = said
    BY <2>2, <2>3 DEF Says
  <2>6. p = Taken(b, e, said)
    BY <1>7, <2>2, <2>4, <2>5 DEF Parse, WholeLines
  <2>7. said.body \in Nat
    BY <1>1, <2>2
  <2> HIDE DEF said
  <2>8. /\ ~all => p.req = Incomplete /\ Drops(p.left, b, e)
        /\ all => p.req = SubSeq(s, 1, e + said.body)
    BY <1>2, <2>1, <2>6, <2>7, TakenOutcome
  <2> HIDE DEF e, s
  <2>9. CASE ~all
    <3>1. Waiting(p.left, w, k + e) /\ p.left.rd <= k + e
      BY <1>1, <1>2, <1>3, <1>4, <2>8, <2>9, DropKeepsWaiting
    <3>2. sent[Len(sent)].body > 0
      BY DEF LostItsHeader
    <3> QED
      BY <2>2, <2>8, <2>9, <3>1, <3>2 DEF LostItsHeader
  <2>10. CASE all
    <3> DEFINE m == e + said.body
               h == SubSeq(s, 1, m)
    <3>1. m \in 1 .. Len(s) /\ e \in 1 .. m
      BY <1>2, <2>1, <2>7, <2>10
    <3> HIDE DEF m
    <3>2. DOMAIN h = 1 .. m /\ \A i \in 1 .. m : h[i] = s[i]
      BY <1>2, <3>1
    <3>3. h[1] = s[1] /\ h[e] = s[e] /\ e \in DOMAIN h
      BY <2>1, <3>1, <3>2
    <3>4. p.req = h
      BY <2>8, <2>10 DEF m
    <3> HIDE DEF h
    <3>5. h[1][1] = N /\ h[1][2] > r.head
      BY <1>1, <1>4, <2>2, <3>3
    <3>6. /\ h[e][1] = N /\ h[e][2] \in DOMAIN r.blank
          /\ r.blank[h[e][2]].version # FewWords
      BY <2>2, <2>10, <3>3 DEF said
    <3>7. Mistaken(N, r, h)
      BY <3>3, <3>5, <3>6 DEF Mistaken
    <3> QED
      BY <3>4, <3>7
  <2> QED
    BY <2>9, <2>10
<1> QED
  BY <1>6, <1>7

(* parse() on what has arrived of a request: it waits for the header; or it *)
(* takes the header and, without the body, loses it; or it takes the whole *)
(* request, byte for byte, and leaves the buffer empty.                    *)
LEMMA ParseFromHeader ==
  ASSUME sent \in Seq(Requests), Len(sent) > 0, NEW b, WellFormed(b),
         NEW w \in Seq(Byte), Waiting(b, w, 0), b.rd = 0, NEW p \in Parse(b)
  PROVE  ParsedRightly(p, w) /\ (w = << >> => p.req # Incomplete)
<1> DEFINE N == Len(sent)
           r == sent[N]
           h == r.head
           d == r.body
           s == Readable(b)
<1>1. /\ N \in Nat /\ h \in Nat \ {0} /\ d \in Nat /\ Size(r) = h + d /\ Size(r) \in Nat
      /\ r.version # FewWords
      /\ DOMAIN r.blank \subseteq h + 1 .. h + d
  BY LastRequest
<1>2. /\ s \in Seq(Byte) /\ Len(s) = b.wr - b.rd /\ Len(s) \in Nat
      /\ DOMAIN s = 1 .. Len(s) /\ Len(w) \in Nat
  BY ReadableBytes
<1>3. /\ \A i \in 1 .. Len(s) : s[i] = <<N, i>>
      /\ Len(s) + Len(w) = h + d
  BY <1>1, <1>2 DEF Waiting, Pieces
<1>4. \A i \in 1 .. Len(s) :
        /\ s[i][1] = N /\ s[i][2] = i
        /\ i \in Ends(s) <=> i = h \/ i \in DOMAIN r.blank
  <2>1. \A i \in 1 .. Len(s) :
          /\ s[i][1] = N /\ s[i][2] = 0 + i
          /\ i \in Ends(s) <=> 0 + i = h \/ 0 + i \in DOMAIN r.blank
    <3>1. Pieces(s, N, 0) /\ 0 \in Nat
      BY DEF Waiting
    <3> QED
      BY <1>2, <3>1, EndsOfPieces
  <2> QED
    BY <1>2, <2>1
<1>5. CASE Len(s) < h
  <2>1. Ends(s) = {}
    <3>1. \A i \in 1 .. Len(s) : i # h /\ i \notin DOMAIN r.blank
      BY <1>1, <1>2, <1>5
    <3>2. Ends(s) \subseteq 1 .. Len(s)
      BY <1>2 DEF Ends
    <3> QED
      BY <1>4, <3>1, <3>2
  <2>2. p = [left |-> b, req |-> Incomplete, says |-> NoRequest]
    BY <2>1 DEF Parse
  <2>3. p.left = b /\ p.req = Incomplete
    BY <2>2
  <2>4. AwaitsHeader(b, w)
    BY <1>5 DEF AwaitsHeader
  <2>5. w # << >>
    BY <1>1, <1>3, <1>5
  <2> QED
    BY <2>3, <2>4, <2>5 DEF ParsedRightly
<1>6. CASE h <= Len(s)
  <2> DEFINE all == r.version # FewWords /\ h + d <= b.wr - b.rd
  <2>1. h \in 1 .. Len(s) /\ h \in Ends(s)
    BY <1>1, <1>2, <1>4, <1>6
  <2>2. FirstEnd(s) = h
    <3>1. \A j \in Ends(s) : h <= j
      <4>1. Ends(s) \subseteq 1 .. Len(s)
        BY <1>2 DEF Ends
      <4>2. \A j \in DOMAIN r.blank : h <= j
        BY <1>1
      <4> QED
        BY <1>1, <1>4, <4>1, <4>2
    <3>2. /\ FirstEnd(s) \in Ends(s) /\ \A j \in Ends(s) : FirstEnd(s) <= j
          /\ FirstEnd(s) \in 1 .. Len(s)
      BY <1>2, <2>1, FirstEndIsFirst
    <3> QED
      BY <1>1, <2>1, <3>1, <3>2
  <2>3. WholeLines(s)
    <3>1. 1 \in 1 .. Len(s)
      BY <1>2, <2>1
    <3> QED
      BY <1>4, <2>1, <2>2, <3>1 DEF WholeLines, StartsLines
  <2>4. Says(s[h]) = r
    BY <1>4, <2>1 DEF Says
  <2>5. p = Taken(b, h, r)
    BY <2>1, <2>2, <2>3, <2>4 DEF Parse
  <2> HIDE DEF r, s
  <2>6. /\ p.says = r
        /\ ~all => p.req = Incomplete /\ Drops(p.left, b, h)
        /\ all => p.req = SubSeq(s, 1, h + d) /\ Drops(p.left, b, h + d)
    <3>1. h \in 1 .. b.wr - b.rd /\ r.body \in Nat
      BY <1>1, <1>2, <2>1
    <3> QED
      BY <2>5, <3>1, TakenOutcome DEF s
  <2>7. CASE ~all
    <3>1. /\ d > 0 /\ w # << >>
      BY <1>1, <1>2, <1>3, <1>6, <2>7
    <3>2. Waiting(p.left, w, 0 + h) /\ p.left.rd <= 0 + h
      <4>1. Drops(p.left, b, h) /\ 0 \in Nat /\ b.rd <= 0
        BY <2>6, <2>7
      <4>2. sent[Len(sent)].head \in Nat /\ Size(sent[Len(sent)]) \in Nat
        BY <1>1 DEF r
      <4> QED
        BY <1>2, <4>1, <4>2, DropKeepsWaiting
    <3>3. Waiting(p.left, w, h) /\ p.left.rd <= h
      BY <1>1, <3>2
    <3>4. LostItsHeader(p.left, w)
      BY <3>1, <3>3 DEF LostItsHeader, r
    <3> QED
      BY <2>6, <2>7, <3>1, <3>4 DEF ParsedRightly
  <2>8. CASE all
    <3>1. Len(s) = h + d /\ Len(w) = 0
      BY <1>1, <1>2, <1>3, <2>8
    <3>2. w = << >>
      BY <3>1, EmptySeq
    <3>3. p.req = s
      BY <1>2, <2>6, <2>8, <3>1
    <3>4. s = [j \in 1 .. h + d |-> <<N, j>>]
      <4>1. s = [j \in 1 .. h + d |-> s[j]]
        BY <1>2, <3>1
      <4>2. \A j \in 1 .. h + d : s[j] = <<N, j>>
        BY <1>3, <3>1
      <4> QED
        BY <4>1, <4>2, Zenon
    <3>5. p.req = Bytes(N, r)
      BY <3>3, <3>4, Zenon DEF Bytes
    <3>6. p.left.wr = 0
      <4>1. h + d > 0 /\ h + d = b.wr - b.rd
        BY <1>1, <1>2, <3>1
      <4> QED
        BY <2>6, <2>8, <4>1 DEF Drops
    <3>7. p.req # Incomplete
      <4>1. Len(s) # 0
        BY <1>1, <3>1
      <4> QED
        BY <3>3, <4>1 DEF Incomplete
    <3> QED
      BY <2>6, <3>2, <3>5, <3>6, <3>7 DEF ParsedRightly, r
  <2> QED
    BY <2>7, <2>8
<1> QED
  BY <1>1, <1>2, <1>5, <1>6

-----------------------------------------------------------------------------
(* The unread bytes, in the buffer and on the way, step by step.           *)

(* The bytes of a request.                                                 *)
LEMMA BytesOf ==
  ASSUME NEW r \in Requests, NEW n \in Nat
  PROVE  /\ Bytes(n, r) \in Seq(Byte)
         /\ Len(Bytes(n, r)) = Size(r)
         /\ Size(r) \in Nat \ {0}
         /\ \A j \in 1 .. Size(r) : Bytes(n, r)[j] = <<n, j>>
         /\ Bytes(n, r) # Incomplete
<1>1. Size(r) \in Nat \ {0}
  BY RequestTypes
<1>2. \A j \in 1 .. Size(r) : <<n, j>> \in Byte
  BY <1>1 DEF Byte
<1>3. Bytes(n, r) = [j \in 1 .. Size(r) |-> <<n, j>>]
  BY DEF Bytes, Size
<1>4. Bytes(n, r) \in [1 .. Size(r) -> Byte]
  BY <1>2, <1>3
<1>5. Bytes(n, r) \in Seq(Byte) /\ Len(Bytes(n, r)) = Size(r)
  BY <1>1, <1>4, FunctionIsSeq
<1>6. Bytes(n, r) # Incomplete
  BY <1>1, <1>5 DEF Incomplete
<1> QED
  BY <1>1, <1>3, <1>5, <1>6

LEMMA ConcatOf ==
  ASSUME NEW s \in Seq(Byte), NEW t \in Seq(Byte)
  PROVE  /\ s \o t \in Seq(Byte) /\ Len(s \o t) = Len(s) + Len(t)
         /\ Len(s) \in Nat /\ Len(t) \in Nat
         /\ \A i \in 1 .. Len(s) : (s \o t)[i] = s[i]
         /\ \A i \in 1 .. Len(t) : (s \o t)[Len(s) + i] = t[i]
OBVIOUS

(* A segment goes from the wire into the buffer, and no byte changes.      *)
LEMMA SegmentMoves ==
  ASSUME NEW b, WellFormed(b), NEW w \in Seq(Byte), NEW n \in 1 .. Len(w)
  PROVE  LET a == AppendBytes(b, SubSeq(w, 1, n))
             v == SubSeq(w, n + 1, Len(w))
         IN  WellFormed(a) /\ v \in Seq(Byte) /\ Readable(a) \o v = Readable(b) \o w
<1> DEFINE data == SubSeq(w, 1, n)
           v == SubSeq(w, n + 1, Len(w))
           a == AppendBytes(b, data)
           r == Readable(b)
           q == Readable(a)
           x == q \o v
           y == r \o w
<1>1. /\ data \in Seq(Byte) /\ Len(data) = n /\ \A i \in 1 .. n : data[i] = w[i]
      /\ v \in Seq(Byte)
      /\ Len(v) = Len(w) - n /\ \A i \in 1 .. Len(w) - n : v[i] = w[n + i]
  BY SegmentTaken
<1> HIDE DEF data, v
<1>0. data \in Seq(Byte)
  BY <1>1
<1>2. /\ WellFormed(a)
      /\ a.wr - a.rd = b.wr - b.rd + Len(data)
      /\ \A i \in 1 .. b.wr - b.rd : q[i] = r[i]
      /\ \A i \in 1 .. Len(data) : q[b.wr - b.rd + i] = data[i]
  BY <1>0, AppendedBytes
<1> HIDE DEF a
<1>3. /\ r \in Seq(Byte) /\ Len(r) = b.wr - b.rd /\ Len(r) \in Nat
      /\ q \in Seq(Byte) /\ Len(q) = a.wr - a.rd /\ Len(q) \in Nat
  BY <1>2, ReadableBytes
<1> HIDE DEF r, q
<1>4. /\ Len(q) = Len(r) + n /\ Len(w) \in Nat
      /\ \A i \in 1 .. Len(r) : q[i] = r[i]
      /\ \A i \in 1 .. n : q[Len(r) + i] = w[i]
  BY <1>1, <1>2, <1>3
<1>5. /\ x \in Seq(Byte) /\ Len(x) = Len(q) + Len(v)
      /\ \A i \in 1 .. Len(q) : x[i] = q[i]
      /\ \A i \in 1 .. Len(v) : x[Len(q) + i] = v[i] /\ Len(v) \in Nat
  BY <1>1, <1>3, ConcatOf
<1>6. /\ y \in Seq(Byte) /\ Len(y) = Len(r) + Len(w)
      /\ \A i \in 1 .. Len(r) : y[i] = r[i]
      /\ \A i \in 1 .. Len(w) : y[Len(r) + i] = w[i]
  BY <1>3, ConcatOf
<1> HIDE DEF x, y
<1>7. ASSUME NEW i \in 1 .. Len(y)
      PROVE  x[i] = y[i]
  <2>1. CASE i \in 1 .. Len(r)
    <3>1. i \in 1 .. Len(q)
      BY <1>3, <1>4, <2>1
    <3> QED
      BY <1>4, <1>5, <1>6, <2>1, <3>1
  <2>2. CASE i \in Len(r) + 1 .. Len(q)
    <3> DEFINE j == i - Len(r)
    <3>1. j \in 1 .. n /\ j \in 1 .. Len(w) /\ i = Len(r) + j /\ i \in 1 .. Len(q)
      BY <1>3, <1>4, <2>2
    <3> HIDE DEF j
    <3> QED
      BY <1>4, <1>5, <1>6, <3>1
  <2>3. CASE i \in Len(q) + 1 .. Len(y)
    <3> DEFINE j == i - Len(q)
    <3>0. /\ Len(v) = Len(w) - n /\ Len(y) = Len(r) + Len(w) /\ Len(q) = Len(r) + n
          /\ n \in Nat /\ Len(r) \in Nat /\ Len(w) \in Nat
      BY <1>1, <1>3, <1>4, <1>6
    <3>1. /\ j \in 1 .. Len(v) /\ i = Len(q) + j /\ j \in 1 .. Len(w) - n
          /\ n + j \in 1 .. Len(w) /\ i = Len(r) + (n + j)
      BY <2>3, <3>0
    <3>2. x[i] = v[j]
      BY <1>5, <3>1
    <3>3. v[j] = w[n + j]
      BY <1>1, <3>1
    <3>4. y[i] = w[n + j]
      BY <1>6, <3>1
    <3> HIDE DEF j
    <3> QED
      BY <3>2, <3>3, <3>4
  <2> QED
    BY <1>3, <1>4, <2>1, <2>2, <2>3
<1>8. Len(x) = Len(y)
  BY <1>1, <1>3, <1>4, <1>5, <1>6
<1>9. x = y
  BY <1>5, <1>6, <1>7, <1>8, SeqEqual
<1> QED
  BY <1>1, <1>2, <1>9 DEF x, y, q, r, a, v, data

(* What leaves the buffer leaves in front of everything unread.            *)
LEMMA DropLeavesEnd ==
  ASSUME NEW b, WellFormed(b), NEW w \in Seq(Byte), NEW a, NEW k, Drops(a, b, k)
  PROVE  Behind(Readable(a) \o w, Readable(b) \o w)
<1> DEFINE r == Readable(b)
           q == Readable(a)
           x == q \o w
           y == r \o w
<1>1. /\ WellFormed(a) /\ k \in 0 .. b.wr - b.rd /\ a.wr - a.rd = b.wr - b.rd - k
      /\ \A i \in 1 .. b.wr - b.rd - k : q[i] = r[k + i]
  BY DEF Drops
<1>2. /\ r \in Seq(Byte) /\ Len(r) = b.wr - b.rd /\ Len(r) \in Nat
      /\ q \in Seq(Byte) /\ Len(q) = a.wr - a.rd /\ Len(q) \in Nat
  BY <1>1, ReadableBytes
<1> HIDE DEF r, q
<1>3. /\ k \in Nat /\ Len(r) = k + Len(q)
      /\ \A i \in 1 .. Len(q) : q[i] = r[k + i]
  BY <1>1, <1>2
<1>4. /\ x \in Seq(Byte) /\ Len(x) = Len(q) + Len(w)
      /\ \A i \in 1 .. Len(q) : x[i] = q[i]
      /\ \A i \in 1 .. Len(w) : x[Len(q) + i] = w[i]
      /\ y \in Seq(Byte) /\ Len(y) = Len(r) + Len(w)
      /\ \A i \in 1 .. Len(r) : y[i] = r[i]
      /\ \A i \in 1 .. Len(w) : y[Len(r) + i] = w[i]
      /\ Len(w) \in Nat
  BY <1>2, ConcatOf
<1> HIDE DEF x, y
<1>5. k \in 0 .. Len(y) /\ Len(x) = Len(y) - k
  BY <1>2, <1>3, <1>4
<1>6. ASSUME NEW i \in 1 .. Len(x)
      PROVE  x[i] = y[k + i]
  <2>1. CASE i \in 1 .. Len(q)
    <3>1. k + i \in 1 .. Len(r)
      BY <1>2, <1>3, <2>1
    <3> QED
      BY <1>3, <1>4, <2>1, <3>1
  <2>2. CASE i \in Len(q) + 1 .. Len(x)
    <3> DEFINE j == i - Len(q)
    <3>1. j \in 1 .. Len(w) /\ i = Len(q) + j /\ k + i = Len(r) + j
      BY <1>2, <1>3, <1>4, <2>2
    <3> HIDE DEF j
    <3> QED
      BY <1>4, <3>1
  <2> QED
    BY <1>2, <1>4, <2>1, <2>2
<1>7. \A i \in 1 .. Len(y) - k : x[i] = y[k + i]
  BY <1>5, <1>6
<1>8. Behind(x, y)
  BY <1>5, <1>7 DEF Behind
<1> QED
  BY <1>8 DEF x, y, q, r

LEMMA BehindItself ==
  ASSUME NEW s \in Seq(Byte)
  PROVE  Behind(s, s)
BY DEF Behind

LEMMA BehindOwned ==
  ASSUME NEW s \in Seq(Byte), NEW v, NEW n, Owned(s, n), Behind(v, s)
  PROVE  Owned(v, n)
<1>1. PICK k \in 0 .. Len(s) :
        Len(v) = Len(s) - k /\ \A i \in 1 .. Len(s) - k : v[i] = s[k + i]
  BY DEF Behind
<1> SUFFICES ASSUME NEW i \in 1 .. Len(v)
             PROVE  v[i][1] \in 1 .. n
  BY DEF Owned
<1>2. k + i \in 1 .. Len(s) /\ i \in 1 .. Len(s) - k
  BY <1>1
<1> QED
  BY <1>1, <1>2 DEF Owned

(* onRead(): a segment, then what parse() may make of the buffer.          *)
LEMMA SegmentRead ==
  ASSUME Common, NEW n \in 1 .. Len(wire),
         NEW p \in Parse(AppendBytes(buf, SubSeq(wire, 1, n)))
  PROVE  LET w == SubSeq(wire, n + 1, Len(wire))
         IN  /\ w \in Seq(Byte) /\ WellFormed(p.left) /\ p.req \in Seq(Byte)
             /\ Behind(Readable(p.left) \o w, Readable(buf) \o wire)
<1> DEFINE w == SubSeq(wire, n + 1, Len(wire))
           a == AppendBytes(buf, SubSeq(wire, 1, n))
           s == Readable(a)
<1>1. /\ sent \in Seq(Requests) /\ wire \in Seq(Byte) /\ WellFormed(buf)
      /\ Owned(Readable(buf) \o wire, Len(sent))
  BY DEF Common, InvType, InvOwned
<1>2. WellFormed(a) /\ w \in Seq(Byte) /\ s \o w = Readable(buf) \o wire
  BY <1>1, SegmentMoves
<1> HIDE DEF w, a
<1>3. s \in Seq(Byte) /\ Len(s) = a.wr - a.rd
  BY <1>2, ReadableBytes
<1>4. Owned(s, Len(sent))
  <2>1. Owned(s \o w, Len(sent))
    BY <1>1, <1>2
  <2> HIDE DEF s
  <2>2. \A i \in 1 .. Len(s) : i \in 1 .. Len(s \o w) /\ (s \o w)[i] = s[i]
    BY <1>2, <1>3
  <2> QED
    BY <2>1, <2>2 DEF Owned
<1>5. PICK k \in 0 .. a.wr - a.rd :
        /\ Drops(p.left, a, k)
        /\ p.req = Incomplete \/ p.req = SubSeq(s, 1, k)
  BY <1>1, <1>2, <1>4, ParseOutcome DEF a
<1>6. p.req \in Seq(Byte)
  <2> HIDE DEF s
  <2>1. SubSeq(s, 1, k) \in Seq(Byte)
    BY <1>3
  <2>2. Incomplete \in Seq(Byte)
    BY DEF Incomplete
  <2> QED
    BY <1>5, <2>1, <2>2
<1>7. WellFormed(p.left) /\ Behind(Readable(p.left) \o w, s \o w)
  BY <1>2, <1>5, DropLeavesEnd DEF Drops
<1> QED
  BY <1>2, <1>6, <1>7 DEF w

LEMMA ReadPicks ==
  ASSUME Common, Read
  PROVE  \E n \in 1 .. Len(wire) :
           \E p \in Parse(AppendBytes(buf, SubSeq(wire, 1, n))) :
             /\ op = "reading"
             /\ wire' = SubSeq(wire, n + 1, Len(wire))
             /\ buf' = p.left
             /\ Handle(p)
             /\ UNCHANGED <<sent, client, replies>>
<1>1. PICK n \in 1 .. Shorter(Len(wire), ReadMax) : OnRead(n)
  BY DEF Read
<1>2. n \in 1 .. Len(wire)
  BY SizesAssumption DEF Shorter, Common, InvType
<1> QED
  BY <1>1, <1>2 DEF OnRead

(* A step takes unread bytes away in front, or a request comes behind them. *)
LEMMA UnreadStep ==
  ASSUME Common, [Next]_vars
  PROVE  \/ sent' = sent /\ Behind(Readable(buf') \o wire', Readable(buf) \o wire)
         \/ \E r \in Requests :
              /\ sent' = Append(sent, r)
              /\ Readable(buf') \o wire'
                   = (Readable(buf) \o wire) \o Bytes(Len(sent) + 1, r)
<1>1. /\ sent \in Seq(Requests) /\ wire \in Seq(Byte) /\ WellFormed(buf)
      /\ Readable(buf) \in Seq(Byte) /\ Readable(buf) \o wire \in Seq(Byte)
  BY ReadableBytes DEF Common, InvType
<1>2. ASSUME NEW r \in Requests, Send(r)
      PROVE  /\ sent' = Append(sent, r)
             /\ Readable(buf') \o wire'
                  = (Readable(buf) \o wire) \o Bytes(Len(sent) + 1, r)
  <2> DEFINE e == Bytes(Len(sent) + 1, r)
             s == Readable(buf)
  <2>1. Len(sent) + 1 \in Nat
    BY <1>1
  <2>2. e \in Seq(Byte)
    BY <2>1, BytesOf
  <2>3. sent' = Append(sent, r) /\ buf' = buf /\ wire' = wire \o e
    BY <1>2 DEF Send
  <2> HIDE DEF e, s
  <2>4. s \o (wire \o e) = (s \o wire) \o e
    BY <1>1, <2>2, ConcatAssociative DEF s
  <2> QED
    BY <2>3, <2>4 DEF s, e
<1>3. ASSUME Read
      PROVE  sent' = sent /\ Behind(Readable(buf') \o wire', Readable(buf) \o wire)
  BY <1>3, ReadPicks, SegmentRead
<1>4. ASSUME OnWrite
      PROVE  sent' = sent /\ Behind(Readable(buf') \o wire', Readable(buf) \o wire)
  <2>1. buf' = buf \/ buf' = RetrieveAll(buf)
    BY <1>4 DEF OnWrite
  <2>2. Behind(Readable(RetrieveAll(buf)) \o wire, Readable(buf) \o wire)
    <3> DEFINE k == buf.wr - buf.rd
    <3>1. k \in 0 .. k
      BY <1>1 DEF WellFormed
    <3>2. RetrieveAll(buf) = Retrieve(buf, k)
      BY <3>1 DEF Retrieve
    <3>3. Drops(RetrieveAll(buf), buf, k)
      BY <1>1, <3>1, <3>2, RetrieveDrops
    <3> QED
      BY <1>1, <3>3, DropLeavesEnd
  <2>3. sent' = sent /\ wire' = wire
    BY <1>4 DEF OnWrite
  <2> QED
    BY <1>1, <2>1, <2>2, <2>3, BehindItself
<1>5. ASSUME \/ Leave \/ OnReadError \/ Written \/ OnWriteError \/ Finished
             \/ UNCHANGED vars
      PROVE  sent' = sent /\ Behind(Readable(buf') \o wire', Readable(buf) \o wire)
  <2>1. sent' = sent /\ wire' = wire /\ buf' = buf
    BY <1>5 DEF Leave, OnReadError, Written, OnWriteError, Finished, vars
  <2> QED
    BY <1>1, <2>1, BehindItself
<1> QED
  BY <1>2, <1>3, <1>4, <1>5 DEF Next

-----------------------------------------------------------------------------
(* The steps of the connection.                                            *)

(* A response says whether to close, and only a number that is no int      *)
(* throws instead.                                                         *)
LEMMA ResponseTo ==
  ASSUME NEW r, NEW a \in Respond(r)
  PROVE  /\ a \in [status : Nat, close : BOOLEAN]
         /\ a.close = ~KeepAlive(r)
         /\ a.status = Throws => IdRoute(r) /\ ~r.fitsInt
<1> DEFINE S == IF r.method = "OPTIONS" THEN {200} ELSE HandleRequest(r)
<1>1. a \in [status : S, close : {~KeepAlive(r)}]
  BY DEF Respond
<1>2. (~KeepAlive(r)) \in BOOLEAN
  BY DEF KeepAlive
<1>3. S \subseteq Nat
  BY DEF HandleRequest, GetArticles, GetHotArticles, GetArticleDetail,
         GetComments, CreateComment, Throws
<1>4. Throws \in S => IdRoute(r) /\ ~r.fitsInt
  BY DEF HandleRequest, GetArticles, GetHotArticles, GetArticleDetail,
         GetComments, CreateComment, Throws
<1> HIDE DEF S
<1> QED
  BY <1>1, <1>2, <1>3, <1>4

(* Where the pieces are is a matter of the last request, not of later ones. *)
LEMMA SameRequests ==
  ASSUME sent' = sent
  PROVE  /\ AwaitsHeader(buf, wire)' <=> AwaitsHeader(buf', wire')
         /\ LostItsHeader(buf, wire)' <=> LostItsHeader(buf', wire')
         /\ FitsOneRequest(buf)' <=> FitsOneRequest(buf')
BY DEF AwaitsHeader, LostItsHeader, Waiting, Pieces, Readable, FitsOneRequest

LEMMA InitIInv == Init => IInv
<1> SUFFICES ASSUME Init
             PROVE  IInv
  OBVIOUS
<1>1. WellFormed(EmptyBuffer)
  <2> DEFINE c == [i \in 1 .. InitialSize |-> Blank]
  <2>1. c \in [1 .. InitialSize -> Byte]
    BY DEF Blank, Byte
  <2> HIDE DEF c
  <2>2. c \in Seq(Byte) /\ Len(c) = InitialSize
    BY <2>1, FunctionIsSeq, SizesAssumption
  <2>3. EmptyBuffer = [cells |-> c, rd |-> 0, wr |-> 0]
    BY DEF EmptyBuffer, c
  <2> QED
    BY <2>2, <2>3 DEF WellFormed
<1>2. Len(EmptyBuffer.cells) = InitialSize /\ EmptyBuffer.wr = 0 /\ EmptyBuffer.rd = 0
  BY SizesAssumption DEF EmptyBuffer
<1>3. InvType
  BY <1>1 DEF Init, InvType, Op, NoReply
<1>4. FitsOneRequest(buf)
  BY <1>2, SizesAssumption DEF Init, FitsOneRequest
<1>5. InvOwned
  <2>1. Readable(EmptyBuffer) \in Seq(Byte) /\ Len(Readable(EmptyBuffer)) = 0
    BY <1>1, <1>2, ReadableBytes
  <2>2. Len(Readable(buf) \o wire) = 0
    BY <2>1 DEF Init
  <2> QED
    BY <2>2 DEF InvOwned, Owned
<1>6. InvAnswers
  BY DEF Init, InvAnswers
<1>7. Core
  BY <1>2, <1>4
     DEF Init, Core, InvTurns, InvHandled, InvPieces, InvAnswered, InvReply,
         InvSize, InvReason
<1> QED
  BY <1>3, <1>5, <1>6, <1>7 DEF IInv, Common

(* Behind the requests of s come no or some more.                          *)
Grows(s, t) == Len(s) <= Len(t) /\ \A i \in 1 .. Len(s) : t[i] = s[i]

LEMMA AppendGrows ==
  ASSUME NEW S, NEW s \in Seq(S), NEW x \in S
  PROVE  /\ Append(s, x) \in Seq(S) /\ Len(Append(s, x)) = Len(s) + 1
         /\ Append(s, x)[Len(s) + 1] = x
         /\ Grows(s, Append(s, x)) /\ Grows(s, s)
BY DEF Grows

(* onRead() keeps the types.                                               *)
LEMMA ReadKeepsTypes ==
  ASSUME Common, Read
  PROVE  InvType' /\ InvAnswers' /\ Grows(handled, handled')
<1>1. /\ handled \in Seq(Seq(Byte)) /\ Len(handled) \in Nat /\ Len(replies) \in Nat
      /\ reply \in [status : Nat, close : BOOLEAN] /\ Len(replies) <= Len(handled)
  BY DEF Common, InvType, InvAnswers
<1>2. PICK n \in 1 .. Len(wire) :
        \E p \in Parse(AppendBytes(buf, SubSeq(wire, 1, n))) :
          /\ op = "reading"
          /\ wire' = SubSeq(wire, n + 1, Len(wire))
          /\ buf' = p.left
          /\ Handle(p)
          /\ UNCHANGED <<sent, client, replies>>
  BY ReadPicks
<1>3. PICK p \in Parse(AppendBytes(buf, SubSeq(wire, 1, n))) :
        /\ op = "reading"
        /\ wire' = SubSeq(wire, n + 1, Len(wire))
        /\ buf' = p.left
        /\ Handle(p)
        /\ UNCHANGED <<sent, client, replies>>
  BY <1>2
<1>4. wire' \in Seq(Byte) /\ WellFormed(buf') /\ p.req \in Seq(Byte)
  BY <1>3, SegmentRead
<1>5. CASE p.req = Incomplete
  <2>1. UNCHANGED <<op, reply, handled>>
    BY <1>3, <1>5 DEF Handle
  <2> QED
    BY <1>1, <1>3, <1>4, <2>1 DEF Common, InvType, InvAnswers, Grows
<1>6. CASE p.req # Incomplete
  <2>1. PICK a \in Respond(p.says) :
          /\ handled' = Append(handled, p.req)
          /\ IF a.status = Throws THEN op' = "gone" /\ UNCHANGED reply
                                  ELSE op' = "writing" /\ reply' = a
    BY <1>3, <1>6 DEF Handle
  <2>2. a \in [status : Nat, close : BOOLEAN]
    BY ResponseTo
  <2>3. /\ handled' \in Seq(Seq(Byte)) /\ Len(handled') = Len(handled) + 1
        /\ Grows(handled, handled')
    BY <1>1, <1>4, <2>1, AppendGrows
  <2>4. op' \in {"gone", "writing"} /\ reply' \in [status : Nat, close : BOOLEAN]
    BY <1>1, <2>1, <2>2
  <2>5. InvType'
    BY <1>3, <1>4, <2>3, <2>4 DEF Common, InvType, Op
  <2>6. InvAnswers'
    BY <1>1, <1>3, <2>3 DEF InvAnswers
  <2> QED
    BY <2>3, <2>5, <2>6
<1> QED
  BY <1>5, <1>6

(* Every step keeps the types, and what was sent and handled stays so.     *)
LEMMA StepKeepsTypes ==
  ASSUME Common, [Next]_vars
  PROVE  /\ InvType' /\ InvAnswers'
         /\ Grows(sent, sent') /\ Grows(handled, handled')
         /\ Len(replies) <= Len(replies')
<1>1. /\ sent \in Seq(Requests) /\ wire \in Seq(Byte) /\ handled \in Seq(Seq(Byte))
      /\ replies \in Seq(Nat) /\ WellFormed(buf)
      /\ reply \in [status : Nat, close : BOOLEAN]
      /\ Len(sent) \in Nat /\ Len(handled) \in Nat /\ Len(replies) \in Nat
  BY DEF Common, InvType
<1>2. Grows(sent, sent) /\ Grows(handled, handled) /\ Len(replies) <= Len(replies)
  BY <1>1 DEF Grows
<1>3. ASSUME NEW r \in Requests, Send(r)
      PROVE  /\ InvType' /\ InvAnswers'
             /\ Grows(sent, sent') /\ Grows(handled, handled')
             /\ Len(replies) <= Len(replies')
  <2>1. sent' \in Seq(Requests) /\ Grows(sent, sent')
    BY <1>1, <1>3, AppendGrows DEF Send
  <2>2. wire' \in Seq(Byte)
    <3>1. Len(sent) + 1 \in Nat
      BY <1>1
    <3>2. Bytes(Len(sent) + 1, r) \in Seq(Byte)
      BY <3>1, BytesOf
    <3> QED
      BY <1>1, <1>3, <3>2, ConcatProperties DEF Send
  <2>3. UNCHANGED <<client, op, buf, reply, handled, replies>>
    BY <1>3 DEF Send
  <2> QED
    BY <1>2, <2>1, <2>2, <2>3 DEF Common, InvType, InvAnswers
<1>4. CASE Read
  <2>1. UNCHANGED <<sent, replies>>
    BY <1>4 DEF Read, OnRead
  <2> QED
    BY <1>2, <1>4, <2>1, ReadKeepsTypes
<1>5. CASE Written
  <2>1. /\ UNCHANGED <<sent, wire, client, buf, reply, handled>>
        /\ op = "writing" /\ op' = "written"
        /\ replies' \in Seq(Nat) /\ Len(replies') = Len(replies) + 1
    BY <1>1, <1>5 DEF Written
  <2> QED
    BY <1>1, <1>2, <2>1 DEF Common, InvType, InvAnswers, Op
<1>6. CASE OnWrite
  <2>1. /\ UNCHANGED <<sent, wire, client, reply, handled, replies>>
        /\ op' \in {"reading", "gone"}
        /\ buf' = buf \/ buf' = RetrieveAll(buf)
    BY <1>6 DEF OnWrite
  <2>2. WellFormed(buf')
    BY <1>1, <2>1, RetrieveAllBytes
  <2> QED
    BY <1>2, <2>1, <2>2 DEF Common, InvType, InvAnswers, Op
<1>7. CASE Leave \/ OnReadError \/ OnWriteError \/ Finished \/ UNCHANGED vars
  <2>1. /\ UNCHANGED <<sent, wire, buf, reply, handled, replies>>
        /\ client' \in {client, "closed"} /\ op' \in {op, "gone"}
    BY <1>7 DEF Leave, OnReadError, OnWriteError, Finished, vars
  <2> QED
    BY <1>2, <2>1 DEF Common, InvType, InvAnswers, Op
<1> QED
  BY <1>3, <1>4, <1>5, <1>6, <1>7 DEF Next

LEMMA CommonStays ==
  ASSUME Common, [Next]_vars
  PROVE  Common'
<1> DEFINE u == Readable(buf) \o wire
           v == Readable(buf') \o wire'
<1>1. /\ sent \in Seq(Requests) /\ wire \in Seq(Byte) /\ WellFormed(buf)
      /\ Len(sent) \in Nat
  BY DEF Common, InvType
<1>2. InvType' /\ InvAnswers'
  BY StepKeepsTypes
<1>3. u \in Seq(Byte)
  BY <1>1, ReadableBytes
<1>4. Owned(u, Len(sent))
  BY DEF Common, InvOwned
<1>5. \/ sent' = sent /\ Behind(v, u)
      \/ \E r \in Requests :
           sent' = Append(sent, r) /\ v = u \o Bytes(Len(sent) + 1, r)
  BY UnreadStep
<1> HIDE DEF u, v
<1>6. CASE sent' = sent /\ Behind(v, u)
  <2>1. Owned(v, Len(sent'))
    BY <1>3, <1>4, <1>6, BehindOwned
  <2> QED
    BY <1>2, <2>1 DEF Common, InvOwned, v
<1>7. ASSUME NEW r \in Requests, sent' = Append(sent, r),
             v = u \o Bytes(Len(sent) + 1, r)
      PROVE  Common'
  <2> DEFINE n == Len(sent) + 1
             e == Bytes(n, r)
  <2>1. n \in Nat /\ Len(sent') = n /\ Len(sent) <= n
    BY <1>1, <1>7
  <2> HIDE DEF n
  <2>2. e \in Seq(Byte) /\ \A j \in 1 .. Len(e) : e[j] = <<n, j>>
    BY <2>1, BytesOf
  <2>3. v = u \o e
    BY <1>7 DEF n
  <2> HIDE DEF e
  <2>4. ASSUME NEW i \in 1 .. Len(v)
        PROVE  v[i][1] \in 1 .. n
    <3>1. CASE i \in 1 .. Len(u)
      <4>1. v[i] = u[i]
        BY <1>3, <2>2, <2>3, <3>1, ConcatOf
      <4>2. u[i][1] \in 1 .. Len(sent)
        BY <1>4, <3>1 DEF Owned
      <4> QED
        BY <1>1, <2>1, <4>1, <4>2
    <3>2. CASE i \notin 1 .. Len(u)
      <4>1. PICK j \in 1 .. Len(e) : i = Len(u) + j
        <5>1. Len(v) = Len(u) + Len(e) /\ Len(u) \in Nat /\ Len(e) \in Nat
          BY <1>3, <2>2, <2>3, ConcatOf
        <5>2. i - Len(u) \in 1 .. Len(e) /\ i = Len(u) + (i - Len(u))
          BY <3>2, <5>1
        <5> QED
          BY <5>2
      <4>2. v[i] = e[j]
        BY <1>3, <2>2, <2>3, <4>1, ConcatOf
      <4>3. v[i][1] = n /\ n \in 1 .. n
        <5>1. v[i] = <<n, j>>
          BY <2>2, <4>2
        <5>2. n # 0
          BY <1>1 DEF n
        <5> QED
          BY <2>1, <5>1, <5>2
      <4> QED
        BY <4>3
    <3> QED
      BY <3>1, <3>2
  <2>5. Owned(v, Len(sent'))
    BY <2>1, <2>4 DEF Owned
  <2> QED
    BY <1>2, <2>5 DEF Common, InvOwned, v
<1> QED
  BY <1>5, <1>6, <1>7

(* What went wrong stays in the history.                                   *)
LEMMA StaysDerailedAt ==
  ASSUME Common, [Next]_vars, NEW n \in Nat \ {0}, DerailedAt(n)
  PROVE  DerailedAt(n)'
<1>1. /\ Grows(sent, sent') /\ Grows(handled, handled') /\ Len(replies) <= Len(replies')
      /\ Len(sent) \in Nat /\ Len(handled) \in Nat /\ Len(replies) \in Nat
      /\ Len(sent') \in Nat /\ Len(handled') \in Nat /\ Len(replies') \in Nat
  BY StepKeepsTypes DEF Common, InvType
<1>2. /\ n <= Len(handled) /\ n <= Len(sent) /\ n <= Len(replies) + 1
      /\ \A m \in 1 .. n - 1 : handled[m] = Bytes(m, sent[m])
      /\ Mistaken(n, sent[n], handled[n])
  BY DEF DerailedAt
<1>3. n <= Len(handled') /\ n <= Len(sent') /\ n <= Len(replies') + 1
  BY <1>1, <1>2 DEF Grows
<1>4. \A m \in 1 .. n : handled'[m] = handled[m] /\ sent'[m] = sent[m]
  BY <1>1, <1>2 DEF Grows
<1>5. \A m \in 1 .. n - 1 : handled'[m] = Bytes(m, sent'[m])
  BY <1>2, <1>4
<1>6. Mistaken(n, sent'[n], handled'[n])
  BY <1>2, <1>4
<1> QED
  BY <1>3, <1>5, <1>6 DEF DerailedAt

LEMMA DerailedStays ==
  ASSUME Common, [Next]_vars, Derailed
  PROVE  Derailed'
<1>1. PICK n \in Nat \ {0} : DerailedAt(n)
  BY DEF Derailed
<1>2. DerailedAt(n)'
  BY <1>1, StaysDerailedAt
<1> QED
  BY <1>2 DEF Derailed

(* onRead() while all was well: a segment, then what parse() makes of it.  *)
LEMMA ParsedSegment ==
  ASSUME Common, Core, op = "reading", NEW n \in 1 .. Len(wire),
         NEW p \in Parse(AppendBytes(buf, SubSeq(wire, 1, n)))
  PROVE  LET w == SubSeq(wire, n + 1, Len(wire))
         IN  /\ Len(sent) > 0
             /\ Len(handled) = Len(sent) - 1
             /\ \/ FitsOneRequest(p.left) /\ ParsedRightly(p, w)
                \/ Mistaken(Len(sent), sent[Len(sent)], p.req)
             /\ AwaitsHeader(buf, wire) =>
                  ParsedRightly(p, w) /\ (w = << >> => p.req # Incomplete)
<1> DEFINE data == SubSeq(wire, 1, n)
           w == SubSeq(wire, n + 1, Len(wire))
           a == AppendBytes(buf, data)
           r == sent[Len(sent)]
<1>1. /\ sent \in Seq(Requests) /\ wire \in Seq(Byte) /\ WellFormed(buf)
      /\ Len(sent) \in Nat /\ Len(handled) \in Nat /\ Len(replies) \in Nat
      /\ Owned(Readable(buf) \o wire, Len(sent))
  BY DEF Common, InvType, InvOwned
<1>2. wire # << >>
  OBVIOUS
<1>3. Len(handled) # Len(sent)
      /\ (AwaitsHeader(buf, wire) \/ LostItsHeader(buf, wire))
  BY <1>2 DEF Core, InvPieces
<1>4. Len(sent) > 0 /\ Len(handled) = Len(sent) - 1
  BY <1>1, <1>3 DEF Core, InvTurns
<1>5. /\ r.head \in Nat \ {0} /\ r.body \in Nat
      /\ Size(r) \in Nat /\ Size(r) = r.head + r.body
      /\ DOMAIN r.blank \subseteq r.head + 1 .. r.head + r.body
  BY <1>1, <1>4, LastRequest
<1>6. /\ data \in Seq(Byte) /\ Len(data) = n
      /\ w \in Seq(Byte)
  BY <1>1, SegmentTaken
<1>7. /\ WellFormed(a)
      /\ a.rd <= buf.rd
      /\ Len(a.cells) \in {Len(buf.cells), buf.wr + Len(data)}
  <2> HIDE DEF data
  <2> QED
    BY <1>1, <1>6, AppendedBytes
<1>8. ASSUME NEW k \in Nat, Waiting(buf, wire, k), buf.rd <= k
      PROVE  /\ Waiting(a, w, k) /\ a.rd <= k /\ buf.wr + n <= Size(r)
  <2>1. Waiting(a, w, k)
    BY <1>1, <1>8, SegmentKeepsWaiting
  <2>2. a.rd <= k
    BY <1>1, <1>7, <1>8 DEF WellFormed
  <2>3. Len(Readable(buf)) = buf.wr - buf.rd /\ buf.wr \in Nat /\ buf.rd \in Nat
    BY <1>1, ReadableBytes DEF WellFormed
  <2>4. k + Len(Readable(buf)) + Len(wire) = Size(r)
    BY <1>8 DEF Waiting
  <2>5. buf.wr + n <= Size(r)
    <3> DEFINE z == Size(r)
    <3>1. z \in Nat /\ k + (buf.wr - buf.rd) + Len(wire) = z
      BY <1>5, <2>3, <2>4
    <3>2. Len(wire) \in Nat /\ n <= Len(wire)
      BY <1>1
    <3> HIDE DEF z
    <3>3. buf.wr + n <= z
      BY <1>8, <2>3, <3>1, <3>2
    <3> QED
      BY <3>3 DEF z
  <2> QED
    BY <2>1, <2>2, <2>5
<1>9. AwaitsHeader(buf, wire) => Waiting(a, w, 0) /\ a.rd = 0
  <2> SUFFICES ASSUME AwaitsHeader(buf, wire)
               PROVE  Waiting(a, w, 0) /\ a.rd = 0
    OBVIOUS
  <2>1. Waiting(buf, wire, 0) /\ buf.rd <= 0 /\ 0 \in Nat
    BY DEF AwaitsHeader
  <2>2. Waiting(a, w, 0) /\ a.rd <= 0
    BY <1>8, <2>1
  <2> QED
    BY <1>7, <2>2 DEF WellFormed
<1>10. ASSUME LostItsHeader(buf, wire)
       PROVE  /\ LostItsHeader(a, w)
              /\ \E k \in Nat : k > 0 /\ Waiting(buf, wire, k) /\ buf.rd <= k
  <2>1. PICK k \in {r.head} \cup DOMAIN r.blank : Waiting(buf, wire, k) /\ buf.rd <= k
    BY <1>10 DEF LostItsHeader
  <2>2. k \in Nat /\ k > 0
    BY <1>5, <2>1
  <2>3. Waiting(a, w, k) /\ a.rd <= k
    BY <1>8, <2>1, <2>2
  <2>4. r.body > 0
    BY <1>10 DEF LostItsHeader
  <2> QED
    BY <2>1, <2>2, <2>3, <2>4 DEF LostItsHeader
<1>11. FitsOneRequest(a)
  <2>1. \E k \in Nat : Waiting(buf, wire, k) /\ buf.rd <= k
    <3>1. CASE AwaitsHeader(buf, wire)
      <4>1. Waiting(buf, wire, 0) /\ buf.rd <= 0 /\ 0 \in Nat
        BY <3>1 DEF AwaitsHeader
      <4> QED
        BY <4>1
    <3>2. CASE LostItsHeader(buf, wire)
      BY <1>10, <3>2
    <3> QED
      BY <1>3, <3>1, <3>2
  <2>2. buf.wr + n <= Size(r)
    BY <1>8, <2>1
  <2>3. Len(a.cells) = Len(buf.cells) \/ Len(a.cells) <= Size(r)
    BY <1>6, <1>7, <2>2
  <2>4. Len(sent) \in DOMAIN sent
    BY <1>1, <1>4
  <2>5. FitsOneRequest(buf)
    BY DEF Core, InvSize
  <2> HIDE DEF a
  <2> QED
    BY <2>3, <2>4, <2>5 DEF FitsOneRequest
<1>12. FitsOneRequest(p.left)
  <2>1. Owned(Readable(a), Len(sent))
    <3>1. Readable(a) \o w = Readable(buf) \o wire
      BY <1>1, SegmentMoves
    <3> DEFINE s == Readable(a)
    <3>2. s \in Seq(Byte)
      BY <1>7, ReadableBytes
    <3>3. Owned(s \o w, Len(sent))
      BY <1>1, <3>1
    <3> HIDE DEF s, w
    <3>4. \A i \in 1 .. Len(s) : i \in 1 .. Len(s \o w) /\ (s \o w)[i] = s[i]
      BY <1>6, <3>2, ConcatOf
    <3>5. Owned(s, Len(sent))
      BY <3>3, <3>4 DEF Owned
    <3> QED
      BY <3>5 DEF s
  <2>2. p.left.cells = a.cells
    BY <1>1, <1>7, <2>1, ParseOutcome DEF Drops
  <2> HIDE DEF a
  <2> QED
    BY <1>11, <2>2 DEF FitsOneRequest
<1> HIDE DEF a, w, r
<1>13. CASE AwaitsHeader(buf, wire)
  <2>1. ParsedRightly(p, w) /\ (w = << >> => p.req # Incomplete)
    BY <1>1, <1>4, <1>6, <1>7, <1>9, <1>13, ParseFromHeader DEF a
  <2> QED
    BY <1>4, <1>12, <2>1 DEF w
<1>14. CASE LostItsHeader(buf, wire)
  <2>1. \/ p.req = Incomplete /\ LostItsHeader(p.left, w)
        \/ Mistaken(Len(sent), sent[Len(sent)], p.req)
    BY <1>1, <1>4, <1>6, <1>7, <1>10, <1>14, ParseBehindLostHeader DEF a
  <2>2. ~AwaitsHeader(buf, wire)
    <3>1. PICK k \in Nat : k > 0 /\ Waiting(buf, wire, k)
      BY <1>10, <1>14
    <3>2. Len(Readable(buf)) \in Nat /\ Len(wire) \in Nat
      BY <1>1, ReadableBytes
    <3>3. k + Len(Readable(buf)) + Len(wire) = Size(sent[Len(sent)])
      BY <3>1 DEF Waiting
    <3>4. AwaitsHeader(buf, wire) =>
            0 + Len(Readable(buf)) + Len(wire) = Size(sent[Len(sent)])
      BY DEF AwaitsHeader, Waiting
    <3> QED
      BY <3>1, <3>2, <3>3, <3>4
  <2> QED
    BY <1>4, <1>12, <2>1, <2>2 DEF ParsedRightly, w
<1> QED
  BY <1>3, <1>13, <1>14

LEMMA SendKeepsCore ==
  ASSUME Common, Core, NEW r \in Requests, Send(r)
  PROVE  Core'
<1>1. /\ sent \in Seq(Requests) /\ wire \in Seq(Byte) /\ WellFormed(buf)
      /\ Len(sent) \in Nat /\ Len(handled) \in Nat /\ Len(replies) \in Nat
  BY DEF Common, InvType
<1>2. /\ sent' \in Seq(Requests) /\ Len(sent') = Len(sent) + 1
      /\ sent'[Len(sent')] = r
      /\ \A i \in 1 .. Len(sent) : sent'[i] = sent[i]
  BY <1>1, AppendGrows DEF Send, Grows
<1>3. Len(replies) = Len(sent) /\ Len(handled) = Len(sent)
  BY <1>1 DEF Send, Core, InvTurns
<1>4. wire = << >> /\ buf.wr = 0 /\ buf.rd = 0
  BY <1>1, <1>3 DEF Core, InvPieces, WellFormed
<1>5. /\ wire' = Bytes(Len(sent'), r)
      /\ Len(wire') = Size(r)
      /\ \A j \in 1 .. Size(r) : wire'[j] = <<Len(sent'), j>>
  <2>1. wire' = wire \o Bytes(Len(sent) + 1, r)
    BY DEF Send
  <2>2. Bytes(Len(sent) + 1, r) \in Seq(Byte)
    BY <1>1, BytesOf
  <2>3. wire' = Bytes(Len(sent) + 1, r)
    BY <1>4, <2>1, <2>2
  <2> QED
    BY <1>1, <1>2, <2>3, BytesOf
<1>6. InvTurns'
  BY <1>1, <1>2, <1>3 DEF Send, Core, InvTurns
<1>7. InvHandled'
  BY <1>1, <1>2, <1>3 DEF Send, Core, InvHandled
<1>8. InvPieces'
  <2>1. Len(Readable(buf)) = 0
    BY <1>1, <1>4, ReadableBytes
  <2>2. Size(r) \in Nat /\ r.head \in Nat \ {0}
    BY RequestTypes
  <2>3. Waiting(buf, wire, 0)'
    <3>1. Len(Readable(buf')) = 0
      BY <2>1 DEF Send
    <3>2. Pieces(Readable(buf'), Len(sent'), 0)
      BY <3>1 DEF Pieces
    <3>3. \A i \in 1 .. Len(wire') : wire'[i] = <<Len(sent'), 0 + 0 + i>>
      BY <1>5, <2>2
    <3>4. 0 + 0 + Len(wire') = Size(sent'[Len(sent')])
      BY <1>2, <1>5, <2>2
    <3> QED
      BY <3>1, <3>2, <3>3, <3>4 DEF Waiting, Pieces, Readable
  <2>4. AwaitsHeader(buf, wire)'
    BY <1>2, <1>4, <2>1, <2>2, <2>3 DEF AwaitsHeader, Send, Readable
  <2>5. Len(handled') # Len(sent')
    BY <1>1, <1>2, <1>3 DEF Send
  <2> QED
    BY <2>4, <2>5 DEF InvPieces
<1>9. InvAnswered' /\ InvReply'
  BY <1>1, <1>2, <1>3 DEF Send, Core, InvAnswered, InvReply, InvTurns
<1>10. InvSize'
  <2>1. DOMAIN sent \subseteq DOMAIN sent' /\ \A n \in DOMAIN sent : sent'[n] = sent[n]
    BY <1>1, <1>2
  <2> QED
    BY <2>1 DEF Send, Core, InvSize, FitsOneRequest
<1>11. InvReason'
  BY DEF Send, InvReason
<1> QED
  BY <1>6, <1>7, <1>8, <1>9, <1>10, <1>11 DEF Core

(* What onRead() hands on is the request whose turn it is, or a part of    *)
(* its body.                                                               *)
LEMMA ReadKeepsCore ==
  ASSUME Common, Core, Read
  PROVE  Core' \/ Derailed'
<1>1. /\ sent \in Seq(Requests) /\ wire \in Seq(Byte)
      /\ Len(sent) \in Nat /\ Len(handled) \in Nat /\ Len(replies) \in Nat
      /\ handled \in Seq(Seq(Byte))
  BY DEF Common, InvType
<1>2. PICK n \in 1 .. Len(wire) :
        \E p \in Parse(AppendBytes(buf, SubSeq(wire, 1, n))) :
          /\ op = "reading"
          /\ wire' = SubSeq(wire, n + 1, Len(wire))
          /\ buf' = p.left
          /\ Handle(p)
          /\ UNCHANGED <<sent, client, replies>>
  BY ReadPicks
<1>3. PICK p \in Parse(AppendBytes(buf, SubSeq(wire, 1, n))) :
        /\ op = "reading"
        /\ wire' = SubSeq(wire, n + 1, Len(wire))
        /\ buf' = p.left
        /\ Handle(p)
        /\ UNCHANGED <<sent, client, replies>>
  BY <1>2
<1>4. /\ Len(sent) > 0
      /\ Len(handled) = Len(sent) - 1
      /\ \/ FitsOneRequest(buf') /\ ParsedRightly(p, wire')
         \/ Mistaken(Len(sent), sent[Len(sent)], p.req)
  BY <1>3, ParsedSegment
<1>5. Len(handled) = Len(replies)
  BY <1>3 DEF Core, InvTurns
<1> DEFINE N == Len(sent)
           r == sent[Len(sent)]
<1>6. r \in Requests /\ Bytes(N, r) # Incomplete
  BY <1>1, <1>4, LastRequest, BytesOf
<1>7. p.req \in Seq(Byte)
  BY <1>3, SegmentRead
<1>8. CASE /\ p.req = Incomplete /\ FitsOneRequest(buf')
           /\ AwaitsHeader(buf', wire') \/ LostItsHeader(buf', wire')
  <2>1. UNCHANGED <<op, reply, handled, sent, client, replies>>
    BY <1>3, <1>8 DEF Handle
  <2>2. InvTurns'
    BY <2>1 DEF Core, InvTurns
  <2>3. InvHandled'
    BY <2>1 DEF Core, InvHandled
  <2>4. InvPieces' /\ InvSize'
    BY <1>1, <1>4, <1>8, <2>1, SameRequests DEF InvPieces, InvSize
  <2>5. InvAnswered' /\ InvReply' /\ InvReason'
    BY <1>3, <2>1 DEF InvAnswered, InvReply, InvReason
  <2> QED
    BY <2>2, <2>3, <2>4, <2>5 DEF Core
<1>9. ASSUME p.req # Incomplete
      PROVE  /\ Len(handled') = N
             /\ handled'[N] = p.req
             /\ \A i \in 1 .. Len(handled) : handled'[i] = handled[i]
             /\ \E a \in Respond(p.says) :
                  IF a.status = Throws THEN op' = "gone" /\ UNCHANGED reply
                                       ELSE op' = "writing" /\ reply' = a
  <2>1. /\ handled' = Append(handled, p.req)
        /\ \E a \in Respond(p.says) :
             IF a.status = Throws THEN op' = "gone" /\ UNCHANGED reply
                                  ELSE op' = "writing" /\ reply' = a
    BY <1>3, <1>9 DEF Handle
  <2>2. /\ Len(handled') = Len(handled) + 1 /\ handled'[Len(handled) + 1] = p.req
        /\ Grows(handled, handled')
    BY <1>1, <1>7, <2>1, AppendGrows
  <2> QED
    BY <1>1, <1>4, <2>1, <2>2 DEF Grows
<1>10. CASE /\ p.req = Bytes(N, r) /\ p.says = r /\ FitsOneRequest(buf')
            /\ wire' = << >> /\ buf'.wr = 0
  <2>1. PICK a \in Respond(r) :
          IF a.status = Throws THEN op' = "gone" /\ UNCHANGED reply
                               ELSE op' = "writing" /\ reply' = a
    BY <1>6, <1>9, <1>10
  <2>2. /\ a \in [status : Nat, close : BOOLEAN]
        /\ a.close = ~KeepAlive(r)
        /\ a.status = Throws => IdRoute(r) /\ ~r.fitsInt
    BY ResponseTo
  <2>3. /\ Len(handled') = N /\ handled'[N] = Bytes(N, r)
        /\ \A i \in 1 .. Len(handled) : handled'[i] = handled[i]
    BY <1>6, <1>9, <1>10
  <2> HIDE DEF r
  <2>4. op' \in {"gone", "writing"}
    BY <2>1
  <2>5. InvTurns'
    BY <1>1, <1>3, <1>4, <1>5, <2>3, <2>4 DEF InvTurns
  <2>6. InvHandled'
    <3>1. \A i \in 1 .. Len(handled) : handled'[i] = Bytes(i, sent[i])
      BY <2>3 DEF Core, InvHandled
    <3>2. \A i \in 1 .. N : i = N \/ i \in 1 .. Len(handled)
      BY <1>1, <1>4
    <3> QED
      BY <1>3, <2>3, <3>1, <3>2 DEF InvHandled, r
  <2>7. InvPieces' /\ InvAnswered'
    BY <1>3, <1>10, <2>3 DEF InvPieces, InvAnswered
  <2>8. InvReply'
    BY <1>3, <2>1, <2>2, <2>3 DEF InvReply, r
  <2>9. InvSize'
    BY <1>3, <1>10, SameRequests DEF InvSize
  <2>10. InvReason'
    BY <1>1, <1>3, <1>4, <1>5, <2>1, <2>2, <2>3 DEF InvReason, r
  <2> QED
    BY <2>5, <2>6, <2>7, <2>8, <2>9, <2>10 DEF Core
<1>11. CASE Mistaken(N, r, p.req)
  <2>1. p.req # Incomplete
    BY <1>11 DEF Mistaken, Incomplete
  <2>2. /\ Len(handled') = N /\ handled'[N] = p.req
        /\ \A i \in 1 .. Len(handled) : handled'[i] = handled[i]
    BY <1>9, <2>1
  <2>3. PICK M \in Nat \ {0} : M = Len(sent)
    BY <1>1, <1>4
  <2>4. \A m \in 1 .. M - 1 : handled'[m] = Bytes(m, sent[m])
    BY <1>4, <2>2, <2>3 DEF Core, InvHandled
  <2>5. sent' = sent /\ replies' = replies /\ M <= Len(replies) + 1
    BY <1>1, <1>3, <1>4, <1>5, <2>3
  <2>6. M <= Len(sent) /\ M <= Len(handled')
    BY <2>2, <2>3
  <2>7. Mistaken(M, sent[M], handled'[M])
    BY <1>11, <2>2, <2>3
  <2>8. DerailedAt(M)'
    BY <2>4, <2>5, <2>6, <2>7 DEF DerailedAt
  <2> QED
    BY <2>8 DEF Derailed
<1> QED
  BY <1>3, <1>4, <1>8, <1>10, <1>11 DEF ParsedRightly

(* The response was taken by the kernel: the client may ask again.         *)
LEMMA WrittenKeepsCore ==
  ASSUME Common, Core, Written
  PROVE  Core'
<1>1. UNCHANGED <<sent, wire, client, buf, reply, handled>>
  BY DEF Written
<1>2. /\ Len(replies') = Len(replies) + 1
      /\ Len(replies) \in Nat /\ Len(handled) \in Nat /\ Len(sent) \in Nat
  BY DEF Written, Common, InvType
<1>3. InvTurns'
  BY <1>1, <1>2 DEF Written, Core, InvTurns
<1>4. InvHandled'
  BY <1>1 DEF Core, InvHandled
<1>5. InvPieces' /\ InvSize'
  BY <1>1, SameRequests DEF Core, InvPieces, InvSize
<1>6. InvAnswered' /\ InvReply' /\ InvReason'
  BY <1>1 DEF Written, Core, InvAnswered, InvReply, InvReason
<1> QED
  BY <1>3, <1>4, <1>5, <1>6 DEF Core

(* onWrite(): the buffer it empties, or leaves behind, is empty already.   *)
LEMMA OnWriteKeepsCore ==
  ASSUME Common, Core, OnWrite
  PROVE  Core'
<1>1. /\ UNCHANGED <<sent, wire, client, reply, handled, replies>>
      /\ op = "written" /\ op' \in {"reading", "gone"}
      /\ op' = "gone" => reply.close
      /\ buf' = buf \/ buf' = RetrieveAll(buf)
  BY DEF OnWrite
<1>2. buf.wr = 0 /\ buf.rd = 0 /\ WellFormed(buf) /\ sent \in Seq(Requests)
  BY <1>1 DEF Common, Core, InvAnswered, InvType, WellFormed
<1>3. buf' = buf
  <2>1. [buf EXCEPT !.rd = 0, !.wr = 0] = buf
    BY <1>2 DEF WellFormed
  <2> QED
    BY <1>1, <2>1 DEF RetrieveAll
<1>4. InvTurns'
  BY <1>1 DEF Core, InvTurns
<1>5. InvHandled'
  BY <1>1 DEF Core, InvHandled
<1>6. InvPieces' /\ InvSize'
  BY <1>1, <1>3, SameRequests DEF Core, InvPieces, InvSize
<1>7. InvAnswered' /\ InvReply'
  BY <1>1 DEF InvAnswered, InvReply
<1>8. InvReason'
  <2>1. Len(handled) > 0 /\ Len(replies) = Len(handled)
    BY <1>1 DEF Core, InvTurns
  <2>2. reply.close = ~KeepAlive(sent[Len(handled)])
    BY <1>1 DEF Core, InvReply
  <2> QED
    BY <1>1, <2>1, <2>2 DEF InvReason, KeepAlive
<1> QED
  BY <1>4, <1>5, <1>6, <1>7, <1>8 DEF Core

(* The client leaves, and the session may notice: nothing else moves.      *)
LEMMA LeavingKeepsCore ==
  ASSUME Core, UNCHANGED <<sent, wire, buf, reply, handled, replies>>,
         client' = "closed", op' = op \/ op' = "gone"
  PROVE  Core'
<1>1. InvTurns'
  BY DEF Core, InvTurns
<1>2. InvHandled'
  BY DEF Core, InvHandled
<1>3. InvPieces' /\ InvSize'
  BY SameRequests DEF Core, InvPieces, InvSize
<1>4. InvAnswered' /\ InvReply' /\ InvReason'
  BY DEF Core, InvAnswered, InvReply, InvReason
<1> QED
  BY <1>1, <1>2, <1>3, <1>4 DEF Core

LEMMA StutterKeepsCore ==
  ASSUME Core, UNCHANGED vars
  PROVE  Core'
<1>1. UNCHANGED <<sent, wire, client, op, buf, reply, handled, replies>>
  BY DEF vars
<1>2. InvTurns'
  BY <1>1 DEF Core, InvTurns
<1>3. InvHandled'
  BY <1>1 DEF Core, InvHandled
<1>4. InvPieces' /\ InvSize'
  BY <1>1, SameRequests DEF Core, InvPieces, InvSize
<1>5. InvAnswered' /\ InvReply' /\ InvReason'
  BY <1>1 DEF Core, InvAnswered, InvReply, InvReason
<1> QED
  BY <1>2, <1>3, <1>4, <1>5 DEF Core

LEMMA StepKeepsIInv ==
  ASSUME IInv, [Next]_vars
  PROVE  IInv'
<1>1. Common /\ Common'
  BY CommonStays DEF IInv
<1>2. CASE Derailed
  BY <1>1, <1>2, DerailedStays DEF IInv
<1>3. CASE Core
  <2> SUFFICES Core' \/ Derailed'
    BY <1>1 DEF IInv
  <2>1. ASSUME NEW r \in Requests, Send(r)
        PROVE  Core'
    BY <1>1, <1>3, <2>1, SendKeepsCore
  <2>2. CASE Leave
    BY <1>3, <2>2, LeavingKeepsCore DEF Leave
  <2>3. CASE Read
    BY <1>1, <1>3, <2>3, ReadKeepsCore
  <2>4. CASE OnReadError
    BY <1>3, <2>4, LeavingKeepsCore DEF OnReadError
  <2>5. CASE Written
    BY <1>1, <1>3, <2>5, WrittenKeepsCore
  <2>6. CASE OnWrite
    BY <1>1, <1>3, <2>6, OnWriteKeepsCore
  <2>7. CASE OnWriteError
    BY <1>3, <2>7, LeavingKeepsCore DEF OnWriteError
  <2>8. CASE Finished
    BY <1>3, <2>8, StutterKeepsCore DEF Finished
  <2>9. CASE UNCHANGED vars
    BY <1>3, <2>9, StutterKeepsCore
  <2> QED
    BY <2>1, <2>2, <2>3, <2>4, <2>5, <2>6, <2>7, <2>8, <2>9 DEF Next
<1> QED
  BY <1>2, <1>3 DEF IInv

(* All is well, or a part of a body was once taken for a request: this is  *)
(* an inductive invariant.                                                 *)
THEOREM Invariance == Spec => []IInv
BY InitIInv, StepKeepsIInv, PTL DEF Spec

-----------------------------------------------------------------------------
(* The properties of the runs.                                             *)

LEMMA MaxIs ==
  ASSUME NEW S \in SUBSET Nat, NEW m \in S, \A x \in S : x <= m
  PROVE  Max(S) = m
<1>1. m \in Nat /\ \A x \in S : m >= x
  OBVIOUS
<1>2. ASSUME NEW y \in S, \A x \in S : y >= x
      PROVE  y = m
  BY <1>1, <1>2
<1> QED
  BY <1>1, <1>2 DEF Max

(* While all is well everything handled is genuine.                        *)
LEMMA CoreIsGenuine ==
  ASSUME Common, Core
  PROVE  Genuine = Len(handled) /\ ~Astray
<1> DEFINE N == Len(handled)
           S == {m \in 0 .. N : \A n \in 1 .. m : handled[n][1] = <<n, 1>>}
<1>1. sent \in Seq(Requests) /\ N \in Nat /\ Len(sent) \in Nat /\ N <= Len(sent)
  BY DEF Common, InvType, Core, InvTurns
<1>2. ASSUME NEW n \in 1 .. N
      PROVE  handled[n][1] = <<n, 1>>
  <2>1. handled[n] = Bytes(n, sent[n]) /\ n \in Nat
    BY <1>1 DEF Core, InvHandled
  <2>2. sent[n] \in Requests
    BY <1>1, ElementOfSeq
  <2> QED
    BY <2>1, <2>2, BytesOf
<1>3. S \subseteq Nat /\ N \in S /\ \A x \in S : x <= N
  BY <1>1, <1>2
<1>4. Genuine = Max(S)
  BY DEF Genuine
<1> HIDE DEF S
<1>5. Genuine = N
  BY <1>3, <1>4, MaxIs
<1> QED
  BY <1>1, <1>5 DEF Astray

(* What is genuine ends before the first mistake.                          *)
LEMMA DerailedIsAstray ==
  ASSUME Common, NEW k \in Nat \ {0}, DerailedAt(k)
  PROVE  Genuine = k - 1 /\ Astray
<1> DEFINE N == Len(handled)
           S == {m \in 0 .. N : \A n \in 1 .. m : handled[n][1] = <<n, 1>>}
<1>1. /\ sent \in Seq(Requests) /\ N \in Nat /\ Len(sent) \in Nat
      /\ k <= N /\ k <= Len(sent) /\ k - 1 \in Nat
  BY DEF Common, InvType, DerailedAt
<1>2. ASSUME NEW n \in 1 .. k - 1
      PROVE  handled[n][1] = <<n, 1>>
  <2>1. handled[n] = Bytes(n, sent[n]) /\ n \in Nat
    BY <1>1 DEF DerailedAt
  <2>2. sent[n] \in Requests
    BY <1>1, ElementOfSeq
  <2> QED
    BY <2>1, <2>2, BytesOf
<1>3. handled[k][1] # <<k, 1>>
  <2>1. sent[k] \in Requests
    BY <1>1, ElementOfSeq
  <2>2. sent[k].head \in Nat \ {0}
    BY <2>1, RequestTypes
  <2>3. handled[k][1][2] > sent[k].head
    BY DEF DerailedAt, Mistaken
  <2> QED
    BY <2>2, <2>3
<1>4. S \subseteq Nat /\ k - 1 \in S
  BY <1>1, <1>2
<1>5. \A x \in S : x <= k - 1
  <2> SUFFICES ASSUME NEW x \in S, x >= k
               PROVE  FALSE
    BY <1>1
  <2>1. k \in 1 .. x
    BY <1>1
  <2> QED
    BY <1>3, <2>1
<1>6. Genuine = Max(S)
  BY DEF Genuine
<1> HIDE DEF S
<1>7. Genuine = k - 1
  BY <1>4, <1>5, <1>6, MaxIs
<1> QED
  BY <1>1, <1>7 DEF Astray

LEMMA NotAstrayIsCore ==
  ASSUME IInv, ~Astray
  PROVE  Common /\ Core
BY DerailedIsAstray DEF IInv, Derailed

LEMMA IInvTypeOK == IInv => TypeOK
<1> SUFFICES ASSUME IInv
             PROVE  TypeOK
  OBVIOUS
<1> DEFINE u == Readable(buf)
<1>1. /\ sent \in Seq(Requests) /\ wire \in Seq(Byte) /\ WellFormed(buf)
      /\ Len(sent) \in Nat /\ Len(replies) <= Len(handled)
      /\ Owned(u \o wire, Len(sent))
  BY DEF IInv, Common, InvType, InvOwned, InvAnswers
<1>2. u \in Seq(Byte)
  BY <1>1, ReadableBytes
<1> HIDE DEF u
<1>3. \A i \in DOMAIN wire : wire[i][1] \in DOMAIN sent
  <2> SUFFICES ASSUME NEW i \in 1 .. Len(wire)
               PROVE  wire[i][1] \in 1 .. Len(sent)
    BY <1>1
  <2>1. (u \o wire)[Len(u) + i] = wire[i] /\ Len(u \o wire) = Len(u) + Len(wire)
        /\ Len(u) \in Nat /\ Len(wire) \in Nat
    BY <1>1, <1>2, ConcatOf
  <2>2. Len(u) + i \in 1 .. Len(u \o wire)
    BY <2>1
  <2> QED
    BY <1>1, <2>1, <2>2 DEF Owned
<1>4. buf.rd \in 0 .. buf.wr /\ buf.wr \in 0 .. Len(buf.cells)
  BY <1>1 DEF WellFormed
<1> QED
  BY <1>1, <1>3, <1>4 DEF TypeOK, IInv, Common, InvType

\* The types of the session, its buffer and the stream.
THEOREM TypeCorrect == Spec => []TypeOK
BY Invariance, IInvTypeOK, PTL

\* onWrite() finds nothing to throw away: with a client that waits for its
\* response, the buffer is empty from the end of parse() on, unless a part of a
\* body was taken for a request.
THEOREM NothingIsDiscarded == Spec => []NothingDiscardedAfterResponse
<1>1. IInv => NothingDiscardedAfterResponse
  <2> SUFFICES ASSUME IInv, ~Astray, op \in {"writing", "written"}
               PROVE  Readable(buf) = << >>
    BY DEF NothingDiscardedAfterResponse
  <2>1. Common /\ Core
    BY NotAstrayIsCore
  <2>2. buf.wr = 0 /\ buf.rd = 0 /\ WellFormed(buf)
    BY <2>1 DEF Common, Core, InvAnswered, InvType, WellFormed
  <2>3. Readable(buf) \in Seq(Byte) /\ Len(Readable(buf)) = 0
    BY <2>2, ReadableBytes
  <2> QED
    BY <2>3, EmptySeq
<1> QED
  BY <1>1, Invariance, PTL

\* What arrived whole and stays unhandled had its body split from its header.
\* What is left of it is some of the body, or nothing, when it ends with a blank
\* line.
THEOREM LostBodiesWereSplit == Spec => []OnlySplitBodiesAreLost
<1>1. IInv => OnlySplitBodiesAreLost
  <2> DEFINE n == Len(sent)
             r == sent[n]
             u == Readable(buf)
  <2> SUFFICES ASSUME IInv, ~Astray, op = "reading", wire = << >>, Len(handled) < n
               PROVE  /\ Len(handled) = n - 1
                      /\ r.body > 0
                      /\ IF u = << >> THEN r.head + r.body \in DOMAIN r.blank
                         ELSE u[1][1] = n /\ u[1][2] > r.head
    BY DEF OnlySplitBodiesAreLost
  <2>1. Common /\ Core
    BY NotAstrayIsCore
  <2>2. /\ sent \in Seq(Requests) /\ WellFormed(buf)
        /\ n \in Nat /\ Len(handled) \in Nat /\ Len(replies) \in Nat
    BY <2>1 DEF Common, InvType
  <2>3. Len(handled) = n - 1 /\ n > 0
    BY <2>1, <2>2 DEF Core, InvTurns
  <2>4. /\ r.head \in Nat \ {0} /\ r.body \in Nat
        /\ Size(r) = r.head + r.body
        /\ DOMAIN r.blank \subseteq r.head + 1 .. r.head + r.body
    BY <2>2, <2>3, LastRequest
  <2>5. u \in Seq(Byte) /\ Len(u) \in Nat
    BY <2>2, ReadableBytes
  <2>6. AwaitsHeader(buf, wire) \/ LostItsHeader(buf, wire)
    BY <2>1, <2>2 DEF Core, InvPieces
  <2>7. ASSUME AwaitsHeader(buf, wire)
        PROVE  FALSE
    <3>1. Len(u) < r.head /\ 0 + Len(u) + Len(wire) = r.head + r.body
      BY <2>4, <2>7 DEF AwaitsHeader, Waiting
    <3>2. Len(wire) = 0
      OBVIOUS
    <3> HIDE DEF r, u
    <3> QED
      BY <2>4, <2>5, <3>1, <3>2
  <2>8. PICK k \in {r.head} \cup DOMAIN r.blank : Waiting(buf, wire, k)
    BY <2>6, <2>7 DEF LostItsHeader
  <2>9. r.body > 0
    BY <2>6, <2>7 DEF LostItsHeader
  <2>10. k \in Nat /\ k >= r.head /\ k + Len(u) = r.head + r.body
    <3>1. k \in Nat /\ k >= r.head
      BY <2>4, <2>8
    <3>2. k + Len(u) + Len(wire) = r.head + r.body /\ Len(wire) = 0
      BY <2>4, <2>8 DEF Waiting
    <3> HIDE DEF r, u
    <3> QED
      BY <2>5, <3>1, <3>2
  <2>11. CASE u = << >>
    <3>1. Len(u) = 0
      BY <2>11
    <3> HIDE DEF r, u
    <3>2. k = r.head + r.body /\ k # r.head
      BY <2>4, <2>9, <2>10, <3>1
    <3> QED
      BY <2>3, <2>8, <2>9, <2>11, <3>2
  <2>12. CASE u # << >>
    <3>1. 1 \in 1 .. Len(u)
      BY <2>5, <2>12
    <3>2. u[1] = <<n, k + 1>>
      BY <2>8, <3>1 DEF Waiting, Pieces
    <3> HIDE DEF r, u
    <3> QED
      BY <2>3, <2>4, <2>9, <2>10, <2>12, <3>2
  <2> QED
    BY <2>11, <2>12
<1> QED
  BY <1>1, Invariance, PTL

\* A header cut into segments anywhere, and its whole body behind the last of
\* them: the read that completes the request hands it to the callback.
THEOREM WholeRequestsAreHandled == Spec => WholeRequestIsHandled
<1>1. IInv /\ [Next]_vars =>
        [wire # << >> /\ wire' = << >> /\ ~Astray
           /\ wire[1][2] <= sent[Len(sent)].head =>
           handled' = Append(handled, Bytes(Len(sent), sent[Len(sent)]))]_vars
  <2> DEFINE r == sent[Len(sent)]
  <2> SUFFICES ASSUME IInv, [Next]_vars, wire # << >>, wire' = << >>, ~Astray,
                      wire[1][2] <= r.head
               PROVE  handled' = Append(handled, Bytes(Len(sent), r))
    OBVIOUS
  <2>1. Common /\ Core
    BY NotAstrayIsCore
  <2>2. /\ sent \in Seq(Requests) /\ wire \in Seq(Byte) /\ WellFormed(buf)
        /\ Len(sent) \in Nat /\ Len(handled) \in Nat /\ Len(wire) \in Nat \ {0}
    BY <2>1 DEF Common, InvType
  <2>3. Read
    <3>1. ASSUME NEW q \in Requests, Send(q)
          PROVE  FALSE
      <4> DEFINE m == Len(sent) + 1
                 x == Bytes(m, q)
      <4>1. wire' = wire \o x
        BY <3>1 DEF Send
      <4>2. m \in Nat
        BY <2>2
      <4> HIDE DEF m
      <4>3. x \in Seq(Byte)
        BY <4>2, BytesOf
      <4> HIDE DEF x
      <4>4. Len(wire') = Len(wire) + Len(x) /\ Len(x) \in Nat
        BY <2>2, <4>1, <4>3, ConcatOf
      <4> QED
        BY <2>2, <4>4
    <3> QED
      BY <3>1 DEF Next, vars, Leave, OnReadError, Written, OnWrite, OnWriteError, Finished
  <2>4. PICK n \in 1 .. Len(wire) :
          \E p \in Parse(AppendBytes(buf, SubSeq(wire, 1, n))) :
            /\ op = "reading"
            /\ wire' = SubSeq(wire, n + 1, Len(wire))
            /\ Handle(p)
    BY <2>1, <2>3, ReadPicks
  <2>5. PICK p \in Parse(AppendBytes(buf, SubSeq(wire, 1, n))) :
          /\ op = "reading"
          /\ wire' = SubSeq(wire, n + 1, Len(wire))
          /\ Handle(p)
    BY <2>4
  <2>6. /\ Len(handled) = Len(sent) - 1 /\ Len(sent) > 0
        /\ AwaitsHeader(buf, wire) =>
             ParsedRightly(p, wire') /\ (wire' = << >> => p.req # Incomplete)
    BY <2>1, <2>5, ParsedSegment
  <2>7. r.head \in Nat \ {0} /\ DOMAIN r.blank \subseteq r.head + 1 .. r.head + r.body
        /\ r.body \in Nat
    BY <2>2, <2>6, LastRequest
  <2>8. AwaitsHeader(buf, wire)
    <3>1. AwaitsHeader(buf, wire) \/ LostItsHeader(buf, wire)
      BY <2>1, <2>6 DEF Core, InvPieces
    <3>2. ASSUME LostItsHeader(buf, wire)
          PROVE  FALSE
      <4>1. PICK k \in {r.head} \cup DOMAIN r.blank : Waiting(buf, wire, k)
        BY <3>2 DEF LostItsHeader
      <4>2. k \in Nat /\ k >= r.head
        BY <2>7, <4>1
      <4>3. Len(Readable(buf)) \in Nat
        BY <2>2, ReadableBytes
      <4>4. wire[1] = <<Len(sent), k + Len(Readable(buf)) + 1>>
        BY <2>2, <4>1 DEF Waiting, Pieces
      <4>5. wire[1][2] = k + Len(Readable(buf)) + 1
        BY <4>4
      <4> HIDE DEF r
      <4> QED
        BY <2>7, <4>2, <4>3, <4>5
    <3> QED
      BY <3>1, <3>2
  <2>9. p.req = Bytes(Len(sent), r)
    BY <2>6, <2>8 DEF ParsedRightly
  <2> QED
    BY <2>5, <2>6, <2>8, <2>9 DEF Handle
<1> QED
  BY <1>1, Invariance, PTL DEF Spec, WholeRequestIsHandled

\* makeSpace() never grows the buffer past the longest request.
THEOREM BufferIsBounded == Spec => []BufferHoldsOneRequest
<1>1. IInv => BufferHoldsOneRequest
  BY NotAstrayIsCore
     DEF Core, InvSize, FitsOneRequest, BufferHoldsOneRequest, Size
<1> QED
  BY <1>1, Invariance, PTL

\* The server leaves a client only for its version or for its number, until it
\* takes a part of a body for a request.
THEOREM HangsUpForAReason == Spec => []HangsUpOnlyForAReason
<1>1. IInv => HangsUpOnlyForAReason
  <2> SUFFICES ASSUME IInv, ~Astray
               PROVE  HangsUpOnlyForAReason
    BY DEF HangsUpOnlyForAReason
  <2>1. Core
    BY NotAstrayIsCore
  <2> QED
    BY <2>1 DEF Core, InvReason, HangsUpOnlyForAReason
<1> QED
  BY <1>1, Invariance, PTL

\* Whatever the first thing is that is handled and is not the client's next
\* request, it is a part of that request's body, up to or beyond a blank line
\* in it that has at least three words before it.
THEOREM MistakenBodiesWereSplit == Spec => []OnlySplitBodiesAreMistaken
<1>1. IInv => OnlySplitBodiesAreMistaken
  <2> SUFFICES ASSUME IInv, NEW n \in DOMAIN handled, n <= Genuine + 1
               PROVE  handled[n] = Bytes(n, sent[n]) \/ Mistaken(n, sent[n], handled[n])
    BY DEF OnlySplitBodiesAreMistaken, Mistaken
  <2>1. Common /\ n \in 1 .. Len(handled) /\ Len(handled) \in Nat
    BY DEF IInv, Common, InvType
  <2>2. CASE Core
    BY <2>1, <2>2 DEF Core, InvHandled
  <2>3. CASE Derailed
    <3>1. PICK k \in Nat \ {0} : DerailedAt(k)
      BY <2>3 DEF Derailed
    <3>2. n <= k
      BY <2>1, <3>1, DerailedIsAstray
    <3> QED
      BY <2>1, <3>1, <3>2 DEF DerailedAt
  <2> QED
    BY <2>2, <2>3 DEF IInv
<1> QED
  BY <1>1, Invariance, PTL

\* Where no body holds a blank line behind a line of three words, the callback
\* sees the client's requests and nothing else.
THEOREM PlainBodiesKeepInStep ==
  ASSUME \A r \in Requests : \A j \in DOMAIN r.blank : r.blank[j].version = FewWords
  PROVE  Spec => []~Astray
<1>1. IInv => ~Astray
  <2> SUFFICES ASSUME IInv, NEW n \in Nat \ {0}, DerailedAt(n)
               PROVE  FALSE
    BY CoreIsGenuine DEF IInv, Derailed
  <2>1. sent \in Seq(Requests) /\ n <= Len(sent) /\ Len(sent) \in Nat
    BY DEF IInv, Common, InvType, DerailedAt
  <2>2. sent[n] \in Requests
    BY <2>1, ElementOfSeq
  <2> QED
    BY <2>2 DEF DerailedAt, Mistaken
<1> QED
  BY <1>1, Invariance, PTL

-----------------------------------------------------------------------------
(* The stream. What a recursive function yields for every input is out of  *)
(* a prover's reach without induction over data; here the behaviour itself *)
(* is the induction: each Send lengthens the stream by one request.        *)

\* f satisfies the recursion of Stream, for the requests s.
IsStream(f, s) ==
  f = [n \in 0 .. Len(s) |->
         IF n = 0 THEN << >> ELSE f[n - 1] \o Bytes(n, s[n])]

\* The recursion has a solution, and every solution is one of byte strings.
HasStream(s) ==
  /\ \E f : IsStream(f, s)
  /\ \A f : IsStream(f, s) => \A n \in 0 .. Len(s) : f[n] \in Seq(Byte)

\* u is what the requests s end with, whatever solves the recursion.
EndsStream(s, u) == \A f : IsStream(f, s) => Behind(u, f[Len(s)])

LEMMA NoRequestsStream == HasStream(<< >>)
<1>1. \E f : IsStream(f, << >>)
  <2> DEFINE f == [n \in 0 .. 0 |-> << >>]
  <2>1. IsStream(f, << >>)
    BY DEF IsStream
  <2> QED
    BY <2>1
<1>2. ASSUME NEW f, IsStream(f, << >>), NEW n \in 0 .. Len(<< >>)
      PROVE  f[n] \in Seq(Byte)
  BY <1>2 DEF IsStream
<1> QED
  BY <1>1, <1>2 DEF HasStream

(* A stream of some requests is one of all but the last of them, too.      *)
LEMMA StreamBefore ==
  ASSUME NEW s \in Seq(Requests), NEW r \in Requests,
         NEW f, IsStream(f, Append(s, r))
  PROVE  /\ \E h : IsStream(h, s) /\ \A i \in 0 .. Len(s) : h[i] = f[i]
         /\ f[Len(s) + 1] = f[Len(s)] \o Bytes(Len(s) + 1, r)
<1> DEFINE N == Len(s)
           t == Append(s, r)
           h == [i \in 0 .. N |-> f[i]]
           k == [i \in 0 .. N |->
                   IF i = 0 THEN << >> ELSE h[i - 1] \o Bytes(i, s[i])]
<1>1. N \in Nat /\ Len(t) = N + 1 /\ t[N + 1] = r
      /\ \A i \in 1 .. N : t[i] = s[i]
  OBVIOUS
<1> HIDE DEF N, t
<1>2. \A i \in 0 .. N + 1 :
        f[i] = IF i = 0 THEN << >> ELSE f[i - 1] \o Bytes(i, t[i])
  BY <1>1 DEF IsStream, t
<1>3. \A i \in 0 .. N : h[i] = k[i]
  <2> SUFFICES ASSUME NEW i \in 0 .. N
               PROVE  h[i] = k[i]
    OBVIOUS
  <2>1. h[i] = f[i] /\ i \in 0 .. N + 1
    BY <1>1
  <2>2. CASE i = 0
    BY <1>2, <2>1, <2>2
  <2>3. CASE i # 0
    <3>1. i - 1 \in 0 .. N /\ t[i] = s[i]
      BY <1>1, <2>3
    <3>2. f[i] = f[i - 1] \o Bytes(i, s[i])
      BY <1>2, <2>1, <2>3, <3>1
    <3>3. k[i] = h[i - 1] \o Bytes(i, s[i])
      BY <2>3
    <3>4. h[i - 1] = f[i - 1]
      BY <3>1
    <3> QED
      BY <2>1, <3>2, <3>3, <3>4
  <2> QED
    BY <2>2, <2>3
<1>4. h = k
  <2>1. h = [i \in 0 .. N |-> h[i]] /\ k = [i \in 0 .. N |-> k[i]]
    OBVIOUS
  <2> HIDE DEF h, k
  <2> QED
    BY <1>3, <2>1
<1>5. IsStream(h, s) /\ \A i \in 0 .. N : h[i] = f[i]
  <2>1. \A i \in 0 .. N : h[i] = f[i]
    OBVIOUS
  <2> HIDE DEF h
  <2> QED
    BY <1>4, <2>1 DEF IsStream, N
<1>6. f[N + 1] = f[N] \o Bytes(N + 1, r)
  <2> DEFINE m == N + 1
  <2>1. m \in 0 .. N + 1 /\ m # 0 /\ m - 1 = N /\ t[m] = r
    BY <1>1
  <2> HIDE DEF m
  <2>2. f[m] = f[m - 1] \o Bytes(m, t[m])
    BY <1>2, <2>1
  <2>3. f[m] = f[N] \o Bytes(m, r)
    BY <2>1, <2>2
  <2> QED
    BY <2>3 DEF m
<1> QED
  BY <1>5, <1>6 DEF N

LEMMA NextRequestStream ==
  ASSUME NEW s \in Seq(Requests), HasStream(s), NEW r \in Requests
  PROVE  HasStream(Append(s, r))
<1> DEFINE N == Len(s)
           t == Append(s, r)
<1>1. N \in Nat /\ Len(t) = N + 1 /\ t[N + 1] = r
      /\ \A i \in 1 .. N : t[i] = s[i]
  OBVIOUS
<1>2. Bytes(N + 1, r) \in Seq(Byte)
  BY <1>1, BytesOf
<1> HIDE DEF N, t
<1>3. \E f : IsStream(f, t)
  <2>1. PICK f : IsStream(f, s)
    BY DEF HasStream
  <2> DEFINE g == [n \in 0 .. N + 1 |->
                     IF n <= N THEN f[n] ELSE f[N] \o Bytes(N + 1, r)]
             k == [n \in 0 .. N + 1 |->
                     IF n = 0 THEN << >> ELSE g[n - 1] \o Bytes(n, t[n])]
  <2>2. \A n \in 0 .. N :
          f[n] = IF n = 0 THEN << >> ELSE f[n - 1] \o Bytes(n, s[n])
    BY <2>1 DEF IsStream, N
  <2>3. \A n \in 0 .. N : g[n] = f[n]
    BY <1>1
  <2>4. g[N + 1] = f[N] \o Bytes(N + 1, r)
    BY <1>1
  <2>5. \A n \in 0 .. N + 1 : g[n] = k[n]
    <3> HIDE DEF g
    <3> SUFFICES ASSUME NEW n \in 0 .. N + 1
                 PROVE  g[n] = k[n]
      OBVIOUS
    <3>1. CASE n = 0
      BY <1>1, <2>2, <2>3, <3>1
    <3>2. CASE n \in 1 .. N
      <4>1. n - 1 \in 0 .. N /\ t[n] = s[n] /\ n # 0 /\ n \in 0 .. N
        BY <1>1, <3>2
      <4>2. g[n] = f[n - 1] \o Bytes(n, s[n])
        BY <2>2, <2>3, <4>1
      <4>3. g[n - 1] = f[n - 1]
        BY <2>3, <4>1
      <4>4. k[n] = g[n - 1] \o Bytes(n, t[n])
        BY <4>1
      <4> QED
        BY <4>1, <4>2, <4>3, <4>4
    <3>3. CASE n = N + 1
      <4>1. n # 0 /\ n - 1 = N /\ N \in 0 .. N
        BY <1>1, <3>3
      <4>2. k[n] = g[N] \o Bytes(N + 1, r)
        BY <1>1, <3>3, <4>1
      <4> QED
        BY <2>3, <2>4, <3>3, <4>1, <4>2
    <3> QED
      BY <1>1, <3>1, <3>2, <3>3
  <2>6. g = k
    <3>1. g = [n \in 0 .. N + 1 |-> g[n]] /\ k = [n \in 0 .. N + 1 |-> k[n]]
      OBVIOUS
    <3> HIDE DEF g, k
    <3> QED
      BY <2>5, <3>1
  <2>7. IsStream(g, t)
    <3> HIDE DEF g
    <3> QED
      BY <1>1, <2>6 DEF IsStream
  <2> QED
    BY <2>7
<1>4. ASSUME NEW f, IsStream(f, t), NEW n \in 0 .. Len(t)
      PROVE  f[n] \in Seq(Byte)
  <2>1. /\ \E h : IsStream(h, s) /\ \A i \in 0 .. N : h[i] = f[i]
        /\ f[N + 1] = f[N] \o Bytes(N + 1, r)
    BY <1>4, StreamBefore DEF N, t
  <2>2. \A i \in 0 .. N : f[i] \in Seq(Byte)
    BY <2>1 DEF HasStream, N
  <2>3. f[N + 1] \in Seq(Byte)
    <3>1. f[N] \in Seq(Byte)
      BY <1>1, <2>2
    <3> QED
      BY <1>2, <2>1, <3>1, ConcatOf
  <2>4. n \in 0 .. N \/ n = N + 1
    BY <1>1, <1>4
  <2> QED
    BY <2>2, <2>3, <2>4
<1> QED
  BY <1>3, <1>4 DEF HasStream, t

LEMMA BehindTwice ==
  ASSUME NEW s \in Seq(Byte), NEW u, NEW v, Behind(u, s), Behind(v, u)
  PROVE  Behind(v, s)
<1>1. PICK k \in 0 .. Len(s) :
        Len(u) = Len(s) - k /\ \A i \in 1 .. Len(s) - k : u[i] = s[k + i]
  BY DEF Behind
<1>2. PICK n \in 0 .. Len(u) :
        Len(v) = Len(u) - n /\ \A i \in 1 .. Len(u) - n : v[i] = u[n + i]
  BY DEF Behind
<1>3. k + n \in 0 .. Len(s) /\ Len(v) = Len(s) - (k + n)
  BY <1>1, <1>2
<1>4. \A i \in 1 .. Len(s) - (k + n) : v[i] = s[(k + n) + i]
  <2> SUFFICES ASSUME NEW i \in 1 .. Len(s) - (k + n)
               PROVE  v[i] = s[(k + n) + i]
    OBVIOUS
  <2>1. i \in 1 .. Len(u) - n /\ n + i \in 1 .. Len(s) - k
        /\ k + (n + i) = (k + n) + i
    BY <1>1, <1>2
  <2> QED
    BY <1>1, <1>2, <2>1
<1> QED
  BY <1>3, <1>4 DEF Behind

LEMMA BehindWithMore ==
  ASSUME NEW s \in Seq(Byte), NEW u \in Seq(Byte), NEW e \in Seq(Byte), Behind(u, s)
  PROVE  Behind(u \o e, s \o e)
<1> DEFINE x == u \o e
           y == s \o e
<1>1. PICK k \in 0 .. Len(s) :
        Len(u) = Len(s) - k /\ \A i \in 1 .. Len(s) - k : u[i] = s[k + i]
  BY DEF Behind
<1>2. /\ Len(x) = Len(u) + Len(e)
      /\ \A i \in 1 .. Len(u) : x[i] = u[i]
      /\ \A i \in 1 .. Len(e) : x[Len(u) + i] = e[i]
      /\ Len(u) \in Nat /\ Len(e) \in Nat
  BY ConcatOf
<1>3. /\ Len(y) = Len(s) + Len(e)
      /\ \A i \in 1 .. Len(s) : y[i] = s[i]
      /\ \A i \in 1 .. Len(e) : y[Len(s) + i] = e[i]
      /\ Len(s) \in Nat
  BY ConcatOf
<1> HIDE DEF x, y
<1>4. k \in 0 .. Len(y) /\ Len(x) = Len(y) - k
  BY <1>1, <1>2, <1>3
<1>5. ASSUME NEW i \in 1 .. Len(y) - k
      PROVE  x[i] = y[k + i]
  <2>1. CASE i <= Len(u)
    <3>1. i \in 1 .. Len(u) /\ i \in 1 .. Len(s) - k /\ k + i \in 1 .. Len(s)
      BY <1>1, <1>2, <1>3, <2>1
    <3> QED
      BY <1>1, <1>2, <1>3, <3>1
  <2>2. CASE i > Len(u)
    <3>1. PICK j \in 1 .. Len(e) : i = Len(u) + j
      <4>1. i - Len(u) \in 1 .. Len(e) /\ i = Len(u) + (i - Len(u))
        BY <1>2, <1>4, <2>2
      <4> QED
        BY <4>1
    <3>2. k + i = Len(s) + j
      BY <1>1, <1>2, <1>3, <3>1
    <3> QED
      BY <1>2, <1>3, <3>1, <3>2
  <2> QED
    BY <1>2, <1>4, <2>1, <2>2
<1> QED
  BY <1>4, <1>5 DEF Behind, x, y

LEMMA StreamKept ==
  ASSUME Common, HasStream(sent), EndsStream(sent, Readable(buf) \o wire), [Next]_vars
  PROVE  HasStream(sent') /\ EndsStream(sent', Readable(buf') \o wire')
<1> DEFINE u == Readable(buf) \o wire
           v == Readable(buf') \o wire'
<1>1. sent \in Seq(Requests) /\ Len(sent) \in Nat /\ u \in Seq(Byte)
  BY ReadableBytes DEF Common, InvType
<1>2. EndsStream(sent, u)
  OBVIOUS
<1>3. \/ sent' = sent /\ Behind(v, u)
      \/ \E r \in Requests :
           sent' = Append(sent, r) /\ v = u \o Bytes(Len(sent) + 1, r)
  BY UnreadStep
<1> HIDE DEF u, v
<1>4. \A f : IsStream(f, sent) => f[Len(sent)] \in Seq(Byte) /\ Behind(u, f[Len(sent)])
  BY <1>1, <1>2 DEF HasStream, EndsStream
<1>5. CASE sent' = sent /\ Behind(v, u)
  <2>1. ASSUME NEW f, IsStream(f, sent)
        PROVE  Behind(v, f[Len(sent)])
    BY <1>4, <1>5, <2>1, BehindTwice
  <2>2. EndsStream(sent, v)
    BY <2>1 DEF EndsStream
  <2> QED
    BY <1>5, <2>2 DEF v
<1>6. ASSUME NEW r \in Requests, sent' = Append(sent, r),
             v = u \o Bytes(Len(sent) + 1, r)
      PROVE  HasStream(sent') /\ EndsStream(sent', v)
  <2> DEFINE n == Len(sent)
             t == Append(sent, r)
             e == Bytes(n + 1, r)
  <2>1. n \in Nat /\ n + 1 \in Nat /\ Len(t) = n + 1
    BY <1>1
  <2>2. e \in Seq(Byte)
    BY <2>1, BytesOf
  <2>3. HasStream(t)
    BY <1>1, NextRequestStream
  <2>4. ASSUME NEW f, IsStream(f, t)
        PROVE  Behind(v, f[n + 1])
    <3>0. /\ \E h : IsStream(h, sent) /\ \A i \in 0 .. Len(sent) : h[i] = f[i]
          /\ f[Len(sent) + 1] = f[Len(sent)] \o Bytes(Len(sent) + 1, r)
      BY <1>1, <2>4, StreamBefore
    <3>1. PICK h : IsStream(h, sent) /\ \A i \in 0 .. Len(sent) : h[i] = f[i]
      BY <3>0
    <3>2. f[n + 1] = f[n] \o e
      BY <3>0
    <3>3. h[n] = f[n]
      BY <2>1, <3>1
    <3>4. f[n] \in Seq(Byte) /\ Behind(u, f[n])
      BY <1>4, <3>1, <3>3
    <3>5. v = u \o e
      BY <1>6
    <3> HIDE DEF e, n, t
    <3> QED
      BY <1>1, <2>2, <3>2, <3>4, <3>5, BehindWithMore
  <2>5. EndsStream(t, v)
    <3> HIDE DEF t
    <3> QED
      BY <2>1, <2>4 DEF EndsStream
  <2> QED
    BY <1>6, <2>3, <2>5
<1> QED
  BY <1>3, <1>5, <1>6 DEF v

LEMMA StreamExists ==
  Spec => [](HasStream(sent) /\ EndsStream(sent, Readable(buf) \o wire))
<1> DEFINE K == HasStream(sent) /\ EndsStream(sent, Readable(buf) \o wire)
<1>1. ASSUME Init
      PROVE  K
  <2>1. IInv
    BY <1>1, InitIInv
  <2>2. WellFormed(buf)
    BY <2>1 DEF IInv, Common, InvType
  <2> DEFINE u == Readable(buf)
  <2>3. u \in Seq(Byte) /\ Len(u) = 0
    <3>1. Len(u) = buf.wr - buf.rd /\ u \in Seq(Byte)
      BY <2>2, ReadableBytes
    <3> QED
      BY <1>1, <3>1 DEF Init, EmptyBuffer
  <2> HIDE DEF u
  <2>4. u = << >> /\ u \o wire = << >>
    BY <1>1, <2>3, EmptySeq DEF Init
  <2>5. ASSUME NEW f, IsStream(f, << >>)
        PROVE  f[0] = << >>
    BY <2>5 DEF IsStream
  <2>6. Behind(<< >>, << >>)
    <3>1. << >> \in Seq(Byte)
      OBVIOUS
    <3> QED
      BY <3>1, BehindItself
  <2>7. Len(<< >>) = 0
    OBVIOUS
  <2>8. EndsStream(<< >>, << >>)
    BY <2>5, <2>6, <2>7 DEF EndsStream
  <2> QED
    BY <1>1, <2>4, <2>8, NoRequestsStream DEF Init, u
<1>2. ASSUME IInv, K, [Next]_vars
      PROVE  K'
  BY <1>2, StreamKept DEF IInv
<1> HIDE DEF K
<1>3. Spec => []K
  BY <1>1, <1>2, Invariance, PTL DEF Spec
<1> QED
  BY <1>3, PTL DEF K

(* What is behind another in the sense of Behind is its end.               *)
LEMMA BehindIsEnd ==
  ASSUME NEW s \in Seq(Byte), NEW u \in Seq(Byte), Behind(u, s)
  PROVE  LET from == Len(s) - Len(u)
         IN  from >= 0 /\ u = SubSeq(s, from + 1, Len(s))
<1>1. PICK k \in 0 .. Len(s) :
        Len(u) = Len(s) - k /\ \A i \in 1 .. Len(s) - k : u[i] = s[k + i]
  BY DEF Behind
<1>2. Len(s) - Len(u) = k /\ k \in Nat /\ Len(s) \in Nat /\ k <= Len(s)
  BY <1>1
<1> DEFINE v == SubSeq(s, k + 1, Len(s))
<1>3. v \in Seq(Byte) /\ Len(v) = Len(s) - k
      /\ \A i \in 1 .. Len(s) - k : v[i] = s[k + i]
  BY <1>2
<1> HIDE DEF v
<1>4. u = v
  BY <1>1, <1>3, SeqEqual
<1> DEFINE from == Len(s) - Len(u)
<1>5. from = k
  BY <1>2
<1> HIDE DEF from
<1>6. from >= 0 /\ u = SubSeq(s, from + 1, Len(s))
  BY <1>2, <1>4, <1>5 DEF v
<1> QED
  BY <1>6 DEF from

LEMMA StreamChosen ==
  ASSUME HasStream(sent)
  PROVE  \E f : IsStream(f, sent) /\ Stream = f[Len(sent)]
BY DEF HasStream, IsStream, Stream

\* append(), makeSpace() and retrieve() keep what the client sent: unread bytes
\* and those on the way are the end of its stream, in order, whatever parse()
\* takes for a request.
THEOREM BytesStayInOrder == Spec => []UnreadBytesInOrder
<1>1. IInv /\ HasStream(sent) /\ EndsStream(sent, Readable(buf) \o wire)
        => UnreadBytesInOrder
  <2> DEFINE u == Readable(buf) \o wire
  <2> SUFFICES ASSUME IInv, HasStream(sent), EndsStream(sent, u)
               PROVE  LET from == Len(Stream) - Len(u)
                      IN  from >= 0 /\ u = SubSeq(Stream, from + 1, Len(Stream))
    BY DEF UnreadBytesInOrder
  <2>1. u \in Seq(Byte) /\ Len(sent) \in Nat
    BY ReadableBytes DEF IInv, Common, InvType
  <2> HIDE DEF u
  <2>2. PICK f : IsStream(f, sent) /\ Stream = f[Len(sent)]
    BY StreamChosen
  <2>3. Stream \in Seq(Byte)
    BY <2>1, <2>2 DEF HasStream
  <2>4. Behind(u, Stream)
    BY <2>2 DEF EndsStream
  <2> QED
    BY <2>1, <2>3, <2>4, BehindIsEnd
<1> QED
  BY <1>1, Invariance, StreamExists, PTL

-----------------------------------------------------------------------------
(* The session implements RequestStream.                                   *)

\* What the client has asked: the bytes of its requests, and of the first k.
Asked(s) == [n \in DOMAIN s |-> Bytes(n, s[n])]
AskedFirst(s, k) == [n \in 1 .. k |-> Bytes(n, s[n])]

\* The variables of RequestStream.
AbsAsked == AskedFirst(sent, Shorter(Len(sent), Genuine + 1))
AbsServed == SubSeq(handled, 1, Genuine)
AbsAnswered == Shorter(Len(replies), Genuine)
AbsOpen == op # "gone" /\ ~Astray

LEMMA AskedType ==
  ASSUME NEW s \in Seq(Requests)
  PROVE  /\ Asked(s) \in Seq(Seq(Byte))
         /\ Len(Asked(s)) = Len(s)
         /\ \A n \in 1 .. Len(s) : Asked(s)[n] = Bytes(n, s[n])
<1>1. Len(s) \in Nat /\ DOMAIN s = 1 .. Len(s)
  OBVIOUS
<1>2. \A n \in 1 .. Len(s) : Bytes(n, s[n]) \in Seq(Byte)
  <2> SUFFICES ASSUME NEW n \in 1 .. Len(s)
               PROVE  Bytes(n, s[n]) \in Seq(Byte)
    OBVIOUS
  <2>1. n \in Nat /\ s[n] \in Requests
    BY <1>1, ElementOfSeq
  <2> QED
    BY <2>1, BytesOf
<1>3. Asked(s) \in [1 .. Len(s) -> Seq(Byte)]
      /\ \A n \in 1 .. Len(s) : Asked(s)[n] = Bytes(n, s[n])
  BY <1>1, <1>2 DEF Asked
<1> QED
  BY <1>1, <1>3, FunctionIsSeq

LEMMA AskedGrows ==
  ASSUME NEW s \in Seq(Requests), NEW r \in Requests
  PROVE  Asked(Append(s, r)) = Append(Asked(s), Bytes(Len(s) + 1, r))
<1> DEFINE t == Append(s, r)
           e == Bytes(Len(s) + 1, r)
           a == Append(Asked(s), e)
<1>1. /\ t \in Seq(Requests) /\ Len(t) = Len(s) + 1 /\ t[Len(s) + 1] = r
      /\ \A i \in 1 .. Len(s) : t[i] = s[i]
      /\ Len(s) \in Nat
  OBVIOUS
<1>2. e \in Seq(Byte)
  BY <1>1, BytesOf
<1>3. /\ Asked(s) \in Seq(Seq(Byte)) /\ Len(Asked(s)) = Len(s)
      /\ \A n \in 1 .. Len(s) : Asked(s)[n] = Bytes(n, s[n])
  BY AskedType
<1> HIDE DEF t, e
<1>4. /\ Asked(t) \in Seq(Seq(Byte)) /\ Len(Asked(t)) = Len(s) + 1
      /\ \A n \in 1 .. Len(s) + 1 : Asked(t)[n] = Bytes(n, t[n])
  BY <1>1, AskedType
<1>5. /\ a \in Seq(Seq(Byte)) /\ Len(a) = Len(s) + 1
      /\ \A n \in 1 .. Len(s) : a[n] = Asked(s)[n]
      /\ a[Len(s) + 1] = e
  BY <1>1, <1>2, <1>3
<1> HIDE DEF a
<1>6. \A n \in 1 .. Len(s) + 1 : Asked(t)[n] = a[n]
  <2> SUFFICES ASSUME NEW n \in 1 .. Len(s) + 1
               PROVE  Asked(t)[n] = a[n]
    OBVIOUS
  <2>1. CASE n \in 1 .. Len(s)
    BY <1>1, <1>3, <1>4, <1>5, <2>1
  <2>2. CASE n = Len(s) + 1
    BY <1>1, <1>4, <1>5, <2>2 DEF e
  <2> QED
    BY <1>1, <2>1, <2>2
<1>7. Asked(t) = a
  BY <1>4, <1>5, <1>6, SeqEqual
<1> QED
  BY <1>7 DEF t, a, e

(* While all is well RequestStream sees everything.                        *)
LEMMA CoreIsMapped ==
  Common /\ Core => /\ AbsAsked = Asked(sent)
                    /\ AbsServed = handled
                    /\ AbsAnswered = Len(replies)
                    /\ AbsOpen = (op # "gone")
<1> SUFFICES ASSUME Common, Core
             PROVE  /\ AbsAsked = Asked(sent)
                    /\ AbsServed = handled
                    /\ AbsAnswered = Len(replies)
                    /\ AbsOpen = (op # "gone")
  OBVIOUS
<1>1. Genuine = Len(handled) /\ ~Astray
  BY CoreIsGenuine
<1>2. /\ sent \in Seq(Requests) /\ handled \in Seq(Seq(Byte))
      /\ Len(sent) \in Nat /\ Len(handled) \in Nat /\ Len(replies) \in Nat
      /\ Len(sent) <= Len(replies) + 1 /\ Len(replies) <= Len(handled)
  BY DEF Common, InvType, Core, InvTurns
<1>3. Shorter(Len(sent), Genuine + 1) = Len(sent)
  BY <1>1, <1>2 DEF Shorter
<1>4. AbsAsked = Asked(sent)
  BY <1>2, <1>3 DEF AbsAsked, Asked, AskedFirst
<1>5. AbsServed = handled
  BY <1>1, <1>2 DEF AbsServed
<1>6. AbsAnswered = Len(replies)
  BY <1>1, <1>2 DEF AbsAnswered, Shorter
<1> QED
  BY <1>1, <1>4, <1>5, <1>6 DEF AbsOpen

(* After the first mistake it sees nothing any more.                       *)
LEMMA DerailedIsMapped ==
  \A k \in Nat \ {0} :
    Common /\ DerailedAt(k) => /\ AbsAsked = AskedFirst(sent, k)
                              /\ AbsServed = SubSeq(handled, 1, k - 1)
                              /\ AbsAnswered = k - 1
                              /\ AbsOpen = FALSE
<1> SUFFICES ASSUME NEW k \in Nat \ {0}, Common, DerailedAt(k)
             PROVE  /\ AbsAsked = AskedFirst(sent, k)
                    /\ AbsServed = SubSeq(handled, 1, k - 1)
                    /\ AbsAnswered = k - 1
                    /\ AbsOpen = FALSE
  OBVIOUS
<1>1. Genuine = k - 1 /\ Astray
  BY DerailedIsAstray
<1>2. /\ Len(sent) \in Nat /\ Len(replies) \in Nat
      /\ k <= Len(sent) /\ k <= Len(replies) + 1
  BY DEF Common, InvType, DerailedAt
<1>3. Shorter(Len(sent), Genuine + 1) = k /\ Shorter(Len(replies), Genuine) = k - 1
  BY <1>1, <1>2 DEF Shorter
<1> QED
  BY <1>1, <1>3 DEF AbsAsked, AbsServed, AbsAnswered, AbsOpen

LEMMA CoreIsMappedNext ==
  (Common /\ Core => /\ AbsAsked = Asked(sent)
                     /\ AbsServed = handled
                     /\ AbsAnswered = Len(replies)
                     /\ AbsOpen = (op # "gone"))'
BY CoreIsMapped, PTL

LEMMA DerailedIsMappedNext ==
  (\A k \in Nat \ {0} :
     Common /\ DerailedAt(k) => /\ AbsAsked = AskedFirst(sent, k)
                               /\ AbsServed = SubSeq(handled, 1, k - 1)
                               /\ AbsAnswered = k - 1
                               /\ AbsOpen = FALSE)'
BY DerailedIsMapped, PTL

LEMMA InitRefines == Init => Abstract!Init
<1> SUFFICES ASSUME Init
             PROVE  Abstract!Init
  OBVIOUS
<1>1. Common /\ Core
  BY InitIInv DEF IInv, Init, Derailed, DerailedAt
<1>2. /\ AbsAsked = Asked(<< >>) /\ AbsServed = << >>
      /\ AbsAnswered = Len(<< >>) /\ AbsOpen = ("reading" # "gone")
  BY <1>1, CoreIsMapped DEF Init
<1>3. Asked(<< >>) = << >>
  <2>1. << >> \in Seq(Requests) /\ Len(<< >>) = 0
    OBVIOUS
  <2>2. Asked(<< >>) \in Seq(Seq(Byte)) /\ Len(Asked(<< >>)) = 0
    BY <2>1, AskedType
  <2> QED
    BY <2>2, EmptySeq
<1>4. AbsOpen = TRUE
  BY <1>2
<1>5. AbsAnswered = 0
  BY <1>2
<1> QED
  BY <1>2, <1>3, <1>4, <1>5 DEF Abstract!Init, AbsAsked, AskedFirst, AbsServed, AbsAnswered, AbsOpen

(* A step while all is well, before and after.                             *)
LEMMA CoreStepRefines ==
  ASSUME Common, Core, Common', Core', [Next]_vars
  PROVE  Abstract!Next \/ UNCHANGED Abstract!vars
<1>1. /\ sent \in Seq(Requests) /\ handled \in Seq(Seq(Byte))
      /\ Len(sent) \in Nat /\ Len(handled) \in Nat /\ Len(replies) \in Nat
  BY DEF Common, InvType
<1>2. /\ AbsAsked = Asked(sent) /\ AbsServed = handled
      /\ AbsAnswered = Len(replies) /\ AbsOpen = (op # "gone")
  BY CoreIsMapped
<1>3. /\ AbsAsked' = Asked(sent') /\ AbsServed' = handled'
      /\ AbsAnswered' = Len(replies') /\ AbsOpen' = (op' # "gone")
  BY CoreIsMappedNext DEF Asked
<1>4. ASSUME NEW r \in Requests, Send(r)
      PROVE  Abstract!Next
  <2> DEFINE m == Bytes(Len(sent) + 1, r)
  <2>1. Asked(sent') = Append(Asked(sent), m) /\ Len(Asked(sent)) = Len(sent)
    BY <1>1, <1>4, AskedGrows, AskedType DEF Send
  <2>2. Len(sent) + 1 \in 1 .. MaxRequests
    BY <1>1, <1>4, SizesAssumption DEF Send
  <2>3. m \in {Bytes(n, q) : n \in 1 .. MaxRequests, q \in Requests}
    BY <1>4, <2>2
  <2> HIDE DEF m
  <2>4. Len(replies) = Len(sent)
    BY <1>1, <1>4 DEF Send, Core, InvTurns
  <2>5. /\ AbsOpen /\ Len(AbsAsked) = AbsAnswered
        /\ AbsAsked' = Append(AbsAsked, m)
        /\ AbsServed' = AbsServed /\ AbsAnswered' = AbsAnswered /\ AbsOpen' = AbsOpen
    BY <1>2, <1>3, <1>4, <2>1, <2>4 DEF Send
  <2>6. Abstract!Ask(m)
    BY <2>5 DEF Abstract!Ask, AbsAsked, AskedFirst, AbsServed, AbsAnswered, AbsOpen
  <2> QED
    BY <2>3, <2>6 DEF Abstract!Next
<1>5. ASSUME Read
      PROVE  Abstract!Next \/ UNCHANGED Abstract!vars
  <2>1. /\ op = "reading"
        /\ UNCHANGED <<sent, replies>>
        /\ \/ UNCHANGED <<op, handled>>
           \/ \E q : handled' = Append(handled, q)
    BY <1>5 DEF Read, OnRead, Handle
  <2>2. CASE UNCHANGED <<op, handled>>
    <3>1. /\ AbsAsked' = AbsAsked /\ AbsServed' = AbsServed
          /\ AbsAnswered' = AbsAnswered /\ AbsOpen' = AbsOpen
      BY <1>2, <1>3, <2>1, <2>2
    <3> QED
      BY <3>1 DEF Abstract!vars, AbsAsked, AskedFirst, AbsServed, AbsAnswered, AbsOpen
  <2>3. CASE \E q : handled' = Append(handled, q)
    <3>1. PICK q : handled' = Append(handled, q)
      BY <2>3
    <3> DEFINE n == Len(handled) + 1
    <3>2. Len(handled') = n /\ handled'[n] = q
      BY <1>1, <3>1
    <3>3. n \in 1 .. Len(sent) /\ q = Bytes(n, sent[n])
      BY <1>1, <2>1, <3>2 DEF Core, InvTurns, InvHandled
    <3>4. Len(Asked(sent)) = Len(sent) /\ q = Asked(sent)[n]
      BY <1>1, <3>3, AskedType
    <3>5. AbsOpen' \in BOOLEAN
      BY DEF AbsOpen
    <3>6. Len(handled) < Len(Asked(sent))
      BY <1>1, <3>3, <3>4
    <3>7. /\ AbsOpen /\ Len(AbsServed) < Len(AbsAsked)
          /\ AbsServed' = Append(AbsServed, AbsAsked[Len(AbsServed) + 1])
          /\ AbsAsked' = AbsAsked /\ AbsAnswered' = AbsAnswered
      BY <1>2, <1>3, <2>1, <3>1, <3>4, <3>6
    <3>8. Abstract!Serve
      BY <3>5, <3>7
         DEF Abstract!Serve, AbsAsked, AskedFirst, AbsServed, AbsAnswered, AbsOpen
    <3> QED
      BY <3>8 DEF Abstract!Next
  <2> QED
    BY <2>1, <2>2, <2>3
<1>6. ASSUME Written
      PROVE  Abstract!Next
  <2>1. Len(replies') = Len(replies) + 1
    BY <1>6 DEF Written, Common, InvType
  <2>2. Len(replies) < Len(handled)
    BY <1>1, <1>6 DEF Written, Core, InvTurns
  <2>3. /\ AbsOpen /\ AbsAnswered < Len(AbsServed) /\ AbsAnswered' = AbsAnswered + 1
        /\ AbsAsked' = AbsAsked /\ AbsServed' = AbsServed /\ AbsOpen' = AbsOpen
    BY <1>2, <1>3, <1>6, <2>1, <2>2 DEF Written
  <2>4. Abstract!Answer
    BY <2>3 DEF Abstract!Answer, AbsAsked, AskedFirst, AbsServed, AbsAnswered, AbsOpen
  <2> QED
    BY <2>4 DEF Abstract!Next
<1>7. ASSUME UNCHANGED <<sent, handled, replies>>, op # "gone" \/ op' = op
      PROVE  Abstract!Next \/ UNCHANGED Abstract!vars
  <2>1. AbsAsked' = AbsAsked /\ AbsServed' = AbsServed /\ AbsAnswered' = AbsAnswered
    BY <1>2, <1>3, <1>7
  <2>2. AbsOpen' = AbsOpen \/ (AbsOpen /\ AbsOpen' = FALSE)
    <3>1. op' = op => AbsOpen' = AbsOpen
      BY <1>2, <1>3
    <3>2. op # "gone" /\ op' # "gone" => AbsOpen' = AbsOpen
      BY <1>2, <1>3
    <3>3. op # "gone" /\ op' = "gone" => AbsOpen /\ AbsOpen' = FALSE
      BY <1>2, <1>3
    <3> QED
      BY <1>7, <3>1, <3>2, <3>3
  <2>3. CASE AbsOpen' = AbsOpen
    BY <2>1, <2>3
       DEF Abstract!vars, AbsAsked, AskedFirst, AbsServed, AbsAnswered, AbsOpen
  <2>4. CASE AbsOpen /\ AbsOpen' = FALSE
    <3>1. Abstract!Close
      BY <2>1, <2>4
         DEF Abstract!Close, AbsAsked, AskedFirst, AbsServed, AbsAnswered, AbsOpen
    <3> QED
      BY <3>1 DEF Abstract!Next
  <2> QED
    BY <2>2, <2>3, <2>4
<1>8. ASSUME \/ OnReadError \/ OnWrite \/ OnWriteError \/ Leave \/ Finished
             \/ UNCHANGED vars
      PROVE  Abstract!Next \/ UNCHANGED Abstract!vars
  <2>1. UNCHANGED <<sent, handled, replies>> /\ (op # "gone" \/ op' = op)
    BY <1>8 DEF OnReadError, OnWrite, OnWriteError, Leave, Finished, vars
  <2> QED
    BY <1>7, <2>1
<1> QED
  BY <1>4, <1>5, <1>6, <1>8 DEF Next

(* A step that takes a part of a body for a request: only onRead() does.   *)
LEMMA MistakeCloses ==
  ASSUME Common, Core, Common', NEW k \in Nat \ {0}, DerailedAt(k)', [Next]_vars
  PROVE  Abstract!Next
<1>1. /\ sent \in Seq(Requests) /\ handled \in Seq(Seq(Byte))
      /\ Len(sent) \in Nat /\ Len(handled) \in Nat /\ Len(replies) \in Nat
      /\ Len(handled) <= Len(sent)
  BY DEF Common, InvType, Core, InvTurns
<1>2. Grows(sent, sent') /\ Grows(handled, handled')
  BY StepKeepsTypes
<1>3. /\ k <= Len(handled') /\ k <= Len(sent') /\ k <= Len(replies') + 1
      /\ Mistaken(k, sent'[k], handled'[k])
  BY DEF DerailedAt
<1>4. k > Len(handled)
  <2> SUFFICES ASSUME k <= Len(handled)
               PROVE  FALSE
    BY <1>1
  <2>1. k \in 1 .. Len(handled) /\ k \in 1 .. Len(sent)
    BY <1>1
  <2>2. handled'[k] = Bytes(k, sent[k]) /\ sent'[k] = sent[k]
    BY <1>2, <2>1 DEF Grows, Core, InvHandled
  <2>3. sent[k] \in Requests
    BY <1>1, <2>1, ElementOfSeq
  <2>4. Bytes(k, sent[k])[1] = <<k, 1>>
    BY <2>3, BytesOf
  <2>5. sent[k].head \in Nat \ {0}
    BY <2>3, RequestTypes
  <2> QED
    BY <1>3, <2>2, <2>4, <2>5 DEF Mistaken
<1>5. handled' # handled
  BY <1>1, <1>3, <1>4
<1>6. Read
  BY <1>5 DEF Next, Send, Leave, OnReadError, Written, OnWrite, OnWriteError,
              Finished, vars
<1>7. op = "reading" /\ sent' = sent /\ replies' = replies
  BY <1>6 DEF Read, OnRead
<1>8. Len(handled) = Len(replies) /\ Len(sent) <= Len(replies) + 1
  BY <1>7 DEF Core, InvTurns
<1>9. k = Len(handled) + 1 /\ k = Len(sent) /\ k - 1 = Len(replies)
  BY <1>1, <1>3, <1>4, <1>7, <1>8
<1>10. /\ AbsAsked = Asked(sent) /\ AbsServed = handled
       /\ AbsAnswered = Len(replies) /\ AbsOpen = (op # "gone")
  BY CoreIsMapped
<1>11. /\ AbsAsked' = AskedFirst(sent', k)
       /\ AbsServed' = SubSeq(handled', 1, k - 1)
       /\ AbsAnswered' = k - 1 /\ AbsOpen' = FALSE
  BY DerailedIsMappedNext DEF AskedFirst
<1>12. AbsAsked' = AbsAsked
  BY <1>1, <1>7, <1>9, <1>10, <1>11 DEF Asked, AskedFirst
<1>13. AbsServed' = AbsServed
  <2> DEFINE N == Len(handled)
             x == SubSeq(handled', 1, N)
  <2>1. handled' \in Seq(Seq(Byte)) /\ N \in Nat /\ N <= Len(handled')
    BY <1>1, <1>2 DEF Common, InvType, Grows
  <2>2. x \in Seq(Seq(Byte)) /\ Len(x) = N /\ \A i \in 1 .. N : x[i] = handled'[i]
    BY <2>1
  <2>3. \A i \in 1 .. N : handled'[i] = handled[i]
    BY <1>2 DEF Grows
  <2> HIDE DEF x
  <2>4. x = handled
    BY <1>1, <2>2, <2>3, SeqEqual
  <2>5. k - 1 = N
    BY <1>1, <1>9
  <2> QED
    BY <1>10, <1>11, <2>4, <2>5 DEF x
<1>14. AbsAnswered' = AbsAnswered
  BY <1>9, <1>10, <1>11
<1>15. AbsOpen
  BY <1>7, <1>10
<1>16. Abstract!Close
  BY <1>11, <1>12, <1>13, <1>14, <1>15
     DEF Abstract!Close, AbsAsked, AskedFirst, AbsServed, AbsAnswered, AbsOpen
<1> QED
  BY <1>16 DEF Abstract!Next

(* Afterwards RequestStream does not move.                                 *)
LEMMA NothingMovesAstray ==
  ASSUME Common, NEW k \in Nat \ {0}, DerailedAt(k), Common', DerailedAt(k)',
         [Next]_vars
  PROVE  UNCHANGED Abstract!vars
<1>1. /\ handled \in Seq(Seq(Byte)) /\ handled' \in Seq(Seq(Byte))
      /\ k <= Len(handled) /\ k <= Len(sent)
      /\ Len(handled) \in Nat /\ Len(handled') \in Nat /\ Len(sent) \in Nat
  <2>1. /\ handled \in Seq(Seq(Byte)) /\ handled' \in Seq(Seq(Byte))
        /\ sent \in Seq(Requests)
    BY DEF Common, InvType
  <2>2. k <= Len(handled) /\ k <= Len(sent)
    BY DEF DerailedAt
  <2> QED
    BY <2>1, <2>2
<1>2. Grows(sent, sent') /\ Grows(handled, handled')
  BY StepKeepsTypes
<1>3. /\ AbsAsked = AskedFirst(sent, k) /\ AbsServed = SubSeq(handled, 1, k - 1)
      /\ AbsAnswered = k - 1 /\ AbsOpen = FALSE
  BY DerailedIsMapped
<1>4. /\ AbsAsked' = AskedFirst(sent', k)
      /\ AbsServed' = SubSeq(handled', 1, k - 1)
      /\ AbsAnswered' = k - 1 /\ AbsOpen' = FALSE
  BY DerailedIsMappedNext DEF AskedFirst
<1>5. AbsAsked' = AbsAsked
  <2>1. \A n \in 1 .. k : sent'[n] = sent[n]
    BY <1>1, <1>2 DEF Grows
  <2>2. AskedFirst(sent', k) = AskedFirst(sent, k)
    BY <2>1 DEF AskedFirst
  <2> QED
    BY <1>3, <1>4, <2>2
<1>6. AbsServed' = AbsServed
  <2> DEFINE x == SubSeq(handled, 1, k - 1)
             y == SubSeq(handled', 1, k - 1)
  <2>1. k - 1 \in Nat /\ k - 1 <= Len(handled) /\ k - 1 <= Len(handled')
    BY <1>1, <1>2 DEF Grows
  <2>2. /\ x \in Seq(Seq(Byte)) /\ Len(x) = k - 1
        /\ \A i \in 1 .. k - 1 : x[i] = handled[i]
    BY <1>1, <2>1
  <2>3. /\ y \in Seq(Seq(Byte)) /\ Len(y) = k - 1
        /\ \A i \in 1 .. k - 1 : y[i] = handled'[i]
    BY <1>1, <2>1
  <2>4. \A i \in 1 .. k - 1 : handled'[i] = handled[i]
    BY <1>1, <1>2 DEF Grows
  <2> HIDE DEF x, y
  <2>5. x = y
    BY <2>2, <2>3, <2>4, SeqEqual
  <2> QED
    BY <1>3, <1>4, <2>5 DEF x, y
<1>7. AbsAnswered' = AbsAnswered
  BY <1>3, <1>4
<1>8. AbsOpen' = AbsOpen
  BY <1>3, <1>4
<1> QED
  BY <1>5, <1>6, <1>7, <1>8
     DEF Abstract!vars, AbsAsked, AskedFirst, AbsServed, AbsAnswered, AbsOpen

LEMMA NextRefines ==
  IInv /\ IInv' /\ [Next]_vars => [Abstract!Next]_(Abstract!vars)
<1> SUFFICES ASSUME IInv, IInv', [Next]_vars
             PROVE  Abstract!Next \/ UNCHANGED Abstract!vars
  OBVIOUS
<1>1. Common /\ Common' /\ (Core \/ Derailed) /\ (Core' \/ Derailed')
  BY DEF IInv
<1>2. CASE Derailed
  <2>1. PICK k \in Nat \ {0} : DerailedAt(k)
    BY <1>2 DEF Derailed
  <2>2. DerailedAt(k)'
    BY <1>1, <2>1, StaysDerailedAt
  <2> QED
    BY <1>1, <2>1, <2>2, NothingMovesAstray
<1>3. CASE Core /\ Core'
  BY <1>1, <1>3, CoreStepRefines
<1>4. CASE Core /\ Derailed'
  <2>1. PICK k \in Nat \ {0} : DerailedAt(k)'
    BY <1>4 DEF Derailed
  <2> QED
    BY <1>1, <1>4, <2>1, MistakeCloses
<1> QED
  BY <1>1, <1>2, <1>3, <1>4

\* One request at a time, in order, at most once and as it was sent, until a
\* part of a body is taken for a request.
THEOREM Refinement == Spec => ImplementsRequestStream
BY Invariance, InitRefines, NextRefines, PTL
   DEF Spec, ImplementsRequestStream, Abstract!Spec
=============================================================================
