----------------------------- MODULE QueueFacts -----------------------------
(***************************************************************************)
(* A queue as a sequence: what front(), pop() and push() do to the set of  *)
(* its elements, for a queue that holds nothing twice.                     *)
(***************************************************************************)
EXTENDS Naturals, Sequences, TLAPS

Elems(s) == {s[i] : i \in DOMAIN s}
NoDup(s) == \A i, j \in DOMAIN s : s[i] = s[j] => i = j

(* front() and pop(): what is left is everything but the front.            *)
LEMMA PopElems ==
  ASSUME NEW S, NEW s \in Seq(S), s # << >>, NoDup(s)
  PROVE  /\ Head(s) \in S
         /\ Head(s) \in Elems(s)
         /\ Tail(s) \in Seq(S)
         /\ Elems(Tail(s)) = Elems(s) \ {Head(s)}
         /\ NoDup(Tail(s))
<1> DEFINE r == Tail(s)
<1>1. /\ Len(s) \in Nat \ {0}
      /\ DOMAIN s = 1 .. Len(s)
      /\ Head(s) = s[1]
      /\ Head(s) \in S
      /\ r \in Seq(S)
  OBVIOUS
<1>2. /\ DOMAIN r = 1 .. (Len(s) - 1)
      /\ \A i \in 1 .. (Len(s) - 1) : r[i] = s[i + 1]
  BY <1>1
<1>3. Elems(r) \subseteq Elems(s) \ {Head(s)}
  <2> SUFFICES ASSUME NEW i \in DOMAIN r
               PROVE  r[i] \in Elems(s) \ {Head(s)}
    BY DEF Elems
  <2>1. i + 1 \in DOMAIN s /\ i + 1 # 1 /\ 1 \in DOMAIN s
    BY <1>1, <1>2
  <2>2. s[i + 1] # s[1]
    BY <2>1 DEF NoDup
  <2> QED
    BY <1>1, <1>2, <2>1, <2>2 DEF Elems
<1>4. Elems(s) \ {Head(s)} \subseteq Elems(r)
  <2> SUFFICES ASSUME NEW j \in DOMAIN s, s[j] # s[1]
               PROVE  s[j] \in Elems(r)
    BY <1>1 DEF Elems
  <2>1. j - 1 \in DOMAIN r /\ r[j - 1] = s[j]
    BY <1>1, <1>2
  <2> QED
    BY <2>1 DEF Elems
<1>5. NoDup(r)
  <2> SUFFICES ASSUME NEW i \in DOMAIN r, NEW j \in DOMAIN r, r[i] = r[j]
               PROVE  i = j
    BY DEF NoDup
  <2>1. i + 1 \in DOMAIN s /\ j + 1 \in DOMAIN s /\ s[i + 1] = s[j + 1]
    BY <1>1, <1>2
  <2> QED
    BY <1>1, <1>2, <2>1 DEF NoDup
<1>6. Head(s) \in Elems(s)
  BY <1>1 DEF Elems
<1> QED
  BY <1>1, <1>3, <1>4, <1>5, <1>6

(* push(): everything that was there, and the new one.                     *)
LEMMA PushElems ==
  ASSUME NEW S, NEW s \in Seq(S), NEW e \in S
  PROVE  /\ Append(s, e) \in Seq(S)
         /\ Len(Append(s, e)) = Len(s) + 1
         /\ Elems(Append(s, e)) = Elems(s) \cup {e}
         /\ NoDup(s) /\ e \notin Elems(s) => NoDup(Append(s, e))
<1> DEFINE r == Append(s, e)
<1>1. /\ Len(s) \in Nat
      /\ DOMAIN s = 1 .. Len(s)
      /\ r \in Seq(S)
      /\ Len(r) = Len(s) + 1
      /\ DOMAIN r = 1 .. (Len(s) + 1)
      /\ \A i \in 1 .. Len(s) : r[i] = s[i]
      /\ r[Len(s) + 1] = e
  OBVIOUS
<1>2. Elems(r) = Elems(s) \cup {e}
  <2>1. Elems(r) \subseteq Elems(s) \cup {e}
    BY <1>1 DEF Elems
  <2>2. Elems(s) \subseteq Elems(r)
    BY <1>1 DEF Elems
  <2>3. e \in Elems(r)
    BY <1>1 DEF Elems
  <2> QED
    BY <2>1, <2>2, <2>3
<1>3. ASSUME NoDup(s), e \notin Elems(s)
      PROVE  NoDup(r)
  BY <1>1, <1>3 DEF NoDup, Elems
<1> QED
  BY <1>1, <1>2, <1>3
=============================================================================
