--------------------------- MODULE TransportProofs ---------------------------
(***************************************************************************)
(* Theorems about Transport, for any messages, buffer size and widths of   *)
(* bytes and headers: sendData and recvData make a message channel of the  *)
(* byte stream.  The hypothesis is that the lengths fit into a header.     *)
(***************************************************************************)
EXTENDS Transport, SequenceTheorems, WellFoundedInduction, TLAPS

USE TransportAssumption

\* Nothing is left of the length of a message behind the bytes of a header: of the code's
\* four, that a message is shorter than 4 GiB.
LengthsFit == \A m \in Message : Shifted(Len(m), HeaderLen) = 0

-----------------------------------------------------------------------------
(* A length is read back as it was written.                                *)

\* A set of naturals that is not empty has a least element.
LEMMA LeastNat ==
    ASSUME NEW T \in SUBSET Nat, NEW y \in T
    PROVE  \E x \in T : \A z \in T : x <= z
<1> DEFINE R == {ss \in Nat \X Nat : ss[1] < ss[2]}
<1>1. IsWellFoundedOn(R, Nat)
  BY NatLessThanWellFounded DEF OpToRel
<1>2. \E x \in T : \A z \in T : ~(<<z, x>> \in R)
  <2> HIDE DEF R
  <2> QED
    BY <1>1, WFMin
<1>3. PICK x \in T : \A z \in T : ~(<<z, x>> \in R)
  BY <1>2
<1>4. ASSUME NEW z \in T PROVE x <= z
  <2>1. z \in Nat /\ x \in Nat
    OBVIOUS
  <2>2. z < x => <<z, x>> \in R
    BY <2>1
  <2> QED
    BY <1>3, <2>1, <2>2
<1> QED
  BY <1>4

\* Division with remainder by a base.
LEMMA DivMod ==
    ASSUME NEW a \in Nat
    PROVE  a \div Base \in Nat /\ (a % Base) \in Byte /\ a = (a \div Base) * Base + (a % Base)
<1>1. PICK b \in Nat \ {0} : b = Base
  OBVIOUS
<1>2. a \div b \in Nat /\ (a % b) \in 0..(b - 1)
  BY SMT
<1>3. a = b * (a \div b) + (a % b)
  BY SMT
<1>4. b * (a \div b) = (a \div b) * b
  BY <1>2, SMT
<1> QED
  BY <1>1, <1>2, <1>3, <1>4 DEF Byte

\* The bytes can be taken off a length one by one, so the recursion of Shifted has a solution.
IsShift(f, len, n) ==
    /\ f \in [0..n -> Nat] /\ f[0] = len
    /\ \A i \in 1..n : f[i] = f[i - 1] \div Base

LEMMA ShiftExists ==
    ASSUME NEW len \in Nat, NEW n \in Nat
    PROVE  \E f : IsShift(f, len, n)
<1> DEFINE T == {k \in Nat : ~\E f : IsShift(f, len, k)}
<1> SUFFICES T = {}
  OBVIOUS
<1> SUFFICES ASSUME NEW y \in T PROVE FALSE
  OBVIOUS
<1>1. T \in SUBSET Nat
  OBVIOUS
<1>2. PICK k \in T : \A z \in T : k <= z
  <2> HIDE DEF T
  <2> QED
    BY <1>1, LeastNat
<1>3. k \in Nat /\ ~\E f : IsShift(f, len, k)
  OBVIOUS
<1>4. CASE k = 0
  <2> DEFINE f == [i \in 0..k |-> len]
  <2>1. IsShift(f, len, k)
    BY <1>4 DEF IsShift
  <2> QED
    BY <1>3, <2>1
<1>5. CASE k # 0
  <2>1. k - 1 \in Nat /\ ~(k <= k - 1)
    BY <1>3, <1>5
  <2>2. k - 1 \notin T
    <3> HIDE DEF T
    <3> QED
      BY <1>2, <2>1
  <2>3. PICK g : IsShift(g, len, k - 1)
    BY <2>1, <2>2
  <2> DEFINE f == [i \in 0..k |-> IF i = k THEN g[k - 1] \div Base ELSE g[i]]
  <2>4. \A i \in 0..k : i # k => i \in 0..(k - 1)
    BY <1>3
  <2>5. g[k - 1] \div Base \in Nat
    <3>1. g[k - 1] \in Nat
      <4>1. k - 1 \in 0..(k - 1)
        BY <2>1
      <4> QED
        BY <2>3, <4>1 DEF IsShift
    <3> QED
      BY <3>1, DivMod
  <2>6. f \in [0..k -> Nat]
    BY <2>3, <2>4, <2>5 DEF IsShift
  <2>7. f[0] = len
    BY <1>3, <1>5, <2>3 DEF IsShift
  <2>8. ASSUME NEW i \in 1..k PROVE f[i] = f[i - 1] \div Base
    <3>1. i \in 0..k /\ i - 1 \in 0..k /\ i - 1 # k
      BY <1>3
    <3>2. f[i - 1] = g[i - 1]
      BY <3>1
    <3>3. CASE i = k
      BY <3>1, <3>2, <3>3
    <3>4. CASE i # k
      <4>1. i \in 1..(k - 1)
        BY <1>3, <3>4
      <4> QED
        BY <2>3, <3>1, <3>2, <3>4, <4>1 DEF IsShift
    <3> QED
      BY <3>3, <3>4
  <2> HIDE DEF f
  <2>9. IsShift(f, len, k)
    BY <2>6, <2>7, <2>8 DEF IsShift
  <2> QED
    BY <1>3, <2>9
<1> QED
  BY <1>4, <1>5

\* What Shifted is.
LEMMA ShiftedIsShift ==
    ASSUME NEW len \in Nat
    PROVE  IsShift([j \in 0..HeaderLen |-> Shifted(len, j)], len, HeaderLen)
<1> DEFINE F(f) == [i \in 0..HeaderLen |-> IF i = 0 THEN len ELSE f[i - 1] \div Base]
           r == CHOOSE f : f = F(f)
<1>1. PICK g : IsShift(g, len, HeaderLen)
  BY ShiftExists
<1>2. g = F(g)
  <2>1. \A i \in 0..HeaderLen : g[i] = IF i = 0 THEN len ELSE g[i - 1] \div Base
    BY <1>1 DEF IsShift
  <2>2. g = [i \in 0..HeaderLen |-> g[i]]
    BY <1>1 DEF IsShift
  <2> QED
    BY <2>1, <2>2
<1>3. r = F(r)
  <2> HIDE DEF F
  <2> QED
    BY <1>2, Zenon
<1>4. \A j : Shifted(len, j) = r[j]
  BY DEF Shifted
<1> HIDE DEF r
<1>5. \A i \in 0..HeaderLen : r[i] = IF i = 0 THEN len ELSE r[i - 1] \div Base
  BY <1>3
<1> HIDE DEF F
<1>6. \A i \in 0..HeaderLen : r[i] = g[i]
  <2> DEFINE T == {i \in 0..HeaderLen : r[i] # g[i]}
  <2> SUFFICES ASSUME NEW y \in T PROVE FALSE
    OBVIOUS
  <2>1. T \in SUBSET Nat
    OBVIOUS
  <2>2. PICK i \in T : \A z \in T : i <= z
    <3> HIDE DEF T
    <3> QED
      BY <2>1, LeastNat
  <2>3. i \in 0..HeaderLen /\ r[i] # g[i]
    OBVIOUS
  <2>4. i # 0
    BY <1>1, <1>5, <2>3 DEF IsShift
  <2>5. i - 1 \in 0..HeaderLen /\ ~(i <= i - 1) /\ i \in 1..HeaderLen
    BY <2>3, <2>4
  <2>6. r[i - 1] = g[i - 1]
    <3>1. i - 1 \notin T
      <4> HIDE DEF T
      <4> QED
        BY <2>2, <2>5
    <3> QED
      BY <2>5, <3>1
  <2> QED
    BY <1>1, <1>5, <2>3, <2>4, <2>5, <2>6 DEF IsShift
<1>7. [j \in 0..HeaderLen |-> Shifted(len, j)] = g
  <2>1. g = [i \in 0..HeaderLen |-> g[i]]
    BY <1>1 DEF IsShift
  <2> QED
    BY <1>4, <1>6, <2>1
<1> QED
  BY <1>1, <1>7

\* The bytes of a header make the length again, from the most significant one on.
LEMMA HeadersAreRead ==
    ASSUME NEW len \in Nat, Shifted(len, HeaderLen) = 0
    PROVE  Header(len) \in [1..HeaderLen -> Byte] /\ Length(Header(len)) = len
<1> DEFINE h == Header(len)
           s(i) == Shifted(len, HeaderLen - i)
           F(f) == [i \in 0..HeaderLen |-> IF i = 0 THEN 0 ELSE f[i - 1] * Base + h[i]]
           g == [i \in 0..HeaderLen |-> s(i)]
           r == CHOOSE f : f = F(f)
<1>1. \A j \in 0..HeaderLen : Shifted(len, j) \in Nat
  BY ShiftedIsShift DEF IsShift
<1>2. \A j \in 1..HeaderLen : Shifted(len, j) = Shifted(len, j - 1) \div Base
  <2> SUFFICES ASSUME NEW j \in 1..HeaderLen PROVE Shifted(len, j) = Shifted(len, j - 1) \div Base
    OBVIOUS
  <2>1. j \in 0..HeaderLen /\ j - 1 \in 0..HeaderLen
    OBVIOUS
  <2> QED
    BY <2>1, ShiftedIsShift DEF IsShift
<1>3. Shifted(len, 0) = len
  <2>1. 0 \in 0..HeaderLen
    OBVIOUS
  <2> QED
    BY <2>1, ShiftedIsShift DEF IsShift
<1>4. ASSUME NEW i \in 1..HeaderLen
      PROVE  s(i - 1) \in Nat /\ s(i) \in Nat /\ h[i] \in Byte /\ s(i) = s(i - 1) * Base + h[i]
  <2>1. PICK j \in 1..HeaderLen : j = HeaderLen - (i - 1) /\ j - 1 = HeaderLen - i
    OBVIOUS
  <2>2. j \in 0..HeaderLen /\ j - 1 \in 0..HeaderLen
    BY <2>1
  <2>3. PICK a \in Nat : a = Shifted(len, j - 1)
    BY <1>1, <2>2
  <2>4. h[i] = a % Base
    BY <2>1, <2>3 DEF Header
  <2> HIDE DEF h
  <2>5. s(i) = a /\ s(i - 1) = a \div Base
    BY <1>2, <2>1, <2>3
  <2> HIDE DEF s
  <2> QED
    BY <2>4, <2>5, DivMod
<1>5. h \in [1..HeaderLen -> Byte]
  <2>1. h = [i \in 1..HeaderLen |-> h[i]]
    BY DEF Header
  <2> HIDE DEF h
  <2> QED
    BY <1>4, <2>1
<1>6. Len(h) = HeaderLen
  <2> HIDE DEF h
  <2> QED
    BY <1>5
<1>7. s(0) = 0 /\ s(HeaderLen) = len
  BY <1>3
<1> HIDE DEF h, s
<1>8. g = F(g)
  <2>1. ASSUME NEW i \in 0..HeaderLen
        PROVE  s(i) = IF i = 0 THEN 0 ELSE g[i - 1] * Base + h[i]
    <3>1. CASE i = 0
      BY <1>7, <3>1
    <3>2. CASE i # 0
      <4>1. i \in 1..HeaderLen /\ i - 1 \in 0..HeaderLen
        BY <3>2
      <4>2. g[i - 1] = s(i - 1)
        BY <4>1
      <4> HIDE DEF g
      <4> QED
        BY <1>4, <3>2, <4>1, <4>2
    <3> QED
      BY <3>1, <3>2
  <2> QED
    BY <2>1, Zenon
<1>9. r = F(r)
  <2> HIDE DEF F, g
  <2> QED
    BY <1>8, Zenon
<1>10. Length(h) = r[HeaderLen]
  BY <1>6 DEF Length
<1> HIDE DEF r
<1>11. \A i \in 0..HeaderLen : r[i] = IF i = 0 THEN 0 ELSE r[i - 1] * Base + h[i]
  BY <1>9
<1> HIDE DEF F, g
<1>12. \A i \in 0..HeaderLen : r[i] = s(i)
  <2> DEFINE T == {i \in 0..HeaderLen : r[i] # s(i)}
  <2> SUFFICES ASSUME NEW y \in T PROVE FALSE
    OBVIOUS
  <2>1. T \in SUBSET Nat
    OBVIOUS
  <2>2. PICK i \in T : \A z \in T : i <= z
    <3> HIDE DEF T
    <3> QED
      BY <2>1, LeastNat
  <2>3. i \in 0..HeaderLen /\ r[i] # s(i)
    OBVIOUS
  <2>4. i # 0
    BY <1>7, <1>11, <2>3
  <2>5. i - 1 \in 0..HeaderLen /\ ~(i <= i - 1) /\ i \in 1..HeaderLen
    BY <2>3, <2>4
  <2>6. r[i - 1] = s(i - 1)
    <3>1. i - 1 \notin T
      <4> HIDE DEF T
      <4> QED
        BY <2>2, <2>5
    <3> QED
      BY <2>5, <3>1
  <2> QED
    BY <1>4, <1>11, <2>3, <2>4, <2>5, <2>6
<1>13. HeaderLen \in 0..HeaderLen
  OBVIOUS
<1> QED
  BY <1>5, <1>7, <1>10, <1>12, <1>13 DEF h

LEMMA HeadersRoundTrip == ASSUME LengthsFit PROVE HeaderRoundTrip
<1> SUFFICES ASSUME NEW m \in Message
             PROVE  Header(Len(m)) \in [1..HeaderLen -> Byte] /\ Length(Header(Len(m))) = Len(m)
  BY DEF HeaderRoundTrip
<1>1. Len(m) \in Nat
  <2>1. m \in Seq(Byte)
    OBVIOUS
  <2> QED
    BY <2>1
<1> QED
  BY <1>1, HeadersAreRead DEF LengthsFit

\* The receiver reads the length the sender wrote (htonl, ntohl), whatever the width of a byte
\* and of a header, if the header can hold it.
THEOREM LengthsAreRead == ASSUME LengthsFit PROVE Spec => []LengthsSurvive
<1>1. LengthsSurvive
  BY HeadersRoundTrip DEF LengthsSurvive
<1> QED
  BY <1>1, PTL

-----------------------------------------------------------------------------
(* Pieces of a stream of bytes.                                            *)

\* The bytes s are in the stream right behind position p.
At(s, stream, p) ==
    /\ p \in Nat /\ s \in Seq(Byte)
    /\ p + Len(s) <= Len(stream)
    /\ \A i \in 1..Len(s) : s[i] = stream[p + i]

\* The two halves of a sequence.
LEMMA CutSeq ==
    ASSUME NEW s \in Seq(Byte), NEW k \in 0..Len(s)
    PROVE  /\ SubSeq(s, 1, k) \in Seq(Byte) /\ Len(SubSeq(s, 1, k)) = k
           /\ \A i \in 1..k : SubSeq(s, 1, k)[i] = s[i]
           /\ SubSeq(s, k + 1, Len(s)) \in Seq(Byte) /\ Len(SubSeq(s, k + 1, Len(s))) = Len(s) - k
           /\ \A i \in 1..(Len(s) - k) : SubSeq(s, k + 1, Len(s))[i] = s[k + i]
<1>1. s \in Seq(Byte) /\ Len(s) \in Nat /\ k \in Int
  OBVIOUS
<1>2. /\ SubSeq(s, 1, k) \in Seq(Byte) /\ Len(SubSeq(s, 1, k)) = k
      /\ \A i \in 1..k : SubSeq(s, 1, k)[i] = s[i]
  BY <1>1, SubSeqProperties
<1>3. /\ SubSeq(s, k + 1, Len(s)) \in Seq(Byte) /\ Len(SubSeq(s, k + 1, Len(s))) = Len(s) - k
      /\ \A i \in 1..(Len(s) - k) : SubSeq(s, k + 1, Len(s))[i] = s[k + i]
  <2> DEFINE t == SubSeq(s, k + 1, Len(s))
  <2>1. k + 1 \in Int /\ Len(s) \in Int /\ \A i \in (k + 1)..Len(s) : s[i] \in Byte
    BY <1>1
  <2>2. /\ t \in Seq(Byte) /\ Len(t) = IF k + 1 <= Len(s) THEN Len(s) - (k + 1) + 1 ELSE 0
        /\ \A i \in 1..(Len(s) - (k + 1) + 1) : t[i] = s[(k + 1) + i - 1]
    BY <2>1, SubSeqProperties
  <2> HIDE DEF t
  <2>3. Len(t) = Len(s) - k
    BY <1>1, <2>2
  <2>4. ASSUME NEW i \in 1..(Len(s) - k) PROVE t[i] = s[k + i]
    <3>1. i \in 1..(Len(s) - (k + 1) + 1) /\ (k + 1) + i - 1 = k + i
      BY <1>1
    <3> QED
      BY <2>2, <3>1
  <2> QED
    BY <2>2, <2>3, <2>4 DEF t
<1> QED
  BY <1>2, <1>3

\* A piece cut in two is two adjacent pieces.
LEMMA CutPiece ==
    ASSUME NEW stream \in Seq(Byte), NEW s, NEW p, At(s, stream, p), NEW k \in 0..Len(s)
    PROVE  /\ At(SubSeq(s, 1, k), stream, p) /\ Len(SubSeq(s, 1, k)) = k
           /\ At(SubSeq(s, k + 1, Len(s)), stream, p + k) /\ Len(SubSeq(s, k + 1, Len(s))) = Len(s) - k
<1>1. s \in Seq(Byte) /\ p \in Nat /\ Len(s) \in Nat /\ Len(stream) \in Nat /\ k \in Int
  BY DEF At
<1>2. /\ SubSeq(s, 1, k) \in Seq(Byte) /\ Len(SubSeq(s, 1, k)) = k
      /\ \A i \in 1..k : SubSeq(s, 1, k)[i] = s[i]
  BY <1>1, CutSeq
<1>3. /\ SubSeq(s, k + 1, Len(s)) \in Seq(Byte) /\ Len(SubSeq(s, k + 1, Len(s))) = Len(s) - k
      /\ \A i \in 1..(Len(s) - k) : SubSeq(s, k + 1, Len(s))[i] = s[k + i]
  BY <1>1, CutSeq
<1>4. At(SubSeq(s, 1, k), stream, p)
  BY <1>1, <1>2 DEF At
<1>5. At(SubSeq(s, k + 1, Len(s)), stream, p + k)
  <2>1. ASSUME NEW i \in 1..(Len(s) - k) PROVE s[k + i] = stream[(p + k) + i]
    <3>1. k + i \in 1..Len(s) /\ p + (k + i) = (p + k) + i
      BY <1>1
    <3> QED
      BY <3>1 DEF At
  <2> DEFINE t == SubSeq(s, k + 1, Len(s))
  <2>2. t \in Seq(Byte) /\ Len(t) = Len(s) - k /\ \A i \in 1..Len(t) : t[i] = stream[(p + k) + i]
    BY <1>3, <2>1
  <2> HIDE DEF t
  <2>3. p + k \in Nat /\ (p + k) + Len(t) <= Len(stream)
    BY <1>1, <2>2 DEF At
  <2>4. At(t, stream, p + k)
    BY <2>2, <2>3 DEF At
  <2> QED
    BY <2>4 DEF t
<1> QED
  BY <1>2, <1>3, <1>4, <1>5

\* Two adjacent pieces joined are one.
LEMMA JoinPieces ==
    ASSUME NEW stream \in Seq(Byte), NEW s, NEW t, NEW p, At(s, stream, p), At(t, stream, p + Len(s))
    PROVE  At(s \o t, stream, p) /\ Len(s \o t) = Len(s) + Len(t)
<1>1. /\ s \in Seq(Byte) /\ t \in Seq(Byte) /\ p \in Nat
      /\ Len(s) \in Nat /\ Len(t) \in Nat /\ Len(stream) \in Nat
  BY DEF At
<1>2. /\ s \o t \in Seq(Byte) /\ Len(s \o t) = Len(s) + Len(t)
      /\ \A i \in 1..(Len(s) + Len(t)) : (s \o t)[i] = IF i <= Len(s) THEN s[i] ELSE t[i - Len(s)]
  BY <1>1, ConcatProperties
<1>3. ASSUME NEW i \in 1..(Len(s) + Len(t)) PROVE (s \o t)[i] = stream[p + i]
  <2>1. CASE i <= Len(s)
    BY <1>1, <1>2, <2>1 DEF At
  <2>2. CASE i > Len(s)
    <3>1. i - Len(s) \in 1..Len(t) /\ (p + Len(s)) + (i - Len(s)) = p + i
      BY <1>1, <2>2
    <3>2. t[i - Len(s)] = stream[p + i]
      BY <3>1 DEF At
    <3> QED
      BY <1>1, <1>2, <2>2, <3>2
  <2> QED
    BY <1>1, <2>1, <2>2
<1>4. p + (Len(s) + Len(t)) <= Len(stream)
  BY <1>1 DEF At
<1> QED
  BY <1>1, <1>2, <1>3, <1>4 DEF At

\* A stream that is extended keeps its pieces and gains one.
LEMMA LongerStream ==
    ASSUME NEW stream \in Seq(Byte), NEW more \in Seq(Byte)
    PROVE  /\ stream \o more \in Seq(Byte) /\ Len(stream \o more) = Len(stream) + Len(more)
           /\ \A s, p : At(s, stream, p) => At(s, stream \o more, p)
           /\ At(more, stream \o more, Len(stream))
<1>1. /\ stream \o more \in Seq(Byte) /\ Len(stream \o more) = Len(stream) + Len(more)
      /\ \A i \in 1..(Len(stream) + Len(more)) :
            (stream \o more)[i] = IF i <= Len(stream) THEN stream[i] ELSE more[i - Len(stream)]
  BY ConcatProperties
<1> DEFINE all == stream \o more
<1> HIDE DEF all
<1>2. ASSUME NEW s, NEW p, At(s, stream, p) PROVE At(s, all, p)
  <2>1. p \in Nat /\ s \in Seq(Byte) /\ Len(s) \in Nat /\ p + Len(s) <= Len(stream) /\ Len(stream) \in Nat
    BY <1>2 DEF At
  <2>2. p + Len(s) <= Len(all)
    BY <1>1, <2>1 DEF all
  <2>3. ASSUME NEW i \in 1..Len(s) PROVE s[i] = all[p + i]
    <3>1. p + i \in 1..(Len(stream) + Len(more)) /\ p + i <= Len(stream)
      BY <2>1
    <3>2. all[p + i] = stream[p + i]
      BY <1>1, <3>1 DEF all
    <3> QED
      BY <1>2, <3>2 DEF At
  <2> QED
    BY <2>1, <2>2, <2>3 DEF At
<1>3. At(more, all, Len(stream))
  <2>1. ASSUME NEW i \in 1..Len(more) PROVE more[i] = all[Len(stream) + i]
    <3>1. /\ Len(stream) + i \in 1..(Len(stream) + Len(more)) /\ ~(Len(stream) + i <= Len(stream))
          /\ (Len(stream) + i) - Len(stream) = i
      OBVIOUS
    <3> QED
      BY <1>1, <3>1 DEF all
  <2> QED
    BY <1>1, <2>1 DEF At, all
<1> QED
  BY <1>1, <1>2, <1>3 DEF all

\* Two pieces of one length at one place are equal.
LEMMA SamePiece ==
    ASSUME NEW stream \in Seq(Byte), NEW s, NEW t, NEW p, At(s, stream, p), At(t, stream, p), Len(s) = Len(t)
    PROVE  s = t
<1>1. s \in Seq(Byte) /\ t \in Seq(Byte) /\ \A i \in 1..Len(s) : s[i] = t[i]
  BY DEF At
<1> QED
  BY <1>1, SeqEqual

-----------------------------------------------------------------------------
(* The inductive invariant.  Some stream of bytes is the encoding of all   *)
(* messages of sent, one frame after the other, off[k] bytes for the first *)
(* k of them.  Receiver, wire and sender hold adjacent pieces of it.       *)

Frame(stream, off, k) ==
    /\ off[k] = off[k - 1] + HeaderLen + Len(sent[k])
    /\ At(Header(Len(sent[k])), stream, off[k - 1])
    /\ At(sent[k], stream, off[k - 1] + HeaderLen)

\* The stream is the encoding of sent, the frame of message k ending at off[k].
Framed(stream, off) ==
    /\ off[Len(sent)] = Len(stream)
    /\ \A j, k \in 0..Len(sent) : j <= k => off[j] <= off[k]
    /\ \A k \in 1..Len(sent) : Frame(stream, off, k)

\* Where the part of the message begins that recvData is reading.
PartStart(off) == off[Len(delivered)] + (IF recvPc = "payload" THEN HeaderLen ELSE 0)

\* What recvData has and what is on the wire are adjacent pieces of the stream.
ReadOK(stream, off) ==
    ~ReceiverGone =>
        /\ At(got, stream, PartStart(off))
        /\ At(wire, stream, PartStart(off) + Len(got))
        /\ recvPc = "idle" => got = <<>>
        /\ recvPc = "header" => want = HeaderLen /\ Len(got) < want
        /\ recvPc = "payload" => /\ Len(delivered) < Len(sent)
                                 /\ want = Len(sent[Len(delivered) + 1]) /\ Len(got) < want

\* What sendData has to send when unsent has gone.
Rest == IF sendPc = "header" THEN Len(Last(sent)) ELSE 0

\* While the connection lasts, what sendData still has to send is the next piece, and the last.
SendOK(stream, off) ==
    (~ReceiverGone /\ ~broken /\ sendPc # "dead") =>
        /\ At(unsent, stream, PartStart(off) + Len(got) + Len(wire))
        /\ PartStart(off) + Len(got) + Len(wire) + Len(unsent) + Rest = Len(stream)

\* Receiver, wire and sender share one encoding of the messages sent.
FrameInv ==
    \E stream \in Seq(Byte), off \in [Nat -> Nat] :
        Framed(stream, off) /\ ReadOK(stream, off) /\ SendOK(stream, off)

\* What the program counters say of the histories.
PcInv ==
    /\ Sending => sent # <<>>
    /\ ~Sending => unsent = <<>>
    /\ Len(delivered) <= Len(sent)

\* The inductive invariant of the framing.
TransportInv == TypeOK /\ PcInv /\ FrameInv

\* The empty piece is everywhere.
LEMMA EmptyPiece ==
    ASSUME NEW stream \in Seq(Byte), NEW p \in Nat, p <= Len(stream)
    PROVE  At(<<>>, stream, p)
BY DEF At

\* Behind a proper prefix there is another element.
LEMMA NextIndex == \A d, n \in Nat : d < n => d + 1 \in 1..n /\ (d + 1) - 1 = d
OBVIOUS

\* Lengths are numbers.
LEMMA Lengths ==
    ASSUME TypeOK
    PROVE  /\ Len(unsent) \in Nat /\ Len(wire) \in Nat /\ Len(got) \in Nat
           /\ Len(sent) \in Nat /\ Len(delivered) \in Nat
<1>1. unsent \in Seq(Byte) /\ wire \in Seq(Byte) /\ got \in Seq(Byte) /\ sent \in Seq(Message)
  BY Zenon DEF TypeOK
<1>2. delivered \in Seq(Seq(Byte))
  BY Zenon DEF TypeOK
<1>3. Len(delivered) \in Nat
  BY <1>2, LenProperties
<1> QED
  BY <1>1, <1>3, LenProperties

\* Nothing has been sent: the stream is empty.
LEMMA InitTransport == Init => TransportInv
<1> SUFFICES ASSUME Init PROVE TransportInv
  OBVIOUS
<1>1. TypeOK
  <2>1. /\ sendPc = "idle" /\ recvPc = "idle" /\ want = 0
        /\ unsent = <<>> /\ wire = <<>> /\ got = <<>> /\ sent = <<>> /\ delivered = <<>>
    BY DEF Init
  <2>2. broken \in BOOLEAN
    BY DEF Init
  <2>3. \A S : <<>> \in Seq(S)
    OBVIOUS
  <2>4. 0 <= BufferSize /\ Len(<<>>) = 0 /\ 0 \in Nat
    OBVIOUS
  <2>5. Len(wire) <= BufferSize
    BY <2>1, <2>4
  <2> QED
    BY <2>1, <2>2, <2>3, <2>4, <2>5, Zenon DEF TypeOK
<1>2. PcInv
  BY DEF Init, PcInv, Sending
<1>3. FrameInv
  <2> DEFINE off == [k \in Nat |-> 0]
  <2>1. off \in [Nat -> Nat] /\ <<>> \in Seq(Byte) /\ off[0] = 0 /\ Len(<<>>) = 0
    OBVIOUS
  <2>2. At(<<>>, <<>>, 0)
    BY DEF At
  <2>3. /\ Len(sent) = 0 /\ Len(delivered) = 0 /\ wire = <<>> /\ got = <<>> /\ unsent = <<>>
        /\ recvPc = "idle" /\ sendPc = "idle"
    BY DEF Init
  <2>4. PartStart(off) = 0 /\ Rest = 0
    BY <2>1, <2>3 DEF PartStart, Rest
  <2>5. Framed(<<>>, off)
    BY <2>1, <2>3 DEF Framed
  <2>6. ReadOK(<<>>, off) /\ SendOK(<<>>, off)
    <3> HIDE DEF off
    <3> QED
      BY <2>1, <2>2, <2>3, <2>4 DEF ReadOK, SendOK
  <2> HIDE DEF off
  <2> QED
    BY <2>1, <2>5, <2>6 DEF FrameInv
<1> QED
  BY <1>1, <1>2, <1>3 DEF TransportInv

\* A header that is complete is that of the next message; so the length is, too.
LEMMA HeaderRead ==
    ASSUME HeaderRoundTrip, TypeOK, PcInv,
           NEW stream \in Seq(Byte), NEW off \in [Nat -> Nat], Framed(stream, off),
           NEW bytes, At(bytes, stream, off[Len(delivered)]), Len(bytes) = HeaderLen
    PROVE  /\ Len(delivered) < Len(sent)
           /\ Length(bytes) = Len(sent[Len(delivered) + 1])
<1> DEFINE d == Len(delivered)
           n == Len(sent)
           m == sent[d + 1]
<1>1. d \in Nat /\ n \in Nat /\ d <= n /\ Len(stream) \in Nat /\ off[d] \in Nat
  <2>1. d \in Nat /\ n \in Nat
    BY Lengths
  <2>2. d <= n
    BY DEF PcInv
  <2> QED
    BY <2>1, <2>2
<1>2. off[d] + HeaderLen <= Len(stream) /\ off[n] = Len(stream)
  BY DEF At, Framed
<1>3. d < n
  BY <1>1, <1>2
<1>4. d + 1 \in 1..n /\ (d + 1) - 1 = d
  BY <1>1, <1>3, NextIndex
<1>5. m \in Message
  <2>1. sent \in Seq(Message)
    BY DEF TypeOK
  <2> QED
    BY <1>4, <2>1
<1>6. At(Header(Len(m)), stream, off[d])
  BY <1>4 DEF Framed, Frame
<1>7. Len(Header(Len(m))) = HeaderLen /\ Length(Header(Len(m))) = Len(m)
  <2>1. Header(Len(m)) \in [1..HeaderLen -> Byte] /\ Length(Header(Len(m))) = Len(m)
    BY <1>5 DEF HeaderRoundTrip
  <2>2. \A f \in [1..HeaderLen -> Byte] : Len(f) = HeaderLen
    OBVIOUS
  <2> QED
    BY <2>1, <2>2
<1>8. bytes = Header(Len(m))
  <2> HIDE DEF m, d
  <2> QED
    BY <1>6, <1>7, SamePiece DEF d
<1> QED
  BY <1>3, <1>7, <1>8

\* A payload that is complete is the next message.
LEMMA PayloadRead ==
    ASSUME TypeOK, NEW stream \in Seq(Byte), NEW off \in [Nat -> Nat], Framed(stream, off),
           Len(delivered) < Len(sent), NEW bytes, At(bytes, stream, off[Len(delivered)] + HeaderLen),
           Len(bytes) = Len(sent[Len(delivered) + 1])
    PROVE  /\ bytes = sent[Len(delivered) + 1]
           /\ off[Len(delivered) + 1] = off[Len(delivered)] + HeaderLen + Len(bytes)
<1> DEFINE d == Len(delivered)
<1>1. d + 1 \in 1..Len(sent) /\ (d + 1) - 1 = d
  <2>1. d \in Nat /\ Len(sent) \in Nat
    BY Lengths
  <2> QED
    BY <2>1, NextIndex
<1>2. Frame(stream, off, d + 1)
  BY <1>1 DEF Framed
<1>3. /\ off[d + 1] = off[d] + HeaderLen + Len(sent[d + 1])
      /\ At(sent[d + 1], stream, off[d] + HeaderLen)
  BY <1>1, <1>2 DEF Frame
<1>4. bytes = sent[d + 1]
  <2> DEFINE m == sent[d + 1]
             p == off[d] + HeaderLen
  <2>1. At(m, stream, p) /\ At(bytes, stream, p) /\ Len(bytes) = Len(m)
    BY <1>3
  <2> HIDE DEF m, p
  <2>2. bytes = m
    BY <2>1, SamePiece
  <2> QED
    BY <2>2 DEF m
<1> QED
  BY <1>3, <1>4

\* Reading on: as long as receiver and wire together hold the same bytes, the sender's
\* piece stays where it is.
LEMMA ReaderMoves ==
    ASSUME NEW stream \in Seq(Byte), NEW off \in [Nat -> Nat], ~ReceiverGone, SendOK(stream, off),
           UNCHANGED <<sendVars, broken>>,
           NEW r \in Nat, NEW w \in Nat, r = PartStart(off) + Len(got), w = Len(wire),
           NEW s \in Nat, NEW v \in Nat, s = (PartStart(off) + Len(got))', v = Len(wire)',
           r + w = s + v
    PROVE  SendOK(stream, off)'
<1> SUFFICES ASSUME ~broken, sendPc # "dead"
             PROVE  /\ At(unsent, stream, PartStart(off) + Len(got) + Len(wire))'
                    /\ (PartStart(off) + Len(got) + Len(wire) + Len(unsent) + Rest)' = Len(stream)
  BY DEF SendOK, sendVars
<1>1. At(unsent, stream, r + w) /\ r + w + Len(unsent) + Rest = Len(stream)
  BY DEF SendOK
<1>2. unsent' = unsent /\ Rest' = Rest
  BY DEF sendVars, Rest
<1>3. At(unsent, stream, s + v) /\ s + v + Len(unsent) + Rest = Len(stream)
  BY <1>1
<1> QED
  BY <1>2, <1>3 DEF At

\* The encoding of what was sent changes only when something is sent.
LEMMA FramesStay ==
    ASSUME NEW stream \in Seq(Byte), NEW off \in [Nat -> Nat], Framed(stream, off), sent' = sent
    PROVE  Framed(stream, off)'
BY DEF Framed, Frame, At

\* A step of the receiver, the sender and what it has sent being as they were.
LEMMA ReceiverSteps ==
    ASSUME TypeOK, PcInv, UNCHANGED <<sendVars, broken>>,
           NEW stream \in Seq(Byte), NEW off \in [Nat -> Nat], Framed(stream, off),
           wire' \in Seq(Byte), Len(wire') <= BufferSize,
           recvPc' \in {"idle", "header", "payload", "ended", "closed"}, want' \in Nat, got' \in Seq(Byte),
           delivered' \in Seq(Seq(Byte)), Len(delivered') <= Len(sent),
           ReadOK(stream, off)', SendOK(stream, off)'
    PROVE  TransportInv'
<1>1. TypeOK'
  <2>1. sendPc' = sendPc /\ unsent' = unsent /\ sent' = sent /\ broken' = broken
    BY DEF sendVars
  <2>2. /\ sendPc \in {"idle", "header", "payload", "closed", "dead"} /\ unsent \in Seq(Byte)
        /\ broken \in BOOLEAN /\ sent \in Seq(Message)
    BY Zenon DEF TypeOK
  <2> QED
    BY <2>1, <2>2, Zenon DEF TypeOK
<1>2. PcInv'
  BY DEF PcInv, Sending, sendVars
<1>3. Framed(stream, off)'
  BY FramesStay DEF sendVars
<1>4. FrameInv'
  BY <1>3 DEF FrameInv
<1> QED
  BY <1>1, <1>2, <1>4 DEF TransportInv

\* recvData begins with the header of the next message.
LEMMA KeepsRecvData == ASSUME TransportInv, RecvData PROVE TransportInv'
<1>1. TypeOK /\ PcInv
  BY DEF TransportInv
<1>2. PICK stream \in Seq(Byte), off \in [Nat -> Nat] :
          Framed(stream, off) /\ ReadOK(stream, off) /\ SendOK(stream, off)
  BY DEF TransportInv, FrameInv
<1>3. /\ recvPc = "idle" /\ recvPc' = "header" /\ want' = HeaderLen /\ got' = <<>>
      /\ UNCHANGED <<delivered, sendVars, wire, broken>>
  BY DEF RecvData
<1>4. /\ wire \in Seq(Byte) /\ Len(wire) <= BufferSize /\ Len(delivered) <= Len(sent)
      /\ Len(wire) \in Nat /\ Len(delivered) \in Nat
  BY <1>1, Lengths DEF TypeOK, PcInv
<1>5. delivered \in Seq(Seq(Byte))
  BY <1>1, Zenon DEF TypeOK
<1>6. ~ReceiverGone /\ got = <<>> /\ At(got, stream, off[Len(delivered)]) /\ At(wire, stream, off[Len(delivered)])
  <2>1. ~ReceiverGone
    BY <1>3 DEF ReceiverGone
  <2>2. PartStart(off) = off[Len(delivered)] /\ off[Len(delivered)] \in Nat
    BY <1>3, <1>4 DEF PartStart
  <2>3. got = <<>> /\ Len(<<>>) = 0
    BY <1>2, <1>3, <2>1 DEF ReadOK
  <2> QED
    BY <1>2, <2>1, <2>2, <2>3 DEF ReadOK
<1>7. PartStart(off)' = off[Len(delivered)] /\ PartStart(off) = off[Len(delivered)] /\ off[Len(delivered)] \in Nat
  BY <1>3, <1>4 DEF PartStart
<1>8. ReadOK(stream, off)'
  <2>1. Len(<<>>) = 0 /\ HeaderLen > 0
    OBVIOUS
  <2> QED
    BY <1>3, <1>6, <1>7, <2>1 DEF ReadOK
<1>9. SendOK(stream, off)'
  <2>1. PartStart(off) + Len(got) = off[Len(delivered)] /\ (PartStart(off) + Len(got))' = off[Len(delivered)]
    BY <1>3, <1>6, <1>7
  <2>2. Len(wire)' = Len(wire) /\ UNCHANGED <<sendVars, broken>>
    BY <1>3
  <2> QED
    BY <1>2, <1>4, <1>6, <1>7, <2>1, <2>2, ReaderMoves
<1> QED
  <2>1. /\ wire' \in Seq(Byte) /\ Len(wire') <= BufferSize /\ want' \in Nat /\ got' \in Seq(Byte)
        /\ recvPc' \in {"idle", "header", "payload", "ended", "closed"} /\ Len(delivered') <= Len(sent)
        /\ UNCHANGED <<sendVars, broken>>
    BY <1>3, <1>4
  <2>2. delivered' \in Seq(Seq(Byte))
    BY <1>3, <1>5, Zenon
  <2> QED
    BY <1>1, <1>2, <1>8, <1>9, <2>1, <2>2, ReceiverSteps

\* recvData returns nothing, or the receiver goes: it reads no more.
LEMMA ReaderLeaves ==
    ASSUME TransportInv, UNCHANGED <<sendVars, broken, wire, delivered>>, ReceiverGone', want' = 0, got' = <<>>
    PROVE  TransportInv'
<1>1. TypeOK /\ PcInv
  BY DEF TransportInv
<1>2. PICK stream \in Seq(Byte), off \in [Nat -> Nat] :
          Framed(stream, off) /\ ReadOK(stream, off) /\ SendOK(stream, off)
  BY DEF TransportInv, FrameInv
<1>3. ReadOK(stream, off)' /\ SendOK(stream, off)'
  BY DEF ReadOK, SendOK
<1>4. wire' \in Seq(Byte) /\ Len(wire') <= BufferSize /\ Len(delivered') <= Len(sent)
  BY <1>1 DEF TypeOK, PcInv
<1>5. delivered' \in Seq(Seq(Byte))
  BY <1>1, Zenon DEF TypeOK
<1>6. want' \in Nat /\ got' \in Seq(Byte) /\ recvPc' \in {"idle", "header", "payload", "ended", "closed"}
  BY DEF ReceiverGone
<1> QED
  BY <1>1, <1>2, <1>3, <1>4, <1>5, <1>6, ReceiverSteps

\* A receiver that has ended promises nothing.
LEMMA KeepsRecvEnds == ASSUME TransportInv, RecvEnds \/ CloseReceiver PROVE TransportInv'
<1>1. UNCHANGED <<sendVars, broken, wire, delivered>> /\ want' = 0 /\ got' = <<>> /\ ReceiverGone'
  BY DEF RecvEnds, CloseReceiver, ReturnEmpty, ReceiverGone
<1> QED
  BY <1>1, ReaderLeaves

\* ::recv takes k bytes off the wire; the piece behind them is what is left of it.
LEMMA TakeBytes ==
    ASSUME TypeOK, NEW stream \in Seq(Byte), NEW p \in Nat, At(got, stream, p), At(wire, stream, p + Len(got)),
           NEW k \in Nat, k <= Len(wire)
    PROVE  /\ At(got \o SubSeq(wire, 1, k), stream, p) /\ Len(got \o SubSeq(wire, 1, k)) = Len(got) + k
           /\ At(SubSeq(wire, k + 1, Len(wire)), stream, p + (Len(got) + k))
           /\ Len(SubSeq(wire, k + 1, Len(wire))) = Len(wire) - k
<1>1. k \in 0..Len(wire) /\ Len(got) \in Nat /\ p + Len(got) + k = p + (Len(got) + k)
  BY Lengths
<1>2. /\ At(SubSeq(wire, 1, k), stream, p + Len(got)) /\ Len(SubSeq(wire, 1, k)) = k
      /\ At(SubSeq(wire, k + 1, Len(wire)), stream, p + Len(got) + k)
      /\ Len(SubSeq(wire, k + 1, Len(wire))) = Len(wire) - k
  BY <1>1, CutPiece
<1> DEFINE t == SubSeq(wire, 1, k)
<1>3. At(t, stream, p + Len(got)) /\ Len(t) = k
  BY <1>2
<1> HIDE DEF t
<1>4. At(got \o t, stream, p) /\ Len(got \o t) = Len(got) + k
  BY <1>3, JoinPieces
<1> QED
  BY <1>1, <1>2, <1>4 DEF t

\* Arithmetic of positions.
LEMMA NatSum == \A a \in Nat : a + 0 \in Nat /\ a + HeaderLen \in Nat
OBVIOUS

\* What ::recv takes from the wire extends what recvData has.
LEMMA KeepsRecvBytes ==
    ASSUME HeaderRoundTrip, TransportInv, NEW k \in 1..BufferSize, RecvBytes(k)
    PROVE  TransportInv'
<1> DEFINE all == got \o SubSeq(wire, 1, k)
           left == SubSeq(wire, k + 1, Len(wire))
<1>1. TypeOK /\ PcInv
  BY DEF TransportInv
<1>2. PICK stream \in Seq(Byte), off \in [Nat -> Nat] :
          Framed(stream, off) /\ ReadOK(stream, off) /\ SendOK(stream, off)
  BY DEF TransportInv, FrameInv
<1>3. PICK p \in Nat : p = PartStart(off)
  <2>1. Len(delivered) \in Nat
    BY <1>1, Lengths
  <2>2. off[Len(delivered)] \in Nat
    BY <2>1
  <2>3. PartStart(off) \in Nat
    BY <2>2, NatSum, Zenon DEF PartStart
  <2> QED
    BY <2>3
<1>4. PICK d \in Nat : d = Len(delivered)
  BY <1>1, Lengths
<1>5. Receiving /\ ~ReceiverGone /\ k \in Nat /\ k <= Len(wire)
  <2>1. Receiving /\ k <= Len(wire)
    BY DEF RecvBytes
  <2>2. ~ReceiverGone
    BY <2>1 DEF Receiving, ReceiverGone
  <2> QED
    BY <2>1, <2>2
<1>6. At(got, stream, p) /\ At(wire, stream, p + Len(got))
  BY <1>2, <1>3, <1>5 DEF ReadOK
<1>7. /\ At(all, stream, p) /\ Len(all) = Len(got) + k
      /\ At(left, stream, p + (Len(got) + k)) /\ Len(left) = Len(wire) - k
  BY <1>1, <1>5, <1>6, TakeBytes
<1>8. /\ wire' = left /\ UNCHANGED <<sendVars, broken>>
      /\ Len(all) <= want
      /\ IF Len(all) = want THEN PartComplete(all) ELSE got' = all /\ UNCHANGED <<recvPc, want, delivered>>
  BY DEF RecvBytes, PartRead
<1> HIDE DEF all, left
<1>9. /\ Len(got) \in Nat /\ Len(wire) \in Nat /\ Len(wire) <= BufferSize /\ all \in Seq(Byte) /\ left \in Seq(Byte)
      /\ d <= Len(sent) /\ Len(sent) \in Nat /\ want \in Nat
  BY <1>1, <1>4, <1>7, Lengths DEF At, TypeOK, PcInv
<1>15. /\ Len(left) \in Nat /\ p + Len(got) \in Nat /\ p + (Len(got) + k) \in Nat
       /\ (p + Len(got)) + Len(wire) = (p + (Len(got) + k)) + Len(left)
  <2>1. Len(got) \in Nat /\ Len(wire) \in Nat /\ k \in Nat /\ k <= Len(wire)
    BY <1>5, <1>9
  <2>2. /\ Len(wire) - k \in Nat /\ p + Len(got) \in Nat /\ p + (Len(got) + k) \in Nat
        /\ (p + Len(got)) + Len(wire) = (p + (Len(got) + k)) + (Len(wire) - k)
    <3>1. \A g, w \in Nat : k <= w => /\ w - k \in Nat /\ p + g \in Nat /\ p + (g + k) \in Nat
                                     /\ (p + g) + w = (p + (g + k)) + (w - k)
      BY <2>1
    <3>2. \A w \in Nat : k <= w => /\ w - k \in Nat /\ p + Len(got) \in Nat /\ p + (Len(got) + k) \in Nat
                                  /\ (p + Len(got)) + w = (p + (Len(got) + k)) + (w - k)
      BY <2>1, <3>1, Zenon
    <3> QED
      BY <2>1, <3>2, Zenon
  <2> QED
    BY <1>7, <2>2, Zenon
<1>10. wire' \in Seq(Byte) /\ Len(wire') <= BufferSize
  BY <1>5, <1>7, <1>8, <1>9
<1>11. delivered \in Seq(Seq(Byte))
  BY <1>1, Zenon DEF TypeOK
<1>12. CASE Len(all) # want
  <2>1. got' = all /\ recvPc' = recvPc /\ want' = want /\ delivered' = delivered
    BY <1>8, <1>12
  <2>2. PartStart(off)' = p /\ PartStart(off) = p
    BY <1>3, <2>1 DEF PartStart
  <2>3. Len(all) < want
    <3>1. Len(all) <= want
      BY <1>8
    <3>2. Len(all) \in Nat /\ want \in Nat
      BY <1>9, LenProperties
    <3> QED
      BY <1>12, <3>1, <3>2
  <2>4. ReadOK(stream, off)'
    <3>1. At(got, stream, p)' /\ At(wire, stream, p + Len(got))'
      BY <1>7, <1>8, <2>1
    <3>2. recvPc # "idle" /\ sent' = sent /\ Len(got') < want'
      BY <1>5, <1>8, <2>1, <2>3 DEF Receiving, sendVars
    <3>3. recvPc = "header" => want = HeaderLen
      BY <1>2, <1>5 DEF ReadOK
    <3>4. recvPc = "payload" => d < Len(sent) /\ want = Len(sent[d + 1])
      BY <1>2, <1>4, <1>5 DEF ReadOK
    <3> QED
      BY <1>4, <2>1, <2>2, <3>1, <3>2, <3>3, <3>4 DEF ReadOK
  <2>5. SendOK(stream, off)'
    <3>1. PICK r \in Nat, s \in Nat, w \in Nat, v \in Nat :
             r = p + Len(got) /\ s = p + Len(all) /\ w = Len(wire) /\ v = Len(left) /\ r + w = s + v
      <4>1. /\ Len(left) \in Nat /\ p + Len(got) \in Nat /\ p + (Len(got) + k) \in Nat
            /\ (p + Len(got)) + Len(wire) = (p + (Len(got) + k)) + Len(left)
        BY <1>15
      <4>2. p + Len(all) = p + (Len(got) + k)
        BY <1>7
      <4>3. p + Len(got) \in Nat /\ p + Len(all) \in Nat /\ Len(wire) \in Nat
        BY <1>9, <4>1, <4>2, Zenon
      <4> QED
        BY <4>1, <4>2, <4>3
    <3>2. r = PartStart(off) + Len(got) /\ s = (PartStart(off) + Len(got))' /\ v = Len(wire)'
      BY <1>8, <2>1, <2>2, <3>1
    <3> QED
      BY <1>2, <1>5, <1>8, <3>1, <3>2, ReaderMoves
  <2>6. recvPc' \in {"idle", "header", "payload", "ended", "closed"} /\ Len(delivered') <= Len(sent)
    BY <1>4, <1>5, <1>9, <2>1 DEF Receiving
  <2>7. delivered' \in Seq(Seq(Byte)) /\ got' \in Seq(Byte) /\ want' \in Nat
    BY <1>9, <1>11, <2>1, Zenon
  <2> QED
    BY <1>1, <1>2, <1>8, <1>10, <2>4, <2>5, <2>6, <2>7, ReceiverSteps
<1>13. CASE Len(all) = want /\ recvPc = "header"
  <2>1. want = HeaderLen /\ PartStart(off) = off[d] /\ p = off[d]
    BY <1>2, <1>3, <1>4, <1>5, <1>9, <1>13 DEF ReadOK, PartStart
  <2>2. d < Len(sent) /\ Length(all) = Len(sent[d + 1])
    BY <1>1, <1>2, <1>4, <1>7, <1>13, <2>1, HeaderRead
  <2>3. PartComplete(all)
    BY <1>8, <1>13
  <2>4. CASE Length(all) = 0
    <3>1. recvPc' = "ended" /\ want' = 0 /\ got' = <<>> /\ delivered' = delivered
      BY <1>13, <2>3, <2>4 DEF PartComplete, ReturnEmpty
    <3>2. ReadOK(stream, off)' /\ SendOK(stream, off)'
      BY <3>1 DEF ReadOK, SendOK, ReceiverGone
    <3>3. recvPc' \in {"idle", "header", "payload", "ended", "closed"} /\ want' \in Nat /\ got' \in Seq(Byte)
      BY <3>1
    <3>4. Len(delivered') <= Len(sent)
      BY <1>4, <1>9, <3>1
    <3>5. delivered' \in Seq(Seq(Byte))
      BY <1>11, <3>1, Zenon
    <3> QED
      BY <1>1, <1>2, <1>8, <1>10, <3>2, <3>3, <3>4, <3>5, ReceiverSteps
  <2>5. CASE Length(all) # 0
    <3>1. recvPc' = "payload" /\ want' = Length(all) /\ got' = <<>> /\ delivered' = delivered
      BY <1>13, <2>3, <2>5 DEF PartComplete
    <3>2. PartStart(off)' = p + HeaderLen
      BY <1>4, <2>1, <3>1 DEF PartStart
    <3>3. want' \in Nat /\ want' > 0
      <4>1. sent[d + 1] \in Message
        <5>1. d + 1 \in 1..Len(sent)
          BY <1>9, <2>2, NextIndex
        <5>2. sent \in Seq(Message)
          BY <1>1 DEF TypeOK
        <5> QED
          BY <5>1, <5>2
      <4>2. Len(sent[d + 1]) \in Nat
        <5>1. sent[d + 1] \in Seq(Byte)
          BY <4>1
        <5> QED
          BY <5>1, LenProperties
      <4>3. want' \in Nat /\ want' # 0
        BY <2>2, <2>5, <3>1, <4>2
      <4> QED
        BY <4>3
    <3>4. At(<<>>, stream, p + HeaderLen) /\ At(left, stream, p + HeaderLen)
      <4>1. At(left, stream, p + HeaderLen)
        BY <1>7, <1>13, <2>1
      <4>2. p + HeaderLen \in Nat /\ p + HeaderLen <= Len(stream)
        BY <4>1, LenProperties DEF At
      <4> QED
        BY <4>1, <4>2, EmptyPiece
    <3>5. ReadOK(stream, off)'
      <4>1. At(got, stream, p + HeaderLen)' /\ Len(got') = 0
        BY <3>1, <3>4
      <4>2. At(wire, stream, p + HeaderLen + Len(got))'
        <5>1. p + HeaderLen + Len(got') = p + HeaderLen
          BY <4>1
        <5> QED
          BY <1>8, <3>4, <5>1
      <4>3. Len(delivered') < Len(sent') /\ want' = Len(sent'[Len(delivered') + 1])
        BY <1>4, <1>8, <2>2, <3>1 DEF sendVars
      <4> QED
        BY <3>1, <3>2, <3>3, <4>1, <4>2, <4>3 DEF ReadOK
    <3>6. SendOK(stream, off)'
      <4>1. PICK r \in Nat, s \in Nat, w \in Nat, v \in Nat :
               r = p + Len(got) /\ s = p + HeaderLen /\ w = Len(wire) /\ v = Len(left) /\ r + w = s + v
        <5>1. /\ Len(left) \in Nat /\ p + Len(got) \in Nat /\ p + (Len(got) + k) \in Nat
              /\ (p + Len(got)) + Len(wire) = (p + (Len(got) + k)) + Len(left)
          BY <1>15
        <5>2. p + HeaderLen = p + (Len(got) + k)
          BY <1>7, <1>13, <2>1
        <5>3. p + Len(got) \in Nat /\ p + HeaderLen \in Nat /\ Len(wire) \in Nat
          BY <1>9, <5>1, <5>2, Zenon
        <5> QED
          BY <5>1, <5>2, <5>3
      <4>2. Len(got') = 0
        BY <3>1
      <4>3. r = PartStart(off) + Len(got) /\ s = (PartStart(off) + Len(got))' /\ v = Len(wire)'
        BY <1>3, <1>8, <3>2, <4>1, <4>2
      <4> QED
        BY <1>2, <1>5, <1>8, <4>1, <4>3, ReaderMoves
    <3>7. recvPc' \in {"idle", "header", "payload", "ended", "closed"} /\ got' \in Seq(Byte)
      BY <3>1
    <3>8. Len(delivered') <= Len(sent)
      BY <1>4, <1>9, <3>1
    <3>9. delivered' \in Seq(Seq(Byte))
      BY <1>11, <3>1, Zenon
    <3> QED
      BY <1>1, <1>2, <1>8, <1>10, <3>3, <3>5, <3>6, <3>7, <3>8, <3>9, ReceiverSteps
  <2> QED
    BY <2>4, <2>5
<1>14. CASE Len(all) = want /\ recvPc = "payload"
  <2>1. /\ d < Len(sent) /\ want = Len(sent[d + 1])
        /\ PartStart(off) = off[d] + HeaderLen /\ p = off[d] + HeaderLen
    BY <1>2, <1>3, <1>4, <1>5, <1>9, <1>14 DEF ReadOK, PartStart
  <2>2. all = sent[d + 1] /\ off[d + 1] = p + Len(all)
    BY <1>1, <1>2, <1>4, <1>7, <1>14, <2>1, PayloadRead
  <2>3. recvPc' = "idle" /\ want' = 0 /\ got' = <<>> /\ delivered' = Append(delivered, all)
    BY <1>8, <1>14 DEF PartComplete
  <2>4. delivered' \in Seq(Seq(Byte)) /\ Len(delivered') = d + 1
    BY <1>4, <1>9, <1>11, <2>3, AppendProperties
  <2>5. PartStart(off)' = off[d + 1] /\ off[d + 1] \in Nat
    <3>1. d + 1 \in Nat
      OBVIOUS
    <3> QED
      BY <2>3, <2>4, <3>1 DEF PartStart
  <2>6. At(<<>>, stream, off[d + 1]) /\ At(left, stream, off[d + 1])
    <3>1. At(left, stream, off[d + 1])
      BY <1>7, <2>2
    <3>2. off[d + 1] <= Len(stream)
      BY <2>5, <3>1, LenProperties DEF At
    <3> QED
      BY <2>5, <3>1, <3>2, EmptyPiece
  <2>7. ReadOK(stream, off)'
    <3>1. At(got, stream, off[d + 1])' /\ Len(got') = 0
      BY <2>3, <2>6
    <3>2. At(wire', stream, off[d + 1] + Len(got'))
      <4>1. off[d + 1] + Len(got') = off[d + 1]
        BY <2>5, <3>1
      <4> QED
        BY <1>8, <2>6, <4>1
    <3> QED
      BY <2>3, <2>5, <3>1, <3>2 DEF ReadOK
  <2>8. SendOK(stream, off)'
    <3>1. PICK r \in Nat, s \in Nat, w \in Nat, v \in Nat :
             r = p + Len(got) /\ s = off[d + 1] /\ w = Len(wire) /\ v = Len(left) /\ r + w = s + v
      <4>1. /\ Len(left) \in Nat /\ p + Len(got) \in Nat /\ p + (Len(got) + k) \in Nat
            /\ (p + Len(got)) + Len(wire) = (p + (Len(got) + k)) + Len(left)
        BY <1>15
      <4>2. off[d + 1] = p + (Len(got) + k)
        BY <1>7, <2>2
      <4>3. p + Len(got) \in Nat /\ off[d + 1] \in Nat /\ Len(wire) \in Nat
        BY <1>9, <4>1, <4>2, Zenon
      <4> QED
        BY <4>1, <4>2, <4>3
    <3>2. Len(got') = 0
      BY <2>3
    <3>3. r = PartStart(off) + Len(got) /\ s = (PartStart(off) + Len(got))' /\ v = Len(wire)'
      BY <1>3, <1>8, <2>5, <3>1, <3>2
    <3> QED
      BY <1>2, <1>5, <1>8, <3>1, <3>3, ReaderMoves
  <2>9. Len(delivered') <= Len(sent)
    BY <1>9, <2>1, <2>4
  <2>10. recvPc' \in {"idle", "header", "payload", "ended", "closed"} /\ want' \in Nat /\ got' \in Seq(Byte)
    BY <2>3
  <2> QED
    BY <1>1, <1>2, <1>8, <1>10, <2>4, <2>7, <2>8, <2>9, <2>10, ReceiverSteps
<1> QED
  BY <1>5, <1>12, <1>13, <1>14 DEF Receiving

\* A step that leaves the receiver alone, and what was sent.
LEMMA SenderSteps ==
    ASSUME TypeOK, PcInv, UNCHANGED <<recvVars, sent>>, broken' \in BOOLEAN,
           NEW stream \in Seq(Byte), NEW off \in [Nat -> Nat], Framed(stream, off),
           wire' \in Seq(Byte), Len(wire') <= BufferSize,
           sendPc' \in {"idle", "header", "payload", "closed", "dead"}, unsent' \in Seq(Byte),
           Sending' => Sending, ~Sending' => unsent' = <<>>,
           ReadOK(stream, off)', SendOK(stream, off)'
    PROVE  TransportInv'
<1>1. TypeOK'
  <2>1. recvPc' = recvPc /\ want' = want /\ got' = got /\ delivered' = delivered /\ sent' = sent
    BY DEF recvVars
  <2>2. /\ recvPc \in {"idle", "header", "payload", "ended", "closed"} /\ want \in Nat /\ got \in Seq(Byte)
        /\ delivered \in Seq(Seq(Byte)) /\ sent \in Seq(Message)
    BY Zenon DEF TypeOK
  <2> QED
    BY <2>1, <2>2, Zenon DEF TypeOK
<1>2. PcInv'
  BY DEF PcInv, recvVars
<1>3. Framed(stream, off)'
  BY FramesStay
<1>4. FrameInv'
  BY <1>3 DEF FrameInv
<1> QED
  BY <1>1, <1>2, <1>4 DEF TransportInv

\* The receiver's pieces stay where they are when the wire does.
LEMMA ReaderStays ==
    ASSUME NEW stream, NEW off, ReadOK(stream, off), UNCHANGED <<recvVars, wire, sent>>
    PROVE  ReadOK(stream, off)' /\ PartStart(off)' = PartStart(off)
BY DEF ReadOK, At, PartStart, recvVars, ReceiverGone

\* A call of sendData that fails, or a sender that stops, leaves the wire as it is.
LEMMA KeepsSenderStops == ASSUME TransportInv, SendFails \/ CloseSender PROVE TransportInv'
<1>1. TypeOK /\ PcInv
  BY DEF TransportInv
<1>2. PICK stream \in Seq(Byte), off \in [Nat -> Nat] :
          Framed(stream, off) /\ ReadOK(stream, off) /\ SendOK(stream, off)
  BY DEF TransportInv, FrameInv
<1>3. /\ unsent' = <<>> /\ UNCHANGED <<wire, broken, sent, recvVars>>
      /\ \/ broken /\ sendPc' \in {"idle", "dead"}
         \/ sendPc = "idle" /\ sendPc' = "closed"
         \/ sendPc' = "dead"
  BY DEF SendFails, CloseSender
<1>4. ReadOK(stream, off)' /\ PartStart(off)' = PartStart(off)
  BY <1>2, <1>3, ReaderStays
<1>5. SendOK(stream, off)'
  <2>1. CASE broken \/ sendPc' = "dead"
    BY <1>3, <2>1 DEF SendOK
  <2>2. CASE sendPc = "idle" /\ sendPc' = "closed"
    <3>1. unsent = <<>> /\ unsent' = <<>> /\ Rest = 0 /\ Rest' = 0
      BY <1>1, <1>3, <2>2 DEF PcInv, Sending, Rest
    <3>2. got' = got /\ wire' = wire /\ broken' = broken /\ ReceiverGone' = ReceiverGone /\ sendPc # "dead"
      BY <1>3, <2>2 DEF recvVars, ReceiverGone
    <3> QED
      BY <1>2, <1>4, <3>1, <3>2 DEF SendOK, At
  <2> QED
    BY <1>3, <2>1, <2>2
<1>6. wire' \in Seq(Byte) /\ Len(wire') <= BufferSize /\ broken' \in BOOLEAN
  BY <1>1, <1>3 DEF TypeOK
<1>7. sendPc' \in {"idle", "header", "payload", "closed", "dead"} /\ unsent' \in Seq(Byte) /\ ~Sending'
  BY <1>3 DEF Sending
<1> QED
  BY <1>1, <1>2, <1>3, <1>4, <1>5, <1>6, <1>7, SenderSteps

\* A reset loses the end of the wire: what is left is still a piece of the stream.
LEMMA KeepsReset == ASSUME TransportInv, Reset PROVE TransportInv'
<1>1. TypeOK /\ PcInv
  BY DEF TransportInv
<1>2. PICK stream \in Seq(Byte), off \in [Nat -> Nat] :
          Framed(stream, off) /\ ReadOK(stream, off) /\ SendOK(stream, off)
  BY DEF TransportInv, FrameInv
<1>3. broken' = TRUE /\ UNCHANGED <<sendVars, recvVars>>
  BY DEF Reset
<1>4. PICK k \in 0..Len(wire) : wire' = SubSeq(wire, 1, k)
  BY DEF Reset
<1>5. wire' \in Seq(Byte) /\ Len(wire') = k
  <2>1. wire \in Seq(Byte) /\ Len(wire) \in Nat
    BY <1>1, Lengths DEF TypeOK
  <2>2. SubSeq(wire, 1, k) \in Seq(Byte) /\ Len(SubSeq(wire, 1, k)) = k
    BY <2>1, CutSeq
  <2> QED
    BY <1>4, <2>2
<1>6. Len(wire') <= BufferSize
  <2>1. Len(wire) <= BufferSize /\ Len(wire) \in Nat
    BY <1>1, Lengths DEF TypeOK
  <2> QED
    BY <1>5, <2>1
<1>7. ReadOK(stream, off)'
  <2>1. PartStart(off)' = PartStart(off) /\ got' = got /\ recvPc' = recvPc /\ want' = want
        /\ delivered' = delivered /\ sent' = sent /\ ReceiverGone' = ReceiverGone
    BY <1>3 DEF recvVars, sendVars, PartStart, ReceiverGone
  <2>2. ASSUME ~ReceiverGone PROVE At(wire', stream, PartStart(off) + Len(got))
    <3> DEFINE p == PartStart(off) + Len(got)
    <3>1. At(wire, stream, p)
      BY <1>2, <2>2 DEF ReadOK
    <3> HIDE DEF p
    <3>2. At(SubSeq(wire, 1, k), stream, p)
      BY <3>1, CutPiece
    <3> QED
      BY <1>4, <3>2 DEF p
  <2> QED
    BY <1>2, <2>1, <2>2 DEF ReadOK, At
<1>8. SendOK(stream, off)'
  BY <1>3 DEF SendOK
<1>9. broken' \in BOOLEAN /\ UNCHANGED <<recvVars, sent>> /\ sendPc' = sendPc /\ unsent' = unsent
  BY <1>3 DEF sendVars
<1>10. /\ sendPc' \in {"idle", "header", "payload", "closed", "dead"} /\ unsent' \in Seq(Byte)
       /\ Sending' = Sending /\ (~Sending' => unsent' = <<>>)
  BY <1>1, <1>9 DEF TypeOK, PcInv, Sending
<1> QED
  BY <1>1, <1>2, <1>5, <1>6, <1>7, <1>8, <1>9, <1>10, SenderSteps

\* The stream ends with the payload of the last message.
LEMMA LastFrame ==
    ASSUME TypeOK, sent # <<>>, NEW stream \in Seq(Byte), NEW off \in [Nat -> Nat], Framed(stream, off)
    PROVE  /\ Last(sent) \in Seq(Byte)
           /\ \E q \in Nat : At(Last(sent), stream, q) /\ q + Len(Last(sent)) = Len(stream)
<1>1. sent \in Seq(Message) /\ Len(sent) \in Nat /\ Len(sent) # 0
  <2>1. sent \in Seq(Message)
    BY DEF TypeOK
  <2> QED
    BY <2>1, EmptySeq, LenProperties
<1>2. PICK n \in Nat : n = Len(sent) /\ n \in 1..Len(sent)
  BY <1>1
<1>3. Last(sent) = sent[n] /\ sent[n] \in Message
  BY <1>1, <1>2 DEF Last
<1>4. Frame(stream, off, n) /\ off[n] = Len(stream)
  BY <1>2 DEF Framed
<1>5. /\ At(sent[n], stream, off[n - 1] + HeaderLen)
      /\ off[n - 1] + HeaderLen + Len(sent[n]) = Len(stream)
  BY <1>4 DEF Frame
<1>6. off[n - 1] + HeaderLen \in Nat
  BY <1>5 DEF At
<1> QED
  BY <1>3, <1>5, <1>6

\* ::send has taken the k first bytes of unsent; s is to be sent next.
LEMMA SenderMoves ==
    ASSUME TypeOK, NEW stream \in Seq(Byte), NEW off \in [Nat -> Nat], ReadOK(stream, off), ~ReceiverGone,
           UNCHANGED <<recvVars, sent>>, NEW k \in Nat, k <= Len(unsent), wire' = wire \o SubSeq(unsent, 1, k),
           At(unsent, stream, PartStart(off) + Len(got) + Len(wire)),
           NEW q \in Nat, q = PartStart(off) + Len(got) + Len(wire) + k,
           At(unsent', stream, q), q + Len(unsent') + Rest' = Len(stream)
    PROVE  ReadOK(stream, off)' /\ SendOK(stream, off)'
<1>1. /\ PartStart(off)' = PartStart(off) /\ got' = got /\ recvPc' = recvPc /\ want' = want
      /\ delivered' = delivered /\ sent' = sent /\ ReceiverGone' = ReceiverGone
  BY DEF recvVars, PartStart, ReceiverGone
<1>2. PICK p : p = PartStart(off) + Len(got)
  OBVIOUS
<1>3. At(wire, stream, p) /\ p \in Nat /\ Len(wire) \in Nat /\ q = p + Len(wire) + k
  <2>1. At(wire, stream, p)
    BY <1>2 DEF ReadOK
  <2>2. Len(wire) \in Nat
    BY Lengths
  <2> QED
    BY <1>2, <2>1, <2>2 DEF At
<1>4. At(wire', stream, p) /\ Len(wire') = Len(wire) + k
  <2> DEFINE t == SubSeq(unsent, 1, k)
  <2>1. k \in 0..Len(unsent)
    BY Lengths
  <2>2. At(t, stream, p + Len(wire)) /\ Len(t) = k
    <3>1. PICK r : r = PartStart(off) + Len(got) + Len(wire)
      OBVIOUS
    <3>2. At(unsent, stream, r) /\ r = p + Len(wire)
      BY <1>2, <3>1
    <3>3. At(SubSeq(unsent, 1, k), stream, r) /\ Len(SubSeq(unsent, 1, k)) = k
      BY <2>1, <3>2, CutPiece
    <3> QED
      BY <3>2, <3>3
  <2> HIDE DEF t
  <2>3. At(wire \o t, stream, p) /\ Len(wire \o t) = Len(wire) + k
    BY <1>3, <2>2, JoinPieces
  <2> QED
    BY <2>3 DEF t
<1>5. ReadOK(stream, off)'
  BY <1>1, <1>2, <1>4 DEF ReadOK, At
<1>6. SendOK(stream, off)'
  <2>1. (PartStart(off) + Len(got))' = p
    BY <1>1, <1>2
  <2>2. p + Len(wire') = q
    <3>1. \A w \in Nat : p + (w + k) = p + w + k
      BY <1>3
    <3> QED
      BY <1>3, <1>4, <3>1
  <2> QED
    BY <2>1, <2>2 DEF SendOK, At
<1> QED
  BY <1>5, <1>6

\* What ::send puts on the wire is the next piece of the stream.
LEMMA KeepsSendBytes == ASSUME TransportInv, NEW k \in 1..BufferSize, SendBytes(k) PROVE TransportInv'
<1>1. TypeOK /\ PcInv
  BY DEF TransportInv
<1>2. PICK stream \in Seq(Byte), off \in [Nat -> Nat] :
          Framed(stream, off) /\ ReadOK(stream, off) /\ SendOK(stream, off)
  BY DEF TransportInv, FrameInv
<1>3. Sending /\ ~broken /\ k <= Len(unsent) /\ Len(wire) + k <= BufferSize /\ k \in Nat
  <2>1. k \in Nat
    OBVIOUS
  <2> QED
    BY <2>1 DEF SendBytes
<1>4. /\ wire' = wire \o SubSeq(unsent, 1, k) /\ UNCHANGED <<broken, sent, recvVars>>
      /\ IF k = Len(unsent) THEN AllSent
         ELSE unsent' = SubSeq(unsent, k + 1, Len(unsent)) /\ UNCHANGED sendPc
  BY DEF SendBytes
<1>5. unsent \in Seq(Byte) /\ wire \in Seq(Byte) /\ Len(unsent) \in Nat /\ Len(wire) \in Nat /\ k \in 0..Len(unsent)
  <2>1. unsent \in Seq(Byte) /\ wire \in Seq(Byte)
    BY <1>1 DEF TypeOK
  <2>2. Len(unsent) \in Nat /\ Len(wire) \in Nat
    BY <1>1, Lengths
  <2> QED
    BY <1>3, <2>1, <2>2
<1>6. sent # <<>>
  BY <1>1, <1>3 DEF PcInv
<1>7. /\ Last(sent) \in Seq(Byte)
      /\ \E q \in Nat : At(Last(sent), stream, q) /\ q + Len(Last(sent)) = Len(stream)
  BY <1>1, <1>2, <1>6, LastFrame
<1>8. wire' \in Seq(Byte) /\ Len(wire') <= BufferSize
  <2>1. SubSeq(unsent, 1, k) \in Seq(Byte) /\ Len(SubSeq(unsent, 1, k)) = k
    BY <1>5, CutSeq
  <2>2. wire' \in Seq(Byte) /\ Len(wire') = Len(wire) + k
    BY <1>4, <1>5, <2>1, ConcatProperties
  <2> QED
    BY <1>3, <2>2
<1>9. /\ sendPc' \in {"idle", "header", "payload", "closed", "dead"} /\ unsent' \in Seq(Byte)
      /\ ~Sending' => unsent' = <<>>
  <2>1. CASE k = Len(unsent)
    <3>1. AllSent /\ <<>> \in Seq(Byte)
      BY <1>4, <2>1
    <3> QED
      BY <1>7, <3>1 DEF AllSent, Sending
  <2>2. CASE k # Len(unsent)
    <3>1. unsent' = SubSeq(unsent, k + 1, Len(unsent)) /\ sendPc' = sendPc
      BY <1>4, <2>2
    <3>2. SubSeq(unsent, k + 1, Len(unsent)) \in Seq(Byte)
      BY <1>5, CutSeq
    <3> QED
      BY <1>3, <3>1, <3>2 DEF Sending
  <2> QED
    BY <2>1, <2>2
<1>10. CASE ReceiverGone
  <2>1. ReceiverGone'
    BY <1>4, <1>10 DEF ReceiverGone, recvVars
  <2>2. ReadOK(stream, off)' /\ SendOK(stream, off)'
    BY <2>1 DEF ReadOK, SendOK
  <2>3. broken' \in BOOLEAN
    BY <1>1, <1>4 DEF TypeOK
  <2> QED
    BY <1>1, <1>2, <1>3, <1>4, <1>8, <1>9, <2>2, <2>3, SenderSteps
<1>11. CASE ~ReceiverGone
  <2>1. PICK p \in Nat : p = PartStart(off) + Len(got) + Len(wire)
    <3>1. At(unsent, stream, PartStart(off) + Len(got) + Len(wire))
      BY <1>2, <1>3, <1>11 DEF SendOK, Sending
    <3> QED
      BY <3>1 DEF At
  <2>2. At(unsent, stream, p) /\ p + Len(unsent) + Rest = Len(stream)
    BY <1>2, <1>3, <1>11, <2>1 DEF SendOK, Sending
  <2>3. PICK q \in Nat : q = p + k
    BY <1>3
  <2>4. At(SubSeq(unsent, k + 1, Len(unsent)), stream, q) /\ Len(SubSeq(unsent, k + 1, Len(unsent))) = Len(unsent) - k
    BY <1>5, <2>2, <2>3, CutPiece
  <2>5. Len(stream) \in Nat /\ Len(Last(sent)) \in Nat
    BY <1>7, LenProperties
  <2>6. At(unsent', stream, q) /\ q + Len(unsent') + Rest' = Len(stream)
    <3>1. CASE k # Len(unsent)
      <4>1. unsent' = SubSeq(unsent, k + 1, Len(unsent)) /\ Rest' = Rest
        BY <1>4, <3>1 DEF Rest
      <4>2. Rest \in Nat
        BY <2>5 DEF Rest
      <4>3. \A u, r \in Nat : (p + k) + (u - k) + r = p + u + r
        BY <1>3
      <4>4. q + (Len(unsent) - k) + Rest = Len(stream)
        BY <1>5, <2>2, <2>3, <4>2, <4>3, Zenon
      <4> QED
        BY <2>4, <4>1, <4>4
    <3>2. CASE k = Len(unsent) /\ sendPc = "header" /\ Last(sent) # <<>>
      <4>1. sendPc' = "payload" /\ unsent' = Last(sent) /\ Rest' = 0 /\ Rest = Len(Last(sent))
        BY <1>4, <3>2 DEF AllSent, Rest
      <4>2. q + Len(Last(sent)) = Len(stream)
        BY <2>2, <2>3, <3>2, <4>1
      <4>3. PICK r \in Nat : At(Last(sent), stream, r) /\ r + Len(Last(sent)) = Len(stream)
        BY <1>7
      <4>4. r = q
        <5>1. \A l, t \in Nat : (q + l = t /\ r + l = t) => r = q
          OBVIOUS
        <5> QED
          BY <2>5, <4>2, <4>3, <5>1, Zenon
      <4> QED
        BY <2>5, <4>1, <4>2, <4>3, <4>4
    <3>3. CASE k = Len(unsent) /\ ~(sendPc = "header" /\ Last(sent) # <<>>)
      <4>1. sendPc' = "idle" /\ unsent' = <<>> /\ Rest' = 0
        BY <1>4, <3>3 DEF AllSent, Rest
      <4>2. Rest = 0
        BY <3>3 DEF Rest
      <4>3. q = Len(stream)
        BY <1>5, <2>2, <2>3, <3>3, <4>2
      <4>4. At(<<>>, stream, q)
        BY <2>5, <4>3, EmptyPiece
      <4> QED
        BY <4>1, <4>3, <4>4
    <3> QED
      BY <3>1, <3>2, <3>3
  <2>7. ReadOK(stream, off)' /\ SendOK(stream, off)'
    BY <1>1, <1>2, <1>3, <1>4, <1>11, <2>1, <2>2, <2>3, <2>6, SenderMoves
  <2>8. broken' \in BOOLEAN
    BY <1>1, <1>4 DEF TypeOK
  <2> QED
    BY <1>1, <1>2, <1>3, <1>4, <1>8, <1>9, <2>7, <2>8, SenderSteps
<1> QED
  BY <1>10, <1>11

\* sendData adds a frame at the end of the stream.
LEMMA KeepsSendData ==
    ASSUME HeaderRoundTrip, TransportInv, NEW m \in Message, SendData(m)
    PROVE  TransportInv'
<1>1. TypeOK /\ PcInv
  BY DEF TransportInv
<1>2. PICK stream \in Seq(Byte), off \in [Nat -> Nat] :
          Framed(stream, off) /\ ReadOK(stream, off) /\ SendOK(stream, off)
  BY DEF TransportInv, FrameInv
<1>3. /\ sendPc = "idle" /\ sendPc' = "header" /\ unsent' = Header(Len(m)) /\ sent' = Append(sent, m)
      /\ wire' = wire /\ broken' = broken /\ UNCHANGED recvVars
  BY DEF SendData
<1>4. PICK h \in Seq(Byte) : h = Header(Len(m)) /\ Len(h) = HeaderLen
  <2>1. Header(Len(m)) \in [1..HeaderLen -> Byte]
    BY DEF HeaderRoundTrip
  <2>2. \A f \in [1..HeaderLen -> Byte] : f \in Seq(Byte) /\ Len(f) = HeaderLen
    OBVIOUS
  <2> QED
    BY <2>1, <2>2
<1>5. m \in Seq(Byte) /\ Len(m) \in Nat
  <2>1. m \in Seq(Byte)
    OBVIOUS
  <2> QED
    BY <2>1, LenProperties
<1>6. PICK n \in Nat : n = Len(sent)
  BY <1>1, Lengths
<1>7. sent \in Seq(Message)
  BY <1>1 DEF TypeOK
<1>8. /\ sent' \in Seq(Message) /\ Len(sent') = n + 1 /\ sent'[n + 1] = m
      /\ \A k \in 1..n : sent'[k] = sent[k]
  BY <1>3, <1>6, <1>7, AppendProperties
<1>9. PICK t \in Seq(Byte) : t = stream \o h
  BY LongerStream, <1>4
<1>10. /\ Len(t) = Len(stream) + HeaderLen /\ At(h, t, Len(stream))
       /\ \A s, p : At(s, stream, p) => At(s, t, p)
  BY <1>4, <1>9, LongerStream
<1>11. PICK u \in Seq(Byte) : u = t \o m
  BY LongerStream, <1>5
<1>12. /\ Len(u) = Len(t) + Len(m) /\ At(m, u, Len(t))
       /\ \A s, p : At(s, t, p) => At(s, u, p)
  BY <1>5, <1>11, LongerStream
<1>13. PICK l \in Nat : l = Len(stream)
  BY LenProperties
<1>14. /\ Len(u) = l + HeaderLen + Len(m) /\ At(h, u, l) /\ At(m, u, l + HeaderLen)
       /\ \A s, p : At(s, stream, p) => At(s, u, p)
  BY <1>10, <1>12, <1>13
<1>15. PICK e \in [Nat -> Nat] : /\ e[n + 1] = l + HeaderLen + Len(m)
                                 /\ \A j \in 0..n : e[j] = off[j]
  <2> DEFINE e == [j \in Nat |-> IF j <= n THEN off[j] ELSE l + HeaderLen + Len(m)]
  <2>1. l + HeaderLen + Len(m) \in Nat
    BY <1>5
  <2>2. e \in [Nat -> Nat]
    BY <2>1
  <2>3. e[n + 1] = l + HeaderLen + Len(m) /\ \A j \in 0..n : e[j] = off[j]
    OBVIOUS
  <2> HIDE DEF e
  <2> QED
    BY <2>2, <2>3
<1>16. off[n] = l
  BY <1>2, <1>6, <1>13 DEF Framed
<1>17. Framed(u, e)'
  <2>1. e[Len(sent')] = Len(u)
    BY <1>8, <1>14, <1>15
  <2>2. \A j, k \in 0..Len(sent') : j <= k => e[j] <= e[k]
    <3>1. \A j, k \in 0..n : j <= k => off[j] <= off[k]
      BY <1>2, <1>6 DEF Framed
    <3>2. \A j \in 0..n : off[j] <= l /\ off[j] \in Nat
      <4>1. \A j \in 0..n : j \in Nat /\ j <= n /\ n \in 0..n
        OBVIOUS
      <4>2. \A j \in 0..n : off[j] <= off[n] /\ off[j] \in Nat
        BY <3>1, <4>1
      <4> QED
        BY <1>16, <4>2
    <3>3. l <= l + HeaderLen + Len(m)
      BY <1>5
    <3> SUFFICES ASSUME NEW j \in 0..(n + 1), NEW k \in 0..(n + 1), j <= k PROVE e[j] <= e[k]
      BY <1>8
    <3>4. CASE k <= n
      <4>1. j \in 0..n /\ k \in 0..n
        BY <3>4
      <4> QED
        BY <1>15, <3>1, <4>1
    <3>5. CASE j <= n /\ k = n + 1
      <4>1. j \in 0..n
        BY <3>5
      <4>2. off[j] <= l /\ off[j] \in Nat /\ e[j] = off[j] /\ e[k] = l + HeaderLen + Len(m)
        BY <1>15, <3>2, <3>5, <4>1
      <4> QED
        BY <1>5, <4>2
    <3>6. CASE j = n + 1 /\ k = n + 1
      BY <1>15, <3>6
    <3> QED
      BY <3>4, <3>5, <3>6
  <2>3. ASSUME NEW k \in 1..Len(sent') PROVE Frame(u, e, k)'
    <3>1. CASE k \in 1..n
      <4>1. Frame(stream, off, k)
        BY <1>2, <1>6, <3>1 DEF Framed
      <4>2. e[k] = off[k] /\ e[k - 1] = off[k - 1] /\ sent'[k] = sent[k]
        <5>1. k \in 0..n /\ k - 1 \in 0..n
          BY <3>1
        <5> QED
          BY <1>8, <1>15, <3>1, <5>1
      <4>3. /\ off[k] = off[k - 1] + HeaderLen + Len(sent[k])
            /\ At(Header(Len(sent[k])), stream, off[k - 1]) /\ At(sent[k], stream, off[k - 1] + HeaderLen)
        BY <4>1 DEF Frame
      <4>4. At(Header(Len(sent[k])), u, off[k - 1]) /\ At(sent[k], u, off[k - 1] + HeaderLen)
        BY <1>14, <4>3
      <4> QED
        BY <4>2, <4>3, <4>4 DEF Frame, At
    <3>2. CASE k = n + 1
      <4>1. e[k - 1] = l /\ e[k] = l + HeaderLen + Len(m) /\ sent'[k] = m
        <5>1. k - 1 = n /\ n \in 0..n
          BY <3>2
        <5> QED
          BY <1>8, <1>15, <1>16, <3>2, <5>1
      <4> QED
        BY <1>4, <1>14, <4>1 DEF Frame, At
    <3>3. k \in 1..(n + 1)
      BY <1>8
    <3> QED
      BY <3>1, <3>2, <3>3
  <2> QED
    BY <2>1, <2>2, <2>3 DEF Framed
<1>18. PICK d \in Nat : d = Len(delivered) /\ d <= n
  BY <1>1, <1>6, Lengths DEF PcInv
<1>19. /\ got' = got /\ recvPc' = recvPc /\ want' = want /\ delivered' = delivered /\ wire' = wire
       /\ ReceiverGone' = ReceiverGone /\ PartStart(e)' = PartStart(off)
  <2>1. e[d] = off[d]
    BY <1>15, <1>18
  <2> QED
    BY <1>3, <1>18, <2>1 DEF recvVars, ReceiverGone, PartStart
<1>20. ReadOK(u, e)'
  <2> SUFFICES ASSUME ~ReceiverGone PROVE ReadOK(u, e)'
    BY <1>19 DEF ReadOK
  <2>1. At(got, stream, PartStart(off)) /\ At(wire, stream, PartStart(off) + Len(got))
    BY <1>2 DEF ReadOK
  <2>2. At(got, u, PartStart(off)) /\ At(wire, u, PartStart(off) + Len(got))
    BY <1>14, <2>1
  <2>3. ASSUME recvPc = "payload" PROVE d < n + 1 /\ want = Len(sent'[d + 1])
    <3>1. d < n /\ want = Len(sent[d + 1])
      BY <1>2, <1>6, <1>18, <2>3 DEF ReadOK
    <3>2. d + 1 \in 1..n /\ d < n + 1
      BY <3>1
    <3>3. sent'[d + 1] = sent[d + 1]
      BY <1>8, <3>2, Zenon
    <3> QED
      BY <3>1, <3>2, <3>3
  <2>4. /\ recvPc = "idle" => got = <<>>
        /\ recvPc = "header" => want = HeaderLen /\ Len(got) < want
        /\ recvPc = "payload" => Len(got) < want
    BY <1>2 DEF ReadOK
  <2> QED
    BY <1>8, <1>18, <1>19, <2>2, <2>3, <2>4 DEF ReadOK, At
<1>21. SendOK(u, e)'
  <2> SUFFICES ASSUME ~ReceiverGone, ~broken PROVE SendOK(u, e)'
    BY <1>3, <1>19 DEF SendOK
  <2>1. unsent = <<>> /\ Rest = 0 /\ sendPc # "dead"
    BY <1>1, <1>3 DEF PcInv, Sending, Rest
  <2>2. PICK p : p = PartStart(off) + Len(got) + Len(wire)
    OBVIOUS
  <2>3. At(unsent, stream, p) /\ p + Len(unsent) + Rest = Len(stream)
    BY <1>2, <2>1, <2>2 DEF SendOK
  <2>4. p = l
    <3>1. p \in Nat /\ Len(<<>>) = 0
      BY <2>3 DEF At
    <3> QED
      BY <1>13, <2>1, <2>3, <3>1
  <2>5. unsent' = h /\ Rest' = Len(m)
    <3>1. Last(sent') = m
      BY <1>8 DEF Last
    <3> QED
      BY <1>3, <1>4, <3>1 DEF Rest
  <2>6. (PartStart(e) + Len(got) + Len(wire))' = l
    BY <1>19, <2>2, <2>4
  <2> QED
    BY <1>4, <1>14, <2>5, <2>6 DEF SendOK, At
<1>22. FrameInv'
  BY <1>17, <1>20, <1>21 DEF FrameInv
<1>23. PcInv'
  <2>1. sent' # <<>> /\ Len(delivered') <= Len(sent')
    BY <1>8, <1>18, <1>19
  <2> QED
    BY <1>3, <2>1 DEF PcInv, Sending
<1>24. TypeOK'
  <2>1. /\ recvPc \in {"idle", "header", "payload", "ended", "closed"}
        /\ wire \in Seq(Byte) /\ got \in Seq(Byte) /\ Len(wire) <= BufferSize
        /\ broken \in BOOLEAN /\ want \in Nat /\ delivered \in Seq(Seq(Byte))
    BY <1>1, Zenon DEF TypeOK
  <2>2. unsent' \in Seq(Byte) /\ sendPc' \in {"idle", "header", "payload", "closed", "dead"}
    BY <1>3, <1>4
  <2> QED
    BY <1>3, <1>8, <1>19, <2>1, <2>2, Zenon DEF TypeOK
<1> QED
  BY <1>22, <1>23, <1>24 DEF TransportInv

\* Every step keeps the invariant.
LEMMA TransportStep == ASSUME HeaderRoundTrip, TransportInv, [Next]_vars PROVE TransportInv'
<1>1. CASE UNCHANGED vars
  <2>1. /\ sendPc' = sendPc /\ unsent' = unsent /\ sent' = sent /\ wire' = wire /\ broken' = broken
        /\ recvPc' = recvPc /\ want' = want /\ got' = got /\ delivered' = delivered
    BY <1>1 DEF vars, sendVars, recvVars
  <2>2. TypeOK' /\ PcInv'
    BY <2>1 DEF TransportInv, TypeOK, PcInv, Sending
  <2>3. PICK stream \in Seq(Byte), off \in [Nat -> Nat] :
          Framed(stream, off) /\ ReadOK(stream, off) /\ SendOK(stream, off)
    BY DEF TransportInv, FrameInv
  <2>4. Framed(stream, off)' /\ ReadOK(stream, off)' /\ PartStart(off)' = PartStart(off)
    BY <2>1, <2>3, FramesStay, ReaderStays DEF recvVars
  <2>5. SendOK(stream, off)'
    BY <2>1, <2>3, <2>4 DEF SendOK, Rest, ReceiverGone, At
  <2>6. FrameInv'
    BY <2>4, <2>5 DEF FrameInv
  <2> QED
    BY <2>2, <2>6 DEF TransportInv
<1>2. ASSUME NEW m \in Message, SendData(m) PROVE TransportInv'
  BY <1>2, KeepsSendData
<1>3. CASE SendStep
  BY <1>3, KeepsSendBytes, KeepsSenderStops DEF SendStep
<1>4. CASE RecvStep
  BY <1>4, KeepsRecvData, KeepsRecvEnds, KeepsRecvBytes DEF RecvStep
<1>5. CASE CloseSender
  BY <1>5, KeepsSenderStops
<1>6. CASE CloseReceiver
  BY <1>6, KeepsRecvEnds
<1>7. CASE Reset
  BY <1>7, KeepsReset
<1> QED
  BY <1>1, <1>2, <1>3, <1>4, <1>5, <1>6, <1>7 DEF Next

\* The state keeps its types, the wire never holds more than the buffer has room for, and
\* recvData never waits for a number of bytes that is not the length of a part of a message
\* (sendData, recvData), whatever the messages, the buffer and the pieces the bytes travel in.
THEOREM TransportTypeCorrect == ASSUME LengthsFit PROVE Spec => []TypeOK
<1>1. Init => TransportInv
  BY InitTransport
<1>2. TransportInv /\ [Next]_vars => TransportInv'
  BY HeadersRoundTrip, TransportStep
<1>3. TransportInv => TypeOK
  BY DEF TransportInv
<1> QED
  BY <1>1, <1>2, <1>3, PTL DEF Spec

-----------------------------------------------------------------------------
(* The byte stream implements the message channel.                         *)

\* A part that is incomplete ends before the end of its frame.
LEMMA NoGap ==
    \A a, g, x \in Nat : /\ a + HeaderLen + x <= a + g => ~(g < HeaderLen)
                         /\ a + HeaderLen + x <= (a + HeaderLen) + g => ~(g < x)
                         /\ a + 0 = a
OBVIOUS

\* After an orderly close an empty wire has nothing more to bring.
LEMMA NothingPending ==
    ASSUME TransportInv, Receiving, wire = <<>>, ~broken, sendPc = "closed"
    PROVE  ~(Len(delivered) < Len(sent))
<1> SUFFICES ASSUME Len(delivered) < Len(sent) PROVE FALSE
  OBVIOUS
<1>1. TypeOK /\ PcInv
  BY DEF TransportInv
<1>2. PICK stream \in Seq(Byte), off \in [Nat -> Nat] :
          Framed(stream, off) /\ ReadOK(stream, off) /\ SendOK(stream, off)
  BY DEF TransportInv, FrameInv
<1>3. PICK d \in Nat, n \in Nat : d = Len(delivered) /\ n = Len(sent) /\ d < n
  BY <1>1, Lengths
<1>4. d + 1 \in 1..n /\ d + 1 \in 0..n /\ n \in 0..n /\ (d + 1) - 1 = d /\ d + 1 <= n
  <2>1. \A i, j \in Nat : i < j => i + 1 \in 1..j /\ i + 1 \in 0..j /\ j \in 0..j /\ (i + 1) - 1 = i /\ i + 1 <= j
    OBVIOUS
  <2> QED
    BY <1>3, <2>1, Zenon
<1>5. ~ReceiverGone
  BY DEF Receiving, ReceiverGone
<1>6. PICK g \in Nat : g = Len(got)
  BY <1>1, Lengths
<1>7. PICK a \in Nat, b \in Nat, l \in Nat : a = off[d] /\ b = off[d + 1] /\ l = Len(stream)
  <2>1. d + 1 \in Nat
    OBVIOUS
  <2>2. off[d] \in Nat /\ off[d + 1] \in Nat /\ Len(stream) \in Nat
    BY <2>1, LenProperties
  <2> QED
    BY <2>2
<1>8. b <= l
  <2>1. off[d + 1] <= off[n] /\ off[n] = Len(stream)
    BY <1>2, <1>3, <1>4 DEF Framed
  <2> QED
    BY <1>7, <2>1
<1>9. PICK x \in Nat : x = Len(sent[d + 1]) /\ b = a + HeaderLen + x
  <2>1. sent \in Seq(Message)
    BY <1>1 DEF TypeOK
  <2>2. sent[d + 1] \in Message
    BY <1>3, <1>4, <2>1
  <2>3. sent[d + 1] \in Seq(Byte)
    BY <2>2
  <2>4. Len(sent[d + 1]) \in Nat
    BY <2>3, LenProperties
  <2>5. Frame(stream, off, d + 1)
    BY <1>2, <1>3, <1>4 DEF Framed
  <2>6. off[d + 1] = off[d] + HeaderLen + Len(sent[d + 1])
    BY <1>4, <2>5 DEF Frame
  <2> QED
    BY <1>7, <2>4, <2>6
<1>10. PartStart(off) + g = l
  <2>1. unsent = <<>> /\ Rest = 0 /\ Len(<<>>) = 0
    BY <1>1 DEF PcInv, Sending, Rest
  <2>2. PartStart(off) + Len(got) + Len(wire) + Len(unsent) + Rest = Len(stream)
    BY <1>2, <1>5 DEF SendOK
  <2>3. PartStart(off) + Len(got) + Len(wire) \in Nat
    BY <1>2, <1>5 DEF SendOK, At
  <2>4. At(got, stream, PartStart(off))
    BY <1>2, <1>5 DEF ReadOK
  <2>5. PartStart(off) \in Nat
    BY <2>4 DEF At
  <2> QED
    BY <1>6, <1>7, <2>1, <2>2, <2>5
<1>11. CASE recvPc = "header"
  <2>1. PartStart(off) = a + 0 /\ g < HeaderLen
    BY <1>2, <1>3, <1>5, <1>6, <1>7, <1>11 DEF ReadOK, PartStart
  <2>2. a + HeaderLen + x <= a + g
    BY <1>8, <1>9, <1>10, <2>1, NoGap, Zenon
  <2> QED
    BY <2>1, <2>2, NoGap, Zenon
<1>12. CASE recvPc = "payload"
  <2>1. PartStart(off) = a + HeaderLen /\ g < x
    BY <1>2, <1>3, <1>5, <1>6, <1>7, <1>9, <1>12 DEF ReadOK, PartStart
  <2>2. a + HeaderLen + x <= (a + HeaderLen) + g
    BY <1>8, <1>9, <1>10, <2>1, Zenon
  <2> QED
    BY <2>1, <2>2, NoGap, Zenon
<1> QED
  BY <1>11, <1>12 DEF Receiving

\* What a read of k bytes does to the channel: nothing, or it delivers a message, or an
\* empty message ends it.
LEMMA ReadMaps ==
    ASSUME HeaderRoundTrip, TransportInv, NEW k \in 1..BufferSize, RecvBytes(k)
    PROVE  Channel!Deliver \/ Channel!End \/ UNCHANGED Channel!vars
<1> DEFINE all == got \o SubSeq(wire, 1, k)
<1>1. TypeOK /\ PcInv
  BY DEF TransportInv
<1>2. PICK stream \in Seq(Byte), off \in [Nat -> Nat] :
          Framed(stream, off) /\ ReadOK(stream, off) /\ SendOK(stream, off)
  BY DEF TransportInv, FrameInv
<1>3. Receiving /\ ~ReceiverGone
  BY DEF RecvBytes, Receiving, ReceiverGone
<1>4. /\ sendPc' = sendPc /\ sent' = sent /\ broken' = broken
      /\ IF Len(all) = want THEN PartComplete(all) ELSE UNCHANGED <<recvPc, want, delivered>>
  BY DEF RecvBytes, PartRead, sendVars
<1>5. PICK d \in Nat : d = Len(delivered)
  BY <1>1, Lengths
<1>6. At(all, stream, PartStart(off))
  <2>1. At(got, stream, PartStart(off)) /\ At(wire, stream, PartStart(off) + Len(got))
    BY <1>2, <1>3 DEF ReadOK
  <2>2. PartStart(off) \in Nat
    BY <2>1 DEF At
  <2>3. k <= Len(wire)
    BY DEF RecvBytes
  <2>4. k \in Nat
    OBVIOUS
  <2>5. PICK p \in Nat : p = PartStart(off)
    BY <2>2
  <2>6. At(all, stream, p)
    BY <1>1, <2>1, <2>3, <2>4, <2>5, TakeBytes
  <2> QED
    BY <2>5, <2>6
<1> HIDE DEF all
<1>7. CASE Len(all) # want
  BY <1>4, <1>7 DEF Channel!vars, ReceiverGone
<1>8. CASE Len(all) = want /\ recvPc = "header"
  <2>1. PartStart(off) = off[d] /\ want = HeaderLen
    <3>1. off[d] \in Nat
      OBVIOUS
    <3> QED
      BY <1>2, <1>3, <1>5, <1>8, <3>1 DEF ReadOK, PartStart
  <2>2. d < Len(sent) /\ Length(all) = Len(sent[d + 1])
    BY <1>1, <1>2, <1>5, <1>6, <1>8, <2>1, HeaderRead
  <2>3. PartComplete(all)
    BY <1>4, <1>8
  <2>4. CASE Length(all) # 0
    <3>1. recvPc' = "payload" /\ delivered' = delivered
      BY <1>8, <2>3, <2>4 DEF PartComplete
    <3> QED
      BY <1>4, <1>8, <3>1 DEF Channel!vars, ReceiverGone
  <2>5. CASE Length(all) = 0
    <3>1. recvPc' = "ended" /\ delivered' = delivered
      BY <1>8, <2>3, <2>5 DEF PartComplete, ReturnEmpty
    <3>2. sent[d + 1] = <<>>
      <4>1. sent \in Seq(Message) /\ Len(sent) \in Nat
        BY <1>1, Lengths DEF TypeOK
      <4>2. d + 1 \in 1..Len(sent)
        BY <2>2, <4>1, NextIndex
      <4>3. sent[d + 1] \in Seq(Byte)
        BY <4>1, <4>2
      <4> QED
        BY <2>2, <2>5, <4>3, EmptySeq
    <3>3. Channel!End
      BY <1>4, <1>5, <1>8, <2>2, <3>1, <3>2 DEF Channel!End, Channel!Pending, Channel!Coming, ReceiverGone
    <3> QED
      BY <3>3
  <2> QED
    BY <2>4, <2>5
<1>9. CASE Len(all) = want /\ recvPc = "payload"
  <2>1. /\ PartStart(off) = off[d] + HeaderLen
        /\ d < Len(sent) /\ want = Len(sent[d + 1]) /\ Len(got) < want
    BY <1>2, <1>3, <1>5, <1>9 DEF ReadOK, PartStart
  <2>2. all = sent[d + 1]
    BY <1>1, <1>2, <1>5, <1>6, <1>9, <2>1, PayloadRead
  <2>3. recvPc' = "idle" /\ delivered' = Append(delivered, all)
    BY <1>4, <1>9 DEF PartComplete
  <2>4. sent[d + 1] # <<>>
    <3>1. Len(got) \in Nat /\ Len(<<>>) = 0 /\ \A g \in Nat : ~(g < 0)
      BY <1>1, Lengths
    <3> QED
      BY <2>1, <3>1, Zenon
  <2>5. Channel!Deliver
    BY <1>4, <1>5, <1>9, <2>1, <2>2, <2>3, <2>4 DEF Channel!Deliver, Channel!Pending, Channel!Coming, ReceiverGone
  <2> QED
    BY <2>5
<1> QED
  BY <1>3, <1>7, <1>8, <1>9 DEF Receiving

\* Every step of the framing is one of the channel, or a stutter.
LEMMA ChannelStep ==
    ASSUME HeaderRoundTrip, TransportInv, [Next]_vars
    PROVE  [Channel!Next]_(Channel!vars)
<1>1. CASE UNCHANGED vars
  BY <1>1 DEF vars, sendVars, recvVars, Channel!vars, ReceiverGone
<1>2. ASSUME NEW m \in Message, SendData(m) PROVE Channel!Next
  <2>1. Channel!Send(m)
    BY <1>2 DEF SendData, Channel!Send, recvVars, ReceiverGone
  <2> QED
    BY <2>1 DEF Channel!Next
<1>3. ASSUME NEW k \in 1..BufferSize, SendBytes(k) PROVE UNCHANGED Channel!vars
  <2>1. Sending /\ sendPc' \in {"idle", "header", "payload"} /\ UNCHANGED <<broken, sent, recvVars>>
    BY <1>3 DEF SendBytes, AllSent, Sending
  <2> QED
    BY <2>1 DEF Channel!vars, Sending, recvVars, ReceiverGone
<1>4. CASE SendFails
  BY <1>4 DEF SendFails, Channel!vars, recvVars, ReceiverGone
<1>5. CASE RecvData
  BY <1>5 DEF RecvData, Channel!vars, sendVars, ReceiverGone
<1>6. CASE RecvEnds
  <2>1. /\ Receiving /\ wire = <<>> /\ (SenderGone \/ broken) /\ recvPc' = "ended"
        /\ delivered' = delivered /\ sendPc' = sendPc /\ sent' = sent /\ broken' = broken
    BY <1>6 DEF RecvEnds, StreamEnded, ReturnEmpty, sendVars
  <2>2. ~broken /\ sendPc = "closed" => ~(Len(delivered) < Len(sent))
    BY <2>1, NothingPending
  <2>3. Channel!End
    BY <2>1, <2>2 DEF Channel!End, Channel!Pending, Receiving, ReceiverGone, SenderGone
  <2> QED
    BY <2>3 DEF Channel!Next
<1>7. ASSUME NEW k \in 1..BufferSize, RecvBytes(k) PROVE [Channel!Next]_(Channel!vars)
  BY <1>7, ReadMaps DEF Channel!Next
<1>8. CASE CloseSender
  <2>1. broken' = broken /\ sent' = sent /\ delivered' = delivered /\ recvPc' = recvPc
    BY <1>8 DEF CloseSender, recvVars
  <2>2. Channel!Cut \/ UNCHANGED Channel!vars
    BY <1>8, <2>1 DEF CloseSender, Channel!Cut, Channel!vars, SenderGone, ReceiverGone
  <2> QED
    BY <2>2 DEF Channel!Next
<1>9. CASE CloseReceiver
  <2>1. Channel!Leave
    BY <1>9 DEF CloseReceiver, Channel!Leave, sendVars, ReceiverGone
  <2> QED
    BY <2>1 DEF Channel!Next
<1>10. CASE Reset
  <2>1. ~broken /\ broken' /\ sendPc' = sendPc /\ sent' = sent /\ delivered' = delivered /\ recvPc' = recvPc
    BY <1>10 DEF Reset, sendVars, recvVars
  <2>2. Channel!Cut \/ UNCHANGED Channel!vars
    BY <2>1 DEF Channel!Cut, Channel!vars, ReceiverGone
  <2> QED
    BY <2>2 DEF Channel!Next
<1> QED
  BY <1>1, <1>2, <1>3, <1>4, <1>5, <1>6, <1>7, <1>8, <1>9, <1>10 DEF Next, SendStep, RecvStep

\* The framing of sendData and recvData makes a message channel of any byte stream: whole
\* messages, in order and without a gap, whatever pieces the bytes travel in and wherever
\* either process stops, and after an orderly close the end only behind the last of them.
THEOREM FramingDelivers == ASSUME LengthsFit PROVE Spec => DeliversMessages
<1>1. Init => TransportInv
  BY InitTransport
<1>2. TransportInv /\ [Next]_vars => TransportInv'
  BY HeadersRoundTrip, TransportStep
<1>3. Init => Channel!Init
  BY DEF Init, Channel!Init, ReceiverGone
<1>4. TransportInv /\ [Next]_vars => [Channel!Next]_(Channel!vars)
  BY HeadersRoundTrip, ChannelStep
<1> QED
  BY <1>1, <1>2, <1>3, <1>4, PTL DEF Spec, DeliversMessages, Channel!Spec
=============================================================================
