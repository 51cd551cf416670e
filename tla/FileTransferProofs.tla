-------------------------- MODULE FileTransferProofs --------------------------
(***************************************************************************)
(* Theorems about FileTransfer and the codec, for any contents, names,     *)
(* size of chunks and hash function.                                       *)
(***************************************************************************)
EXTENDS FileTransfer, FileStoreProofs, FunctionTheorems, WellFoundedInduction

USE CodecAssumption

-----------------------------------------------------------------------------
(* Sequences of blocks.                                                    *)

\* Quotient and rest.
LEMMA DivMod ==
    ASSUME NEW a \in Nat, NEW b \in Nat \ {0}
    PROVE  /\ a \div b \in Nat /\ (a % b) \in 0..(b - 1)
           /\ a = b * (a \div b) + (a % b)
<1>1. a \div b \in Nat /\ (a % b) \in 0..(b - 1)
  BY SMT
<1>2. a = b * (a \div b) + (a % b)
  BY SMT
<1> QED
  BY <1>1, <1>2

\* They are determined by what they are for.
LEMMA DivModUnique ==
    ASSUME NEW b \in Nat \ {0}, NEW q \in Nat, NEW r \in 0..(b - 1)
    PROVE  (b * q + r) \div b = q /\ (b * q + r) % b = r
  BY SMT

\* A set of naturals that is not empty has a least element.
LEMMA LeastNat ==
    ASSUME NEW T \in SUBSET Nat, NEW y \in T
    PROVE  \E x \in T : \A z \in T : x <= z
<1> DEFINE R == {ss \in Nat \X Nat : ss[1] < ss[2]}
<1>0. IsWellFoundedOn(R, Nat)
  BY NatLessThanWellFounded DEF OpToRel
<1>1. \E x \in T : \A z \in T : ~(<<z, x>> \in R)
  <2> HIDE DEF R
  <2> QED
    BY <1>0, WFMin
<1>2. PICK x \in T : \A z \in T : ~(<<z, x>> \in R)
  BY <1>1
<1>3. ASSUME NEW z \in T PROVE x <= z
  <2>1. z \in Nat /\ x \in Nat
    OBVIOUS
  <2>2. z < x => <<z, x>> \in R
    BY <2>1
  <2> QED
    BY <1>2, <2>1, <2>2
<1> QED
  BY <1>3

\* The element at a place of the concatenation of blocks of length b.
At(seqs, b, k) == seqs[((k - 1) \div b) + 1][((k - 1) % b) + 1]

\* A sequence is the function of its places.
LEMMA SeqAsFunction ==
    ASSUME NEW S, NEW s \in Seq(S)
    PROVE  s = [k \in 1..Len(s) |-> s[k]]
  OBVIOUS

\* The beginning of the concatenation, up to and with block i.
UpTo(seqs, b, i) == [k \in 1..(b * (i - 1) + Len(seqs[i])) |-> At(seqs, b, k)]

\* Blocks of length b, the last of which may be shorter.
AreBlocks(S, seqs, b, n) ==
    /\ b \in Nat \ {0} /\ n \in Nat \ {0} /\ seqs \in [1..n -> Seq(S)]
    /\ \A i \in 1..(n - 1) : Len(seqs[i]) = b
    /\ Len(seqs[n]) <= b

\* Their concatenation grows block by block, as FlattenSeq computes it.
LEMMA UpToStep ==
    ASSUME NEW S, NEW seqs, NEW b, NEW n, AreBlocks(S, seqs, b, n), NEW i \in 1..n
    PROVE  UpTo(seqs, b, i) = IF i = 1 THEN seqs[i] ELSE UpTo(seqs, b, i - 1) \o seqs[i]
<1> SUFFICES ASSUME b \in Nat \ {0}, n \in Nat \ {0}, seqs \in [1..n -> Seq(S)],
                    \A p \in 1..(n - 1) : Len(seqs[p]) = b, Len(seqs[n]) <= b
             PROVE  UpTo(seqs, b, i) = IF i = 1 THEN seqs[i] ELSE UpTo(seqs, b, i - 1) \o seqs[i]
  BY DEF AreBlocks
<1> DEFINE V == S \cup {At(seqs, b, k) : k \in Nat}
<1>1. PICK t \in Seq(S) : t = seqs[i]
  OBVIOUS
<1>2. t \in Seq(V) /\ Len(t) \in Nat /\ Len(t) <= b
  <2>1. t \in Seq(V)
    BY SeqMonotonic
  <2>2. i = n \/ i \in 1..(n - 1)
    OBVIOUS
  <2>3. Len(t) = b \/ Len(t) = Len(seqs[n])
    BY <1>1, <2>2
  <2>4. Len(t) <= b
    BY <2>3
  <2> QED
    BY <2>1, <2>4, LenProperties
<1>3. PICK j \in Nat, m \in Nat : j = i - 1 /\ m = b * j
  OBVIOUS
<1>4. \A r \in 1..b : At(seqs, b, m + r) = t[r]
  <2> SUFFICES ASSUME NEW r \in 1..b PROVE At(seqs, b, m + r) = t[r]
    OBVIOUS
  <2>1. j + 1 = i
    BY <1>3
  <2>0. PICK q \in 0..(b - 1) : q = r - 1
    OBVIOUS
  <2>2. (b * j + q) \div b = j /\ (b * j + q) % b = q
    BY DivModUnique
  <2>3. (m + r) - 1 = b * j + q /\ q + 1 = r
    BY <1>3, <2>0
  <2> QED
    BY <1>1, <2>1, <2>2, <2>3 DEF At
<1> DEFINE front == [k \in 1..m |-> At(seqs, b, k)]
<1>5. front \in Seq(V) /\ Len(front) = m
  <2> HIDE DEF V
  <2>1. \A k \in 1..m : At(seqs, b, k) \in V
    BY DEF V
  <2> QED
    BY <2>1
<1>6. front \o t = [k \in 1..(m + Len(t)) |-> At(seqs, b, k)]
  <2>1. /\ front \o t \in Seq(V) /\ Len(front \o t) = Len(front) + Len(t)
        /\ \A k \in 1..(Len(front) + Len(t)) :
              (front \o t)[k] = IF k <= Len(front) THEN front[k] ELSE t[k - Len(front)]
    <3> HIDE DEF front, V
    <3> QED
      BY <1>2, <1>5, ConcatProperties
  <2>2. \A k \in 1..m : front[k] = At(seqs, b, k)
    OBVIOUS
  <2>3. front \o t = [k \in 1..Len(front \o t) |-> (front \o t)[k]]
    <3> HIDE DEF front, V
    <3> QED
      BY <2>1, SeqAsFunction
  <2> HIDE DEF front, V
  <2>4. Len(front \o t) = m + Len(t)
    BY <1>5, <2>1
  <2>5. ASSUME NEW k \in 1..(m + Len(t))
        PROVE  (front \o t)[k] = At(seqs, b, k)
    <3>1. CASE k <= m
      <4>1. k \in 1..m /\ (front \o t)[k] = front[k]
        BY <1>2, <1>3, <1>5, <2>1, <3>1
      <4> QED
        BY <4>1, <2>2
    <3>2. CASE k > m
      <4>1. (front \o t)[k] = t[k - m]
        BY <1>2, <1>3, <1>5, <2>1, <3>2
      <4>2. k - m \in 1..b /\ m + (k - m) = k
        BY <1>2, <3>2
      <4> QED
        BY <1>4, <4>1, <4>2
    <3>3. k <= m \/ k > m
      BY <1>2
    <3> QED
      BY <3>1, <3>2, <3>3, Zenon
  <2> QED
    BY <2>3, <2>4, <2>5
<1>7. UpTo(seqs, b, i) = front \o t
  <2> HIDE DEF front
  <2> QED
    BY <1>1, <1>3, <1>6 DEF UpTo
<1>8. CASE i = 1
  <2>1. m = 0
    BY <1>3, <1>8
  <2>2. front = <<>>
    BY <2>1
  <2>3. front \o t = t
    BY <2>2, <1>2, ConcatEmptySeq
  <2> QED
    BY <1>1, <1>7, <1>8, <2>3
<1>9. CASE i # 1
  <2>1. i - 1 \in 1..(n - 1) /\ Len(seqs[i - 1]) = b
    BY <1>9
  <2>2. b * ((i - 1) - 1) + b = m
    BY <1>3, <1>9
  <2>3. UpTo(seqs, b, i - 1) = front
    BY <2>1, <2>2 DEF UpTo
  <2> QED
    BY <1>1, <1>7, <1>9, <2>3
<1> QED
  BY <1>8, <1>9

\* What FlattenSeq makes of blocks.
LEMMA FlattenBlocks ==
    ASSUME NEW S, NEW seqs, NEW b, NEW n, AreBlocks(S, seqs, b, n)
    PROVE  FlattenSeq(seqs) = UpTo(seqs, b, n)
<1>0. b \in Nat \ {0} /\ n \in Nat \ {0} /\ seqs \in [1..n -> Seq(S)]
  BY DEF AreBlocks
<1> DEFINE F(f) == [i \in 1..n |-> IF i = 1 THEN seqs[i] ELSE f[i - 1] \o seqs[i]]
           g == [i \in 1..n |-> UpTo(seqs, b, i)]
<1>1. \A i \in 1..n : UpTo(seqs, b, i) = IF i = 1 THEN seqs[i] ELSE UpTo(seqs, b, i - 1) \o seqs[i]
  BY UpToStep
<1>2. g = F(g)
  <2>1. ASSUME NEW i \in 1..n
        PROVE  UpTo(seqs, b, i) = IF i = 1 THEN seqs[i] ELSE g[i - 1] \o seqs[i]
    <3>1. CASE i = 1
      BY <1>1, <3>1
    <3>2. CASE i # 1
      <4>1. i - 1 \in 1..n
        BY <1>0, <3>2
      <4>2. g[i - 1] = UpTo(seqs, b, i - 1)
        BY <4>1
      <4> HIDE DEF g
      <4> QED
        BY <1>1, <3>2, <4>2
    <3> QED
      BY <3>1, <3>2
  <2> QED
    BY <2>1, Zenon
<1>3. ASSUME NEW f, f = F(f)
      PROVE  f[n] = UpTo(seqs, b, n)
  <2>1. \A i \in 1..n : f[i] = IF i = 1 THEN seqs[i] ELSE f[i - 1] \o seqs[i]
    BY <1>3
  <2> DEFINE T == {i \in 1..n : f[i] # UpTo(seqs, b, i)}
  <2>2. T = {}
    <3> SUFFICES ASSUME NEW y \in T PROVE FALSE
      OBVIOUS
    <3>1. T \in SUBSET Nat
      BY <1>0
    <3>2. PICK i \in T : \A z \in T : i <= z
      <4> HIDE DEF T
      <4> QED
        BY <3>1, LeastNat
    <3>3. i \in 1..n /\ f[i] # UpTo(seqs, b, i)
      OBVIOUS
    <3>4. CASE i = 1
      BY <1>1, <2>1, <3>3, <3>4
    <3>5. CASE i # 1
      <4>1. i - 1 \in 1..n /\ i - 1 \notin T
        BY <1>0, <3>1, <3>2, <3>3, <3>5
      <4>2. f[i - 1] = UpTo(seqs, b, i - 1)
        BY <4>1
      <4> QED
        BY <1>1, <2>1, <3>3, <3>5, <4>2
    <3> QED
      BY <3>4, <3>5
  <2> QED
    BY <1>0, <2>2
<1>4. Len(seqs) = n /\ n # 0
  BY <1>0
<1>5. FlattenSeq(seqs) = (CHOOSE f : f = F(f))[n]
  BY <1>4 DEF FlattenSeq
<1> HIDE DEF F, g
<1>6. (CHOOSE f : f = F(f)) = F(CHOOSE f : f = F(f))
  BY <1>2, Zenon
<1> QED
  BY <1>3, <1>5, <1>6, Zenon

-----------------------------------------------------------------------------
(* Splitting.                                                              *)

\* The smaller of two numbers.
LEMMA MinOfTwo ==
    ASSUME NEW a \in Int, NEW b \in Int
    PROVE  Min({a, b}) = IF a <= b THEN a ELSE b
<1> DEFINE m == IF a <= b THEN a ELSE b
<1>1. m \in {a, b} /\ \A y \in {a, b} : m <= y
  OBVIOUS
<1>2. \A x \in {a, b} : (\A y \in {a, b} : x <= y) => x = m
  OBVIOUS
<1> QED
  BY <1>1, <1>2 DEF Min

\* Order and multiplication.
LEMMA TimesMonotonic ==
    ASSUME NEW c \in Nat, NEW i \in Nat, NEW j \in Nat, i <= j
    PROVE  c * i \in Nat /\ c * j \in Nat /\ c * i <= c * j
<1>1. c * i \in Nat /\ c * (j - i) \in Nat
  BY SMT
<1>2. c * j = c * i + c * (j - i)
  BY SMT
<1> QED
  BY <1>1, <1>2

\* How many chunks a file has: just enough for its bytes.
LEMMA ChunkCount ==
    ASSUME NEW Byte, NEW content \in Seq(Byte)
    PROVE  /\ NumChunks(content) \in Nat
           /\ content = <<>> <=> NumChunks(content) = 0
           /\ content # <<>> => /\ ChunkSize * (NumChunks(content) - 1) < Len(content)
                                /\ Len(content) <= ChunkSize * NumChunks(content)
<1> DEFINE a == Len(content) + ChunkSize - 1
           n == NumChunks(content)
<1>1. Len(content) \in Nat /\ a \in Nat /\ (content = <<>> <=> Len(content) = 0)
  BY EmptySeq
<1>2. n = a \div ChunkSize
  BY DEF NumChunks
<1>3. PICK r \in 0..(ChunkSize - 1) : n \in Nat /\ a = ChunkSize * n + r
  <2> HIDE DEF a
  <2>1. /\ a \div ChunkSize \in Nat /\ (a % ChunkSize) \in 0..(ChunkSize - 1)
        /\ a = ChunkSize * (a \div ChunkSize) + (a % ChunkSize)
    BY <1>1, DivMod, Zenon
  <2> QED
    BY <1>2, <2>1, Zenon
<1> HIDE DEF n
<1>4. ChunkSize * n < Len(content) + ChunkSize /\ Len(content) <= ChunkSize * n
  BY <1>1, <1>3
<1>5. ChunkSize * (n - 1) = ChunkSize * n - ChunkSize
  BY <1>3, SMT
<1>6. n = 0 => Len(content) = 0
  BY <1>1, <1>4
<1>7. Len(content) = 0 => n = 0
  <2> SUFFICES ASSUME n >= 1, Len(content) = 0 PROVE FALSE
    BY <1>3
  <2>1. ChunkSize * 1 <= ChunkSize * n
    BY <1>3, TimesMonotonic
  <2> QED
    BY <1>3, <1>4, <2>1
<1>8. ChunkSize * (n - 1) < Len(content)
  <2>1. PICK p \in Nat : p = ChunkSize * n
    BY <1>3, SMT
  <2> QED
    BY <1>1, <1>4, <1>5, <2>1
<1> QED
  BY <1>1, <1>3, <1>4, <1>6, <1>7, <1>8 DEF n

\* The data of the chunks of a file.
DatasOf(content) == [i \in 1..NumChunks(content) |-> SplitFileIntoChunks(content)[i].data]

\* Where a chunk lies in the file, and how long it is.
LEMMA ChunkPlace ==
    ASSUME NEW Byte, NEW content \in Seq(Byte), NEW i \in 1..NumChunks(content)
    PROVE  /\ DatasOf(content)[i] \in Seq(Byte)
           /\ Len(DatasOf(content)[i]) \in 1..ChunkSize
           /\ i < NumChunks(content) => Len(DatasOf(content)[i]) = ChunkSize
           /\ i = NumChunks(content) =>
                 Len(DatasOf(content)[i]) = Len(content) - ChunkSize * (i - 1)
           /\ \A r \in 1..Len(DatasOf(content)[i]) :
                 DatasOf(content)[i][r] = content[ChunkSize * (i - 1) + r]
<1> DEFINE n == NumChunks(content)
           s == DatasOf(content)[i]
<1>1. PICK len \in Nat : len = Len(content)
  BY LenProperties
<1>2. n \in Nat /\ n # 0 /\ ChunkSize * (n - 1) < len /\ len <= ChunkSize * n
  BY <1>1, ChunkCount
<1> HIDE DEF n
<1>3. i \in 1..n /\ n - 1 \in Nat /\ i - 1 \in Nat /\ i \in Nat /\ i - 1 <= n - 1
  BY <1>2 DEF n
<1>4. PICK lo \in Nat, hi \in Nat : lo = ChunkSize * (i - 1) /\ hi = ChunkSize * i /\ hi = lo + ChunkSize
  <2>1. ChunkSize * (i - 1) \in Nat /\ ChunkSize * i \in Nat
    BY <1>3, TimesMonotonic
  <2>2. ChunkSize * i = ChunkSize * (i - 1) + ChunkSize
    BY <1>3, SMT
  <2> QED
    BY <2>1, <2>2
<1>5. lo < len
  <2>1. ChunkSize * (i - 1) <= ChunkSize * (n - 1) /\ ChunkSize * (n - 1) \in Nat
    BY <1>3, TimesMonotonic
  <2> QED
    BY <1>2, <1>4, <2>1
<1>6. i < n => hi <= len
  <2> SUFFICES ASSUME i < n PROVE hi <= len
    OBVIOUS
  <2>1. ChunkSize * i <= ChunkSize * (n - 1) /\ ChunkSize * (n - 1) \in Nat
    BY <1>2, <1>3, TimesMonotonic
  <2> QED
    BY <1>2, <1>4, <2>1
<1>7. i = n => len <= hi
  BY <1>2, <1>4
<1>8. PICK end \in Nat : end = Min({hi, len}) /\ end = IF hi <= len THEN hi ELSE len
  BY MinOfTwo
<1>9. s = SubSeq(content, lo + 1, end)
  <2>1. (i - 1) * ChunkSize = lo /\ i * ChunkSize = hi
    BY <1>3, <1>4
  <2>2. s = SplitFileIntoChunks(content)[i].data
    BY DEF DatasOf
  <2>3. SplitFileIntoChunks(content)[i].data
           = SubSeq(content, (i - 1) * ChunkSize + 1, Min({i * ChunkSize, Len(content)}))
    BY DEF SplitFileIntoChunks
  <2> QED
    BY <1>1, <1>8, <2>1, <2>2, <2>3
<1> HIDE DEF s
<1>10. hi = lo + ChunkSize /\ lo \in Nat /\ hi \in Nat /\ len \in Nat /\ end \in Nat
  BY <1>4
<1>11. end = IF hi <= len THEN hi ELSE len
  BY <1>8
<1>12. end <= len /\ lo < end
  BY <1>5, <1>10, <1>11
<1>13. \A k \in (lo + 1)..end : content[k] \in Byte
  BY <1>1, <1>12, <1>10
<1>14. /\ s \in Seq(Byte) /\ Len(s) = end - lo
       /\ \A r \in 1..(end - lo) : s[r] = content[lo + r]
  <2>1. /\ SubSeq(content, lo + 1, end) \in Seq(Byte)
        /\ Len(SubSeq(content, lo + 1, end)) = IF lo + 1 <= end THEN end - (lo + 1) + 1 ELSE 0
        /\ \A r \in 1..(end - (lo + 1) + 1) :
              SubSeq(content, lo + 1, end)[r] = content[(lo + 1) + r - 1]
    BY <1>13, SubSeqProperties
  <2>2. end - (lo + 1) + 1 = end - lo /\ lo + 1 <= end
    BY <1>12
  <2>3. \A r \in 1..(end - lo) : (lo + 1) + r - 1 = lo + r
    OBVIOUS
  <2> QED
    BY <1>9, <2>1, <2>2, <2>3
<1>15. end - lo \in 1..ChunkSize
  BY <1>12, <1>10, <1>11
<1>16. i < n => end - lo = ChunkSize
  BY <1>6, <1>10, <1>11
<1>17. i = n => end - lo = len - lo
  BY <1>7, <1>10, <1>11
<1> QED
  BY <1>1, <1>4, <1>14, <1>15, <1>16, <1>17 DEF n, s

\* The chunks are blocks.
LEMMA ChunksAreBlocks ==
    ASSUME NEW Byte, NEW content \in Seq(Byte), content # <<>>
    PROVE  AreBlocks(Byte, DatasOf(content), ChunkSize, NumChunks(content))
<1>1. NumChunks(content) \in Nat \ {0}
  BY ChunkCount
<1>2. \A i \in 1..NumChunks(content) : DatasOf(content)[i] \in Seq(Byte)
  BY ChunkPlace
<1>3. DatasOf(content) \in [1..NumChunks(content) -> Seq(Byte)]
  <2>1. DatasOf(content) = [i \in 1..NumChunks(content) |-> DatasOf(content)[i]]
    BY DEF DatasOf
  <2> QED
    BY <1>2, <2>1
<1>4. \A i \in 1..(NumChunks(content) - 1) : Len(DatasOf(content)[i]) = ChunkSize
  <2>1. \A i \in 1..(NumChunks(content) - 1) : i \in 1..NumChunks(content) /\ i < NumChunks(content)
    BY <1>1
  <2> QED
    BY <2>1, ChunkPlace
<1>5. Len(DatasOf(content)[NumChunks(content)]) <= ChunkSize
  <2>1. NumChunks(content) \in 1..NumChunks(content)
    BY <1>1
  <2>2. Len(DatasOf(content)[NumChunks(content)]) \in 1..ChunkSize
    BY <2>1, ChunkPlace
  <2> QED
    BY <2>2
<1> QED
  BY <1>1, <1>3, <1>4, <1>5 DEF AreBlocks

\* Together they are the file.
LEMMA ChunksGiveContent ==
    ASSUME NEW Byte, NEW content \in Seq(Byte), content # <<>>
    PROVE  FlattenSeq(DatasOf(content)) = content
<1> DEFINE datas == DatasOf(content)
<1>1. FlattenSeq(datas) = UpTo(datas, ChunkSize, NumChunks(content))
  BY ChunksAreBlocks, FlattenBlocks
<1>2. PICK n \in Nat \ {0}, len \in Nat :
         /\ n = NumChunks(content) /\ len = Len(content)
         /\ ChunkSize * (n - 1) < len /\ len <= ChunkSize * n
  BY ChunkCount, LenProperties
<1> HIDE DEF datas
<1>3. UpTo(datas, ChunkSize, n) = [k \in 1..len |-> At(datas, ChunkSize, k)]
  <2>1. n \in 1..n
    OBVIOUS
  <2>2. Len(datas[n]) = len - ChunkSize * (n - 1)
    BY <1>2, <2>1, ChunkPlace DEF datas
  <2>3. PICK lo \in Int : lo = ChunkSize * (n - 1)
    OBVIOUS
  <2>4. ChunkSize * (n - 1) + Len(datas[n]) = len
    BY <2>2, <2>3
  <2> QED
    BY <2>4 DEF UpTo
<1>4. ASSUME NEW k \in 1..len
      PROVE  At(datas, ChunkSize, k) = content[k]
  <2>1. k - 1 \in Nat
    OBVIOUS
  <2>2. PICK q \in Nat, r \in 0..(ChunkSize - 1) :
           /\ q = (k - 1) \div ChunkSize /\ r = (k - 1) % ChunkSize
           /\ k - 1 = ChunkSize * q + r
    BY <2>1, DivMod
  <2>3. q < n
    <3> SUFFICES ASSUME n <= q PROVE FALSE
      OBVIOUS
    <3>1. ChunkSize * n <= ChunkSize * q /\ ChunkSize * q \in Nat /\ ChunkSize * n \in Nat
      BY TimesMonotonic
    <3> QED
      BY <1>2, <2>2, <3>1
  <2>4. PICK lo \in Nat, i \in 1..n : lo = ChunkSize * q /\ i = q + 1 /\ k = lo + (r + 1)
    <3>1. ChunkSize * q \in Nat /\ q + 1 \in 1..n
      BY <2>3, TimesMonotonic
    <3>2. PICK lo \in Nat : lo = ChunkSize * q /\ k - 1 = lo + r
      BY <2>2, <3>1, Zenon
    <3>3. k = lo + (r + 1)
      BY <3>2
    <3> QED
      BY <3>1, <3>2, <3>3, Zenon
  <2>5. /\ i < n => Len(datas[i]) = ChunkSize
        /\ i = n => Len(datas[i]) = len - ChunkSize * (i - 1)
        /\ \A p \in 1..Len(datas[i]) : datas[i][p] = content[ChunkSize * (i - 1) + p]
    BY <1>2, ChunkPlace DEF datas
  <2>6. ChunkSize * (i - 1) = lo
    BY <2>4
  <2>7. r + 1 \in 1..Len(datas[i])
    <3>1. CASE i < n
      BY <2>5, <3>1
    <3>2. CASE i = n
      <4>1. Len(datas[i]) = len - lo
        BY <2>5, <2>6, <3>2
      <4>2. k = lo + (r + 1)
        BY <2>4
      <4> QED
        BY <4>1, <4>2
    <3> QED
      BY <3>1, <3>2
  <2>8. datas[i][r + 1] = content[lo + (r + 1)]
    BY <2>5, <2>6, <2>7
  <2>9. At(datas, ChunkSize, k) = datas[i][r + 1]
    BY <2>2, <2>4 DEF At
  <2> QED
    BY <2>4, <2>8, <2>9
<1>5. content = [k \in 1..len |-> content[k]]
  BY <1>2, SeqAsFunction
<1> QED
  BY <1>1, <1>2, <1>3, <1>4, <1>5 DEF datas

-----------------------------------------------------------------------------
(* Hashes.                                                                 *)

\* No two of these hash to the same digest.
NoCollision(datas) == \A s, t \in datas : Sha256(s) = Sha256(t) => s = t

HashesOf(content) == HashAllChunks(SplitFileIntoChunks(content))

\* What is hashed of some contents: their chunks, and the lists of their hashes.
ChunkDatas(contents) == UNION {{DatasOf(c)[i] : i \in 1..NumChunks(c)} : c \in contents}
HashLists(contents) == {HashesOf(c) : c \in contents}

\* The chunks and their hashes, place by place.
LEMMA SplitShape ==
    ASSUME NEW Byte, NEW content \in Seq(Byte)
    PROVE  /\ SplitFileIntoChunks(content) =
                 [i \in 1..NumChunks(content) |-> [index |-> i - 1, data |-> DatasOf(content)[i]]]
           /\ HashesOf(content) = [i \in 1..NumChunks(content) |-> Sha256(DatasOf(content)[i])]
           /\ Len(SplitFileIntoChunks(content)) = NumChunks(content)
           /\ Len(HashesOf(content)) = NumChunks(content)
<1>1. NumChunks(content) \in Nat
  BY ChunkCount
<1>2. SplitFileIntoChunks(content) =
         [i \in 1..NumChunks(content) |-> [index |-> i - 1, data |-> DatasOf(content)[i]]]
  BY DEF SplitFileIntoChunks, DatasOf
<1>3. HashesOf(content) = [i \in 1..NumChunks(content) |-> Sha256(DatasOf(content)[i])]
  BY <1>2 DEF HashesOf, HashAllChunks
<1>4. Len(SplitFileIntoChunks(content)) = NumChunks(content)
  BY <1>1, <1>2
<1>5. Len(HashesOf(content)) = NumChunks(content)
  BY <1>1, <1>3
<1> QED
  BY <1>2, <1>3, <1>4, <1>5

\* Without collisions the hashes of the chunks tell files apart.
LEMMA HashesDetermine ==
    ASSUME NEW Byte, NEW contents, contents \subseteq Seq(Byte), NoCollision(ChunkDatas(contents)),
           NEW a \in contents, NEW b \in contents, a # <<>>, b # <<>>, HashesOf(a) = HashesOf(b)
    PROVE  a = b
<1>1. a \in Seq(Byte) /\ b \in Seq(Byte)
  OBVIOUS
<1>2. NumChunks(a) = NumChunks(b)
  BY <1>1, SplitShape
<1>3. ASSUME NEW i \in 1..NumChunks(a)
      PROVE  DatasOf(a)[i] = DatasOf(b)[i]
  <2>1. DatasOf(a)[i] \in ChunkDatas(contents) /\ DatasOf(b)[i] \in ChunkDatas(contents)
    BY <1>2 DEF ChunkDatas
  <2>2. Sha256(DatasOf(a)[i]) = HashesOf(a)[i] /\ Sha256(DatasOf(b)[i]) = HashesOf(b)[i]
    BY <1>1, <1>2, SplitShape
  <2> QED
    BY <2>1, <2>2 DEF NoCollision
<1>4. DatasOf(a) = DatasOf(b)
  <2>1. /\ DatasOf(a) = [i \in 1..NumChunks(a) |-> DatasOf(a)[i]]
        /\ DatasOf(b) = [i \in 1..NumChunks(b) |-> DatasOf(b)[i]]
    BY DEF DatasOf
  <2> QED
    BY <1>2, <1>3, <2>1
<1>5. FlattenSeq(DatasOf(a)) = a /\ FlattenSeq(DatasOf(b)) = b
  BY <1>1, ChunksGiveContent
<1> QED
  BY <1>4, <1>5

\* verify_files cannot be deceived by where a file is split: if no two chunks and no two
\* lists of hashes of the files considered have the same SHA-256, and none of a list is the
\* empty string, it says VERIFIED exactly of equal files that are not empty.
THEOREM VerifiedIsEqual ==
    ASSUME NEW Byte, Contents \subseteq Seq(Byte),
           NoCollision(ChunkDatas(Contents)), NoCollision(HashLists(Contents)),
           \A h \in HashLists(Contents) : Sha256(h) # NoCID
    PROVE  Spec => []VerifiedMeansEqual
<1>1. ASSUME NEW a \in Contents
      PROVE  /\ a = <<>> => ComputeCID(a) = NoCID
             /\ a # <<>> => ComputeCID(a) = Sha256(HashesOf(a)) /\ ComputeCID(a) # NoCID
  <2>1. a \in Seq(Byte) /\ NumChunks(a) \in Nat /\ (a = <<>> <=> NumChunks(a) = 0)
    BY ChunkCount
  <2>2. SplitFileIntoChunks(a) = <<>> <=> NumChunks(a) = 0
    <3>1. SplitFileIntoChunks(a) = [i \in 1..NumChunks(a) |-> [index |-> i - 1, data |-> DatasOf(a)[i]]]
      BY <2>1, SplitShape
    <3>2. Len(SplitFileIntoChunks(a)) = NumChunks(a)
      BY <2>1, SplitShape
    <3>3. NumChunks(a) = 0 => SplitFileIntoChunks(a) = <<>>
      BY <3>1
    <3> QED
      BY <3>2, <3>3
  <2>3. HashesOf(a) \in HashLists(Contents)
    BY DEF HashLists
  <2> QED
    BY <2>1, <2>2, <2>3 DEF ComputeCID, ComputeRootHash, HashesOf
<1>2. ASSUME NEW a \in Contents, NEW b \in Contents
      PROVE  Verified(a, b) <=> (a = b /\ a # <<>>)
  <2>1. Verified(a, b) <=> (ComputeCID(a) # NoCID /\ ComputeCID(b) # NoCID /\ ComputeCID(a) = ComputeCID(b))
    BY DEF Verified
  <2>2. ASSUME a # <<>>, b # <<>>, ComputeCID(a) = ComputeCID(b)
        PROVE  a = b
    <3>1. Sha256(HashesOf(a)) = Sha256(HashesOf(b))
      BY <1>1, <2>2
    <3>2. HashesOf(a) = HashesOf(b)
      BY <3>1 DEF HashLists, NoCollision
    <3> QED
      BY <2>2, <3>2, HashesDetermine
  <2> QED
    BY <1>1, <2>1, <2>2
<1>3. VerifiedMeansEqual
  BY <1>2 DEF VerifiedMeansEqual
<1> QED
  BY <1>3, PTL

-----------------------------------------------------------------------------
(* The record on the wire.                                                 *)

\* A sequence that is not empty has one element or more.
LEMMA OneOrMore ==
    ASSUME NEW S, NEW s \in Seq(S), s # <<>>
    PROVE  Len(s) = 1 \/ Len(s) > 1
<1>1. PICK l \in Nat \ {0} : l = Len(s)
  BY EmptySeq
<1>2. l = 1 \/ l > 1
  OBVIOUS
<1> QED
  BY <1>1, <1>2

\* A word, a name and five words, read word by word.
LEMMA CommandWords ==
    ASSUME NEW Word, NEW name \in Seq(Word), name # <<>>,
           NEW x, NEW a, NEW b, NEW c, NEW d, NEW e, NEW words,
           words = <<x>> \o name \o <<a, b, c, d, e>>
    PROVE  /\ Len(words) = Len(name) + 6
           /\ words[2] = name[1]
           /\ Len(name) > 1 => words[3] = name[2]
           /\ Len(name) = 1 => /\ words[3] = a /\ words[4] = b /\ words[5] = c
                               /\ words[6] = d /\ words[7] = e
<1> DEFINE V == Word \cup {x, a, b, c, d, e}
<1>1. name \in Seq(V) /\ Len(name) \in Nat /\ Len(name) > 0
  <2>1. name \in Seq(V)
    BY SeqMonotonic
  <2>2. Len(name) \in Nat /\ Len(name) # 0
    BY EmptySeq, LenProperties
  <2> QED
    BY <2>1, <2>2
<1>2. <<x>> \in Seq(V) /\ Len(<<x>>) = 1 /\ <<x>>[1] = x
  OBVIOUS
<1>3. <<a, b, c, d, e>> \in Seq(V) /\ Len(<<a, b, c, d, e>>) = 5
  OBVIOUS
<1> HIDE DEF V
<1> DEFINE front == <<x>> \o name
           tail == <<a, b, c, d, e>>
<1>4. /\ front \in Seq(V) /\ Len(front) = 1 + Len(name)
      /\ \A k \in 1..(1 + Len(name)) : front[k] = IF k <= 1 THEN <<x>>[k] ELSE name[k - 1]
  BY <1>1, <1>2, ConcatProperties
<1> HIDE DEF front
<1>5. /\ Len(front \o tail) = (1 + Len(name)) + 5
      /\ \A k \in 1..((1 + Len(name)) + 5) :
            (front \o tail)[k] = IF k <= 1 + Len(name) THEN front[k] ELSE tail[k - (1 + Len(name))]
  <2> HIDE DEF tail
  <2>1. tail \in Seq(V) /\ Len(tail) = 5
    BY <1>3 DEF tail
  <2>2. front \in Seq(V)
    BY <1>4
  <2>3. /\ Len(front \o tail) = Len(front) + Len(tail)
        /\ \A k \in 1..(Len(front) + Len(tail)) :
              (front \o tail)[k] = IF k <= Len(front) THEN front[k] ELSE tail[k - Len(front)]
    BY <2>1, <2>2, ConcatProperties
  <2> QED
    BY <1>4, <2>1, <2>3
<1>6. words = front \o tail
  BY DEF front
<1>7. words[2] = name[1]
  BY <1>1, <1>4, <1>5, <1>6
<1>8. Len(name) > 1 => words[3] = name[2]
  BY <1>1, <1>4, <1>5, <1>6
<1>9. Len(name) = 1 => \A k \in 3..7 : words[k] = tail[k - 2]
  <2> SUFFICES ASSUME Len(name) = 1, NEW k \in 3..7 PROVE words[k] = tail[k - 2]
    OBVIOUS
  <2> HIDE DEF tail
  <2>1. k \in 1..((1 + Len(name)) + 5) /\ ~(k <= 1 + Len(name)) /\ k - (1 + Len(name)) = k - 2
    OBVIOUS
  <2>2. (front \o tail)[k] = tail[k - (1 + Len(name))]
    BY <1>5, <2>1
  <2> QED
    BY <1>6, <2>1, <2>2
<1>10. tail[1] = a /\ tail[2] = b /\ tail[3] = c /\ tail[4] = d /\ tail[5] = e
  OBVIOUS
<1> HIDE DEF tail
<1> QED
  BY <1>1, <1>5, <1>6, <1>7, <1>8, <1>9, <1>10

\* What is read of a name without a blank, and of one whose first blank no number follows.
LEMMA RecordReadIs ==
    ASSUME NEW Byte, NEW content \in Seq(Byte),
           NEW Word, NEW path, FileName(path) \in Seq(Word), FileName(path) # <<>>
    PROVE  /\ Len(FileName(path)) = 1 => RecordRead(path, content) = HashesOf(content)
           /\ Len(FileName(path)) > 1 /\ ~IsNumber(FileName(path)[2]) => RecordRead(path, content) = <<>>
<1> DEFINE name == FileName(path)
           words == PutCommand(path, content)
           len == Len(content)
           n == Len(SplitFileIntoChunks(content))
           hashes == HashesOf(content)
           root == ComputeRootHash(hashes)
<1>1. words = <<Text(<<"PUT">>)>> \o name
                 \o <<Num(len), Num(ChunkSize), Num(n), Text(<<root>>), Text(hashes)>>
  BY DEF PutCommand, HashesOf
<1> HIDE DEF words, name, len, n, hashes, root
<1>2. /\ Len(words) = Len(name) + 6
      /\ words[2] = name[1]
      /\ Len(name) > 1 => words[3] = name[2]
      /\ Len(name) = 1 => /\ words[3] = Num(len) /\ words[4] = Num(ChunkSize) /\ words[5] = Num(n)
                          /\ words[6] = Text(<<root>>) /\ words[7] = Text(hashes)
  <2>1. name \in Seq(Word) /\ name # <<>>
    BY DEF name
  <2> QED
    BY <1>1, <2>1, CommandWords, SMTT(30)
<1>3. RecordRead(path, content) =
         IF HandlePut(words) = NoRecord THEN <<>> ELSE HashesFound(FoundMessage(HandlePut(words)))
  BY DEF RecordRead, words
<1>4. CASE Len(name) = 1
  <2> DEFINE record == Record(name[1], Num(len), Num(ChunkSize), Num(n), Text(<<root>>), hashes)
  <2>1. \A k : IsNumber(Num(k))
    BY DEF IsNumber, Num
  <2>2. \A k \in 3..5 : IsNumber(words[k])
    BY <1>2, <1>4, <2>1
  <2>3. HandlePut(words) = record
    <3>1. Len(words) >= 7
      BY <1>2, <1>4
    <3>2. HashList(words[7]) = hashes
      BY <1>2, <1>4 DEF HashList, Text
    <3> QED
      BY <1>2, <1>4, <2>2, <3>1, <3>2 DEF HandlePut
  <2>4. record # NoRecord
    <3>1. record.chunkSize = Num(ChunkSize) /\ NoRecord.chunkSize = Num(0)
      BY DEF Record, NoRecord
    <3>2. Num(ChunkSize).parts[1] = ChunkSize /\ Num(0).parts[1] = 0
      BY DEF Num
    <3> QED
      BY <3>1, <3>2
  <2>5. FoundMessage(record) = <<Num(len), Num(ChunkSize), Num(n), Text(<<root>>), Text(hashes)>>
    BY DEF FoundMessage, Record
  <2>6. HashesFound(<<Num(len), Num(ChunkSize), Num(n), Text(<<root>>), Text(hashes)>>) = hashes
    BY DEF HashesFound, HashList, IsNumber, Num, Text
  <2> HIDE DEF record
  <2> QED
    BY <1>3, <1>4, <2>3, <2>4, <2>5, <2>6 DEF name, hashes
<1>5. ASSUME Len(name) > 1, ~IsNumber(name[2])
      PROVE  RecordRead(path, content) = <<>>
  <2>1. ~IsNumber(words[3])
    BY <1>2, <1>5
  <2>2. HandlePut(words) = NoRecord
    BY <2>1 DEF HandlePut
  <2> QED
    BY <1>3, <2>2
<1> QED
  BY <1>4, <1>5 DEF name, hashes

\* The names that survive the wire or are refused: no number follows the first blank.
NoNumberBehind(name) == Len(name) > 1 => ~IsNumber(name[2])

\* A download never reads other hashes than those uploaded: putMetadataToNode writes the name
\* as it is, operator>> of handlePut reads up to a blank, and the number it expects next is
\* a word of the name, at which it fails; only a number there would shift the fields.
THEOREM RecordsSurviveWire ==
    ASSUME NEW Byte, Contents \subseteq Seq(Byte),
           NEW Word, \A name \in Names : name \in Seq(Word) /\ name # <<>> /\ NoNumberBehind(name)
    PROVE  Spec => []RecordSurvivesWire
<1>1. ASSUME NEW content \in Contents \ {<<>>}, NEW name \in Names
      PROVE  /\ RecordRead(<<name>>, content) \in {<<>>, HashesOf(content)}
             /\ Len(name) = 1 => RecordRead(<<name>>, content) # <<>>
  <2>1. FileName(<<name>>) = name
    BY DEF FileName, Last
  <2>2. name \in Seq(Word) /\ name # <<>> /\ NoNumberBehind(name)
    OBVIOUS
  <2>3. content \in Seq(Byte) /\ content # <<>>
    OBVIOUS
  <2>4. /\ Len(name) = 1 => RecordRead(<<name>>, content) = HashesOf(content)
        /\ Len(name) > 1 /\ ~IsNumber(name[2]) => RecordRead(<<name>>, content) = <<>>
    BY <2>1, <2>2, <2>3, RecordReadIs
  <2>5. Len(name) = 1 \/ Len(name) > 1
    BY <2>2, OneOrMore, Zenon
  <2>6. HashesOf(content) # <<>>
    <3>1. Len(HashesOf(content)) = NumChunks(content) /\ NumChunks(content) # 0
      BY <2>3, SplitShape, ChunkCount
    <3> QED
      BY <3>1
  <2> QED
    BY <2>2, <2>4, <2>5, <2>6 DEF NoNumberBehind
<1>2. RecordSurvivesWire
  BY <1>1 DEF RecordSurvivesWire, HashesOf
<1> QED
  BY <1>2, PTL

-----------------------------------------------------------------------------
(* Putting a file together.                                                *)

\* The only order of 1..n that is increasing is the identity.
LEMMA IncreasingIsIdentity ==
    ASSUME NEW n \in Nat, NEW p \in [1..n -> 1..n],
           \A i, j \in 1..n : i < j => p[i] < p[j]
    PROVE  \A i \in 1..n : p[i] = i
<1>1. \A i \in 1..n : p[i] >= i
  <2> DEFINE T == {i \in 1..n : p[i] < i}
  <2> SUFFICES ASSUME NEW y \in T PROVE FALSE
    OBVIOUS
  <2>1. T \in SUBSET Nat
    OBVIOUS
  <2>2. PICK i \in T : \A z \in T : i <= z
    <3> HIDE DEF T
    <3> QED
      BY <2>1, LeastNat
  <2>3. i \in 1..n /\ p[i] \in 1..n /\ p[i] < i
    OBVIOUS
  <2>4. i - 1 \in 1..n
    BY <2>3
  <2>5. i - 1 \notin T
    BY <2>2, <2>3
  <2>6. p[i - 1] >= i - 1 /\ p[i - 1] \in 1..n
    BY <2>4, <2>5
  <2>7. p[i - 1] < p[i]
    BY <2>3, <2>4
  <2> QED
    BY <2>3, <2>6, <2>7
<1>2. \A i \in 1..n : p[i] <= i
  <2> DEFINE T == {k \in 0..n : n - k \in 1..n /\ p[n - k] > n - k}
  <2> SUFFICES ASSUME NEW y \in 1..n, p[y] > y PROVE FALSE
    OBVIOUS
  <2>1. T \in SUBSET Nat /\ n - y \in T
    <3>1. n - y \in 0..n /\ n - (n - y) = y
      OBVIOUS
    <3> QED
      BY <3>1
  <2>2. PICK k \in T : \A z \in T : k <= z
    <3> HIDE DEF T
    <3> QED
      BY <2>1, LeastNat
  <2>3. PICK i \in 1..n : i = n - k /\ p[i] > i /\ p[i] \in 1..n /\ k \in 0..n
    OBVIOUS
  <2>4. i + 1 \in 1..n /\ k - 1 \in 0..n /\ n - (k - 1) = i + 1
    BY <2>3
  <2>5. k - 1 \notin T
    <3>1. k - 1 \in T => k <= k - 1
      BY <2>2, Zenon
    <3> QED
      BY <2>3, <3>1
  <2>6. p[i + 1] <= i + 1 /\ p[i + 1] \in 1..n
    BY <2>4, <2>5
  <2>7. p[i] < p[i + 1]
    BY <2>3, <2>4
  <2> QED
    BY <2>3, <2>6, <2>7
<1> QED
  BY <1>1, <1>2

\* Chunks in any order, with these data.
Shuffled(datas, p, n) == [i \in 1..n |-> [index |-> p[i] - 1, data |-> datas[p[i]]]]

\* std::sort puts them into the order of the file.
LEMMA SortRestores ==
    ASSUME NEW n \in Nat, NEW p \in Bijection(1..n, 1..n), NEW datas
    PROVE  ByIndex(Shuffled(datas, p, n)) = [i \in 1..n |-> [index |-> i - 1, data |-> datas[i]]]
<1> DEFINE c == Shuffled(datas, p, n)
           Sorted(q) == \A i, j \in 1..n : i < j => c[q[i]].index <= c[q[j]].index
           order == CHOOSE q \in Bijection(1..n, 1..n) : Sorted(q)
<1>1. /\ p \in [1..n -> 1..n]
      /\ \A i, j \in 1..n : p[i] = p[j] => i = j
      /\ \A t \in 1..n : \E s \in 1..n : p[s] = t
  BY DEF Bijection, Injection, Surjection, IsInjective
<1>2. DOMAIN c = 1..n /\ \A i \in 1..n : c[i].index = p[i] - 1 /\ c[i] = [index |-> p[i] - 1, data |-> datas[p[i]]]
  BY DEF Shuffled
<1> HIDE DEF c
<1>3. \E q \in Bijection(1..n, 1..n) : Sorted(q)
  <2> DEFINE q == [t \in 1..n |-> CHOOSE s \in 1..n : p[s] = t]
  <2>1. \A t \in 1..n : q[t] \in 1..n /\ p[q[t]] = t
    BY <1>1
  <2>2. q \in [1..n -> 1..n]
    BY <2>1
  <2> HIDE DEF q
  <2>3. \A s \in 1..n : q[p[s]] = s
    BY <1>1, <2>1
  <2>4. q \in Bijection(1..n, 1..n)
    <3>1. \A i, j \in 1..n : q[i] = q[j] => i = j
      BY <2>1
    <3>2. \A t \in 1..n : \E s \in 1..n : q[s] = t
      BY <1>1, <2>3
    <3> QED
      BY <2>2, <3>1, <3>2 DEF Bijection, Injection, Surjection, IsInjective
  <2>5. Sorted(q)
    BY <1>2, <2>1
  <2> HIDE DEF Sorted
  <2> QED
    BY <2>4, <2>5
<1>4. order \in Bijection(1..n, 1..n) /\ Sorted(order)
  <2> HIDE DEF Sorted
  <2> QED
    BY <1>3, Zenon
<1>5. ByIndex(c) = [i \in 1..n |-> c[order[i]]]
  BY <1>2 DEF ByIndex
<1> HIDE DEF order
<1>6. /\ order \in [1..n -> 1..n]
      /\ \A i, j \in 1..n : order[i] = order[j] => i = j
  BY <1>4 DEF Bijection, Injection, IsInjective
<1> DEFINE r == [i \in 1..n |-> p[order[i]]]
<1>7. r \in [1..n -> 1..n] /\ \A i \in 1..n : r[i] = p[order[i]]
  BY <1>1, <1>6
<1> HIDE DEF r
<1>8. ASSUME NEW i \in 1..n, NEW j \in 1..n, i < j
      PROVE  r[i] < r[j]
  <2>1. order[i] \in 1..n /\ order[j] \in 1..n /\ order[i] # order[j]
    BY <1>6, <1>8
  <2>2. p[order[i]] # p[order[j]] /\ p[order[i]] \in 1..n /\ p[order[j]] \in 1..n
    BY <1>1, <2>1
  <2>3. p[order[i]] - 1 <= p[order[j]] - 1
    BY <1>2, <1>4, <1>8, <2>1
  <2> QED
    BY <1>7, <2>2, <2>3
<1>9. \A i \in 1..n : r[i] = i
  BY <1>7, <1>8, IncreasingIsIdentity
<1>10. ASSUME NEW i \in 1..n
       PROVE  c[order[i]] = [index |-> i - 1, data |-> datas[i]]
  <2>1. order[i] \in 1..n /\ p[order[i]] = i
    BY <1>6, <1>7, <1>9
  <2>2. c[order[i]] = [index |-> p[order[i]] - 1, data |-> datas[p[order[i]]]]
    BY <1>2, <2>1
  <2> QED
    BY <2>1, <2>2
<1> QED
  BY <1>5, <1>10 DEF c

\* reconstructFile of all chunks of a file, in any order, on a disk with room for it.
LEMMA ReconstructShuffled ==
    ASSUME NEW Byte, NEW content \in Seq(Byte), content # <<>>,
           NEW p \in Bijection(1..NumChunks(content), 1..NumChunks(content)),
           NEW room \in Nat, room >= Len(content)
    PROVE  ReconstructFile(Shuffled(DatasOf(content), p, NumChunks(content)), room)
              = [ok |-> TRUE, out |-> content]
<1> DEFINE n == NumChunks(content)
           c == Shuffled(DatasOf(content), p, n)
           sorted == ByIndex(c)
           bytes == FlattenSeq([i \in DOMAIN sorted |-> sorted[i].data])
<1>1. n \in Nat \ {0}
  BY ChunkCount
<1>2. c # <<>>
  <2>1. DOMAIN c = 1..n /\ 1 \in 1..n
    BY <1>1 DEF Shuffled
  <2>2. DOMAIN <<>> = {}
    OBVIOUS
  <2> HIDE DEF c
  <2> QED
    BY <2>1, <2>2, Zenon
<1>3. sorted = [i \in 1..n |-> [index |-> i - 1, data |-> DatasOf(content)[i]]]
  BY <1>1, SortRestores
<1>4. bytes = content
  <2>1. [i \in DOMAIN sorted |-> sorted[i].data] = [i \in 1..n |-> DatasOf(content)[i]]
    BY <1>3
  <2>2. DatasOf(content) = [i \in 1..n |-> DatasOf(content)[i]]
    BY DEF DatasOf
  <2> QED
    BY <2>1, <2>2, ChunksGiveContent
<1>5. ~(\E i \in DOMAIN sorted : sorted[i].index # i - 1)
  <2> HIDE DEF sorted
  <2> QED
    BY <1>3
<1>6. SubSeq(bytes, 1, Min({room, Len(bytes)})) = content
  <2>1. PICK len \in Nat : len = Len(content) /\ len <= room
    BY LenProperties
  <2>2. Min({room, len}) = len
    BY <2>1, MinOfTwo
  <2>3. SubSeq(content, 1, len) = content
    BY <2>1, SubSeqFull
  <2> HIDE DEF bytes
  <2> QED
    BY <1>4, <2>1, <2>2, <2>3
<1>7. ReconstructFile(c, room) =
         IF c = <<>> \/ (\E i \in DOMAIN sorted : sorted[i].index # i - 1) \/ room = CannotCreate
         THEN [ok |-> FALSE, out |-> <<>>]
         ELSE [ok |-> TRUE, out |-> SubSeq(bytes, 1, Min({room, Len(bytes)}))]
  BY DEF ReconstructFile
<1>8. room # CannotCreate
  BY DEF CannotCreate
<1> HIDE DEF c, sorted, bytes
<1> QED
  BY <1>2, <1>5, <1>6, <1>7, <1>8 DEF c, n

\* The elements before a place and behind it.
LEMMA FirstOf ==
    ASSUME NEW V, NEW n \in Nat, NEW c, \A i \in 1..n : c[i] \in V, NEW g \in 1..n
    PROVE  /\ SubSeq(c, 1, g - 1) \in Seq(V) /\ Len(SubSeq(c, 1, g - 1)) = g - 1
           /\ \A i \in 1..(g - 1) : SubSeq(c, 1, g - 1)[i] = c[i]
<1>1. PICK h \in Int : h = g - 1 /\ h >= 0 /\ h <= n
  OBVIOUS
<1>2. \A i \in 1..h : c[i] \in V
  BY <1>1
<1>3. /\ SubSeq(c, 1, h) \in Seq(V) /\ Len(SubSeq(c, 1, h)) = IF 1 <= h THEN h - 1 + 1 ELSE 0
      /\ \A i \in 1..(h - 1 + 1) : SubSeq(c, 1, h)[i] = c[1 + i - 1]
  BY <1>2, SubSeqProperties
<1>4. h - 1 + 1 = h /\ \A i \in 1..h : 1 + i - 1 = i
  OBVIOUS
<1>5. Len(SubSeq(c, 1, h)) = h
  BY <1>1, <1>3
<1>6. \A i \in 1..h : SubSeq(c, 1, h)[i] = c[i]
  BY <1>3, <1>4
<1> QED
  BY <1>1, <1>3, <1>5, <1>6

LEMMA LastOf ==
    ASSUME NEW V, NEW n \in Nat, NEW c, \A i \in 1..n : c[i] \in V, NEW g \in 1..n
    PROVE  /\ SubSeq(c, g + 1, n) \in Seq(V) /\ Len(SubSeq(c, g + 1, n)) = n - g
           /\ \A i \in 1..(n - g) : SubSeq(c, g + 1, n)[i] = c[g + i]
<1>1. PICK h \in Int : h = g + 1
  OBVIOUS
<1>2. \A i \in h..n : c[i] \in V
  BY <1>1
<1>3. /\ SubSeq(c, h, n) \in Seq(V) /\ Len(SubSeq(c, h, n)) = IF h <= n THEN n - h + 1 ELSE 0
      /\ \A i \in 1..(n - h + 1) : SubSeq(c, h, n)[i] = c[h + i - 1]
  BY <1>2, SubSeqProperties
<1>4. n - h + 1 = n - g /\ \A i \in 1..(n - g) : h + i - 1 = g + i
  BY <1>1
<1>5. Len(SubSeq(c, h, n)) = n - g
  BY <1>1, <1>3
<1>6. \A i \in 1..(n - g) : SubSeq(c, h, n)[i] = c[g + i]
  BY <1>3, <1>4
<1> QED
  BY <1>1, <1>3, <1>5, <1>6

\* reconstructFile notices a chunk that is missing before the last: the index of the last
\* chunk is then larger than any place.
LEMMA GapNoticed ==
    ASSUME NEW n \in Nat, NEW datas, NEW g \in 1..(n - 1), NEW room, NEW chunks,
           chunks = [i \in 1..n |-> [index |-> i - 1, data |-> datas[i]]]
    PROVE  ~ReconstructFile(RemoveAt(chunks, g), room).ok
<1> DEFINE c == RemoveAt(chunks, g)
           m == n - 1
           V == {chunks[i] : i \in 1..n}
           Sorted(q) == \A i, j \in 1..m : i < j => c[q[i]].index <= c[q[j]].index
           order == CHOOSE q \in Bijection(1..m, 1..m) : Sorted(q)
           sorted == ByIndex(c)
<1>1. /\ DOMAIN c = 1..m /\ c # <<>>
      /\ \A i \in 1..m : c[i] = IF i < g THEN chunks[i] ELSE chunks[i + 1]
  <2>0. \A i \in 1..n : chunks[i] \in V
    OBVIOUS
  <2> HIDE DEF V
  <2>1. chunks \in Seq(V) /\ Len(chunks) = n
    <3>1. chunks = [i \in 1..n |-> chunks[i]]
      OBVIOUS
    <3> QED
      BY <2>0, <3>1
  <2> DEFINE a == SubSeq(chunks, 1, g - 1)
             b == SubSeq(chunks, g + 1, n)
  <2>2. a \in Seq(V) /\ Len(a) = g - 1 /\ \A i \in 1..(g - 1) : a[i] = chunks[i]
    BY <2>0, FirstOf
  <2>3. b \in Seq(V) /\ Len(b) = n - g /\ \A i \in 1..(n - g) : b[i] = chunks[g + i]
    BY <2>0, LastOf
  <2>4. c = a \o b
    BY <2>1 DEF RemoveAt
  <2> HIDE DEF a, b, c
  <2>5. /\ a \o b \in Seq(V) /\ Len(a \o b) = Len(a) + Len(b)
        /\ \A i \in 1..(Len(a) + Len(b)) : (a \o b)[i] = IF i <= Len(a) THEN a[i] ELSE b[i - Len(a)]
    <3>1. a \in Seq(V) /\ b \in Seq(V)
      BY <2>2, <2>3
    <3> QED
      BY <3>1, ConcatProperties, Zenon
  <2>6. c \in Seq(V) /\ Len(c) = m
    BY <2>2, <2>3, <2>4, <2>5
  <2>7. DOMAIN c = 1..m /\ c # <<>>
    BY <2>6
  <2>8. ASSUME NEW i \in 1..m
        PROVE  c[i] = IF i < g THEN chunks[i] ELSE chunks[i + 1]
    <3>1. CASE i < g
      <4>1. i \in 1..(g - 1)
        BY <3>1
      <4>2. (a \o b)[i] = a[i]
        BY <2>2, <2>3, <2>5, <4>1
      <4> QED
        BY <2>2, <2>4, <3>1, <4>1, <4>2
    <3>2. CASE ~(i < g)
      <4>0. Len(a) = g - 1 /\ Len(b) = n - g
        BY <2>2, <2>3
      <4>1. (a \o b)[i] = b[i - (g - 1)]
        <5>1. i \in 1..(Len(a) + Len(b)) /\ ~(i <= Len(a))
          BY <3>2, <4>0
        <5>2. (a \o b)[i] = b[i - Len(a)]
          BY <2>5, <5>1, Zenon
        <5> QED
          BY <4>0, <5>2
      <4>2. i - (g - 1) \in 1..(n - g) /\ g + (i - (g - 1)) = i + 1
        BY <3>2
      <4> QED
        BY <2>3, <2>4, <3>2, <4>1, <4>2
    <3> QED
      BY <3>1, <3>2
  <2> QED
    BY <2>7, <2>8
<1> HIDE DEF c
<1>2. \A i \in 1..m : c[i].index = IF i < g THEN i - 1 ELSE i
  <2> SUFFICES ASSUME NEW i \in 1..m PROVE c[i].index = IF i < g THEN i - 1 ELSE i
    OBVIOUS
  <2>1. i \in 1..n /\ i + 1 \in 1..n
    OBVIOUS
  <2>2. chunks[i].index = i - 1 /\ chunks[i + 1].index = i
    BY <2>1
  <2> QED
    BY <1>1, <2>2
<1>3. order \in Bijection(1..m, 1..m)
  <2> DEFINE q == [i \in 1..m |-> i]
  <2>1. q \in Bijection(1..m, 1..m)
    BY DEF Bijection, Injection, Surjection, IsInjective
  <2>2. Sorted(q)
    BY <1>2
  <2> HIDE DEF Sorted, q
  <2> QED
    BY <2>1, <2>2, Zenon
<1>4. sorted = [i \in 1..m |-> c[order[i]]]
  BY <1>1 DEF ByIndex
<1> HIDE DEF order, sorted
<1>5. m \in 1..m
  OBVIOUS
<1>6. PICK j \in 1..m : order[j] = m
  BY <1>3, <1>5 DEF Bijection, Surjection
<1>7. c[m].index = m
  BY <1>2, <1>5
<1>8. sorted[j].index # j - 1 /\ j \in DOMAIN sorted
  BY <1>4, <1>6, <1>7
<1>9. ReconstructFile(c, room) = [ok |-> FALSE, out |-> <<>>]
  BY <1>8 DEF ReconstructFile, sorted
<1> QED
  BY <1>9 DEF c

\* Whatever the order in which the chunks come back, the file is put together as it was, no
\* chunk is empty or too long, and a chunk that is missing before the last is noticed
\* (splitFileIntoChunks, reconstructFile).
THEOREM SplittingRoundTrips ==
    ASSUME NEW Byte, Contents \subseteq Seq(Byte)
    PROVE  Spec => []SplitRoundTrip
<1>1. ASSUME NEW content \in Contents, NEW chunks, chunks = SplitFileIntoChunks(content),
             NEW n, n = Len(chunks)
      PROVE  /\ \A i \in 1..n : Len(chunks[i].data) \in 1..ChunkSize
             /\ \A p \in Bijection(1..n, 1..n) : content # <<>> =>
                   ReconstructFile([i \in 1..n |-> chunks[p[i]]], Len(content))
                      = [ok |-> TRUE, out |-> content]
             /\ \A i \in 1..(n - 1) : ~ReconstructFile(RemoveAt(chunks, i), Len(content)).ok
             /\ ~ReconstructFile(chunks, CannotCreate).ok
  <2>1. content \in Seq(Byte) /\ Len(content) \in Nat /\ Len(content) >= Len(content)
    BY LenProperties
  <2>2. /\ chunks = [i \in 1..n |-> [index |-> i - 1, data |-> DatasOf(content)[i]]]
        /\ n = NumChunks(content) /\ n \in Nat
    BY <1>1, <2>1, SplitShape, ChunkCount
  <2>3. \A i \in 1..n : Len(chunks[i].data) \in 1..ChunkSize
    BY <2>1, <2>2, ChunkPlace
  <2>4. ASSUME NEW p \in Bijection(1..n, 1..n), content # <<>>
        PROVE  ReconstructFile([i \in 1..n |-> chunks[p[i]]], Len(content)) = [ok |-> TRUE, out |-> content]
    <3>1. \A i \in 1..n : p[i] \in 1..n
      BY DEF Bijection, Injection
    <3>2. [i \in 1..n |-> chunks[p[i]]] = Shuffled(DatasOf(content), p, n)
      BY <2>2, <3>1 DEF Shuffled
    <3> QED
      BY <2>1, <2>2, <2>4, <3>2, ReconstructShuffled
  <2>5. \A i \in 1..(n - 1) : ~ReconstructFile(RemoveAt(chunks, i), Len(content)).ok
    BY <2>2, GapNoticed
  <2>6. ~ReconstructFile(chunks, CannotCreate).ok
    <3>1. ReconstructFile(chunks, CannotCreate) = [ok |-> FALSE, out |-> <<>>]
      BY DEF ReconstructFile
    <3> QED
      BY <3>1
  <2> QED
    BY <2>3, <2>4, <2>5, <2>6
<1>2. SplitRoundTrip
  BY <1>1, Zenon DEF SplitRoundTrip
<1> QED
  BY <1>2, PTL

-----------------------------------------------------------------------------
(* End to end.                                                             *)

\* The files of the uploads, whose chunks have different hashes unless they are equal.
UploadContents == {ContentOf[u] : u \in Upload}
FilesHashApart == NoCollision(ChunkDatas(UploadContents))

\* Names are words; a blank in the name of an upload is not followed by a number, and an
\* upload and a download whose names are read as the same word have the same name.
NamesAreRead(Word) ==
    /\ \A u \in Upload : /\ FileName(PathOf[u]) \in Seq(Word) /\ FileName(PathOf[u]) # <<>>
                         /\ NoNumberBehind(FileName(PathOf[u]))
    /\ \A u \in Upload, d \in Download :
          NamePut(PathOf[u]) = NameAsked(PathOf[d]) => PathOf[d] = <<FileName(PathOf[u])>>

\* Every download whose output can be created has room for every file.
RoomForFiles ==
    \A d \in Download, u \in Upload :
        DiskRoom[d] # CannotCreate => DiskRoom[d] \in Nat /\ DiskRoom[d] >= Len(ContentOf[u])

\* The codec hands FileStore records that name the chunks of the file, or none.
LEMMA RecordsAreFaithful ==
    ASSUME NEW Byte, ContentOf \in [Upload -> Seq(Byte)], NEW Word, NamesAreRead(Word)
    PROVE  FaithfulRecords
<1> SUFFICES ASSUME NEW u \in Upload PROVE RecordOf[u] \in {<<>>, ChunksOf[u]}
  BY DEF FaithfulRecords
<1>1. RecordOf[u] = RecordRead(PathOf[u], ContentOf[u]) /\ ChunksOf[u] = HashesOf(ContentOf[u])
  BY TransferAssumption DEF UploadRecord, UploadChunks, HashesOf
<1>2. /\ FileName(PathOf[u]) \in Seq(Word) /\ FileName(PathOf[u]) # <<>>
      /\ NoNumberBehind(FileName(PathOf[u])) /\ ContentOf[u] \in Seq(Byte)
  BY DEF NamesAreRead
<1>3. Len(FileName(PathOf[u])) = 1 \/ Len(FileName(PathOf[u])) > 1
  BY <1>2, OneOrMore, Zenon
<1>4. /\ Len(FileName(PathOf[u])) = 1 => RecordOf[u] = ChunksOf[u]
      /\ Len(FileName(PathOf[u])) > 1 /\ ~IsNumber(FileName(PathOf[u])[2]) => RecordOf[u] = <<>>
  BY <1>1, <1>2, RecordReadIs
<1> QED
  BY <1>2, <1>3, <1>4 DEF NoNumberBehind

\* The chunk found under a hash is the one that was uploaded.
LEMMA HashGivesData ==
    ASSUME NEW Byte, ContentOf \in [Upload -> Seq(Byte)], FilesHashApart,
           NEW u \in Upload, NEW i \in 1..NumChunks(ContentOf[u])
    PROVE  DataOf(HashesOf(ContentOf[u])[i]) = DatasOf(ContentOf[u])[i]
<1> DEFINE datas == UNION {{c.data : c \in Range(SplitFileIntoChunks(ContentOf[w]))} : w \in Upload}
           s == DatasOf(ContentOf[u])[i]
<1>1. \A w \in Upload : ContentOf[w] \in Seq(Byte)
  OBVIOUS
<1>2. ASSUME NEW w \in Upload
      PROVE  /\ DOMAIN SplitFileIntoChunks(ContentOf[w]) = 1..NumChunks(ContentOf[w])
             /\ \A k \in 1..NumChunks(ContentOf[w]) :
                   SplitFileIntoChunks(ContentOf[w])[k].data = DatasOf(ContentOf[w])[k]
  BY <1>1, SplitShape
<1>3. ASSUME NEW w \in Upload, NEW k \in 1..NumChunks(ContentOf[w])
      PROVE  DatasOf(ContentOf[w])[k] \in ChunkDatas(UploadContents)
  <2>1. ContentOf[w] \in UploadContents
    BY DEF UploadContents
  <2> QED
    BY <2>1 DEF ChunkDatas
<1>4. s \in datas /\ s \in ChunkDatas(UploadContents) /\ \A t \in datas : t \in ChunkDatas(UploadContents)
  <2>1. s \in datas
    <3>1. SplitFileIntoChunks(ContentOf[u])[i] \in Range(SplitFileIntoChunks(ContentOf[u]))
      BY <1>2 DEF Range
    <3>2. s \in {c.data : c \in Range(SplitFileIntoChunks(ContentOf[u]))}
      BY <1>2, <3>1
    <3> QED
      BY <3>2
  <2>2. ASSUME NEW t \in datas
        PROVE  t \in ChunkDatas(UploadContents)
    <3>1. PICK w \in Upload : t \in {c.data : c \in Range(SplitFileIntoChunks(ContentOf[w]))}
      OBVIOUS
    <3>2. PICK c \in Range(SplitFileIntoChunks(ContentOf[w])) : t = c.data
      BY <3>1
    <3>3. PICK k \in 1..NumChunks(ContentOf[w]) : c = SplitFileIntoChunks(ContentOf[w])[k]
      BY <1>2 DEF Range
    <3> QED
      BY <1>2, <1>3, <3>2, <3>3
  <2> QED
    BY <1>3, <2>1, <2>2
<1>5. HashesOf(ContentOf[u])[i] = Sha256(s)
  BY <1>1, SplitShape
<1>6. \A t \in datas : Sha256(t) = Sha256(s) => t = s
  BY <1>4 DEF FilesHashApart, NoCollision
<1>7. DataOf(Sha256(s)) = CHOOSE t \in datas : Sha256(t) = Sha256(s)
  BY DEF DataOf
<1> HIDE DEF datas, s
<1>8. (CHOOSE t \in datas : Sha256(t) = Sha256(s)) = s
  BY <1>4, <1>6
<1> QED
  BY <1>5, <1>7, <1>8 DEF s

\* A file that is downloaded is byte for byte one that was uploaded under that name,
\* whatever uploads, failures and restarts happen meanwhile, if the hash has no collision
\* among the chunks, names are read as they are and the disk has room (downloadFile checks
\* none of the three).
THEOREM DownloadsAreFiles ==
    ASSUME NEW Byte, ContentOf \in [Upload -> Seq(Byte)], FilesHashApart,
           NEW Word, NamesAreRead(Word), RoomForFiles
    PROVE  Spec => []OutputIntact
<1>1. DownloadIntact => OutputIntact
  <2> SUFFICES ASSUME DownloadIntact, NEW d \in Download, down[d].state = "ok", Output(d).ok
               PROVE  \E u \in Upload : /\ PathOf[d] = <<FileName(PathOf[u])>>
                                        /\ Output(d).out = ContentOf[u]
    BY DEF OutputIntact
  <2>1. PICK u \in Upload : FileOf[u] = FileOf[d] /\ down[d].got = ChunksOf[u]
    BY DEF DownloadIntact
  <2>2. PathOf[d] = <<FileName(PathOf[u])>>
    <3>1. FileOf[u] = NamePut(PathOf[u]) /\ FileOf[d] = NameAsked(PathOf[d])
      BY TransferAssumption DEF CallName
    <3> QED
      BY <2>1, <3>1 DEF NamesAreRead
  <2> DEFINE content == ContentOf[u]
             n == NumChunks(content)
             id == [i \in 1..n |-> i]
             c == [i \in DOMAIN down[d].got |-> [index |-> i - 1, data |-> DataOf(down[d].got[i])]]
  <2>3. content \in Seq(Byte) /\ n \in Nat
    BY ChunkCount
  <2>4. down[d].got = HashesOf(content)
    BY <2>1, TransferAssumption DEF UploadChunks, HashesOf
  <2>5. HashesOf(content) = [i \in 1..n |-> Sha256(DatasOf(content)[i])]
    BY <2>3, SplitShape
  <2>6. c = [i \in 1..n |-> [index |-> i - 1, data |-> DataOf(HashesOf(content)[i])]]
    BY <2>4, <2>5
  <2>7. \A i \in 1..n : DataOf(HashesOf(content)[i]) = DatasOf(content)[i]
    BY HashGivesData
  <2>8. c = Shuffled(DatasOf(content), id, n)
    <3> HIDE DEF n, content, c
    <3> QED
      BY <2>6, <2>7 DEF Shuffled
  <2>9. Output(d) = ReconstructFile(c, DiskRoom[d])
    BY DEF Output
  <2>10. content # <<>>
    <3> SUFFICES ASSUME content = <<>> PROVE FALSE
      OBVIOUS
    <3>1. n = 0
      BY <2>3, ChunkCount
    <3> HIDE DEF c, n
    <3>2. c = <<>>
      BY <2>6, <3>1
    <3>3. ReconstructFile(c, DiskRoom[d]) = [ok |-> FALSE, out |-> <<>>]
      BY <3>2 DEF ReconstructFile
    <3> QED
      BY <2>9, <3>3
  <2>11. id \in Bijection(1..n, 1..n)
    BY DEF Bijection, Injection, Surjection, IsInjective
  <2>12. DiskRoom[d] \in Nat /\ DiskRoom[d] >= Len(content)
    <3>1. ASSUME DiskRoom[d] = CannotCreate PROVE FALSE
      <4>1. ReconstructFile(c, DiskRoom[d]) = [ok |-> FALSE, out |-> <<>>]
        BY <3>1 DEF ReconstructFile
      <4> QED
        BY <2>9, <4>1
    <3> QED
      BY <3>1 DEF RoomForFiles
  <2> HIDE DEF c, n, id, content
  <2>13. ReconstructFile(Shuffled(DatasOf(content), id, n), DiskRoom[d]) = [ok |-> TRUE, out |-> content]
    BY <2>3, <2>10, <2>11, <2>12, ReconstructShuffled DEF n
  <2>14. Output(d).out = content
    BY <2>8, <2>9, <2>13
  <2> QED
    BY <2>2, <2>14 DEF content
<1>2. Spec => []DownloadIntact
  BY RecordsAreFaithful, DownloadsAreUploads
<1> QED
  BY <1>1, <1>2, PTL

-----------------------------------------------------------------------------
(* The blocks of a hashed message.                                         *)

\* A sequence made of two: its places.
IsJoin(V, s, t, c) ==
    /\ c \in Seq(V) /\ Len(c) = Len(s) + Len(t)
    /\ \A k \in 1..Len(s) : c[k] = s[k]
    /\ \A k \in 1..Len(t) : c[Len(s) + k] = t[k]

LEMMA Joined ==
    ASSUME NEW V, NEW s \in Seq(V), NEW t \in Seq(V)
    PROVE  IsJoin(V, s, t, s \o t)
<1>1. /\ s \o t \in Seq(V) /\ Len(s \o t) = Len(s) + Len(t)
      /\ \A k \in 1..(Len(s) + Len(t)) : (s \o t)[k] = IF k <= Len(s) THEN s[k] ELSE t[k - Len(s)]
  BY ConcatProperties
<1>2. Len(s) \in Nat /\ Len(t) \in Nat
  BY LenProperties
<1>3. ASSUME NEW k \in 1..Len(s)
      PROVE  (s \o t)[k] = s[k]
  <2>1. k \in 1..(Len(s) + Len(t)) /\ k <= Len(s)
    BY <1>2
  <2> QED
    BY <1>1, <2>1
<1>4. ASSUME NEW k \in 1..Len(t)
      PROVE  (s \o t)[Len(s) + k] = t[k]
  <2>1. Len(s) + k \in 1..(Len(s) + Len(t)) /\ ~(Len(s) + k <= Len(s)) /\ (Len(s) + k) - Len(s) = k
    BY <1>2
  <2> QED
    BY <1>1, <2>1
<1> QED
  BY <1>1, <1>3, <1>4 DEF IsJoin

\* The sequence of n zeros.
LEMMA ZerosShape ==
    ASSUME NEW V, 0 \in V, NEW n \in Nat
    PROVE  Zeros(n) \in Seq(V) /\ Len(Zeros(n)) = n /\ \A k \in 1..n : Zeros(n)[k] = 0
  BY DEF Zeros

\* The bytes of the length.
LEMMA BitLengthShape ==
    ASSUME NEW V, NEW len, \A i \in 1..LengthLen : BitLength(len)[i] \in V
    PROVE  BitLength(len) \in Seq(V) /\ Len(BitLength(len)) = LengthLen
<1>1. LengthLen \in Nat
  BY BlockAssumption
<1>2. DOMAIN BitLength(len) = 1..LengthLen /\ BitLength(len) = [i \in 1..LengthLen |-> BitLength(len)[i]]
  BY DEF BitLength
<1> HIDE DEF BitLength
<1> QED
  BY <1>1, <1>2

\* The buffer c after l bytes have been written into it from place p on.
IsWritten(block, p, bytes, l, c) ==
    /\ c = [i \in 1..BlockLen |-> c[i]]
    /\ \A i \in 1..BlockLen : i < p => c[i] = block[i]
    /\ \A i \in 1..BlockLen : i >= p /\ i < p + l => c[i] = bytes[i - p + 1]
    /\ \A i \in 1..BlockLen : i >= p + l => c[i] = block[i]

LEMMA Written ==
    ASSUME NEW block, NEW p \in Nat, NEW bytes, NEW l \in Nat, Len(bytes) = l
    PROVE  IsWritten(block, p, bytes, l, Write(block, p, bytes))
<1>1. BlockLen \in Nat
  BY BlockAssumption
<1>2. Write(block, p, bytes) =
         [i \in 1..BlockLen |-> IF i \in p..(p + l - 1) THEN bytes[i - p + 1] ELSE block[i]]
  BY DEF Write
<1>3. \A i \in 1..BlockLen : i \in p..(p + l - 1) <=> i >= p /\ i < p + l
  BY <1>1
<1>4. \A i \in 1..BlockLen : (i < p => ~(i >= p)) /\ (i >= p + l => ~(i < p + l))
  BY <1>1
<1> HIDE DEF Write
<1> QED
  BY <1>2, <1>3, <1>4 DEF IsWritten

\* What the standard appends to n bytes: a one bit, z zeros and a length of l bytes.
IsPadded(V, data, n, z, bits, l, c) ==
    /\ c \in Seq(V) /\ Len(c) = n + 1 + z + l
    /\ \A k \in 1..n : c[k] = data[k]
    /\ c[n + 1] = 128
    /\ \A k \in 1..z : c[n + 1 + k] = 0
    /\ \A k \in 1..l : c[n + 1 + z + k] = bits[k]

LEMMA PaddedShape ==
    ASSUME NEW V, 0 \in V, 128 \in V, NEW data \in Seq(V), NEW n \in Nat, n = Len(data),
           NEW z \in Nat, NEW bits \in Seq(V), NEW l \in Nat, l = Len(bits),
           NEW c, c = data \o << 128 >> \o Zeros(z) \o bits
    PROVE  IsPadded(V, data, n, z, bits, l, c)
<1> DEFINE one == <<128>>
           s == data \o one
           t == s \o Zeros(z)
<1>1. one \in Seq(V) /\ Len(one) = 1 /\ one[1] = 128
  OBVIOUS
<1> HIDE DEF one
<1>2. /\ s \in Seq(V) /\ Len(s) = n + 1
      /\ \A k \in 1..n : s[k] = data[k]
      /\ \A k \in 1..1 : s[n + k] = one[k]
  <2>1. data \in Seq(V) /\ one \in Seq(V)
    BY <1>1
  <2>2. IsJoin(V, data, one, s)
    BY <2>1, Joined, Zenon
  <2> HIDE DEF s
  <2> QED
    BY <1>1, <2>2 DEF IsJoin
<1> HIDE DEF s
<1>3. Zeros(z) \in Seq(V) /\ Len(Zeros(z)) = z /\ \A k \in 1..z : Zeros(z)[k] = 0
  BY ZerosShape
<1>4. /\ t \in Seq(V) /\ Len(t) = (n + 1) + z
      /\ \A k \in 1..(n + 1) : t[k] = s[k]
      /\ \A k \in 1..z : t[(n + 1) + k] = Zeros(z)[k]
  <2>1. s \in Seq(V) /\ Zeros(z) \in Seq(V)
    BY <1>2, <1>3
  <2>2. IsJoin(V, s, Zeros(z), t)
    BY <2>1, Joined, Zenon
  <2> HIDE DEF t
  <2> QED
    BY <1>2, <1>3, <2>2 DEF IsJoin
<1> HIDE DEF t
<1>5. /\ t \o bits \in Seq(V) /\ Len(t \o bits) = (n + 1 + z) + l
      /\ \A k \in 1..(n + 1 + z) : (t \o bits)[k] = t[k]
      /\ \A k \in 1..l : (t \o bits)[(n + 1 + z) + k] = bits[k]
  <2>1. t \in Seq(V) /\ bits \in Seq(V)
    BY <1>4
  <2>2. IsJoin(V, t, bits, t \o bits)
    BY <2>1, Joined, Zenon
  <2> QED
    BY <1>4, <2>2 DEF IsJoin
<1>6. c = t \o bits
  BY DEF t, s, one
<1>7. \A k \in 1..n : c[k] = data[k]
  <2>1. \A k \in 1..n : k \in 1..(n + 1) /\ k \in 1..(n + 1 + z)
    OBVIOUS
  <2> QED
    BY <1>2, <1>4, <1>5, <1>6, <2>1
<1>8. c[n + 1] = 128
  <2>1. n + 1 \in 1..(n + 1) /\ n + 1 \in 1..(n + 1 + z)
    OBVIOUS
  <2>2. s[n + 1] = 128
    BY <1>1, <1>2
  <2> QED
    BY <1>4, <1>5, <1>6, <2>1, <2>2
<1>9. \A k \in 1..z : c[n + 1 + k] = 0
  <2>1. \A k \in 1..z : n + 1 + k \in 1..(n + 1 + z)
    OBVIOUS
  <2> QED
    BY <1>3, <1>4, <1>5, <1>6, <2>1
<1> QED
  BY <1>5, <1>6, <1>7, <1>8, <1>9 DEF IsPadded

\* Part i of a sequence that is cut into parts of length b.
Part(s, b, i) == [j \in 1..b |-> s[b * (i - 1) + j]]

\* The parts together are the sequence.
LEMMA FlattenParts ==
    ASSUME NEW V, NEW s \in Seq(V), NEW b \in Nat \ {0}, NEW m \in Nat \ {0}, Len(s) = b * m
    PROVE  FlattenSeq([i \in 1..m |-> Part(s, b, i)]) = s
<1> DEFINE parts == [i \in 1..m |-> Part(s, b, i)]
<1>1. ASSUME NEW i \in 1..m, NEW j \in 1..b
      PROVE  b * (i - 1) + j \in 1..Len(s)
  <2>1. i - 1 \in Nat /\ i \in Nat /\ m \in Nat /\ i <= m
    OBVIOUS
  <2>2. b * i \in Nat /\ b * m \in Nat /\ b * i <= b * m
    BY <2>1, TimesMonotonic
  <2>3. b * (i - 1) \in Nat /\ b * i = b * (i - 1) + b
    BY <2>1, SMT
  <2>4. PICK lo \in Nat, hi \in Nat : lo = b * (i - 1) /\ hi = Len(s) /\ lo + b <= hi
    BY <2>2, <2>3
  <2>5. lo + j \in 1..hi
    BY <2>4
  <2> QED
    BY <2>4, <2>5
<1>2. \A i \in 1..m : Part(s, b, i) \in Seq(V) /\ Len(Part(s, b, i)) = b
  <2> SUFFICES ASSUME NEW i \in 1..m
               PROVE  Part(s, b, i) \in Seq(V) /\ Len(Part(s, b, i)) = b
    OBVIOUS
  <2>1. \A j \in 1..b : s[b * (i - 1) + j] \in V
    BY <1>1, ElementOfSeq
  <2>2. Part(s, b, i) \in [1..b -> V]
    BY <2>1 DEF Part
  <2> QED
    BY <2>2
<1>3. AreBlocks(V, parts, b, m)
  <2>1. \A i \in 1..m : parts[i] \in Seq(V) /\ Len(parts[i]) = b
    BY <1>2
  <2>2. parts \in [1..m -> Seq(V)]
    BY <1>2
  <2> HIDE DEF parts
  <2>3. m \in 1..m /\ (\A i \in 1..(m - 1) : i \in 1..m) /\ b <= b
    OBVIOUS
  <2> QED
    BY <2>1, <2>2, <2>3 DEF AreBlocks
<1>4. FlattenSeq(parts) = UpTo(parts, b, m)
  BY <1>3, FlattenBlocks
<1>5. UpTo(parts, b, m) = [k \in 1..Len(s) |-> At(parts, b, k)]
  <2>1. Len(parts[m]) = b
    BY <1>2
  <2>2. b * (m - 1) + b = Len(s)
    BY SMT
  <2> HIDE DEF parts
  <2> QED
    BY <2>1, <2>2 DEF UpTo
<1>6. ASSUME NEW k \in 1..Len(s)
      PROVE  At(parts, b, k) = s[k]
  <2>1. k - 1 \in Nat
    OBVIOUS
  <2>2. /\ (k - 1) \div b \in Nat /\ ((k - 1) % b) \in 0..(b - 1)
        /\ k - 1 = b * ((k - 1) \div b) + ((k - 1) % b)
    BY <2>1, DivMod, Zenon
  <2>3. PICK q \in Nat, r \in 0..(b - 1) :
           q = (k - 1) \div b /\ r = (k - 1) % b /\ k - 1 = b * q + r
    BY <2>2, Zenon
  <2>4. q < m
    <3> SUFFICES ASSUME m <= q PROVE FALSE
      OBVIOUS
    <3>1. b * m <= b * q /\ b * q \in Nat /\ b * m \in Nat
      BY TimesMonotonic
    <3> QED
      BY <2>3, <3>1
  <2>5. q + 1 \in 1..m /\ r + 1 \in 1..b /\ (q + 1) - 1 = q
    BY <2>4
  <2>6. At(parts, b, k) = Part(s, b, q + 1)[r + 1]
    <3>1. At(parts, b, k) = parts[q + 1][r + 1]
      <4> HIDE DEF parts
      <4> QED
        BY <2>3, Zenon DEF At
    <3> QED
      BY <2>5, <3>1
  <2>7. Part(s, b, q + 1)[r + 1] = s[b * q + (r + 1)]
    BY <2>5 DEF Part
  <2>8. b * q + (r + 1) = k
    BY <2>3
  <2> QED
    BY <2>6, <2>7, <2>8
<1>7. s = [k \in 1..Len(s) |-> s[k]]
  BY SeqAsFunction
<1> HIDE DEF parts
<1> QED
  BY <1>4, <1>5, <1>6, <1>7 DEF parts

\* The number of zeros of the standard: the one that fills m whole blocks.
LEMMA ZerosThatFill ==
    ASSUME NEW n \in Nat, NEW l \in Nat, NEW b \in Nat \ {0}, NEW z \in 0..(b - 1), NEW m \in Nat,
           n + 1 + z + l = b * m
    PROVE  (CHOOSE y \in 0..(b - 1) : (n + 1 + y + l) % b = 0) = z
<1>1. (n + 1 + z + l) % b = 0
  <2>1. PICK o \in 0..(b - 1) : o = 0
    OBVIOUS
  <2>2. (b * m + o) % b = o
    BY DivModUnique
  <2>3. n + 1 + z + l = b * m + o
    BY <2>1, SMT
  <2> QED
    BY <2>1, <2>2, <2>3
<1>2. ASSUME NEW y \in 0..(b - 1), (n + 1 + y + l) % b = 0
      PROVE  y = z
  <2>1. PICK x \in Nat : x = n + 1 + y + l
    OBVIOUS
  <2>2. x \div b \in Nat /\ x = b * (x \div b) + (x % b)
    BY DivMod
  <2>3. PICK q \in Nat : n + 1 + y + l = b * q
    <3>1. x = b * (x \div b)
      <4>1. PICK q \in Int : q = b * (x \div b)
        BY <2>2
      <4> QED
        BY <1>2, <2>1, <2>2, <4>1
    <3> QED
      BY <2>1, <2>2, <3>1
  <2>4. b * (m + 1) = b * m + b /\ b * (q + 1) = b * q + b /\ b * m \in Nat /\ b * q \in Nat
    BY SMT
  <2>5. PICK bm \in Nat, bq \in Nat :
           /\ bm = b * m /\ bq = b * q
           /\ n + 1 + z + l = bm /\ n + 1 + y + l = bq
    BY <2>3, <2>4
  <2>6. ~(q > m)
    <3> SUFFICES ASSUME q > m PROVE FALSE
      OBVIOUS
    <3>1. m + 1 \in Nat /\ m + 1 <= q
      OBVIOUS
    <3>2. b * (m + 1) <= b * q
      BY <3>1, TimesMonotonic
    <3>3. bm + b <= bq
      BY <2>4, <2>5, <3>2
    <3> QED
      BY <2>5, <3>3
  <2>7. ~(q < m)
    <3> SUFFICES ASSUME q < m PROVE FALSE
      OBVIOUS
    <3>1. q + 1 \in Nat /\ q + 1 <= m
      OBVIOUS
    <3>2. b * (q + 1) <= b * m
      BY <3>1, TimesMonotonic
    <3>3. bq + b <= bm
      BY <2>4, <2>5, <3>2
    <3> QED
      BY <2>5, <3>3
  <2>8. q = m
    BY <2>6, <2>7
  <2>9. bq = bm
    BY <2>5, <2>8
  <2> QED
    BY <2>5, <2>9
<1> QED
  BY <1>1, <1>2

\* The blocks of a message are the parts of the padded message: for every message, whatever
\* the uninitialised buffer of sha256 held, which is cleared only as far as the length needs.
THEOREM BlocksAreParts ==
    ASSUME NEW V, NEW data \in Seq(V), NEW garbage
    PROVE  FlattenSeq(Blocks(data, garbage)) = Padded(data)
<1> DEFINE n == Len(data)
           full == n \div BlockLen
           whole == [i \in 1..full |-> SubSeq(data, (i - 1) * BlockLen + 1, i * BlockLen)]
           tail == Append(SubSeq(data, full * BlockLen + 1, n), 128)
           rem == Len(tail)
           first == Write(IF full = 0 THEN garbage ELSE whole[full], 1, tail)
           spill == Write(first, rem + 1, Zeros(BlockLen - rem))
           final == IF LengthDoesNotFit(rem) THEN Write(spill, 1, Zeros(BlockLen - LengthLen))
                    ELSE Write(first, rem + 1, Zeros(BlockLen - LengthLen - rem))
           bits == BitLength(n)
           last == Write(final, BlockLen - LengthLen + 1, bits)
           mid == IF LengthDoesNotFit(rem) THEN <<spill>> ELSE <<>>
           W == V \cup {0, 128} \cup {bits[i] : i \in 1..LengthLen}
<1>1. Blocks(data, garbage) = whole \o mid \o <<last>>
  BY DEF Blocks
<1>2. /\ BlockLen \in Nat \ {0} /\ LengthLen \in Nat \ {0} /\ LengthLen < BlockLen
      /\ BlockLen - LengthLen \in Nat \ {0} /\ LengthLen \in Nat
  BY BlockAssumption
<1>3. n \in Nat
  BY LenProperties
<1>4. /\ full \in Nat /\ (n % BlockLen) \in 0..(BlockLen - 1)
      /\ n = BlockLen * full + (n % BlockLen)
  <2> HIDE DEF n
  <2> QED
    BY <1>2, <1>3, DivMod, Zenon
<1> HIDE DEF full
<1>5. PICK base \in Nat, r \in 0..(BlockLen - 1) :
         base = BlockLen * full /\ base = full * BlockLen /\ n = base + r
  <2>1. BlockLen * full \in Nat /\ BlockLen * full = full * BlockLen
    BY <1>2, <1>4, SMT
  <2> QED
    BY <1>4, <2>1, Zenon
<1>6. data \in Seq(W) /\ 0 \in W /\ 128 \in W
  BY SeqMonotonic
<1>7. bits \in Seq(W) /\ Len(bits) = LengthLen
  <2> HIDE DEF n, bits
  <2>1. \A i \in 1..LengthLen : bits[i] \in W
    OBVIOUS
  <2> HIDE DEF W
  <2> QED
    BY <2>1, BitLengthShape DEF bits
<1> HIDE DEF n, bits, W
<1>8. /\ tail \in Seq(W) /\ rem = r + 1
      /\ \A j \in 1..r : tail[j] = data[base + j]
      /\ tail[r + 1] = 128
  <2> DEFINE s == SubSeq(data, full * BlockLen + 1, n)
  <2>1. PICK h \in Nat : h = base + 1 /\ h = full * BlockLen + 1
    BY <1>5
  <2>2. \A i \in h..n : data[i] \in W
    BY <1>3, <1>6, <2>1 DEF n
  <2>3. /\ SubSeq(data, h, n) \in Seq(W) /\ Len(SubSeq(data, h, n)) = IF h <= n THEN n - h + 1 ELSE 0
        /\ \A i \in 1..(n - h + 1) : SubSeq(data, h, n)[i] = data[h + i - 1]
    BY <1>3, <2>2, SubSeqProperties
  <2>4. s = SubSeq(data, h, n)
    BY <2>1
  <2>5. n - h + 1 = r /\ (IF h <= n THEN n - h + 1 ELSE 0) = r
        /\ \A j \in 1..r : h + j - 1 = base + j
    <3>1. n = base + r
      BY <1>5
    <3> QED
      BY <2>1, <3>1
  <2>6. s \in Seq(W) /\ Len(s) = r /\ \A j \in 1..r : s[j] = data[base + j]
    BY <2>3, <2>4, <2>5
  <2> HIDE DEF s
  <2>7. /\ Append(s, 128) \in Seq(W) /\ Len(Append(s, 128)) = Len(s) + 1
        /\ \A i \in 1..(Len(s) + 1) : Append(s, 128)[i] = IF i <= Len(s) THEN s[i] ELSE 128
    BY <1>6, <2>6
  <2>8. tail = Append(s, 128)
    BY DEF s
  <2> HIDE DEF tail
  <2> QED
    BY <2>6, <2>7, <2>8
<1>9. ASSUME NEW i \in 1..full
      PROVE  whole[i] = Part(data, BlockLen, i) /\ \A j \in 1..BlockLen : BlockLen * (i - 1) + j \in 1..n
  <2>1. i \in Nat /\ i - 1 \in Nat /\ i <= full /\ full \in Nat
    BY <1>4
  <2>2. BlockLen * i <= BlockLen * full
    BY <1>2, <2>1, TimesMonotonic
  <2>3. BlockLen * (i - 1) \in Nat /\ BlockLen * i = BlockLen * (i - 1) + BlockLen
    BY <1>2, <2>1, SMT
  <2>4. PICK lo \in Nat, hi \in Nat :
           /\ lo = BlockLen * (i - 1) /\ lo = (i - 1) * BlockLen
           /\ hi = i * BlockLen /\ hi = lo + BlockLen /\ hi <= base
    BY <1>2, <1>5, <2>1, <2>2, <2>3
  <2>5. hi = lo + BlockLen /\ hi <= n
    BY <1>5, <2>4
  <2>6. \A k \in (lo + 1)..hi : data[k] \in W
    BY <1>3, <1>6, <2>5 DEF n
  <2>7. PICK h \in Nat : h = lo + 1
    OBVIOUS
  <2>8. /\ SubSeq(data, h, hi) \in Seq(W) /\ Len(SubSeq(data, h, hi)) = IF h <= hi THEN hi - h + 1 ELSE 0
        /\ \A j \in 1..(hi - h + 1) : SubSeq(data, h, hi)[j] = data[h + j - 1]
    BY <2>6, <2>7, SubSeqProperties
  <2>9. hi - h + 1 = BlockLen /\ h <= hi /\ \A j \in 1..BlockLen : h + j - 1 = lo + j
    BY <1>2, <2>5, <2>7
  <2>10. PICK s \in Seq(W) : s = SubSeq(data, h, hi)
    BY <2>8
  <2>11. Len(s) = BlockLen /\ \A j \in 1..BlockLen : s[j] = data[lo + j]
    BY <2>8, <2>9, <2>10
  <2>12. s = [j \in 1..BlockLen |-> data[lo + j]]
    BY <2>11, SeqAsFunction
  <2>13. whole[i] = s
    BY <2>4, <2>7, <2>10
  <2>14. Part(data, BlockLen, i) = [j \in 1..BlockLen |-> data[lo + j]]
    BY <2>4 DEF Part
  <2>15. \A j \in 1..BlockLen : lo + j \in 1..n
    BY <1>2, <1>3, <2>5
  <2> QED
    BY <2>4, <2>12, <2>13, <2>14, <2>15
<1>10. PICK t \in 1..BlockLen : t = rem /\ t = r + 1
  BY <1>2, <1>8
<1> HIDE DEF whole, tail
<1>11. \A j \in 1..BlockLen : j <= t => first[j] = tail[j]
  <2> DEFINE buf == IF full = 0 THEN garbage ELSE whole[full]
  <2> HIDE DEF buf
  <2>1. PICK x \in Nat : x = 1
    OBVIOUS
  <2>2. t \in Nat /\ Len(tail) = t
    BY <1>2, <1>10
  <2>3. IsWritten(buf, x, tail, t, Write(buf, x, tail))
    BY <2>2, Written
  <2>4. \A j \in 1..BlockLen : j >= x /\ (j <= t => j < x + t) /\ j - x + 1 = j
    BY <1>2, <2>1
  <2>5. first = Write(buf, x, tail)
    BY <2>1 DEF buf
  <2> HIDE DEF first
  <2> QED
    BY <2>3, <2>4, <2>5 DEF IsWritten
<1> HIDE DEF first
<1>12. /\ spill = [j \in 1..BlockLen |-> spill[j]]
       /\ \A j \in 1..BlockLen : j <= t => spill[j] = tail[j]
       /\ \A j \in 1..BlockLen : j > t => spill[j] = 0
  <2>1. PICK x \in Nat, y \in Nat : x = t + 1 /\ y = BlockLen - t
    BY <1>2
  <2>2. Len(Zeros(y)) = y /\ \A k \in 1..y : Zeros(y)[k] = 0
    BY <1>6, ZerosShape
  <2>3. spill = Write(first, x, Zeros(y))
    BY <1>10, <2>1
  <2>4. IsWritten(first, x, Zeros(y), y, spill)
    BY <2>2, <2>3, Written
  <2> HIDE DEF spill
  <2>5. ASSUME NEW j \in 1..BlockLen, j <= t
        PROVE  spill[j] = tail[j]
    <3>1. j < x
      BY <2>1, <2>5
    <3> QED
      BY <1>11, <2>4, <2>5, <3>1 DEF IsWritten
  <2>6. ASSUME NEW j \in 1..BlockLen, j > t
        PROVE  spill[j] = 0
    <3>1. j >= x /\ j < x + y /\ j - x + 1 \in 1..y
      BY <1>2, <2>1, <2>6
    <3> QED
      BY <2>2, <2>4, <3>1 DEF IsWritten
  <2> QED
    BY <2>4, <2>5, <2>6 DEF IsWritten
<1>13. LengthDoesNotFit(rem) <=> t > BlockLen - LengthLen
  BY <1>10 DEF LengthDoesNotFit
<1>14. PICK gap \in Nat : gap = BlockLen - LengthLen /\ gap + LengthLen = BlockLen
  BY <1>2
<1>15. ASSUME NEW P, \A k \in 1..n : P[k] = data[k], NEW i \in 1..full
       PROVE  whole[i] = Part(P, BlockLen, i)
  <2>1. \A j \in 1..BlockLen : P[BlockLen * (i - 1) + j] = data[BlockLen * (i - 1) + j]
    BY <1>9, <1>15
  <2> QED
    BY <1>9, <2>1 DEF Part
<1>16. ASSUME NEW z \in 0..(BlockLen - 1), NEW m \in Nat, n + 1 + z + LengthLen = BlockLen * m
       PROVE  IsPadded(W, data, n, z, bits, LengthLen, Padded(data)) /\ Len(Padded(data)) = BlockLen * m
  <2>1. (CHOOSE y \in 0..(BlockLen - 1) : (n + 1 + y + LengthLen) % BlockLen = 0) = z
    BY <1>2, <1>3, <1>16, ZerosThatFill
  <2>2. Padded(data) = data \o <<128>> \o Zeros(z) \o bits
    BY <2>1 DEF Padded, n, bits
  <2>3. z \in Nat /\ n = Len(data) /\ LengthLen = Len(bits) /\ data \in Seq(W) /\ bits \in Seq(W)
    BY <1>2, <1>6, <1>7 DEF n
  <2>4. IsPadded(W, data, n, z, bits, LengthLen, Padded(data))
    BY <1>2, <1>3, <1>6, <2>2, <2>3, PaddedShape
  <2> QED
    BY <1>16, <2>4 DEF IsPadded
<1>17. /\ last = [j \in 1..BlockLen |-> last[j]]
       /\ \A j \in 1..BlockLen : j <= gap => last[j] = final[j]
       /\ \A j \in 1..BlockLen : j > gap => last[j] = bits[j - gap]
  <2> HIDE DEF final
  <2>1. PICK x \in Nat : x = gap + 1
    OBVIOUS
  <2>2. last = Write(final, x, bits)
    BY <1>14, <2>1
  <2>3. IsWritten(final, x, bits, LengthLen, last)
    BY <1>2, <1>7, <2>2, Written
  <2> HIDE DEF last
  <2>4. ASSUME NEW j \in 1..BlockLen, j <= gap
        PROVE  last[j] = final[j]
    <3>1. j < x
      BY <2>1, <2>4
    <3> QED
      BY <2>3, <3>1 DEF IsWritten
  <2>5. ASSUME NEW j \in 1..BlockLen, j > gap
        PROVE  last[j] = bits[j - gap]
    <3>1. j >= x /\ j < x + LengthLen /\ j - x + 1 = j - gap
      BY <1>2, <1>14, <2>1, <2>5
    <3>2. last[j] = bits[j - x + 1]
      BY <2>3, <3>1 DEF IsWritten
    <3> QED
      BY <3>1, <3>2
  <2> QED
    BY <2>3, <2>4, <2>5 DEF IsWritten
<1> HIDE DEF last
\* The part of the padded message that starts with the last bytes of the message.
<1>18. ASSUME NEW P,
              \A k \in 1..n : P[k] = data[k], P[n + 1] = 128, NEW j \in 1..BlockLen, j <= t
       PROVE  P[base + j] = tail[j]
  <2>1. n = base + r /\ t = r + 1
    BY <1>5, <1>10
  <2>2. CASE j <= r
    <3>1. base + j \in 1..n /\ j \in 1..r
      BY <2>1, <2>2
    <3> QED
      BY <1>8, <1>18, <3>1
  <2>3. CASE j = r + 1
    <3>1. base + j = n + 1
      BY <2>1, <2>3
    <3> QED
      BY <1>8, <1>18, <2>3, <3>1
  <2> QED
    BY <1>18, <2>1, <2>2, <2>3
<1>19. /\ BlockLen * (full + 1) = base + BlockLen /\ BlockLen * (full + 2) = base + BlockLen + BlockLen
       /\ (full + 1) - 1 = full /\ (full + 2) - 1 = full + 1
       /\ full + 1 \in Nat \ {0} /\ full + 2 \in Nat \ {0}
  BY <1>2, <1>4, <1>5
\* The same lengths as plain sums.
<1>20. PICK one \in Nat, two \in Nat :
         /\ one = BlockLen * (full + 1) /\ one = base + BlockLen
         /\ two = BlockLen * (full + 2) /\ two = base + BlockLen + BlockLen
  <2>1. base + BlockLen \in Nat /\ base + BlockLen + BlockLen \in Nat
    BY <1>2
  <2> QED
    BY <1>19, <2>1, Zenon
<1>21. /\ n = base + r /\ t = r + 1 /\ n + 1 = base + t
       /\ one = base + BlockLen /\ two = base + BlockLen + BlockLen
  <2>1. n = base + r /\ t = r + 1 /\ one = base + BlockLen /\ two = base + BlockLen + BlockLen
    BY <1>5, <1>10, <1>20, Zenon
  <2> QED
    BY <2>1
<1> DEFINE P == Padded(data)
<1>22. ASSUME NEW m \in Nat \ {0}, Len(P) = BlockLen * m, P \in Seq(W),
              \A k \in 1..n : P[k] = data[k], m = full + Len(mid) + 1,
              mid = [i \in 1..Len(mid) |-> Part(P, BlockLen, full + i)], Len(mid) \in Nat,
              last = Part(P, BlockLen, m)
       PROVE  FlattenSeq(Blocks(data, garbage)) = P
  <2> DEFINE X == {Part(P, BlockLen, i) : i \in 1..m}
             f == Len(whole)
             l == Len(mid)
  <2>1. whole \in Seq(X) /\ Len(whole) = full /\ \A i \in 1..full : whole[i] = Part(P, BlockLen, i)
    <3>1. \A i \in 1..full : whole[i] = Part(P, BlockLen, i)
      BY <1>15, <1>22
    <3>2. whole = [i \in 1..full |-> whole[i]]
      BY DEF whole
    <3>3. \A i \in 1..full : i \in 1..m
      BY <1>4, <1>22
    <3>4. \A i \in 1..full : whole[i] \in X
      BY <3>1, <3>3
    <3> HIDE DEF X
    <3> QED
      BY <1>4, <3>1, <3>2, <3>4
  <2>2. mid \in Seq(X) /\ \A i \in 1..l : mid[i] = Part(P, BlockLen, full + i)
    <3> HIDE DEF mid
    <3>1. \A i \in 1..l : full + i \in 1..m
      BY <1>4, <1>22
    <3>2. \A i \in 1..l : mid[i] = Part(P, BlockLen, full + i)
      BY <1>22
    <3>3. \A i \in 1..l : mid[i] \in X
      BY <3>1, <3>2
    <3>4. mid = [i \in 1..l |-> mid[i]]
      BY <1>22
    <3> HIDE DEF X
    <3> QED
      BY <1>22, <3>2, <3>3, <3>4
  <2>3. last \in X
    BY <1>22
  <2> HIDE DEF X, mid
  <2>4. <<last>> \in Seq(X) /\ Len(<<last>>) = 1 /\ <<last>>[1] = last
    BY <2>3
  <2>5. IsJoin(X, whole, mid, whole \o mid)
    BY <2>1, <2>2, Joined
  <2>6. IsJoin(X, whole \o mid, <<last>>, whole \o mid \o <<last>>)
    BY <2>4, <2>5, Joined DEF IsJoin
  <2> DEFINE s == whole \o mid
             c == s \o <<last>>
  <2> HIDE DEF s
  <2>7. /\ Len(s) = full + l
        /\ \A i \in 1..full : s[i] = Part(P, BlockLen, i)
        /\ \A i \in 1..l : s[full + i] = Part(P, BlockLen, full + i)
    BY <2>1, <2>2, <2>5 DEF IsJoin, s
  <2>8. /\ c \in Seq(X) /\ Len(c) = m
        /\ \A i \in 1..(full + l) : c[i] = s[i]
        /\ c[m] = last
    <3>1. IsJoin(X, s, <<last>>, c)
      BY <2>6 DEF s
    <3> HIDE DEF c
    <3>2. /\ c \in Seq(X) /\ Len(c) = Len(s) + 1
          /\ \A i \in 1..Len(s) : c[i] = s[i]
          /\ c[Len(s) + 1] = last
      BY <2>4, <3>1 DEF IsJoin
    <3> QED
      BY <1>22, <2>7, <3>2
  <2> HIDE DEF c
  <2>9. ASSUME NEW i \in 1..m
        PROVE  c[i] = Part(P, BlockLen, i)
    <3>1. CASE i \in 1..full
      <4>1. i \in 1..(full + l)
        BY <1>4, <1>22, <3>1
      <4> QED
        BY <2>7, <2>8, <3>1, <4>1
    <3>2. CASE i > full /\ i < m
      <4>1. i \in 1..(full + l) /\ i - full \in 1..l /\ full + (i - full) = i
        BY <1>4, <1>22, <3>2
      <4> QED
        BY <2>7, <2>8, <4>1
    <3>3. CASE i = m
      BY <1>22, <2>8, <3>3
    <3> QED
      BY <1>4, <3>1, <3>2, <3>3
  <2>10. c = [i \in 1..m |-> Part(P, BlockLen, i)]
    <3>1. c = [i \in 1..m |-> c[i]]
      BY <2>8, SeqAsFunction
    <3> QED
      BY <2>9, <3>1
  <2>11. FlattenSeq(c) = P
    <3> HIDE DEF P
    <3> QED
      BY <1>2, <1>22, <2>10, FlattenParts
  <2> QED
    BY <1>1, <2>11 DEF c, s
<1>23. CASE t <= gap
  <2>1. PICK z \in 0..(BlockLen - 1) : z = gap - t /\ gap = t + z
    BY <1>2, <1>14, <1>23
  <2>2. n + 1 + z + LengthLen = BlockLen * (full + 1) /\ n + 1 = base + t /\ n + 1 + z = base + gap
    <3>1. n + 1 + z + LengthLen = one /\ n + 1 = base + t /\ n + 1 + z = base + gap
      BY <1>2, <1>14, <1>21, <2>1
    <3> QED
      BY <1>20, <3>1
  <2>3. IsPadded(W, data, n, z, bits, LengthLen, P) /\ Len(P) = BlockLen * (full + 1)
    BY <1>16, <1>19, <2>2
  <2>4. ~LengthDoesNotFit(rem)
    BY <1>13, <1>14, <1>23
  <2>5. \A j \in 1..BlockLen : j <= t => final[j] = tail[j]
    <3>1. PICK x \in Nat : x = t + 1
      BY <1>2
    <3>2. Len(Zeros(z)) = z /\ z \in Nat
      BY <1>2, <1>6, ZerosShape
    <3>3. final = Write(first, x, Zeros(z))
      BY <1>10, <1>14, <2>1, <2>4, <3>1
    <3>4. IsWritten(first, x, Zeros(z), z, final)
      BY <3>2, <3>3, Written
    <3> HIDE DEF final
    <3>5. \A j \in 1..BlockLen : j <= t => j < x
      BY <3>1
    <3> QED
      BY <1>11, <3>4, <3>5 DEF IsWritten
  <2>6. \A j \in 1..BlockLen : j > t /\ j <= gap => final[j] = 0
    <3>1. PICK x \in Nat : x = t + 1
      BY <1>2
    <3>2. Len(Zeros(z)) = z /\ z \in Nat /\ \A k \in 1..z : Zeros(z)[k] = 0
      BY <1>2, <1>6, ZerosShape
    <3>3. final = Write(first, x, Zeros(z))
      BY <1>10, <1>14, <2>1, <2>4, <3>1
    <3>4. IsWritten(first, x, Zeros(z), z, final)
      BY <3>2, <3>3, Written
    <3> HIDE DEF final
    <3>5. \A j \in 1..BlockLen : j > t /\ j <= gap => j >= x /\ j < x + z /\ j - x + 1 \in 1..z
      BY <2>1, <3>1
    <3> QED
      BY <3>2, <3>4, <3>5 DEF IsWritten
  <2> HIDE DEF final
  <2>7. ASSUME NEW j \in 1..BlockLen
        PROVE  last[j] = P[BlockLen * ((full + 1) - 1) + j]
    <3>1. BlockLen * ((full + 1) - 1) = base
      BY <1>5, <1>19
    <3>2. CASE j <= t
      <4>1. j <= gap
        BY <1>23, <3>2
      <4>2. P[base + j] = tail[j]
        <5>1. (\A k \in 1..n : P[k] = data[k]) /\ P[n + 1] = 128
          BY <2>3 DEF IsPadded
        <5> HIDE DEF P
        <5> QED
          BY <1>18, <3>2, <5>1
      <4> QED
        BY <1>17, <2>5, <3>1, <3>2, <4>1, <4>2
    <3>3. CASE j > t /\ j <= gap
      <4>1. j - t \in 1..z /\ base + j = n + 1 + (j - t)
        BY <1>21, <2>1, <3>3
      <4>2. P[n + 1 + (j - t)] = 0
        BY <2>3, <4>1 DEF IsPadded
      <4> QED
        BY <1>17, <2>6, <3>1, <3>3, <4>1, <4>2
    <3>4. CASE j > gap
      <4>1. j - gap \in 1..LengthLen /\ base + j = n + 1 + z + (j - gap)
        BY <1>2, <1>14, <2>2, <3>4
      <4>2. P[n + 1 + z + (j - gap)] = bits[j - gap]
        BY <2>3, <4>1 DEF IsPadded
      <4> QED
        BY <1>17, <3>1, <3>4, <4>1, <4>2
    <3> QED
      BY <3>2, <3>3, <3>4
  <2>8. last = Part(P, BlockLen, full + 1)
    BY <1>17, <2>7 DEF Part
  <2>9. mid = <<>> /\ Len(mid) = 0
    BY <2>4
  <2>10. /\ mid = [i \in 1..Len(mid) |-> Part(P, BlockLen, full + i)] /\ Len(mid) \in Nat
         /\ full + 1 = full + Len(mid) + 1
    <3> HIDE DEF mid
    <3> QED
      BY <1>4, <2>9
  <2> HIDE DEF mid, P
  <2> QED
    BY <1>19, <1>22, <2>3, <2>8, <2>10 DEF IsPadded, P
<1>24. CASE t > gap
  <2>1. PICK z \in 0..(BlockLen - 1) : z = BlockLen + gap - t /\ z + t = BlockLen + gap
    <3>1. BlockLen + gap - t \in 0..(BlockLen - 1) /\ (BlockLen + gap - t) + t = BlockLen + gap
      BY <1>2, <1>14, <1>24
    <3> QED
      BY <3>1, Zenon
  <2>2. /\ n + 1 + z + LengthLen = BlockLen * (full + 2) /\ n + 1 = base + t
        /\ n + 1 + z = base + BlockLen + gap
    <3>1. n + 1 + z + LengthLen = two /\ n + 1 = base + t /\ n + 1 + z = base + BlockLen + gap
      BY <1>2, <1>14, <1>21, <2>1
    <3> QED
      BY <1>20, <3>1
  <2>3. IsPadded(W, data, n, z, bits, LengthLen, P) /\ Len(P) = BlockLen * (full + 2)
    BY <1>16, <1>19, <2>2
  <2>4. LengthDoesNotFit(rem)
    BY <1>13, <1>14, <1>24
  <2>5. \A j \in 1..BlockLen : j <= gap => final[j] = 0
    <3>1. PICK x \in Nat : x = 1
      OBVIOUS
    <3>2. Len(Zeros(gap)) = gap /\ \A k \in 1..gap : Zeros(gap)[k] = 0
      BY <1>6, ZerosShape
    <3>3. final = Write(spill, x, Zeros(gap))
      BY <1>14, <2>4, <3>1
    <3>4. IsWritten(spill, x, Zeros(gap), gap, final)
      BY <3>2, <3>3, Written
    <3> HIDE DEF final, spill
    <3>5. \A j \in 1..BlockLen : j <= gap => j >= x /\ j < x + gap /\ j - x + 1 \in 1..gap
      BY <3>1
    <3> QED
      BY <3>2, <3>4, <3>5 DEF IsWritten
  <2> HIDE DEF final, spill
  <2>6. ASSUME NEW j \in 1..BlockLen
        PROVE  spill[j] = P[BlockLen * ((full + 1) - 1) + j]
    <3>1. BlockLen * ((full + 1) - 1) = base
      BY <1>5, <1>19
    <3>2. CASE j <= t
      <4>1. P[base + j] = tail[j]
        <5>1. (\A k \in 1..n : P[k] = data[k]) /\ P[n + 1] = 128
          BY <2>3 DEF IsPadded
        <5> HIDE DEF P
        <5> QED
          BY <1>18, <3>2, <5>1
      <4> QED
        BY <1>12, <3>1, <3>2, <4>1
    <3>3. CASE j > t
      <4>1. j - t \in 1..z /\ base + j = n + 1 + (j - t)
        BY <1>2, <1>21, <2>1, <3>3
      <4>2. P[n + 1 + (j - t)] = 0
        BY <2>3, <4>1 DEF IsPadded
      <4> QED
        BY <1>12, <3>1, <3>3, <4>1, <4>2
    <3> QED
      BY <3>2, <3>3
  <2>7. ASSUME NEW j \in 1..BlockLen
        PROVE  last[j] = P[BlockLen * ((full + 2) - 1) + j]
    <3>1. BlockLen * ((full + 2) - 1) = base + BlockLen
      BY <1>19
    <3>2. CASE j <= gap
      <4>1. BlockLen + j - t \in 1..z /\ (base + BlockLen) + j = n + 1 + (BlockLen + j - t)
        BY <1>2, <1>21, <2>1, <3>2
      <4>2. P[n + 1 + (BlockLen + j - t)] = 0
        BY <2>3, <4>1 DEF IsPadded
      <4> QED
        BY <1>17, <2>5, <3>1, <3>2, <4>1, <4>2
    <3>3. CASE j > gap
      <4>1. j - gap \in 1..LengthLen /\ (base + BlockLen) + j = n + 1 + z + (j - gap)
        BY <1>2, <1>14, <2>2, <3>3
      <4>2. P[n + 1 + z + (j - gap)] = bits[j - gap]
        BY <2>3, <4>1 DEF IsPadded
      <4> QED
        BY <1>17, <3>1, <3>3, <4>1, <4>2
    <3> QED
      BY <3>2, <3>3
  <2>8. last = Part(P, BlockLen, full + 2) /\ spill = Part(P, BlockLen, full + 1)
    BY <1>12, <1>17, <2>6, <2>7 DEF Part
  <2>9. mid = <<spill>>
    BY <2>4
  <2>10. /\ mid = [i \in 1..Len(mid) |-> Part(P, BlockLen, full + i)] /\ Len(mid) \in Nat
         /\ full + 2 = full + Len(mid) + 1
    <3> HIDE DEF mid, P
    <3>1. Len(mid) = 1 /\ mid[1] = spill /\ mid = [i \in 1..1 |-> mid[i]]
      BY <2>9
    <3>2. \A i \in 1..1 : mid[i] = Part(P, BlockLen, full + i)
      BY <2>8, <3>1
    <3> QED
      BY <1>4, <3>1, <3>2
  <2> HIDE DEF mid, P
  <2> QED
    BY <1>19, <1>22, <2>3, <2>8, <2>10 DEF IsPadded, P
<1> QED
  BY <1>23, <1>24, <1>2, <1>14

\* The messages of the run, of every length up to any bound, are hashed with the padding of
\* the standard (sha256).
THEOREM MessagesAreHashed == Spec => []HashesPaddedMessage
<1> DEFINE message(n) == [i \in 1..n |-> 1 + (i % 100)]
           Padding(n, garbage) ==
             FlattenSeq(Blocks(message(n), [i \in 1..BlockLen |-> garbage])) = Padded(message(n))
<1>1. ASSUME NEW n \in 0..MaxHashed, NEW garbage
      PROVE  Padding(n, garbage)
  <2> DEFINE data == message(n)
             V == {1 + (i % 100) : i \in 1..n}
  <2>1. n \in Nat
    OBVIOUS
  <2>2. data \in Seq(V)
    <3>1. data \in [1..n -> V]
      OBVIOUS
    <3> HIDE DEF data, V
    <3> QED
      BY <2>1, <3>1
  <2> HIDE DEF data, V
  <2>3. FlattenSeq(Blocks(data, [i \in 1..BlockLen |-> garbage])) = Padded(data)
    BY <2>2, BlocksAreParts
  <2> QED
    BY <2>3 DEF data
<1> HIDE DEF Padding
<1>2. \A n \in 0..MaxHashed, garbage \in {0, 255} : Padding(n, garbage)
  BY <1>1, Zenon
<1>3. HashesPaddedMessage
  BY <1>2, Zenon DEF HashesPaddedMessage, Padding
<1> QED
  BY <1>3, PTL

=============================================================================
