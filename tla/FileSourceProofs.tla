-------------------------- MODULE FileSourceProofs --------------------------
(***************************************************************************)
(* Proofs about FileSource: a reader does not disturb what the sink        *)
(* promises, and what is read is the file, for every size of words and of  *)
(* the buffer, on machines of either byte order and wherever the reading   *)
(* starts.                                                                 *)
(***************************************************************************)
EXTENDS FileSource, FileSinkProofs

-----------------------------------------------------------------------------
(* The inductive invariant *)

\* n bytes of a file from a place on, with zeros behind its end.
BytesOf(f, from, n) == [i \in 1 .. n |-> IF from + i <= Len(f) THEN f[from + i] ELSE Padding]

\* Two places from which the same is read.
SamePlace(p, q) == p = q \/ (p >= Len(file) /\ q >= Len(file))

\* Where in the file the next word begins, and where the block begins that it is in.
NextPlace  == start + count
BlockPlace == NextPlace - index

\* Only a file that is written is read.
ClosedOK == /\ reading = "closed" => /\ place = 0 /\ start = 0 /\ count = 0 /\ index = 0
                                     /\ got = <<>> /\ rest = <<>>
            /\ reading # "closed" => pc \in {"finished", "terminated", "stored"}

\* The buffer's index and the counters go on by whole words.
CountersOK == /\ start \in Nat /\ place \in Nat /\ count \in Nat
              /\ index \in Nat /\ index < Capacity /\ index % W = 0 /\ index <= count

\* The buffer holds the block that the next word is in, and the filebuf stands behind it.
BufferOK == /\ index = 0 => SamePlace(place, NextPlace)
            /\ index # 0 => /\ loaded = Block(file, BlockPlace)
                            /\ SamePlace(place, BlockPlace + Capacity)

\* read_bytes is in its loop only while it lacks bytes.
AskedOK == asked \in Nat /\ (reading = "read_bytes" => asked > 0)

\* What the client has and what the bit buffer still has are the words loaded.
GotOK == /\ got \in Seq(Nat) /\ rest \in Seq(Nat)
         /\ got \o rest = BytesOf(file, start, count)

SourceInv == IInv /\ ClosedOK /\ CountersOK /\ BufferOK /\ AskedOK /\ GotOK

-----------------------------------------------------------------------------
(* Blocks of the file *)

\* The buffer has whole words, and room for one more if it has room at all.
LEMMA CapacityFacts ==
    /\ W \in Nat \ {0} /\ Capacity \in Nat \ {0} /\ Capacity % W = 0
    /\ W <= Capacity
    /\ \A n \in Nat : n % W = 0 /\ n < Capacity => n + W <= Capacity
<1>1. W \in Nat \ {0} /\ Capacity \in Nat \ {0}
  BY SinkAssumption, SMT DEF Capacity
<1>2. (B * W) % W = 0
  BY SinkAssumption, SMT
<1>3. \A n \in Nat : n % W = 0 /\ n < B * W => n + W <= B * W
  BY OneWordMore
<1>4. 0 % W = 0 /\ 0 + W = W
  BY SinkAssumption, SMT
<1>5. W <= B * W
  BY <1>1, <1>3, <1>4 DEF Capacity
<1>6. QED BY <1>1, <1>2, <1>3, <1>5 DEF Capacity

\* A multiple leaves no remainder.
LEMMA MultipleWhole ==
    ASSUME NEW k \in Nat, NEW w \in Nat \ {0}
    PROVE  (k * w) % w = 0
BY SMT

\* The words that n bytes are in hold the n bytes and fit where these fit.
LEMMA WordsCover ==
    ASSUME NEW n \in Nat, NEW c \in Nat, c % W = 0, n <= c
    PROVE  LET bytes == WordsRead(n) * W
           IN  bytes \in Nat /\ bytes % W = 0 /\ n <= bytes /\ bytes <= c
<1> DEFINE k == WordsRead(n)
<1>1. W \in Nat \ {0} /\ n + W - 1 \in Nat
  BY SinkAssumption
<1>2. k \in Nat /\ n + W - 1 = W * k + ((n + W - 1) % W) /\ (n + W - 1) % W \in 0 .. W - 1
  BY <1>1, DivMod DEF WordsRead
<1> HIDE DEF k
<1>3. n <= W * k /\ W * k <= n + W - 1
  BY <1>1, <1>2, SMT
<1>4. PICK q \in Nat : c = W * q
  BY Multiple
<1>5. k <= q
  <2>1. SUFFICES ASSUME q + 1 <= k PROVE FALSE
    BY <1>2, <1>4
  <2>2. W * (q + 1) <= W * k /\ W * (q + 1) = W * q + W
    BY <2>1, <1>1, <1>2, <1>4, SMT
  <2>3. W * q \in Nat /\ W * k \in Nat
    BY <1>1, <1>2, <1>4, SMT
  <2>4. QED BY <2>2, <2>3, <1>1, <1>3, <1>4
<1>6. W * k <= W * q
  BY <1>1, <1>2, <1>4, <1>5, SMT
<1>7. (k * W) % W = 0 /\ k * W = W * k /\ k * W \in Nat
  <2>1. k * W = W * k /\ k * W \in Nat
    BY <1>1, <1>2, SMT
  <2>2. (k * W) % W = 0
    BY <1>1, <1>2, MultipleWhole
  <2>3. QED BY <2>1, <2>2
<1>8. QED BY <1>3, <1>4, <1>6, <1>7 DEF k

\* Bytes of a file are bytes.
LEMMA BytesSeq ==
    ASSUME NEW f \in Seq(Nat), NEW from \in Nat, NEW n \in Nat
    PROVE  /\ BytesOf(f, from, n) \in Seq(Nat) /\ Len(BytesOf(f, from, n)) = n
           /\ \A i \in 1 .. n :
                BytesOf(f, from, n)[i] = IF from + i <= Len(f) THEN f[from + i] ELSE Padding
<1>1. \A i \in 1 .. Len(f) : f[i] \in Nat
  BY ElementOfSeq
<1>2. ASSUME NEW i \in 1 .. n, from + i <= Len(f) PROVE f[from + i] \in Nat
  <2>1. from + i \in 1 .. Len(f)
    BY <1>2, LenProperties
  <2>2. QED BY <1>1, <2>1
<1>3. BytesOf(f, from, n) \in [1 .. n -> Nat]
  BY <1>2 DEF BytesOf, Padding
<1>4. BytesOf(f, from, n) \in Seq(Nat) /\ Len(BytesOf(f, from, n)) = n
  BY <1>3, FunctionSeq
<1>5. QED BY <1>4 DEF BytesOf

\* Nothing of a file has been read at first.
LEMMA NothingRead ==
    /\ <<>> \in Seq(Nat)
    /\ \A f, from : <<>> \o <<>> = BytesOf(f, from, 0)
<1>1. <<>> \in Seq(Nat) /\ <<>> \o <<>> = <<>>
  BY EmptySeq, ConcatEmptySeq
<1>2. ASSUME NEW f, NEW from PROVE BytesOf(f, from, 0) = <<>>
  <2>1. BytesOf(f, from, 0) \in [1 .. 0 -> Nat]
    <3>1. 1 .. 0 = {}
      OBVIOUS
    <3>2. QED BY <3>1 DEF BytesOf
  <2>2. BytesOf(f, from, 0) \in Seq(Nat) /\ Len(BytesOf(f, from, 0)) = 0
    BY <2>1, FunctionSeq
  <2>3. QED BY <2>2, EmptySeq
<1>3. QED BY <1>1, <1>2

\* Mirroring keeps to the first m bytes, and to those behind them.
LEMMA MirrorSplit ==
    ASSUME NEW m \in Nat, m % W = 0, NEW n \in Nat, n % W = 0, NEW i \in 1 .. n
    PROVE  LET M(k) == k + W - 1 - 2 * ((k - 1) % W)
           IN  /\ M(i) \in 1 .. n /\ M(M(i)) = i
               /\ i <= m => M(i) \in 1 .. m
               /\ M(i) <= m => i <= m
<1> DEFINE M(k) == k + W - 1 - 2 * ((k - 1) % W)
<1>1. ASSUME NEW p \in Nat, p % W = 0, NEW k \in 1 .. p PROVE M(k) \in 1 .. p /\ M(M(k)) = k
  BY <1>1, MirrorInWord
<1>2. M(i) \in 1 .. n /\ M(M(i)) = i
  BY <1>1
<1> HIDE DEF M
<1>3. ASSUME i <= m PROVE M(i) \in 1 .. m
  <2>1. i \in 1 .. m
    BY <1>3
  <2>2. QED BY <1>1, <2>1
<1>4. ASSUME M(i) <= m PROVE i <= m
  <2>1. M(i) \in 1 .. m
    BY <1>2, <1>4
  <2>2. M(M(i)) \in 1 .. m
    BY <1>1, <2>1
  <2>3. QED BY <1>2, <2>2
<1>5. QED BY <1>2, <1>3, <1>4 DEF M

\* fill_buffer: what is in the buffer in the end is the block of the file, though the
\* words that lie behind the file's end are not swapped.
LEMMA FilledIsBlock ==
    ASSUME NEW f \in Seq(Nat), NEW from \in Nat
    PROVE  Filled(f, from) = Block(f, from)
<1> DEFINE b == Block(f, from)
           n == Smaller(relu(Len(f) - from), Capacity)
           bytes == WordsRead(n) * W
           words == byteswap(b)
           M(k) == k + W - 1 - 2 * ((k - 1) % W)
           front == SubSeq(words, 1, bytes)
           back == SubSeq(words, bytes + 1, Capacity)
<1>1. W \in Nat \ {0} /\ Capacity \in Nat \ {0} /\ Capacity % W = 0 /\ Len(f) \in Nat
  BY CapacityFacts, LenProperties
<1>2. /\ b \in Seq(Nat) /\ Len(b) = Capacity
      /\ \A i \in 1 .. Capacity : b[i] = IF from + i <= Len(f) THEN f[from + i] ELSE Padding
  <2>1. b = BytesOf(f, from, Capacity)
    BY DEF Block, BytesOf
  <2> HIDE DEF b
  <2>2. /\ BytesOf(f, from, Capacity) \in Seq(Nat)
        /\ Len(BytesOf(f, from, Capacity)) = Capacity
    BY <1>1, BytesSeq
  <2>3. \A i \in 1 .. Capacity :
          BytesOf(f, from, Capacity)[i] = IF from + i <= Len(f) THEN f[from + i] ELSE Padding
    BY DEF BytesOf
  <2>4. QED BY <2>1, <2>2, <2>3
<1>3. n \in Nat /\ n <= Capacity /\ (n < Capacity => Len(f) <= from + n)
  BY <1>1 DEF Smaller, relu
<1> HIDE DEF n
<1>4. bytes \in Nat /\ bytes % W = 0 /\ n <= bytes /\ bytes <= Capacity
  BY <1>1, <1>3, WordsCover
<1> HIDE DEF bytes
<1>5. \A i \in 1 .. Capacity : i > bytes => b[i] = Padding
  <2>1. SUFFICES ASSUME NEW i \in 1 .. Capacity, i > bytes PROVE b[i] = Padding
    OBVIOUS
  <2>2. n < Capacity /\ i > n
    BY <2>1, <1>1, <1>3, <1>4
  <2>3. ~(from + i <= Len(f))
    BY <2>2, <1>1, <1>3
  <2> HIDE DEF b
  <2>4. QED BY <2>3, <1>2
<1>6. /\ words \in Seq(Nat) /\ Len(words) = Capacity
      /\ words = [i \in 1 .. Capacity |-> b[M(i)]]
  BY <1>1, <1>2, Swapped DEF byteswap
<1> HIDE DEF words
<1>7. ASSUME NEW i \in 1 .. Capacity
      PROVE  /\ M(i) \in 1 .. Capacity /\ M(M(i)) = i
             /\ i <= bytes => M(i) \in 1 .. bytes
             /\ M(i) <= bytes => i <= bytes
  BY <1>1, <1>4, MirrorSplit
<1> HIDE DEF b, M
<1>8. /\ front \in Seq(Nat) /\ Len(front) = bytes
      /\ \A i \in 1 .. bytes : front[i] = words[i]
  <2>1. 1 \in Int /\ bytes \in Int /\ bytes - 1 + 1 = bytes
    BY <1>4
  <2>2. \A i \in 1 .. bytes : words[i] \in Nat /\ 1 + i - 1 = i
    BY <1>1, <1>4, <1>6, ElementOfSeq
  <2>3. /\ front \in Seq(Nat)
        /\ Len(front) = IF 1 <= bytes THEN bytes - 1 + 1 ELSE 0
        /\ \A i \in 1 .. bytes - 1 + 1 : front[i] = words[1 + i - 1]
    BY <2>1, <2>2, SubSeqProperties
  <2> HIDE DEF front
  <2>4. Len(front) = bytes
    BY <2>1, <2>3, <1>4
  <2>5. QED BY <2>1, <2>2, <2>3, <2>4
<1>9. /\ back \in Seq(Nat) /\ Len(back) = Capacity - bytes
      /\ \A i \in 1 .. Capacity - bytes : back[i] = words[bytes + i]
  <2> DEFINE m == bytes + 1
             k == Capacity - m + 1
  <2>1. m \in Int /\ Capacity \in Int /\ k = Capacity - bytes
    BY <1>1, <1>4
  <2>2. \A i \in m .. Capacity : words[i] \in Nat
    BY <1>1, <1>4, <1>6, ElementOfSeq
  <2>3. \A i \in Int : m + i - 1 = bytes + i
    BY <1>4
  <2>4. m <= Capacity \/ Capacity - bytes = 0
    BY <1>1, <1>4
  <2>5. back = SubSeq(words, m, Capacity)
    OBVIOUS
  <2> HIDE DEF m, back
  <2>6. /\ back \in Seq(Nat)
        /\ Len(back) = IF m <= Capacity THEN k ELSE 0
        /\ \A i \in 1 .. k : back[i] = words[m + i - 1]
    BY <2>1, <2>2, <2>5, SubSeqProperties
  <2> HIDE DEF k
  <2>7. Len(back) = Capacity - bytes
    <3>1. ~(m <= Capacity) => Capacity - bytes = 0
      BY <2>4
    <3>2. QED BY <2>1, <2>6, <3>1
  <2>8. ASSUME NEW i \in 1 .. Capacity - bytes PROVE back[i] = words[bytes + i]
    <3>1. i \in 1 .. k
      BY <2>1
    <3>2. back[i] = words[m + i - 1]
      BY <2>6, <3>1
    <3>3. m + i - 1 = bytes + i
      BY <2>3
    <3>4. QED BY <3>2, <3>3
  <2>9. QED BY <2>6, <2>7, <2>8
<1> HIDE DEF front, back
<1>10. /\ byteswap(front) \in Seq(Nat) /\ Len(byteswap(front)) = bytes
       /\ byteswap(front) = [i \in 1 .. bytes |-> front[M(i)]]
  BY <1>4, <1>8, Swapped DEF byteswap, M
<1>11. ASSUME NEW i \in 1 .. bytes PROVE byteswap(front)[i] = b[i]
  <2>1. i \in 1 .. Capacity /\ i <= bytes
    BY <1>1, <1>4
  <2>2. M(i) \in 1 .. bytes /\ M(i) \in 1 .. Capacity /\ M(M(i)) = i
    BY <2>1, <1>7
  <2>3. byteswap(front)[i] = words[M(i)]
    BY <2>2, <1>8, <1>10
  <2>4. QED BY <2>2, <2>3, <1>6
<1>12. ASSUME NEW i \in 1 .. Capacity - bytes PROVE back[i] = b[bytes + i]
  <2>1. bytes + i \in 1 .. Capacity /\ ~(bytes + i <= bytes)
    BY <1>1, <1>4
  <2>2. M(bytes + i) \in 1 .. Capacity /\ M(bytes + i) > bytes
    BY <2>1, <1>4, <1>7
  <2>3. back[i] = b[M(bytes + i)]
    BY <2>1, <1>6, <1>9
  <2>4. QED BY <2>1, <2>2, <2>3, <1>4, <1>5
<1>13. byteswap(front) \o back = b
  <2> DEFINE p == byteswap(front)
             s == p \o back
  <2>1. p \in Seq(Nat) /\ Len(p) = bytes /\ Len(back) = Capacity - bytes
    BY <1>9, <1>10
  <2>2. \A i \in 1 .. bytes : p[i] = b[i]
    BY <1>11
  <2> HIDE DEF p
  <2>3. bytes + (Capacity - bytes) = Capacity
    BY <1>1, <1>4
  <2>4. /\ s \in Seq(Nat) /\ Len(s) = Capacity
        /\ \A i \in 1 .. Capacity : s[i] = IF i <= bytes THEN p[i] ELSE back[i - bytes]
    <3>1. /\ s \in Seq(Nat) /\ Len(s) = Len(p) + Len(back)
          /\ \A i \in 1 .. Len(p) + Len(back) :
               s[i] = IF i <= Len(p) THEN p[i] ELSE back[i - Len(p)]
      BY <2>1, <1>9, ConcatProperties
    <3> HIDE DEF s
    <3>2. Len(p) + Len(back) = Capacity
      BY <2>1, <2>3
    <3>3. QED BY <3>1, <3>2, <2>1
  <2> HIDE DEF s
  <2>5. ASSUME NEW i \in 1 .. Capacity PROVE s[i] = b[i]
    <3>1. CASE i <= bytes
      <4>1. i \in 1 .. bytes
        BY <3>1, <1>4
      <4>2. QED BY <3>1, <4>1, <2>2, <2>4
    <3>2. CASE ~(i <= bytes)
      <4>1. i - bytes \in 1 .. Capacity - bytes /\ bytes + (i - bytes) = i
        BY <3>2, <1>1, <1>4
      <4>2. QED BY <3>2, <4>1, <2>4, <1>12
    <3>3. QED BY <3>1, <3>2
  <2>6. s = b
    BY <1>2, <2>4, <2>5, SeqEqual
  <2>7. QED BY <2>6 DEF s, p
<1>14. CASE LittleEndian
  BY <1>14, <1>13 DEF Filled, InMemory, front, back, words, bytes, n, b
<1>15. CASE ~LittleEndian
  BY <1>15 DEF Filled, InMemory, b
<1>16. QED BY <1>14, <1>15

-----------------------------------------------------------------------------
(* Words of the file *)

\* The same is read from the same place.
LEMMA BlockSame ==
    ASSUME NEW p \in Nat, NEW q \in Nat, SamePlace(p, q), Len(file) \in Nat
    PROVE  Block(file, p) = Block(file, q)
<1>1. CASE p = q
  BY <1>1
<1>2. CASE p >= Len(file) /\ q >= Len(file)
  <2>1. \A i \in 1 .. Capacity : ~(p + i <= Len(file)) /\ ~(q + i <= Len(file))
    BY <1>2
  <2>2. QED BY <2>1 DEF Block
<1>3. QED BY <1>1, <1>2 DEF SamePlace

\* Whether it has just been filled or not, the buffer that the next word is taken from
\* is a block of the file.
LEMMA NextBufferIsBlock ==
    ASSUME SourceInv
    PROVE  /\ NextBuffer = Block(file, BlockPlace)
           /\ BlockPlace \in Nat /\ BlockPlace + index = NextPlace
<1>1. /\ file \in Seq(Nat) /\ Len(file) \in Nat /\ place \in Nat /\ start \in Nat
      /\ count \in Nat /\ index \in Nat /\ index <= count
  BY LenProperties DEF SourceInv, CountersOK, IInv, TypeOK
<1>2. BlockPlace \in Nat /\ BlockPlace + index = NextPlace /\ NextPlace \in Nat
  BY <1>1 DEF BlockPlace, NextPlace
<1>3. CASE index = 0
  <2>1. NextBuffer = Block(file, place)
    BY <1>1, <1>3, FilledIsBlock DEF NextBuffer
  <2>2. SamePlace(place, NextPlace) /\ BlockPlace = NextPlace
    BY <1>2, <1>3 DEF SourceInv, BufferOK
  <2>3. Block(file, place) = Block(file, NextPlace)
    BY <1>1, <1>2, <2>2, BlockSame
  <2>4. QED BY <1>2, <2>1, <2>2, <2>3
<1>4. CASE index # 0
  BY <1>2, <1>4 DEF SourceInv, BufferOK, NextBuffer
<1>5. QED BY <1>3, <1>4

\* load_word: the word is the file's next one.
LEMMA NextWordIs ==
    ASSUME SourceInv
    PROVE  /\ NextWord \in Seq(Nat) /\ Len(NextWord) = W
           /\ \A i \in 1 .. W : NextWord[i] = IF NextPlace + i <= Len(file)
                                              THEN file[NextPlace + i] ELSE Padding
<1> DEFINE b == Block(file, BlockPlace)
<1>1. /\ file \in Seq(Nat) /\ index \in Nat /\ index < Capacity /\ index % W = 0
  BY DEF SourceInv, CountersOK, IInv, TypeOK
<1>2. W \in Nat \ {0} /\ Capacity \in Nat /\ index + W <= Capacity
  BY <1>1, CapacityFacts
<1>3. NextBuffer = b /\ BlockPlace \in Nat /\ BlockPlace + index = NextPlace
  BY NextBufferIsBlock
<1>4. /\ b \in Seq(Nat) /\ Len(b) = Capacity
      /\ \A i \in 1 .. Capacity :
           b[i] = IF BlockPlace + i <= Len(file) THEN file[BlockPlace + i] ELSE Padding
  <2>1. b = BytesOf(file, BlockPlace, Capacity)
    BY DEF Block, BytesOf
  <2> HIDE DEF b
  <2>2. /\ BytesOf(file, BlockPlace, Capacity) \in Seq(Nat)
        /\ Len(BytesOf(file, BlockPlace, Capacity)) = Capacity
    BY <1>1, <1>2, <1>3, BytesSeq
  <2>3. \A i \in 1 .. Capacity :
          BytesOf(file, BlockPlace, Capacity)[i] =
             IF BlockPlace + i <= Len(file) THEN file[BlockPlace + i] ELSE Padding
    BY DEF BytesOf
  <2>4. QED BY <2>1, <2>2, <2>3
<1> HIDE DEF b
<1>5. \A i \in 1 .. Capacity : b[i] \in Nat
  BY <1>4, ElementOfSeq
<1>6. \A i \in index + 1 .. index + W : b[i] \in Nat
  BY <1>1, <1>2, <1>5
<1>7. /\ NextWord \in Seq(Nat) /\ Len(NextWord) = W
      /\ \A i \in 1 .. W : NextWord[i] = b[index + i]
  <2> DEFINE s == SubSeq(b, index + 1, index + W)
  <2>1. index + 1 \in Int /\ index + W \in Int /\ index + 1 <= index + W
        /\ (index + W) - (index + 1) + 1 = W
    BY <1>1, <1>2
  <2>2. /\ s \in Seq(Nat) /\ Len(s) = (index + W) - (index + 1) + 1
        /\ \A i \in 1 .. (index + W) - (index + 1) + 1 : s[i] = b[(index + 1) + i - 1]
    BY <1>6, <2>1, SubSeqProperties
  <2>3. \A i \in 1 .. W : (index + 1) + i - 1 = index + i
    BY <1>1, <1>2
  <2>4. NextWord = s
    BY <1>3 DEF NextWord
  <2> HIDE DEF s
  <2>5. QED BY <2>1, <2>2, <2>3, <2>4
<1>8. ASSUME NEW i \in 1 .. W
      PROVE  NextWord[i] = IF NextPlace + i <= Len(file) THEN file[NextPlace + i] ELSE Padding
  <2>1. index + i \in 1 .. Capacity /\ BlockPlace + (index + i) = NextPlace + i
    BY <1>1, <1>2, <1>3
  <2>2. QED BY <1>4, <1>7, <2>1
<1>9. QED BY <1>7, <1>8

\* The words loaded go on with the next word.
LEMMA BytesExtended ==
    ASSUME SourceInv
    PROVE  BytesOf(file, start, count) \o NextWord = BytesOf(file, start, count + W)
<1> DEFINE s == BytesOf(file, start, count)
           u == BytesOf(file, start, count + W)
<1>1. file \in Seq(Nat) /\ start \in Nat /\ count \in Nat /\ W \in Nat \ {0}
  BY SinkAssumption DEF SourceInv, CountersOK, IInv, TypeOK
<1>2. count + W \in Nat
  BY <1>1
<1>3. s \in Seq(Nat) /\ Len(s) = count /\ u \in Seq(Nat) /\ Len(u) = count + W
  BY <1>1, <1>2, BytesSeq
<1>4. /\ NextWord \in Seq(Nat) /\ Len(NextWord) = W
      /\ \A i \in 1 .. W : NextWord[i] = IF NextPlace + i <= Len(file)
                                         THEN file[NextPlace + i] ELSE Padding
  BY NextWordIs
<1>5. \A i \in 1 .. count : s[i] = IF start + i <= Len(file) THEN file[start + i] ELSE Padding
  BY DEF BytesOf
<1>6. \A i \in 1 .. count + W :
         u[i] = IF start + i <= Len(file) THEN file[start + i] ELSE Padding
  BY DEF BytesOf
<1> HIDE DEF s, u
<1>7. /\ s \o NextWord \in Seq(Nat) /\ Len(s \o NextWord) = count + W
      /\ \A i \in 1 .. count + W :
           (s \o NextWord)[i] = IF i <= count THEN s[i] ELSE NextWord[i - count]
  <2> DEFINE a == s \o NextWord
  <2>1. /\ a \in Seq(Nat) /\ Len(a) = Len(s) + Len(NextWord)
        /\ \A i \in 1 .. Len(s) + Len(NextWord) :
             a[i] = IF i <= Len(s) THEN s[i] ELSE NextWord[i - Len(s)]
    BY <1>3, <1>4, ConcatProperties
  <2> HIDE DEF a
  <2>2. Len(s) = count /\ Len(NextWord) = W
    BY <1>3, <1>4
  <2>3. /\ a \in Seq(Nat) /\ Len(a) = count + W
        /\ \A i \in 1 .. count + W : a[i] = IF i <= count THEN s[i] ELSE NextWord[i - count]
    BY <2>1, <2>2
  <2>4. QED BY <2>3 DEF a
<1>8. ASSUME NEW i \in 1 .. count + W PROVE (s \o NextWord)[i] = u[i]
  <2>1. CASE i <= count
    <3>1. i \in 1 .. count
      BY <2>1, <1>1
    <3>2. QED BY <2>1, <3>1, <1>5, <1>6, <1>7
  <2>2. CASE ~(i <= count)
    <3>1. i - count \in 1 .. W /\ NextPlace + (i - count) = start + i
      BY <2>2, <1>1 DEF NextPlace
    <3>2. QED BY <2>2, <3>1, <1>4, <1>6, <1>7
  <2>3. QED BY <2>1, <2>2
<1>9. s \o NextWord = u
  BY <1>3, <1>7, <1>8, SeqEqual
<1>10. QED BY <1>9 DEF s, u

\* load_word keeps the buffer and the counters in step.
LEMMA WordLoaded ==
    ASSUME SourceInv, LoadWord, UNCHANGED <<start, file>>
    PROVE  CountersOK' /\ BufferOK' /\ count' = count + W
<1> DEFINE f == Len(file)
           c == Capacity
<1>1. /\ start \in Nat /\ place \in Nat /\ count \in Nat /\ f \in Nat
      /\ index \in Nat /\ index < c /\ index % W = 0 /\ index <= count
  BY LenProperties DEF SourceInv, CountersOK, IInv, TypeOK
<1>2. /\ W \in Nat \ {0} /\ c \in Nat \ {0} /\ c % W = 0 /\ index + W <= c
  BY <1>1, CapacityFacts
<1>3. /\ loaded' = Block(file, BlockPlace) /\ index' = (index + W) % c /\ count' = count + W
      /\ place' = IF index = 0 THEN place + Smaller(relu(f - place), c) ELSE place
      /\ start' = start /\ file' = file
  BY NextBufferIsBlock DEF LoadWord
<1>4. /\ index = 0 => SamePlace(place, NextPlace)
      /\ index # 0 => SamePlace(place, BlockPlace + c)
  BY DEF SourceInv, BufferOK
<1>5. /\ NextPlace = start + count /\ NextPlace' = start + count + W
      /\ BlockPlace = start + count - index
  BY <1>1, <1>2, <1>3 DEF NextPlace, BlockPlace
<1>6. (index + W) % W = 0 /\ 0 % W = 0
  <2>1. (index + W) % W = 0
    BY <1>1, OneWordMore
  <2>2. 0 % W = 0
    BY <1>2, SMT
  <2>3. QED BY <2>1, <2>2
<1>7. index' = IF index + W = c THEN 0 ELSE index + W
  BY <1>1, <1>2, <1>3
<1>8. place' \in Nat
  BY <1>1, <1>2, <1>3 DEF Smaller, relu
<1>9. place' = BlockPlace + c \/ (place' >= f /\ BlockPlace + c >= f)
  BY <1>1, <1>2, <1>3, <1>4, <1>5 DEF SamePlace, Smaller, relu
<1> HIDE DEF f
<1>10. CountersOK'
  <2>1. index' \in Nat /\ index' < c /\ index' % W = 0 /\ index' <= count'
    BY <1>1, <1>2, <1>3, <1>6, <1>7
  <2>2. start' \in Nat /\ count' \in Nat
    BY <1>1, <1>2, <1>3
  <2>3. QED BY <1>8, <2>1, <2>2 DEF CountersOK
<1>11. CASE index + W = c
  <2>1. index' = 0 /\ NextPlace' = BlockPlace + c
    BY <1>1, <1>2, <1>5, <1>7, <1>11
  <2>2. SamePlace(place, NextPlace)'
    BY <1>3, <1>9, <2>1 DEF SamePlace, f
  <2>3. QED BY <1>3, <1>10, <2>1, <2>2 DEF BufferOK
<1>12. CASE index + W # c
  <2>1. index' = index + W /\ BlockPlace' = BlockPlace
    BY <1>1, <1>2, <1>5, <1>7, <1>12 DEF BlockPlace
  <2>2. index' # 0
    BY <1>1, <1>2, <2>1
  <2>3. SamePlace(place, BlockPlace + Capacity)'
    BY <1>3, <1>9, <2>1 DEF SamePlace, f
  <2>4. (loaded = Block(file, BlockPlace))'
    BY <1>3, <2>1
  <2>5. QED BY <1>3, <1>10, <2>2, <2>3, <2>4 DEF BufferOK
<1>13. QED BY <1>11, <1>12

-----------------------------------------------------------------------------
(* Every action preserves the invariant *)

\* A session is set up on nothing but the sink.
LEMMA SourceInitInvariant == SourceInit => SourceInv
<1> SUFFICES ASSUME SourceInit PROVE SourceInv
  OBVIOUS
<1>1. IInv
  BY InitInvariant DEF SourceInit
<1>2. /\ reading = "closed" /\ start = 0 /\ place = 0 /\ index = 0 /\ count = 0 /\ asked = 0
      /\ got = <<>> /\ rest = <<>>
  BY DEF SourceInit
<1>3. CountersOK /\ BufferOK /\ AskedOK
  <2>1. 0 % W = 0 /\ 0 < Capacity /\ Capacity \in Nat
    <3>1. 0 % W = 0
      BY SinkAssumption, SMT
    <3>2. QED BY <3>1, CapacityFacts
  <2>2. QED BY <1>2, <2>1 DEF CountersOK, BufferOK, AskedOK, SamePlace, NextPlace
<1>4. GotOK
  BY <1>2, NothingRead DEF GotOK
<1>5. QED BY <1>1, <1>2, <1>3, <1>4 DEF SourceInv, ClosedOK

\* The sink does nothing once its file can be read.
LEMMA WrittenBefore == Next => pc \notin {"finished", "terminated", "stored"}
BY DEF Next, Commit, BeginImage, Symbol, Put, Finish, TerminateLate, Drain, CutOff, Destroy

\* So what it does happens before anything is read.
LEMMA SinkStep ==
    ASSUME SourceInv, Next, UNCHANGED source_vars
    PROVE  SourceInv'
<1>1. IInv'
  BY NextInvariant DEF SourceInv
<1>2. UNCHANGED <<reading, start, place, loaded, index, rest, count, asked, got>>
  BY DEF source_vars, word_vars
<1>3. /\ reading = "closed" /\ place = 0 /\ start = 0 /\ count = 0 /\ index = 0
      /\ got = <<>> /\ rest = <<>>
  BY WrittenBefore DEF SourceInv, ClosedOK
<1>4. CountersOK' /\ AskedOK' /\ ClosedOK'
  BY <1>2, <1>3 DEF SourceInv, CountersOK, AskedOK, ClosedOK
<1>5. BufferOK'
  BY <1>2, <1>3 DEF BufferOK, SamePlace, NextPlace
<1>6. GotOK'
  <2>1. got' = <<>> /\ rest' = <<>> /\ start' = 0 /\ count' = 0
    BY <1>2, <1>3
  <2>2. QED BY <2>1, NothingRead DEF GotOK
<1>7. QED BY <1>1, <1>4, <1>5, <1>6 DEF SourceInv

\* While it is read, the sink's invariant is not disturbed.
LEMMA SinkUndisturbed ==
    ASSUME SourceInv, UNCHANGED vars
    PROVE  IInv' /\ file' = file /\ pc' = pc
<1>1. IInv'
  BY NextInvariant DEF SourceInv
<1>2. QED BY <1>1 DEF vars

\* Set up, past the header, asked or refused, the reader has what it had.
LEMMA AskStep ==
    ASSUME SourceInv, \/ Open \/ Refuse \/ ParseHeader
                      \/ \E n \in 0 .. MaxSymbol : Ask("extract", n)
                      \/ \E n \in Chunks : Ask("read_bytes", n)
    PROVE  SourceInv'
<1>1. UNCHANGED vars /\ UNCHANGED <<start, place, loaded, index, rest, count, got>>
  BY DEF Open, Refuse, ParseHeader, Ask, word_vars
<1>2. IInv' /\ file' = file /\ pc' = pc
  BY <1>1, SinkUndisturbed
<1>3. CountersOK' /\ BufferOK' /\ GotOK'
  BY <1>1, <1>2 DEF SourceInv, CountersOK, BufferOK, GotOK, SamePlace, NextPlace, BlockPlace
<1>4. AskedOK' /\ reading' # "closed" /\ pc \in {"finished", "terminated", "stored"}
  <2>1. CASE Open
    BY <2>1 DEF Open, SourceInv, AskedOK
  <2>2. CASE Refuse
    BY <2>2 DEF Refuse, SourceInv, AskedOK, ClosedOK
  <2>3. CASE \E n \in 0 .. MaxSymbol : Ask("extract", n)
    BY <2>3, SinkAssumption DEF Ask, SourceInv, AskedOK, ClosedOK
  <2>4. CASE \E n \in Chunks : Ask("read_bytes", n)
    BY <2>4, SourceAssumption DEF Ask, SourceInv, AskedOK, ClosedOK
  <2>5. CASE ParseHeader
    BY <2>5 DEF ParseHeader, SourceInv, AskedOK, ClosedOK
  <2>6. QED BY <2>1, <2>2, <2>3, <2>4, <2>5
<1>5. QED BY <1>2, <1>3, <1>4 DEF SourceInv, ClosedOK

\* load_channels: the reading starts afresh, at the image.
LEMMA SeekStep ==
    ASSUME SourceInv, Seek
    PROVE  SourceInv'
<1>1. PICK offset \in Offsets : start' = offset /\ place' = offset
  BY DEF Seek
<1>2. offset \in Nat
  BY SourceAssumption
<1>3. /\ index' = 0 /\ count' = 0 /\ got' = <<>> /\ rest' = <<>>
      /\ reading = "open" /\ reading' = reading /\ asked' = asked /\ UNCHANGED vars
  BY DEF Seek
<1>4. IInv' /\ file' = file /\ pc' = pc
  BY <1>3, SinkUndisturbed
<1>5. CountersOK'
  <2>1. 0 % W = 0 /\ 0 < Capacity
    <3>1. 0 % W = 0
      BY SinkAssumption, SMT
    <3>2. QED BY <3>1, CapacityFacts
  <2>2. QED BY <1>1, <1>2, <1>3, <2>1 DEF CountersOK
<1>6. BufferOK'
  BY <1>1, <1>2, <1>3 DEF BufferOK, SamePlace, NextPlace
<1>7. GotOK'
  BY <1>3, NothingRead DEF GotOK
<1>8. QED
  BY <1>3, <1>4, <1>5, <1>6, <1>7 DEF SourceInv, ClosedOK, AskedOK

\* What is taken out of the bit buffer or of the next word are its first bytes.
LEMMA ExtractStep ==
    ASSUME SourceInv, Extract
    PROVE  SourceInv'
<1> DEFINE word  == IF rest = <<>> THEN NextWord ELSE rest
           shift == Smaller(IF reading = "read_bytes" THEN 1 ELSE asked, Len(word))
           front == SubSeq(word, 1, shift)
           back  == SubSeq(word, shift + 1, Len(word))
<1>1. /\ reading \in {"extract", "read_bytes"} /\ asked \in Nat
      /\ reading = "read_bytes" => asked > 0
      /\ got \in Seq(Nat) /\ rest \in Seq(Nat)
      /\ got \o rest = BytesOf(file, start, count)
      /\ pc \in {"finished", "terminated", "stored"}
  BY DEF Extract, SourceInv, AskedOK, GotOK, ClosedOK
<1>2. word \in Seq(Nat) /\ Len(word) \in Nat /\ Len(word) > 0
  <2>1. CASE rest = <<>>
    <3>1. NextWord \in Seq(Nat) /\ Len(NextWord) = W
      BY NextWordIs
    <3>2. QED BY <2>1, <3>1, SinkAssumption
  <2>2. CASE rest # <<>>
    <3>1. Len(rest) \in Nat /\ Len(rest) # 0
      BY <1>1, <2>2, LenProperties, EmptySeq
    <3>2. QED BY <1>1, <2>2, <3>1
  <2>3. QED BY <2>1, <2>2
<1>3. /\ shift \in Nat /\ shift <= Len(word) /\ shift <= asked
  BY <1>1, <1>2 DEF Smaller
<1>4. /\ got' = got \o front /\ rest' = back /\ asked' = asked - shift
      /\ reading' = IF asked' = 0 THEN "open" ELSE reading
      /\ UNCHANGED vars /\ UNCHANGED start
      /\ IF rest = <<>> THEN LoadWord ELSE UNCHANGED word_vars
  BY DEF Extract
<1>5. IInv' /\ file' = file /\ pc' = pc
  BY <1>4, SinkUndisturbed
<1> HIDE DEF shift
<1>6. AskedOK' /\ reading' # "closed"
  <2>1. asked' = asked - shift /\ shift \in Nat /\ shift <= asked
    BY <1>3, <1>4
  <2>2. asked' \in Nat /\ (asked' # 0 => asked' > 0)
    BY <1>1, <2>1
  <2>3. reading' = IF asked' = 0 THEN "open" ELSE reading
    BY <1>4
  <2>4. QED BY <1>1, <2>2, <2>3 DEF AskedOK
<1>7. /\ front \in Seq(Nat) /\ back \in Seq(Nat) /\ front \o back = word
  <2>1. \A i \in 1 .. Len(word) : word[i] \in Nat
    BY <1>2, ElementOfSeq
  <2>2. front \in Seq(Nat) /\ back \in Seq(Nat)
    BY <1>2, <1>3, <2>1, SubSeqProperties
  <2>3. front \o back = SubSeq(word, 1, Len(word))
    <3> DEFINE n == Len(word)
    <3>1. 1 \in 1 .. n + 1 /\ shift \in 1 - 1 .. n /\ n \in shift .. n
      BY <1>2, <1>3
    <3>2. n = Len(word)
      OBVIOUS
    <3> HIDE DEF n, word
    <3>3. SubSeq(word, 1, shift) \o SubSeq(word, shift + 1, n) = SubSeq(word, 1, n)
      BY <1>2, <3>1, <3>2, ConcatAdjacentSubSeq
    <3>4. QED BY <3>2, <3>3 DEF front, back
  <2>4. SubSeq(word, 1, Len(word)) = word
    BY <1>2, SubSeqFull
  <2>5. QED BY <2>2, <2>3, <2>4
<1> HIDE DEF front, back, word
<1>8. got' \in Seq(Nat) /\ rest' \in Seq(Nat) /\ got' \o rest' = got \o word
  <2>1. (got \o front) \o back = got \o (front \o back)
    <3>1. got \in Seq(Nat) /\ front \in Seq(Nat) /\ back \in Seq(Nat)
      BY <1>1, <1>7
    <3>2. QED BY <3>1, Associative, Zenon
  <2>2. got \o front \in Seq(Nat)
    BY <1>1, <1>7, ConcatProperties
  <2>3. QED BY <1>4, <1>7, <2>1, <2>2
<1>9. CASE rest = <<>>
  <2>1. CountersOK' /\ BufferOK' /\ count' = count + W
    BY <1>4, <1>5, <1>9, WordLoaded
  <2>2. word = NextWord /\ got = BytesOf(file, start, count)
    <3>1. got \o <<>> = got
      BY <1>1, ConcatEmptySeq
    <3>2. QED BY <1>1, <1>9, <3>1 DEF word
  <2>3. got' \o rest' = BytesOf(file, start, count + W)
    BY <1>8, <2>2, BytesExtended
  <2>4. GotOK'
    BY <1>4, <1>5, <1>8, <2>1, <2>3 DEF GotOK
  <2>5. QED BY <1>1, <1>5, <1>6, <2>1, <2>4 DEF SourceInv, ClosedOK
<1>10. CASE rest # <<>>
  <2>1. UNCHANGED <<start, place, loaded, index, count>>
    BY <1>4, <1>10 DEF word_vars
  <2>2. CountersOK' /\ BufferOK'
    BY <1>5, <2>1 DEF SourceInv, CountersOK, BufferOK, SamePlace, NextPlace, BlockPlace
  <2>3. got' \o rest' = BytesOf(file, start, count)
    BY <1>1, <1>8, <1>10 DEF word
  <2>4. GotOK'
    BY <1>5, <1>8, <2>1, <2>3 DEF GotOK
  <2>5. QED BY <1>1, <1>5, <1>6, <2>2, <2>4 DEF SourceInv, ClosedOK
<1>11. QED BY <1>9, <1>10

\* read_bytes takes a whole word past the bit buffer, which is empty.
LEMMA ReadWordStep ==
    ASSUME SourceInv, ReadWord
    PROVE  SourceInv'
<1>1. /\ reading = "read_bytes" /\ rest = <<>> /\ asked > W /\ LoadWord
      /\ got' = got \o NextWord /\ asked' = asked - W
      /\ UNCHANGED vars /\ UNCHANGED <<reading, start, rest>>
  BY DEF ReadWord
<1>2. /\ asked \in Nat /\ got \in Seq(Nat) /\ got \o rest = BytesOf(file, start, count)
      /\ pc \in {"finished", "terminated", "stored"}
  BY <1>1 DEF SourceInv, AskedOK, GotOK, ClosedOK
<1>3. IInv' /\ file' = file /\ pc' = pc
  BY <1>1, SinkUndisturbed
<1>4. CountersOK' /\ BufferOK' /\ count' = count + W
  BY <1>1, <1>3, WordLoaded
<1>5. AskedOK' /\ reading' # "closed"
  BY <1>1, <1>2, SinkAssumption DEF AskedOK
<1>6. GotOK'
  <2>1. got = BytesOf(file, start, count)
    <3>1. got \o <<>> = got
      BY <1>2, ConcatEmptySeq
    <3>2. QED BY <1>1, <1>2, <3>1
  <2>2. got' = BytesOf(file, start, count + W)
    BY <1>1, <2>1, BytesExtended
  <2>3. got' \in Seq(Nat)
    BY <1>1, <1>2, NextWordIs, ConcatProperties
  <2>4. rest' = <<>> /\ rest' \in Seq(Nat)
    BY <1>1, EmptySeq
  <2>5. got' \o rest' = got'
    BY <2>3, <2>4, ConcatEmptySeq
  <2>6. QED BY <1>1, <1>3, <1>4, <2>2, <2>3, <2>4, <2>5 DEF GotOK
<1>7. QED BY <1>2, <1>3, <1>4, <1>5, <1>6 DEF SourceInv, ClosedOK

\* Whatever the session does next, the invariant holds on.
LEMMA SourceNextInvariant == SourceInv /\ [SourceNext]_<<vars, source_vars>> => SourceInv'
<1> SUFFICES ASSUME SourceInv, [SourceNext]_<<vars, source_vars>> PROVE SourceInv'
  OBVIOUS
<1>1. CASE UNCHANGED <<vars, source_vars>>
  <2>1. IInv' /\ file' = file /\ pc' = pc
    BY <1>1, SinkUndisturbed
  <2>2. UNCHANGED <<reading, start, place, loaded, index, rest, count, asked, got>>
    BY <1>1 DEF source_vars, word_vars
  <2>3. QED
    BY <2>1, <2>2
       DEF SourceInv, ClosedOK, CountersOK, BufferOK, AskedOK, GotOK, SamePlace, NextPlace,
           BlockPlace
<1>2. CASE Next /\ UNCHANGED source_vars
  BY <1>2, SinkStep
<1>3. CASE \/ Open \/ Refuse \/ ParseHeader
           \/ \E n \in 0 .. MaxSymbol : Ask("extract", n)
           \/ \E n \in Chunks : Ask("read_bytes", n)
  BY <1>3, AskStep
<1>4. CASE Seek
  BY <1>4, SeekStep
<1>5. CASE Extract
  BY <1>5, ExtractStep
<1>6. CASE ReadWord
  BY <1>6, ReadWordStep
<1>7. QED BY <1>1, <1>2, <1>3, <1>4, <1>5, <1>6 DEF SourceNext

\* What the client has is the beginning of the words loaded.
LEMMA GotIsFile == SourceInv => SourceReadsFile
<1> SUFFICES ASSUME SourceInv PROVE got = BytesOf(file, start, Len(got))
  BY DEF SourceReadsFile, BytesOf
<1>1. /\ got \in Seq(Nat) /\ rest \in Seq(Nat) /\ got \o rest = BytesOf(file, start, count)
      /\ file \in Seq(Nat) /\ start \in Nat /\ count \in Nat
  BY DEF SourceInv, GotOK, CountersOK, IInv, TypeOK
<1>2. Len(got) \in Nat /\ Len(rest) \in Nat
  BY <1>1, LenProperties
<1>3. /\ Len(got \o rest) = Len(got) + Len(rest)
      /\ \A i \in 1 .. Len(got) + Len(rest) :
           (got \o rest)[i] = IF i <= Len(got) THEN got[i] ELSE rest[i - Len(got)]
  BY <1>1, ConcatProperties
<1>4. Len(got) + Len(rest) = count
  <2>1. Len(BytesOf(file, start, count)) = count
    BY <1>1, BytesSeq
  <2>2. QED BY <1>1, <1>3, <2>1
<1>5. ASSUME NEW i \in 1 .. Len(got) PROVE got[i] = BytesOf(file, start, Len(got))[i]
  <2>1. i \in 1 .. count /\ i \in 1 .. Len(got) + Len(rest) /\ i <= Len(got)
    BY <1>2, <1>4
  <2>2. got[i] = BytesOf(file, start, count)[i]
    BY <1>1, <1>3, <2>1
  <2>3. QED BY <2>1, <2>2 DEF BytesOf
<1>6. BytesOf(file, start, Len(got)) \in Seq(Nat) /\ Len(BytesOf(file, start, Len(got))) = Len(got)
  BY <1>1, <1>2, BytesSeq
<1>7. QED BY <1>1, <1>5, <1>6, SeqEqual

-----------------------------------------------------------------------------
(* What is refused *)

\* store_image leaves a file of the size it was given.
StoredOK == pc = "stored" => Len(file) = byte_limit

\* A session keeps the limit it starts with, until it seeks an image, and has then
\* the size of its file.
LimitKept == IF client = "image" /\ parsed
             THEN pc = "stored" /\ limit = Len(file)
             ELSE limit = SourceLimit

\* Of an image every byte counts, and of a segment none of the header's extension
\* once the header has been read.
CountOK == /\ uncounted \in Int /\ (reading = "closed" => ~parsed)
           /\ ~parsed => uncounted = 0 /\ start = 0
           /\ client = "image" => uncounted = 0
           /\ client = "segment" => start = 0 /\ (parsed => uncounted >= ext)

\* Until then nothing is asked for that lies behind the header.
RoomOK == ~parsed => /\ reading # "extract" /\ (reading = "closed" => asked = 0)
                     /\ reading = "read_bytes" => asked > 0
                     /\ asked > 0 => \E size \in HeaderSizes : Len(got) + asked <= size

\* A reader that was refused had used up the bit buffer and its limit.
RefuseOK == reading = "refused" =>
                rest = <<>> /\ count - uncounted >= limit /\ (~parsed => asked > 0)

RefuseInv == StoredOK /\ LimitKept /\ CountOK /\ RoomOK /\ RefuseOK

\* Only the end of store_image leaves a stored image behind.
LEMMA StoredStep ==
    ASSUME TypeOK, Next
    PROVE  StoredOK'
<1>1. SUFFICES ASSUME pc' = "stored" PROVE Len(file') = byte_limit'
  BY DEF StoredOK
<1>2. Destroy
  BY <1>1 DEF Next, Commit, BeginImage, Symbol, Put, Finish, TerminateLate, Drain, CutOff,
              set_byte_limit, StoreItem
<1>3. file \in Seq(Nat) /\ byte_limit \in Nat
  BY DEF TypeOK
<1>4. Resized(file, byte_limit) \in [1 .. byte_limit -> Nat]
  <2>1. \A i \in 1 .. byte_limit : i <= Len(file) => file[i] \in Nat
    BY <1>3, ElementOfSeq, LenProperties
  <2>2. QED BY <2>1 DEF Resized, Padding
<1>5. Len(Resized(file, byte_limit)) = byte_limit
  BY <1>3, <1>4, FunctionSeq
<1>6. QED BY <1>2, <1>5 DEF Destroy

\* Nothing is refused before the sink is done, or while the session is set up.
LEMMA RefuseInit == SourceInit => RefuseInv
<1> SUFFICES ASSUME SourceInit PROVE RefuseInv
  OBVIOUS
<1>1. /\ pc = "begin" /\ reading = "closed" /\ limit = SourceLimit /\ ~parsed /\ asked = 0
      /\ uncounted = 0 /\ start = 0
  BY DEF SourceInit, Init
<1>2. QED BY <1>1 DEF RefuseInv, StoredOK, LimitKept, CountOK, RoomOK, RefuseOK

\* The bytes taken out of the bit buffer, or of the next word, were asked for.
LEMMA TakenLength ==
    ASSUME SourceInv, Extract \/ ReadWord
    PROVE  Len(got') + asked' = Len(got) + asked
<1>1. got \in Seq(Nat) /\ rest \in Seq(Nat) /\ Len(got) \in Nat /\ asked \in Nat
  BY LenProperties DEF SourceInv, GotOK, AskedOK
<1>2. NextWord \in Seq(Nat) /\ Len(NextWord) = W /\ W \in Nat \ {0}
  BY NextWordIs, SinkAssumption
<1>3. CASE ReadWord
  <2>1. got' = got \o NextWord /\ asked' = asked - W
    BY <1>3 DEF ReadWord
  <2>2. Len(got \o NextWord) = Len(got) + W
    BY <1>1, <1>2, ConcatProperties
  <2>3. QED BY <1>1, <1>2, <2>1, <2>2
<1>4. CASE Extract
  <2> DEFINE word  == IF rest = <<>> THEN NextWord ELSE rest
             shift == Smaller(IF reading = "read_bytes" THEN 1 ELSE asked, Len(word))
             front == SubSeq(word, 1, shift)
  <2>1. got' = got \o front /\ asked' = asked - shift
    BY <1>4 DEF Extract
  <2>2. word \in Seq(Nat)
    BY <1>1, <1>2
  <2>3. Len(word) \in Nat /\ \A i \in 1 .. Len(word) : word[i] \in Nat
    BY <2>2, LenProperties, ElementOfSeq
  <2>4. shift \in Nat /\ shift <= Len(word)
    BY <1>1, <2>3 DEF Smaller
  <2> HIDE DEF shift, word
  <2>5. front \in Seq(Nat) /\ Len(front) = shift
    BY <2>2, <2>3, <2>4, SubSeqProperties
  <2> HIDE DEF front
  <2>6. Len(got \o front) = Len(got) + shift
    BY <1>1, <2>5, ConcatProperties
  <2>7. Len(got') = Len(got) + shift
    BY <2>1, <2>6
  <2>8. QED BY <1>1, <2>1, <2>4, <2>7
<1>5. QED BY <1>3, <1>4

\* The header of a segment, read to its end, leaves at least its extension uncounted.
LEMMA ParseStep ==
    ASSUME SourceInv, RefuseInv, ParseHeader
    PROVE  RefuseInv'
<1> USE DEF RefuseInv
<1>1. /\ client = "segment" /\ reading = "open" /\ ~parsed /\ Len(got) = HeaderTotal
      /\ uncounted' = count - (HeaderTotal - ext) /\ parsed'
      /\ UNCHANGED <<client, pc, file, byte_limit, ext, reading, start, rest, limit, asked, got>>
  BY DEF ParseHeader, HeaderCounted, vars
<1>2. /\ got \in Seq(Nat) /\ rest \in Seq(Nat) /\ got \o rest = BytesOf(file, start, count)
      /\ file \in Seq(Nat) /\ start \in Nat /\ count \in Nat /\ ext \in Nat
  BY DEF SourceInv, GotOK, CountersOK, IInv, TypeOK
<1>3. count >= HeaderTotal
  <2>1. Len(got) \in Nat /\ Len(rest) \in Nat /\ Len(got \o rest) = Len(got) + Len(rest)
    BY <1>2, LenProperties, ConcatProperties
  <2>2. Len(BytesOf(file, start, count)) = count
    BY <1>2, BytesSeq
  <2>3. QED BY <1>1, <1>2, <2>1, <2>2
<1>4. uncounted' \in Int /\ uncounted' >= ext
  BY <1>1, <1>2, <1>3, SinkAssumption
<1>5. CountOK'
  BY <1>1, <1>4 DEF CountOK
<1>6. QED BY <1>1, <1>5 DEF StoredOK, LimitKept, RoomOK, RefuseOK

\* Of a header no more is asked than it has.
LEMMA RoomAsked ==
    ASSUME SourceInv, RefuseInv, NEW method \in {"extract", "read_bytes"}, NEW n \in Nat,
           Ask(method, n), method = "read_bytes" => n > 0
    PROVE  RefuseInv'
<1> USE DEF RefuseInv
<1>1. /\ UNCHANGED <<client, pc, file, byte_limit, ext, uncounted, limit, parsed, start, got>>
      /\ reading = "open" /\ reading' = method /\ asked' = n
      /\ parsed \/ (method = "read_bytes" /\ \E size \in HeaderSizes : Len(got) + n <= size)
  BY DEF Ask, vars, limit_vars
<1>2. RoomOK'
  <2>1. CASE parsed
    BY <1>1, <2>1 DEF RoomOK
  <2>2. CASE ~parsed
    <3>1. /\ method = "read_bytes" /\ n > 0 /\ HeaderSizes' = HeaderSizes
          /\ \E size \in HeaderSizes : Len(got) + n <= size
      BY <1>1, <2>2 DEF HeaderSizes
    <3>2. QED BY <1>1, <3>1 DEF RoomOK
  <2>3. QED BY <2>1, <2>2
<1>3. QED BY <1>1, <1>2 DEF StoredOK, LimitKept, CountOK, RefuseOK

\* Taking what was asked for changes nothing of this.
LEMMA RoomTaken ==
    ASSUME SourceInv, RefuseInv, Extract \/ ReadWord
    PROVE  RefuseInv'
<1> USE DEF RefuseInv
<1>1. UNCHANGED <<client, pc, file, byte_limit, ext, uncounted, limit, parsed, start>>
  BY DEF Extract, ReadWord, vars, limit_vars
<1>2. reading' \in {"open", reading} /\ reading \in {"extract", "read_bytes"}
      /\ (asked' = 0 => reading' = "open")
  <2>1. CASE Extract
    BY <2>1 DEF Extract
  <2>2. CASE ReadWord
    <3>1. asked' # 0
      BY <2>2, SinkAssumption DEF ReadWord, SourceInv, AskedOK
    <3>2. QED BY <2>2, <3>1 DEF ReadWord
  <2>3. QED BY <2>1, <2>2
<1>3. Len(got') + asked' = Len(got) + asked
  BY TakenLength
<1>4. asked \in Nat /\ asked' \in Nat
  BY SourceNextInvariant DEF SourceInv, AskedOK, SourceNext
<1>5. RoomOK'
  <2>1. SUFFICES ASSUME ~parsed PROVE RoomOK'
    BY <1>1 DEF RoomOK
  <2>2. reading = "read_bytes" /\ asked > 0 /\ HeaderSizes' = HeaderSizes
        /\ \E size \in HeaderSizes : Len(got) + asked <= size
    BY <1>1, <1>2, <2>1 DEF RoomOK, HeaderSizes
  <2>3. QED BY <1>2, <1>3, <1>4, <2>2 DEF RoomOK
<1>6. QED BY <1>1, <1>2, <1>5 DEF StoredOK, LimitKept, CountOK, RefuseOK

\* Every step of a session keeps to this.
LEMMA RefuseNext ==
    SourceInv /\ RefuseInv /\ [SourceNext]_<<vars, source_vars>> => RefuseInv'
<1> SUFFICES ASSUME SourceInv, RefuseInv, [SourceNext]_<<vars, source_vars>>
             PROVE  RefuseInv'
  OBVIOUS
<1> USE DEF RefuseInv
<1>1. TypeOK /\ asked \in Nat
  BY DEF SourceInv, IInv, AskedOK
<1>2. CASE UNCHANGED <<vars, source_vars>>
  BY <1>2 DEF vars, source_vars, word_vars, limit_vars, StoredOK, LimitKept, CountOK, RoomOK,
              RefuseOK, HeaderSizes
<1>3. CASE Next /\ UNCHANGED source_vars
  <2>1. UNCHANGED <<reading, start, rest, count, uncounted, limit, parsed, asked, got>>
    BY <1>3 DEF source_vars, word_vars, limit_vars
  <2>2. reading = "closed" /\ pc # "stored" /\ start = 0
    BY <1>3, WrittenBefore DEF SourceInv, ClosedOK
  <2>3. ~parsed /\ uncounted = 0 /\ limit = SourceLimit /\ asked = 0
    BY <2>2 DEF CountOK, LimitKept, RoomOK
  <2>4. StoredOK'
    BY <1>1, <1>3, StoredStep
  <2>5. QED BY <2>1, <2>2, <2>3, <2>4 DEF LimitKept, CountOK, RoomOK, RefuseOK
<1>4. CASE Open \/ Refuse
  <2>1. UNCHANGED <<client, pc, file, byte_limit, ext, uncounted, limit, parsed, start, asked,
                    got, rest, count>>
    BY <1>4 DEF Open, Refuse, vars, word_vars, limit_vars
  <2>2. RoomOK' /\ CountOK'
    BY <1>4, <2>1 DEF Open, Refuse, RoomOK, CountOK, HeaderSizes
  <2>3. RefuseOK'
    BY <1>4, <2>1 DEF Open, Refuse, RefuseOK, Refused, RoomOK
  <2>4. QED BY <2>1, <2>2, <2>3 DEF StoredOK, LimitKept
<1>5. CASE \E n \in 0 .. MaxSymbol : Ask("extract", n)
  BY <1>5, RoomAsked, SinkAssumption
<1>6. CASE \E n \in Chunks : Ask("read_bytes", n)
  BY <1>6, RoomAsked, SourceAssumption
<1>7. CASE Seek
  <2>1. UNCHANGED <<client, pc, file, byte_limit>> /\ client = "image"
    BY <1>7 DEF Seek, vars
  <2>2. pc = "stored"
    BY <1>7 DEF Seek, SourceInv, ClosedOK, IInv, ImageOK
  <2>3. limit' = Len(file) /\ parsed' /\ uncounted' = 0
    BY <1>7, <2>2 DEF Seek, StoredOK
  <2>4. reading' = "open"
    BY <1>7 DEF Seek
  <2>5. QED BY <2>1, <2>2, <2>3, <2>4 DEF StoredOK, LimitKept, CountOK, RoomOK, RefuseOK
<1>8. CASE ParseHeader
  BY <1>8, ParseStep
<1>9. CASE Extract \/ ReadWord
  BY <1>9, RoomTaken
<1>10. QED BY <1>2, <1>3, <1>4, <1>5, <1>6, <1>7, <1>8, <1>9 DEF SourceNext

\* Whoever used up the limit has read to the end of the file, or of what the segment's
\* own limit let through: the words counted are the bytes the client has.
LEMMA RefusedAtEnd == SourceInv /\ RefuseInv => RefusedBehindFile
<1> SUFFICES ASSUME SourceInv, RefuseInv, reading = "refused",
                    client = "segment" => byte_limit <= SourceLimit
             PROVE  start + Len(got) >=
                      IF client = "image" THEN Len(file) ELSE Smaller(Len(file), ext + byte_limit)
  BY DEF RefusedBehindFile
<1>1. /\ got \in Seq(Nat) /\ got \o rest = BytesOf(file, start, count)
      /\ file \in Seq(Nat) /\ start \in Nat /\ count \in Nat /\ asked \in Nat
      /\ client \in {"segment", "image"} /\ ext \in Nat /\ byte_limit \in Nat
  BY DEF SourceInv, GotOK, CountersOK, AskedOK, IInv, TypeOK
<1>2. rest = <<>> /\ count - uncounted >= limit /\ (~parsed => asked > 0)
  BY DEF RefuseInv, RefuseOK
<1>3. Len(got) = count
  <2>1. got \o <<>> = got
    BY <1>1, ConcatEmptySeq
  <2>2. got = BytesOf(file, start, count)
    BY <1>1, <1>2, <2>1
  <2>3. Len(BytesOf(file, start, count)) = count
    BY <1>1, BytesSeq
  <2>4. QED BY <2>2, <2>3
<1>4. Len(file) \in Nat
  BY <1>1, LenProperties
<1>5. parsed
  <2>1. SUFFICES ASSUME ~parsed PROVE FALSE
    OBVIOUS
  <2>2. asked > 0 /\ limit = SourceLimit /\ uncounted = 0
    BY <1>2, <2>1 DEF RefuseInv, LimitKept, CountOK
  <2>3. PICK size \in HeaderSizes : Len(got) + asked <= size
    BY <2>1, <2>2 DEF RefuseInv, RoomOK
  <2>4. size \in Nat /\ size <= SourceLimit
    <3>1. size \in Offsets \cup {HeaderTotal}
      BY <2>3 DEF HeaderSizes
    <3>2. QED BY <3>1, LimitAssumption, SourceAssumption, SinkAssumption
  <2>5. QED BY <1>1, <1>2, <1>3, <2>2, <2>3, <2>4, LimitAssumption
<1>6. CASE client = "image"
  <2>1. limit = Len(file) /\ uncounted = 0
    BY <1>5, <1>6 DEF RefuseInv, LimitKept, CountOK
  <2>2. QED BY <1>1, <1>2, <1>3, <1>4, <1>6, <2>1
<1>7. CASE client = "segment"
  <2>1. limit = SourceLimit /\ uncounted \in Int /\ uncounted >= ext /\ start = 0
    BY <1>5, <1>7 DEF RefuseInv, LimitKept, CountOK
  <2>2. count >= ext + byte_limit
    BY <1>1, <1>2, <1>7, <2>1, LimitAssumption
  <2>3. QED BY <1>1, <1>3, <1>4, <1>7, <2>1, <2>2 DEF Smaller
<1>8. QED BY <1>1, <1>6, <1>7

-----------------------------------------------------------------------------
(* Theorems *)

\* A session that reads the file does to the sink nothing that the sink does not do:
\* what is proved about the sink holds of FileSource, too.
THEOREM SourceKeepsSink == SourceSpec => Spec
<1>1. SourceInit => Init
  BY DEF SourceInit
<1>2. [SourceNext]_<<vars, source_vars>> => [Next]_vars
  <2>1. SUFFICES ASSUME SourceNext PROVE [Next]_vars
    OBVIOUS
  <2>2. CASE Next
    BY <2>2
  <2>3. CASE Open \/ Seek \/ ParseHeader \/ Extract \/ ReadWord \/ Refuse
    BY <2>3 DEF Open, Seek, ParseHeader, Extract, ReadWord, Refuse
  <2>4. CASE \/ \E n \in 0 .. MaxSymbol : Ask("extract", n)
             \/ \E n \in Chunks : Ask("read_bytes", n)
    BY <2>4 DEF Ask
  <2>5. QED BY <2>1, <2>2, <2>3, <2>4 DEF SourceNext
<1>3. QED BY <1>1, <1>2, PTL DEF SourceSpec, Spec

\* What the readers of a file have got is the file from where they started, with any
\* mixture of operator>>, extract and read_bytes.
THEOREM SourceRead == SourceSpec => []SourceReadsFile
<1>1. SourceSpec => []SourceInv
  BY SourceInitInvariant, SourceNextInvariant, PTL DEF SourceSpec
<1>2. QED BY <1>1, GotIsFile, PTL

\* Wherever an image begins in its file and however it is read, load_channels is not
\* refused a byte of the file; nor is a segment's session within the segment's limit,
\* although the limit it starts with counts the header without its extension.
THEOREM NothingRefused == SourceSpec => []RefusedBehindFile
<1>1. SourceSpec => []SourceInv
  BY SourceInitInvariant, SourceNextInvariant, PTL DEF SourceSpec
<1>2. SourceInit => RefuseInv
  BY RefuseInit
<1>3. SourceInv /\ RefuseInv /\ [SourceNext]_<<vars, source_vars>> => RefuseInv'
  BY RefuseNext
<1>4. SourceSpec => []RefuseInv
  BY <1>1, <1>2, <1>3, PTL DEF SourceSpec
<1>5. QED BY <1>1, <1>4, RefusedAtEnd, PTL
=============================================================================
