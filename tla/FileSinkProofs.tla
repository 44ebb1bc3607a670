--------------------------- MODULE FileSinkProofs ---------------------------
(***************************************************************************)
(* Proofs about FileSink: its type invariant and the properties of the     *)
(* stream, for every size of words and of the buffer, every byte limit and *)
(* every size of the file, on machines of either byte order.               *)
(***************************************************************************)
EXTENDS FileSink, SequenceTheorems, TLAPS

-----------------------------------------------------------------------------
(* The inductive invariant *)

\* n bytes of which the first w have been written by the client.
StreamOf(n, w) == [i \in 1 .. n |-> IF i <= w THEN i ELSE Padding]

\* What has been stored in words.
Stored == ext + byte_count

\* Where the file and the buffer are the stream as far as it was stored.
Storing == pc \in {"begin", "write", "limit", "late"} \/ (pc = "drain" /\ ~terminated_early)

\* Nothing has been done before a limit is set.
BeginOK == pc = "begin" => /\ length = 0 /\ written = 0 /\ bits = <<>>
                           /\ ext = 0 /\ byte_count = 0

\* Only a segment that ends is cut off.
EarlyOK == terminated_early => pc \in {"drain", "finished", "terminated"}

\* Words arrive in the file and the buffer in the order they were stored in.
WordsOK == /\ Stored \in Nat
           /\ Storing => file \o stored = Stream(Stored)

\* The word being filled goes on where the words stored end.
WordOK == pc = "write" => /\ written = Stored + Len(bits)
                          /\ \A i \in 1 .. Len(bits) : bits[i] = Stored + i

\* Where the exceptions lead.
LimitOK == /\ pc = "write" => byte_count < byte_limit
           /\ pc \in {"limit", "late"} => byte_count >= byte_limit

\* An image is written in whole words, its file has none in the end.
ImageOK == client = "image" =>
             /\ pc \in {"begin", "write", "stored"}
             /\ pc = "write" => /\ ext = 0 /\ byte_count % W = 0
                                /\ byte_limit % W # 0
                                /\ written + length <= byte_limit

IInv == /\ TypeOK
        /\ BeginOK /\ EarlyOK /\ WordsOK /\ WordOK /\ LimitOK /\ ImageOK
        /\ SegmentIsPrefix /\ LostTailBounded

-----------------------------------------------------------------------------
(* Numbers *)

\* Quotient and remainder make up the number.
LEMMA DivMod ==
    ASSUME NEW n \in Nat, NEW w \in Nat \ {0}
    PROVE  n \div w \in Nat /\ n % w \in 0 .. w - 1 /\ n = w * (n \div w) + (n % w)
BY SMT

\* Bytes that fill whole words are a number of words.
LEMMA Multiple ==
    ASSUME NEW n \in Nat, n % W = 0
    PROVE  \E q \in Nat : n = W * q
<1>1. n \div W \in Nat /\ n = W * (n \div W)
  BY DivMod, SinkAssumption
<1>2. QED BY <1>1

\* Mirroring an index in its word stays in the word and undoes itself.
LEMMA Mirror ==
    ASSUME NEW i \in Nat, NEW w \in Nat \ {0}, NEW q \in Nat, i < w * q
    PROVE  LET j == i + w - 1 - 2 * (i % w)
           IN  /\ j \in Nat /\ j < w * q
               /\ j + w - 1 - 2 * (j % w) = i
<1> DEFINE r == i % w
           d == i \div w
           j == i + w - 1 - 2 * r
<1>1. d \in Nat /\ r \in 0 .. w - 1 /\ i = w * d + r
  BY DivMod
<1> HIDE DEF r, d
<1>2. j = w * d + (w - 1 - r)
  BY <1>1
<1>3. j \in Nat /\ j % w = w - 1 - r
  BY <1>1, <1>2, SMT
<1>4. j < w * q
  <2>1. d < q
    BY <1>1, SMT
  <2>2. w * (d + 1) <= w * q
    BY <2>1, <1>1, SMT
  <2>3. QED BY <2>2, <1>1, <1>2, SMT
<1>5. QED BY <1>2, <1>3, <1>4, <1>1 DEF r

\* Whole words and one more are whole words, and the buffer has room for it.
LEMMA OneWordMore ==
    ASSUME NEW n \in Nat, n % W = 0
    PROVE  /\ (n + W) % W = 0
           /\ n < B * W => n + W <= B * W
<1>1. PICK k \in Nat : n = W * k
  BY Multiple
<1>2. n + W = W * (k + 1)
  BY <1>1, SinkAssumption, SMT
<1>3. (n + W) % W = 0
  BY <1>1, <1>2, SinkAssumption, SMT
<1>4. ASSUME n < B * W PROVE n + W <= B * W
  <2>1. k < B
    BY <1>1, <1>4, SinkAssumption, SMT
  <2>2. W * (k + 1) <= W * B
    BY <2>1, <1>1, SinkAssumption, SMT
  <2>3. QED BY <2>2, <1>2, SinkAssumption, SMT
<1>5. QED BY <1>3, <1>4

-----------------------------------------------------------------------------
(* Sequences *)

\* Concatenation of sequences of bytes is associative.
LEMMA Associative == \A s, t, u \in Seq(Nat) : (s \o t) \o u = s \o (t \o u)
<1>1. SUFFICES ASSUME NEW s \in Seq(Nat), NEW t \in Seq(Nat), NEW u \in Seq(Nat)
               PROVE  (s \o t) \o u = s \o (t \o u)
  OBVIOUS
<1>2. QED BY ConcatAssociative, SMTT(60)

\* A function on the first numbers is a sequence.
LEMMA FunctionSeq ==
    ASSUME NEW S, NEW n \in Nat, NEW f \in [1 .. n -> S]
    PROVE  f \in Seq(S) /\ Len(f) = n
<1>1. f \in Seq(S)
  BY SeqDef
<1>2. QED BY <1>1, LenProperties

\* A stream of n bytes has n bytes.
LEMMA StreamSeq ==
    ASSUME NEW n \in Nat, NEW w \in Nat
    PROVE  StreamOf(n, w) \in Seq(Nat) /\ Len(StreamOf(n, w)) = n
<1>1. StreamOf(n, w) \in [1 .. n -> Nat]
  BY DEF StreamOf, Padding
<1>2. QED BY <1>1, FunctionSeq

\* t is what follows n bytes of a stream, v of which are written.
Continues(t, n, v) == \A i \in 1 .. Len(t) : t[i] = IF n + i <= v THEN n + i ELSE Padding

\* A stream goes on with bytes that follow those written.
LEMMA StreamExtended ==
    ASSUME NEW n \in Nat, NEW w \in Nat, NEW t \in Seq(Nat), NEW m,
           n <= w, m = n + Len(t),
           Continues(t, n, w)
    PROVE  StreamOf(n, w) \o t = StreamOf(m, w)
<1> DEFINE s == StreamOf(n, w)
           u == StreamOf(m, w)
<1>1. Len(t) \in Nat
  BY LenProperties
<1>2. m \in Nat
  BY <1>1
<1>3. /\ s \in Seq(Nat) /\ Len(s) = n /\ u \in Seq(Nat) /\ Len(u) = m
  BY <1>2, StreamSeq
<1>4. \A i \in 1 .. n : s[i] = i
  BY DEF StreamOf
<1>5. \A i \in 1 .. n + Len(t) : u[i] = IF i <= w THEN i ELSE Padding
  BY DEF StreamOf
<1> HIDE DEF s, u
<1>6. /\ s \o t \in Seq(Nat) /\ Len(s \o t) = n + Len(t)
      /\ \A i \in 1 .. n + Len(t) : (s \o t)[i] = IF i <= n THEN s[i] ELSE t[i - n]
  BY <1>3, ConcatProperties
<1>7. ASSUME NEW i \in 1 .. n + Len(t) PROVE (s \o t)[i] = u[i]
  <2>1. CASE i <= n
    BY <2>1, <1>1, <1>4, <1>5, <1>6
  <2>2. CASE ~(i <= n)
    <3>1. i - n \in 1 .. Len(t) /\ n + (i - n) = i
      BY <2>2, <1>1
    <3>2. QED BY <3>1, <2>2, <1>1, <1>5, <1>6 DEF Continues
  <2>3. QED BY <2>1, <2>2, <1>1
<1>8. s \o t = u
  BY <1>3, <1>6, <1>7, SeqEqual
<1>9. QED BY <1>8 DEF s, u

\* So mirroring the bytes of every word moves none out of the words, and undoes itself.
LEMMA MirrorInWord ==
    ASSUME NEW n \in Nat, n % W = 0, NEW i \in 1 .. n
    PROVE  LET M(k) == k + W - 1 - 2 * ((k - 1) % W)
           IN  M(i) \in 1 .. n /\ M(M(i)) = i
<1> DEFINE M(k) == k + W - 1 - 2 * ((k - 1) % W)
           h == i - 1
           r == h % W
           j == h + W - 1 - 2 * r
<1>1. PICK q \in Nat : n = W * q
  BY Multiple
<1>2. W \in Nat \ {0} /\ h \in Nat /\ h < W * q /\ i = h + 1
  BY <1>1, SinkAssumption
<1>3. j \in Nat /\ j < W * q /\ j + W - 1 - 2 * (j % W) = h
  <2>1. \A x, y, z \in Nat :
           y # 0 /\ x < y * z =>
              LET d == x + y - 1 - 2 * (x % y)
              IN  d \in Nat /\ d < y * z /\ d + y - 1 - 2 * (d % y) = x
    BY Mirror, Zenon
  <2> HIDE DEF h
  <2>2. QED BY <1>2, <2>1 DEF j, r
<1>4. r \in Int /\ j % W \in Int
  BY <1>2, <1>3, DivMod
<1>5. M(i) = i + W - 1 - 2 * r
  OBVIOUS
<1> HIDE DEF r, h
<1>6. M(i) = j + 1
  BY <1>2, <1>4, <1>5
<1> HIDE DEF j
<1>7. (j + 1) - 1 = j
  BY <1>3
<1>8. M(j + 1) = (j + 1) + W - 1 - 2 * (j % W)
  BY <1>7
<1> HIDE DEF M
<1>9. M(j + 1) = h + 1
  BY <1>2, <1>3, <1>4, <1>8
<1>10. M(i) \in 1 .. n
  BY <1>1, <1>3, <1>6
<1>11. M(M(i)) = M(j + 1)
  BY <1>6
<1>12. QED BY <1>2, <1>9, <1>10, <1>11 DEF M

\* Swapping the bytes of whole words keeps them whole, and undoes itself.
LEMMA Swapped ==
    ASSUME NEW s \in Seq(Nat), Len(s) % W = 0
    PROVE  /\ byteswap(s) \in Seq(Nat) /\ Len(byteswap(s)) = Len(s)
           /\ byteswap(byteswap(s)) = s
<1> DEFINE n == Len(s)
           M(i) == i + W - 1 - 2 * ((i - 1) % W)
<1>1. n \in Nat /\ W \in Nat \ {0} /\ n % W = 0
  BY LenProperties, SinkAssumption
<1> HIDE DEF n
<1>2. PICK q \in Nat : n = W * q
  BY <1>1, Multiple
<1>3. ASSUME NEW i \in 1 .. n PROVE M(i) \in 1 .. n /\ M(M(i)) = i
  BY <1>1, MirrorInWord
<1>4. \A i \in 1 .. n : s[i] \in Nat
  BY ElementOfSeq DEF n
<1>5. byteswap(s) = [i \in 1 .. n |-> s[M(i)]]
  BY DEF byteswap, n
<1> HIDE DEF M
<1>6. byteswap(s) \in [1 .. n -> Nat]
  BY <1>3, <1>4, <1>5
<1>7. byteswap(s) \in Seq(Nat) /\ Len(byteswap(s)) = n
  BY <1>1, <1>6, FunctionSeq
<1>8. byteswap(byteswap(s)) = [i \in 1 .. n |-> byteswap(s)[M(i)]]
  BY <1>7 DEF byteswap, M, n
<1>9. \A i \in 1 .. n : byteswap(byteswap(s))[i] = s[i]
  <2>1. SUFFICES ASSUME NEW i \in 1 .. n PROVE byteswap(byteswap(s))[i] = s[i]
    OBVIOUS
  <2>2. M(i) \in 1 .. n /\ M(M(i)) = i
    BY <1>3
  <2>3. byteswap(byteswap(s))[i] = byteswap(s)[M(i)]
    BY <1>8
  <2>4. byteswap(s)[M(i)] = s[M(M(i))]
    BY <1>5, <2>2
  <2>5. QED BY <2>2, <2>3, <2>4
<1>10. byteswap(byteswap(s)) \in [1 .. n -> Nat]
  BY <1>3, <1>6, <1>8
<1>11. byteswap(byteswap(s)) \in Seq(Nat) /\ Len(byteswap(byteswap(s))) = n
  BY <1>1, <1>10, FunctionSeq
<1>12. QED BY <1>7, <1>9, <1>11, SeqEqual DEF n

\* A flush writes the words of the buffer as they were stored.
LEMMA FlushedWords ==
    ASSUME NEW f \in Seq(Nat), NEW s \in Seq(Nat), Len(s) % W = 0
    PROVE  /\ Flushed(f, s) = f \o s
           /\ ToBigEndian(s) \in Seq(Nat) /\ Len(ToBigEndian(s)) = Len(s)
BY Swapped DEF Flushed, InMemory, ToBigEndian

\* Bytes that are all written are the same in a longer stream.
LEMMA StreamSame ==
    ASSUME NEW n \in Nat, NEW w \in Nat, NEW v \in Nat, n <= w, n <= v
    PROVE  StreamOf(n, w) = StreamOf(n, v)
BY DEF StreamOf

\* A stream cut short, or, if all of it was written, resized in any case.
LEMMA StreamResized ==
    ASSUME NEW n \in Nat, NEW w \in Nat, NEW m \in Nat, m <= n
    PROVE  /\ Resized(StreamOf(n, w), m) = StreamOf(m, w)
           /\ Resized(StreamOf(n, w), m) \in Seq(Nat)
<1>1. Len(StreamOf(n, w)) = n
  BY StreamSeq
<1>2. Resized(StreamOf(n, w), m) = [i \in 1 .. m |-> StreamOf(n, w)[i]]
  BY <1>1 DEF Resized
<1>3. \A i \in 1 .. m : StreamOf(n, w)[i] = IF i <= w THEN i ELSE Padding
  BY DEF StreamOf
<1>4. Resized(StreamOf(n, w), m) = StreamOf(m, w)
  BY <1>2, <1>3 DEF StreamOf
<1>5. QED BY <1>4, StreamSeq

-----------------------------------------------------------------------------
(* What the groups of actions do *)

\* The streams of the properties are those of what the client has written,
LEMMA StreamIs == \A n : Stream(n) = StreamOf(n, written)
BY DEF Stream, StreamOf

\* and so they are after a step.
LEMMA StreamNextIs == \A n : Stream(n)' = StreamOf(n, written')
BY DEF Stream, StreamOf

\* store_word keeps what is in the file and the buffer and adds the word.
LEMMA ItemStored ==
    ASSUME TypeOK, NEW word \in Seq(Nat), Len(word) = W, NEW exception, NEW otherwise,
           StoreItem(word, exception, otherwise)
    PROVE  /\ file' \in Seq(Nat)
           /\ stored' \in Seq(Nat) /\ Len(stored') % W = 0 /\ Len(stored') < B * W
           /\ file' \o stored' = (file \o stored) \o word
           /\ byte_count' = byte_count + W
           /\ pc' = IF byte_count' >= byte_limit THEN exception ELSE otherwise
<1> DEFINE s == stored \o word
<1>1. file \in Seq(Nat) /\ stored \in Seq(Nat) /\ Len(stored) % W = 0 /\ Len(stored) < B * W
  BY DEF TypeOK
<1>2. Len(stored) \in Nat
  BY <1>1, LenProperties
<1>3. s \in Seq(Nat) /\ Len(s) = Len(stored) + W
  BY <1>1, ConcatProperties
<1>4. Len(s) % W = 0 /\ Len(s) <= B * W
  BY <1>1, <1>2, <1>3, OneWordMore
<1>5. (file \o stored) \o word = file \o s
  BY <1>1, Associative, Zenon
<1>6. byte_count' = byte_count + W /\ pc' = IF byte_count' >= byte_limit THEN exception ELSE otherwise
  BY DEF StoreItem, LimitReached
<1> HIDE DEF s
<1>7. CASE Full(s)
  <2>1. file' = Flushed(file, s) /\ stored' = <<>>
    BY <1>7 DEF StoreItem, s
  <2>2. file' = file \o s
    BY <2>1, <1>1, <1>3, <1>4, FlushedWords
  <2>3. file' \in Seq(Nat)
    BY <2>2, <1>1, <1>3, ConcatProperties
  <2>4. stored' \in Seq(Nat) /\ Len(stored') = 0
    BY <2>1, EmptySeq
  <2>5. 0 % W = 0 /\ 0 < B * W
    BY SinkAssumption, SMT
  <2>6. file' \o stored' = file'
    BY <2>1, <2>3, ConcatEmptySeq
  <2>7. QED BY <2>2, <2>3, <2>4, <2>5, <2>6, <1>5, <1>6
<1>8. CASE ~Full(s)
  <2>1. file' = file /\ stored' = s
    BY <1>8 DEF StoreItem, s
  <2>2. Len(s) # B * W
    BY <1>8 DEF Full
  <2>3. Len(s) \in Nat /\ B * W \in Nat
    BY <1>2, <1>3, SinkAssumption, SMT
  <2>4. Len(s) < B * W
    BY <2>2, <2>3, <1>4
  <2>5. QED BY <2>1, <2>4, <1>1, <1>3, <1>4, <1>5, <1>6
<1>9. QED BY <1>7, <1>8

-----------------------------------------------------------------------------
(* Every action preserves the invariant *)

\* Before the client does anything, nothing is stored.
LEMMA InitInvariant == Init => IInv
<1> SUFFICES ASSUME Init PROVE IInv
  OBVIOUS
<1> USE DEF Init
<1>1. TypeOK
  <2>1. 0 % W = 0 /\ 0 < B * W
    BY SinkAssumption, SMT
  <2>2. <<>> \in Seq(Nat) /\ Len(<<>>) = 0
    BY EmptySeq
  <2>3. terminated_early \in BOOLEAN /\ completed \in BOOLEAN
    OBVIOUS
  <2>4. length \in Nat /\ written \in Nat /\ ext \in Nat /\ byte_count \in Int /\ byte_limit \in Nat \ {0}
    BY SinkAssumption
  <2>5. client \in {"segment", "image"} /\ pc \in Labels /\ pc # "write"
    BY DEF Labels
  <2>6. Len(bits) <= W
    BY <2>2, SinkAssumption
  <2> HIDE DEF Init
  <2>7. QED BY <2>1, <2>2, <2>3, <2>4, <2>5, <2>6 DEF TypeOK, Init
<1>2. Stored = 0
  BY DEF Stored
<1>3. WordsOK
  <2>1. file \o stored = <<>>
    BY EmptySeq, ConcatEmptySeq
  <2>2. Stream(0) = <<>>
    <3>1. Stream(0) \in Seq(Nat) /\ Len(Stream(0)) = 0
      BY StreamIs, StreamSeq
    <3>2. QED BY <3>1, EmptySeq
  <2>3. QED BY <1>2, <2>1, <2>2 DEF WordsOK
<1>4. QED
  BY <1>1, <1>3 DEF IInv, BeginOK, EarlyOK, WordOK, LimitOK, ImageOK, SegmentIsPrefix,
                    LostTailBounded

\* ccsds_protocol::commit and the beginning of store_image: nothing is stored yet.
LEMMA BeginStep ==
    ASSUME IInv, Commit \/ BeginImage
    PROVE  IInv'
<1>1. /\ pc = "begin" /\ length = 0 /\ written = 0 /\ bits = <<>> /\ ext = 0 /\ byte_count = 0
      /\ ~terminated_early /\ file \o stored = Stream(0) /\ Stored = 0
  <2>1. pc = "begin"
    BY DEF Commit, BeginImage
  <2>2. length = 0 /\ written = 0 /\ bits = <<>> /\ ext = 0 /\ byte_count = 0
    BY <2>1 DEF IInv, BeginOK
  <2>3. ~terminated_early
    BY <2>1 DEF IInv, EarlyOK
  <2>4. Stored = 0
    BY <2>2 DEF Stored
  <2>5. file \o stored = Stream(0)
    BY <2>1, <2>4 DEF IInv, WordsOK, Storing
  <2>6. QED BY <2>1, <2>2, <2>3, <2>4, <2>5
<1>2. /\ UNCHANGED <<client, written, bits, stored, file, terminated_early, completed>>
      /\ pc' = "write" /\ byte_limit' \in Nat \ {0} /\ byte_count' < byte_limit'
      /\ byte_count' = 0 - ext' /\ byte_count' \in Int /\ ext' \in Nat /\ length' \in Nat
      /\ client = "image" => /\ ext' = 0 /\ length' = 0 /\ byte_limit' % W # 0
  <2>1. CASE Commit
    <3>1. PICK x \in Extensions, limit \in Limits :
             set_byte_limit(limit, -x) /\ ext' = x
      BY <2>1 DEF Commit
    <3>2. x \in Nat /\ x > 0 /\ limit \in Nat /\ NoLimit \in Nat \ {0} /\ HeaderTotal \in Nat
      BY <3>1, SinkAssumption
    <3>3. byte_limit' \in Nat \ {0} /\ byte_count' = -x /\ pc' = "write"
      BY <3>1, <3>2 DEF set_byte_limit
    <3>4. /\ UNCHANGED <<client, written, bits, stored, file, terminated_early, completed>>
          /\ client # "image" /\ length' = HeaderTotal
      BY <2>1 DEF Commit
    <3>5. /\ byte_count' < byte_limit' /\ byte_count' = 0 - ext' /\ byte_count' \in Int
          /\ ext' \in Nat /\ length' \in Nat
      BY <3>1, <3>2, <3>3, <3>4
    <3>6. QED BY <3>3, <3>4, <3>5
  <2>2. CASE BeginImage
    <3>1. PICK size \in FileSizes : set_byte_limit(size, 0)
      BY <2>2 DEF BeginImage
    <3>2. size \in Nat /\ size % W # 0 /\ 0 % W = 0
      BY <3>1, FileSizeAssumption, SinkAssumption
    <3>3. size # 0
      BY <3>2
    <3>4. byte_limit' = size /\ byte_count' = 0 /\ pc' = "write"
      BY <3>1, <3>2, <3>3 DEF set_byte_limit
    <3>5. UNCHANGED <<client, length, written, ext, bits, stored, file, terminated_early, completed>>
      BY <2>2 DEF BeginImage
    <3>6. ext' = 0 /\ length' = 0 /\ byte_count' = 0 - ext' /\ byte_count' \in Int
      BY <1>1, <3>4, <3>5
    <3>7. QED BY <3>2, <3>3, <3>4, <3>5, <3>6
  <2>3. QED BY <2>1, <2>2
<1>3. Stored' = 0 /\ byte_count' \in Int
  <2>1. \A m \in Nat : m + (0 - m) = 0
    OBVIOUS
  <2>2. ext' \in Nat /\ byte_count' = 0 - ext'
    BY <1>2
  <2>3. ext' + byte_count' = 0
    BY <2>1, <2>2
  <2>4. QED BY <1>2, <2>3 DEF Stored
<1>4. TypeOK'
  <2>1. Len(bits) = 0
    BY <1>1, EmptySeq
  <2>2. QED BY <1>2, <1>3, <2>1, SinkAssumption DEF IInv, TypeOK, Labels
<1>5. WordsOK'
  BY <1>1, <1>2, <1>3, StreamIs, StreamNextIs DEF WordsOK
<1>6. WordOK'
  <2>1. Len(bits') = 0 /\ 1 .. 0 = {}
    BY <1>1, <1>2, EmptySeq
  <2>2. QED BY <1>1, <1>2, <1>3, <2>1 DEF WordOK
<1>7. ImageOK'
  <2>1. 0 % W = 0
    BY SinkAssumption, SMT
  <2>2. SUFFICES ASSUME client' = "image" PROVE ImageOK'
    BY DEF ImageOK
  <2>3. /\ ext' = 0 /\ length' = 0 /\ written' = 0 /\ pc' = "write"
        /\ byte_limit' \in Nat /\ byte_limit' % W # 0
        /\ byte_count' = 0 - ext'
    <3>1. client = "image" /\ written' = 0
      BY <1>1, <1>2, <2>2
    <3>2. byte_limit' \in Nat
      BY <1>2
    <3>3. QED BY <3>1, <3>2, <1>2, Zenon
  <2>4. byte_count' = 0
    <3>1. ext' = 0 /\ byte_count' = 0 - ext'
      BY <2>3, Zenon
    <3>2. QED BY <3>1, SMT
  <2>5. byte_count' % W = 0 /\ written' + length' <= byte_limit'
    BY <2>1, <2>3, <2>4
  <2>6. QED BY <2>3, <2>5 DEF ImageOK
<1>8. QED
  BY <1>1, <1>2, <1>4, <1>5, <1>6, <1>7
     DEF IInv, BeginOK, EarlyOK, LimitOK, SegmentIsPrefix, LostTailBounded

\* Another symbol: only what is left of it changes.
LEMMA SymbolStep ==
    ASSUME IInv, Symbol
    PROVE  IInv'
<1>1. /\ pc = "write" /\ length' \in Nat
      /\ UNCHANGED <<client, pc, written, ext, bits, byte_count, byte_limit, stored, file,
                     terminated_early, completed>>
      /\ client = "image" => written + length' <= byte_limit
  BY DEF Symbol
<1>2. TypeOK'
  BY <1>1 DEF IInv, TypeOK
<1>3. WordsOK' /\ WordOK'
  BY <1>1, StreamIs, StreamNextIs DEF IInv, WordsOK, WordOK, Storing, Stored
<1>4. QED
  BY <1>1, <1>2, <1>3 DEF IInv, BeginOK, EarlyOK, LimitOK, ImageOK, SegmentIsPrefix, LostTailBounded

\* What Put adds to the word is what the stream goes on with.
LEMMA WordExtended ==
    ASSUME IInv, pc = "write", NEW shift \in Nat
    PROVE  LET word == bits \o [i \in 1 .. shift |-> written + i]
           IN  /\ word \in Seq(Nat) /\ Len(word) = Len(bits) + shift
               /\ \A i \in 1 .. Len(word) : word[i] = Stored + i
<1> DEFINE more == [i \in 1 .. shift |-> written + i]
           word == bits \o more
<1>1. /\ bits \in Seq(Nat) /\ Stored \in Nat /\ written = Stored + Len(bits)
      /\ \A i \in 1 .. Len(bits) : bits[i] = Stored + i
  BY DEF IInv, TypeOK, WordsOK, WordOK
<1>2. Len(bits) \in Nat
  BY <1>1, LenProperties
<1>3. more \in Seq(Nat) /\ Len(more) = shift
  <2>1. more \in [1 .. shift -> Nat]
    BY <1>1, <1>2
  <2>2. QED BY <2>1, FunctionSeq
<1>4. \A i \in 1 .. shift : more[i] = Stored + Len(bits) + i
  BY <1>1
<1> HIDE DEF more
<1>5. /\ word \in Seq(Nat) /\ Len(word) = Len(bits) + shift
      /\ \A i \in 1 .. Len(bits) + shift :
           word[i] = IF i <= Len(bits) THEN bits[i] ELSE more[i - Len(bits)]
  BY <1>1, <1>3, ConcatProperties
<1> HIDE DEF word
<1>6. ASSUME NEW i \in 1 .. Len(bits) + shift PROVE word[i] = Stored + i
  <2>1. CASE i <= Len(bits)
    <3>1. i \in 1 .. Len(bits)
      BY <2>1, <1>2
    <3>2. word[i] = bits[i]
      BY <2>1, <1>5
    <3>3. QED BY <3>1, <3>2, <1>1
  <2>2. CASE ~(i <= Len(bits))
    <3>1. i - Len(bits) \in 1 .. shift
      BY <2>2, <1>2
    <3>2. word[i] = Stored + Len(bits) + (i - Len(bits))
      BY <3>1, <2>2, <1>4, <1>5
    <3>3. QED BY <3>2, <1>1, <1>2
  <2>3. QED BY <2>1, <2>2
<1>7. QED BY <1>5, <1>6 DEF word, more

\* A symbol's next bits.
LEMMA PutStep ==
    ASSUME IInv, Put
    PROVE  IInv'
<1> DEFINE shift == Smaller(length, W - Len(bits))
           word  == bits \o [i \in 1 .. shift |-> written + i]
<1>1. /\ pc = "write" /\ length > 0 /\ length' = length - shift /\ written' = written + shift
      /\ UNCHANGED <<client, ext, byte_limit, terminated_early, completed>>
  BY DEF Put
<1>2. /\ TypeOK /\ Len(bits) \in Nat /\ Len(bits) < W /\ length \in Nat /\ written \in Nat
      /\ Stored \in Nat /\ byte_count \in Int /\ ext \in Nat /\ byte_limit \in Nat
  BY <1>1, LenProperties DEF IInv, TypeOK, WordsOK
<1>3. /\ file \o stored = StreamOf(Stored, written) /\ written = Stored + Len(bits)
      /\ ~terminated_early /\ byte_count < byte_limit
  BY <1>1, StreamIs DEF IInv, WordsOK, WordOK, EarlyOK, LimitOK, Storing
<1>4. shift \in Nat /\ shift > 0 /\ shift <= length /\ Len(bits) + shift <= W
  BY <1>1, <1>2, SinkAssumption DEF Smaller
<1> HIDE DEF shift
<1>5. /\ word \in Seq(Nat) /\ Len(word) = Len(bits) + shift
      /\ \A i \in 1 .. Len(word) : word[i] = Stored + i
  BY <1>1, <1>4, WordExtended
<1>6. IF Len(word) < W
      THEN bits' = word /\ UNCHANGED <<pc, byte_count, stored, file>>
      ELSE /\ StoreItem(word, "limit", "write")
           /\ bits' = IF pc' = "limit" /\ bits # <<>> THEN word ELSE <<>>
  BY DEF Put, shift
<1> HIDE DEF word
<1>7. length' \in Nat /\ written' \in Nat /\ written' + length' = written + length
  BY <1>1, <1>2, <1>4
<1>8. CASE Len(word) < W
  <2>1. bits' = word /\ UNCHANGED <<pc, byte_count, stored, file>> /\ Stored' = Stored
    BY <1>1, <1>6, <1>8 DEF Stored
  <2>2. TypeOK'
    <3>1. bits' \in Seq(Nat) /\ Len(bits') <= W /\ Len(bits') < W
      BY <1>2, <1>4, <1>5, <1>8, <2>1, SinkAssumption
    <3>2. QED BY <1>1, <1>2, <1>7, <2>1, <3>1 DEF TypeOK
  <2>3. written' = Stored + Len(word)
    BY <1>1, <1>2, <1>3, <1>4, <1>5
  <2>4. StreamOf(Stored, written) = StreamOf(Stored, written')
    BY <1>1, <1>2, <1>3, <1>4, <1>7, StreamSame
  <2>5. WordsOK'
    BY <1>2, <1>3, <2>1, <2>4, StreamNextIs DEF WordsOK
  <2>6. WordOK'
    BY <1>1, <1>5, <2>1, <2>3 DEF WordOK
  <2>7. ImageOK'
    BY <1>1, <1>2, <1>7, <2>1 DEF IInv, ImageOK
  <2>8. QED
    BY <1>1, <1>3, <2>1, <2>2, <2>5, <2>6, <2>7
       DEF IInv, BeginOK, EarlyOK, LimitOK, SegmentIsPrefix, LostTailBounded
<1>9. CASE ~(Len(word) < W)
  <2>1. StoreItem(word, "limit", "write") /\ bits' = IF pc' = "limit" /\ bits # <<>> THEN word ELSE <<>>
    BY <1>6, <1>9
  <2>2. Len(word) = W
    BY <1>2, <1>4, <1>5, <1>9, SinkAssumption
  <2>3. /\ file' \in Seq(Nat)
        /\ stored' \in Seq(Nat) /\ Len(stored') % W = 0 /\ Len(stored') < B * W
        /\ file' \o stored' = (file \o stored) \o word
        /\ byte_count' = byte_count + W
        /\ pc' = IF byte_count' >= byte_limit THEN "limit" ELSE "write"
    BY <1>2, <1>5, <2>1, <2>2, ItemStored
  <2>4. written' = Stored + W /\ Stored' = Stored + W /\ Stored' \in Nat
    BY <1>1, <1>2, <1>3, <1>4, <1>5, <2>2, <2>3, SinkAssumption, SMTT(60) DEF Stored
  <2>5. bits' \in Seq(Nat) /\ Len(bits') <= W /\ (pc' = "write" => Len(bits') = 0)
    BY <1>5, <2>1, <2>2, EmptySeq, SinkAssumption
  <2>6. TypeOK'
    BY <1>1, <1>2, <1>7, <2>3, <2>5, SinkAssumption DEF TypeOK, Labels
  <2>7. WordsOK'
    <3>1. Continues(word, Stored, written')
      BY <1>2, <1>5, <2>2, <2>4, SinkAssumption DEF Continues
    <3>2. StreamOf(Stored, written) = StreamOf(Stored, written')
      BY <1>1, <1>2, <1>3, <1>7, <2>4, SinkAssumption, StreamSame
    <3>3. Stored <= written' /\ Stored' = Stored + Len(word)
      BY <1>2, <1>3, <2>2, <2>4, SinkAssumption
    <3>4. \A m : m = Stored + Len(word) => StreamOf(Stored, written') \o word = StreamOf(m, written')
      BY <1>2, <1>5, <1>7, <3>1, <3>3, StreamExtended
    <3>5. file' \o stored' = StreamOf(Stored', written')
      BY <1>3, <2>3, <3>2, <3>3, <3>4
    <3>6. QED BY <2>4, <3>5, StreamNextIs DEF WordsOK
  <2>8. WordOK'
    <3>1. pc' = "write" => Len(bits') = 0 /\ 1 .. 0 = {}
      BY <2>5
    <3>2. QED BY <2>4, <3>1 DEF WordOK
  <2>9. LimitOK'
    BY <1>1, <1>2, <2>3, SinkAssumption DEF LimitOK
  <2>10. ImageOK'
    <3>1. SUFFICES ASSUME client' = "image" PROVE ImageOK'
      BY DEF ImageOK
    <3>2. /\ ext = 0 /\ byte_count % W = 0 /\ byte_limit % W # 0
          /\ written + length <= byte_limit
      BY <1>1, <3>1 DEF IInv, ImageOK
    <3>3. byte_count \in Nat /\ byte_count' \in Nat /\ byte_count' % W = 0
      <4>1. byte_count \in Nat /\ byte_count' = byte_count + W
        BY <1>2, <2>3, <3>2 DEF Stored
      <4>2. byte_count' \in Nat
        BY <4>1, SinkAssumption
      <4>3. QED BY <3>2, <4>1, <4>2, OneWordMore
    <3>4. byte_count' <= byte_limit
      BY <1>1, <1>7, <2>4, <3>2, <3>3, <1>2 DEF Stored
    <3>5. byte_count' < byte_limit
      BY <1>2, <3>2, <3>3, <3>4
    <3>6. pc' = "write"
      BY <1>2, <2>3, <3>3, <3>5
    <3>7. QED BY <1>1, <1>7, <3>2, <3>3, <3>6 DEF ImageOK
  <2>11. QED
    BY <1>1, <1>3, <2>3, <2>6, <2>7, <2>8, <2>9, <2>10
       DEF IInv, BeginOK, EarlyOK, SegmentIsPrefix, LostTailBounded
<1>10. QED BY <1>8, <1>9

\* The last word is filled up with bytes nobody wrote.
LEMMA PaddedWord ==
    ASSUME NEW word \in Seq(Nat), Len(word) <= W
    PROVE  /\ Padded(word) \in Seq(Nat) /\ Len(Padded(word)) = W
           /\ \A i \in 1 .. W : Padded(word)[i] = IF i <= Len(word) THEN word[i] ELSE Padding
<1> DEFINE more == [i \in 1 .. W - Len(word) |-> Padding]
<1>1. Len(word) \in Nat /\ W - Len(word) \in Nat
  BY LenProperties, SinkAssumption
<1>2. more \in Seq(Nat) /\ Len(more) = W - Len(word)
  <2>1. more \in [1 .. W - Len(word) -> Nat]
    BY DEF Padding
  <2>2. QED BY <1>1, <2>1, FunctionSeq
<1>3. \A i \in 1 .. W - Len(word) : more[i] = Padding
  OBVIOUS
<1>4. Padded(word) = word \o more
  BY DEF Padded
<1> HIDE DEF more
<1>5. /\ word \o more \in Seq(Nat) /\ Len(word \o more) = Len(word) + Len(more)
      /\ \A i \in 1 .. Len(word) + Len(more) :
           (word \o more)[i] = IF i <= Len(word) THEN word[i] ELSE more[i - Len(word)]
  BY <1>2, ConcatProperties
<1>6. Len(word) + Len(more) = W
  BY <1>1, <1>2, SinkAssumption
<1>7. ASSUME NEW i \in 1 .. W, ~(i <= Len(word)) PROVE more[i - Len(word)] = Padding
  <2>1. i - Len(word) \in 1 .. W - Len(word)
    BY <1>1, <1>7, SinkAssumption
  <2>2. QED BY <1>3, <2>1
<1>8. QED BY <1>4, <1>5, <1>6, <1>7

\* finish_session completes the last word, which may be the one that reaches the limit.
LEMMA FinishStep ==
    ASSUME IInv, Finish
    PROVE  IInv'
<1>1. /\ client = "segment" /\ pc = "write"
      /\ UNCHANGED <<client, length, written, ext, byte_limit, terminated_early, completed>>
  BY DEF Finish
<1>2. /\ TypeOK /\ Len(bits) \in Nat /\ Len(bits) < W /\ written \in Nat /\ bits \in Seq(Nat)
      /\ Stored \in Nat /\ byte_count \in Int /\ byte_limit \in Nat
  BY <1>1, LenProperties DEF IInv, TypeOK, WordsOK
<1>3. /\ file \o stored = StreamOf(Stored, written) /\ written = Stored + Len(bits)
      /\ \A i \in 1 .. Len(bits) : bits[i] = Stored + i
      /\ ~terminated_early
  BY <1>1, StreamIs DEF IInv, WordsOK, WordOK, EarlyOK, Storing
<1>4. CASE bits = <<>>
  <2>1. pc' = "drain" /\ UNCHANGED <<bits, byte_count, stored, file>> /\ Stored' = Stored
    BY <1>1, <1>4 DEF Finish, Stored
  <2>2. TypeOK'
    BY <1>1, <1>2, <2>1 DEF TypeOK, Labels
  <2>3. WordsOK'
    BY <1>1, <1>2, <1>3, <2>1, StreamNextIs DEF WordsOK
  <2>4. QED
    BY <1>1, <1>3, <2>1, <2>2, <2>3
       DEF IInv, BeginOK, EarlyOK, WordOK, LimitOK, ImageOK, SegmentIsPrefix, LostTailBounded
<1>5. CASE bits # <<>>
  <2> DEFINE word == Padded(bits)
  <2>1. /\ StoreItem(word, "late", "drain")
        /\ bits' = IF pc' = "late" THEN bits ELSE <<>>
    BY <1>5 DEF Finish
  <2>2. /\ word \in Seq(Nat) /\ Len(word) = W
        /\ \A i \in 1 .. W : word[i] = IF i <= Len(bits) THEN bits[i] ELSE Padding
    BY <1>2, SinkAssumption, PaddedWord
  <2> HIDE DEF word
  <2>3. /\ file' \in Seq(Nat)
        /\ stored' \in Seq(Nat) /\ Len(stored') % W = 0 /\ Len(stored') < B * W
        /\ file' \o stored' = (file \o stored) \o word
        /\ byte_count' = byte_count + W
        /\ pc' = IF byte_count' >= byte_limit THEN "late" ELSE "drain"
    BY <1>2, <2>1, <2>2, ItemStored
  <2>4. Stored' = Stored + Len(word) /\ Stored' \in Nat
    BY <1>1, <1>2, <2>2, <2>3, SinkAssumption DEF Stored, IInv, TypeOK
  <2>5. bits' \in Seq(Nat) /\ Len(bits') <= W
    BY <1>2, <2>1, EmptySeq, SinkAssumption
  <2>6. TypeOK'
    BY <1>1, <1>2, <2>3, <2>5, SinkAssumption DEF TypeOK, Labels
  <2>7. WordsOK'
    <3>1. Continues(word, Stored, written)
      <4>1. SUFFICES ASSUME NEW i \in 1 .. W
                     PROVE  word[i] = IF Stored + i <= written THEN Stored + i ELSE Padding
        BY <2>2 DEF Continues
      <4>2. i <= Len(bits) <=> Stored + i <= written
        BY <1>2, <1>3, SinkAssumption
      <4>3. i <= Len(bits) => bits[i] = Stored + i
        BY <1>2, <1>3, SinkAssumption
      <4>4. QED BY <2>2, <4>2, <4>3
    <3>2. Stored <= written
      BY <1>2, <1>3
    <3>3. \A m : m = Stored + Len(word) => StreamOf(Stored, written) \o word = StreamOf(m, written)
      BY <1>2, <2>2, <3>1, <3>2, StreamExtended
    <3>4. file' \o stored' = StreamOf(Stored', written')
      BY <1>1, <1>3, <2>3, <2>4, <3>3
    <3>5. QED BY <2>4, <3>4, StreamNextIs DEF WordsOK
  <2>8. LimitOK'
    BY <1>1, <1>2, <2>3, SinkAssumption DEF LimitOK
  <2>9. QED
    BY <1>1, <1>3, <2>3, <2>6, <2>7, <2>8
       DEF IInv, BeginOK, EarlyOK, WordOK, ImageOK, SegmentIsPrefix, LostTailBounded
<1>6. QED BY <1>4, <1>5

\* handle_early_termination leaves a file of exactly the limit.
LEMMA TerminateCuts ==
    ASSUME IInv, pc \in {"limit", "late"}, Terminate
    PROVE  /\ terminated_early' = TRUE /\ completed' = TRUE
           /\ ext + byte_limit \in Nat
           /\ file' = StreamOf(ext + byte_limit, written) /\ file' \in Seq(Nat)
           /\ stored' \in Seq(Nat) /\ Len(stored') = Len(stored)
<1>1. /\ file \in Seq(Nat) /\ stored \in Seq(Nat) /\ Len(stored) % W = 0
      /\ ext \in Nat /\ byte_count \in Int /\ byte_limit \in Nat \ {0} /\ written \in Nat
  BY DEF IInv, TypeOK
<1>2. Stored \in Nat /\ file \o stored = StreamOf(Stored, written) /\ byte_count >= byte_limit
  BY StreamIs DEF IInv, WordsOK, LimitOK, Storing
<1>3. /\ Flushed(file, stored) = StreamOf(Stored, written)
      /\ ToBigEndian(stored) \in Seq(Nat) /\ Len(ToBigEndian(stored)) = Len(stored)
  BY <1>1, <1>2, FlushedWords
<1>4. Len(Flushed(file, stored)) = Stored
  BY <1>1, <1>2, <1>3, StreamSeq
<1>5. Excess(byte_count) = byte_count - byte_limit
  BY <1>1, <1>2 DEF Excess, relu
<1>6. Stored - Excess(byte_count) = ext + byte_limit
  BY <1>1, <1>5 DEF Stored
<1>7. ext + byte_limit \in Nat /\ ext + byte_limit <= Stored
  BY <1>1, <1>2 DEF Stored
<1>8. file' = Resized(StreamOf(Stored, written), ext + byte_limit)
  BY <1>3, <1>4, <1>6 DEF Terminate
<1>9. file' = StreamOf(ext + byte_limit, written) /\ file' \in Seq(Nat)
  BY <1>1, <1>2, <1>7, <1>8, StreamResized
<1>10. QED BY <1>3, <1>7, <1>9 DEF Terminate

\* The exception is caught in finish_session, or by compress_segment.
LEMMA TerminateStep ==
    ASSUME IInv, TerminateLate \/ CutOff
    PROVE  IInv'
<1>1. /\ pc \in {"limit", "late"} /\ Terminate
      /\ UNCHANGED <<client, length, written, ext, bits, byte_count, byte_limit>>
      /\ pc' \in {"drain", "terminated"}
      /\ client = "image" => pc = "late"
  BY DEF TerminateLate, CutOff
<1>2. /\ terminated_early' = TRUE /\ completed' = TRUE
      /\ file' = StreamOf(ext + byte_limit, written) /\ file' \in Seq(Nat)
      /\ stored' \in Seq(Nat) /\ Len(stored') = Len(stored)
  BY <1>1, TerminateCuts
<1>3. TypeOK'
  <2>1. terminated_early' \in BOOLEAN /\ completed' \in BOOLEAN
    BY <1>2
  <2>2. pc' \in Labels /\ pc' # "write"
    BY <1>1 DEF Labels
  <2>3. TypeOK
    BY DEF IInv
  <2>4. QED BY <1>1, <1>2, <2>1, <2>2, <2>3 DEF TypeOK
<1>4. WordsOK'
  BY <1>1, <1>2 DEF IInv, WordsOK, Storing, Stored
<1>5. client' # "image"
  BY <1>1 DEF IInv, ImageOK
<1>6. SegmentIsPrefix'
  <2>1. Stream(ext + byte_limit)' = StreamOf(ext + byte_limit, written)
    BY <1>1 DEF Stream, StreamOf
  <2>2. QED BY <1>1, <1>2, <2>1 DEF SegmentIsPrefix
<1>7. QED
  BY <1>1, <1>2, <1>3, <1>4, <1>5, <1>6
     DEF IInv, BeginOK, EarlyOK, WordOK, LimitOK, ImageOK, LostTailBounded

\* The end of finish_session.
LEMMA DrainStep ==
    ASSUME IInv, Drain
    PROVE  IInv'
<1>1. /\ pc = "drain" /\ pc' = "finished" /\ completed' = TRUE
      /\ stored' = ToBigEndian(stored) /\ file' = Flushed(file, stored)
      /\ UNCHANGED <<client, length, written, ext, bits, byte_count, byte_limit, terminated_early>>
  BY DEF Drain
<1>2. TypeOK /\ file \in Seq(Nat) /\ stored \in Seq(Nat) /\ Len(stored) % W = 0
  BY DEF IInv, TypeOK
<1>3. /\ file' = file \o stored /\ file' \in Seq(Nat)
      /\ stored' \in Seq(Nat) /\ Len(stored') = Len(stored)
  <2>1. /\ file' = file \o stored
        /\ stored' \in Seq(Nat) /\ Len(stored') = Len(stored)
    BY <1>1, <1>2, FlushedWords
  <2>2. file \o stored \in Seq(Nat)
    BY <1>2, ConcatProperties
  <2>3. QED BY <2>1, <2>2
<1>4. TypeOK'
  <2>1. completed' \in BOOLEAN /\ pc' \in Labels /\ pc' # "write"
    BY <1>1 DEF Labels
  <2>2. QED BY <1>1, <1>2, <1>3, <2>1 DEF TypeOK
<1>5. WordsOK'
  BY <1>1 DEF IInv, WordsOK, Storing, Stored
<1>6. SegmentIsPrefix'
  <2>1. ~terminated_early => file' = StreamOf(Stored, written)
    BY <1>1, <1>3, StreamIs DEF IInv, WordsOK, Storing
  <2>2. Stream(ext + byte_count)' = StreamOf(Stored, written)
    BY <1>1 DEF Stream, StreamOf, Stored
  <2>3. QED BY <1>1, <2>1, <2>2 DEF SegmentIsPrefix
<1>7. client' # "image"
  BY <1>1 DEF IInv, ImageOK
<1>8. QED
  BY <1>1, <1>4, <1>5, <1>6, <1>7
     DEF IInv, BeginOK, EarlyOK, WordOK, LimitOK, ImageOK, LostTailBounded

\* The destructors of an image's sink.
LEMMA DestroyStep ==
    ASSUME IInv, Destroy
    PROVE  IInv'
<1>1. /\ client = "image" /\ pc = "write" /\ written = byte_limit /\ pc' = "stored"
      /\ bits' = <<>> /\ stored' = <<>> /\ file' = Resized(file, byte_limit)
      /\ UNCHANGED <<client, length, written, ext, byte_count, byte_limit, terminated_early,
                     completed>>
  BY DEF Destroy
<1>2. /\ file \in Seq(Nat) /\ stored \in Seq(Nat) /\ Len(stored) % W = 0 /\ Len(stored) < B * W
      /\ byte_limit \in Nat /\ written \in Nat /\ Len(bits) \in Nat /\ Len(bits) < W
  BY <1>1, LenProperties DEF IInv, TypeOK
<1>3. /\ Stored \in Nat /\ file \o stored = StreamOf(Stored, written)
      /\ written = Stored + Len(bits) /\ ~terminated_early
  BY <1>1, StreamIs DEF IInv, WordsOK, WordOK, EarlyOK, Storing
<1>4. /\ Len(file) \in Nat /\ Len(stored) \in Nat
      /\ Len(file \o stored) = Len(file) + Len(stored)
      /\ \A i \in 1 .. Len(file) + Len(stored) :
            (file \o stored)[i] = IF i <= Len(file) THEN file[i] ELSE stored[i - Len(file)]
  BY <1>2, LenProperties, ConcatProperties
<1>5. Stored = Len(file) + Len(stored)
  BY <1>2, <1>3, <1>4, StreamSeq
<1>6. \A i \in 1 .. Len(file) : file[i] = i
  <2>1. SUFFICES ASSUME NEW i \in 1 .. Len(file) PROVE file[i] = i
    OBVIOUS
  <2>2. file[i] = StreamOf(Stored, written)[i]
    BY <1>3, <1>4
  <2>3. i \in 1 .. Stored /\ i <= written
    BY <1>2, <1>3, <1>4, <1>5
  <2>4. QED BY <2>2, <2>3 DEF StreamOf
<1>7. byte_limit < Len(file) + B * W
  <2>1. Len(stored) + W <= B * W
    BY <1>2, <1>4, OneWordMore
  <2>2. B * W \in Nat
    BY SinkAssumption, SMT
  <2>3. QED BY <1>1, <1>2, <1>3, <1>4, <1>5, <2>1, <2>2, SinkAssumption
<1>8. /\ file' \in Seq(Nat)
      /\ \A i \in 1 .. byte_limit : file'[i] = IF i <= Len(file) THEN i ELSE Padding
  <2>1. file' = [i \in 1 .. byte_limit |-> IF i <= Len(file) THEN file[i] ELSE Padding]
    BY <1>1 DEF Resized
  <2>2. \A i \in 1 .. byte_limit : i <= Len(file) => file[i] = i
    BY <1>2, <1>4, <1>6
  <2>3. file' \in [1 .. byte_limit -> Nat]
    BY <2>1, <2>2 DEF Padding
  <2>4. QED BY <1>2, <2>1, <2>2, <2>3, FunctionSeq
<1>9. TypeOK'
  <2>1. 0 % W = 0 /\ 0 < B * W
    BY SinkAssumption, SMT
  <2>2. bits' \in Seq(Nat) /\ Len(bits') = 0 /\ stored' \in Seq(Nat) /\ Len(stored') = 0
    BY <1>1, EmptySeq
  <2>3. pc' \in Labels /\ pc' # "write" /\ 0 <= W
    BY <1>1, SinkAssumption DEF Labels
  <2>4. TypeOK
    BY DEF IInv
  <2>5. QED BY <1>1, <1>8, <2>1, <2>2, <2>3, <2>4 DEF TypeOK
<1>10. LostTailBounded'
  <2>1. SUFFICES ASSUME NEW i \in 1 .. byte_limit
                 PROVE  file'[i] = i \/ (file'[i] = Padding /\ i > byte_limit - B * W)
    BY <1>1 DEF LostTailBounded
  <2>2. B * W \in Nat
    BY SinkAssumption, SMT
  <2>3. ~(i <= Len(file)) => i > byte_limit - B * W
    BY <1>2, <1>4, <1>7, <2>2
  <2>4. QED BY <1>8, <2>3
<1>11. WordsOK' /\ ImageOK' /\ EarlyOK'
  BY <1>1, <1>3 DEF WordsOK, ImageOK, EarlyOK, Storing, Stored
<1>12. QED
  BY <1>1, <1>9, <1>10, <1>11 DEF IInv, BeginOK, WordOK, LimitOK, SegmentIsPrefix

\* Whatever the client does next, the invariant holds on.
LEMMA NextInvariant == IInv /\ [Next]_vars => IInv'
<1> SUFFICES ASSUME IInv, [Next]_vars PROVE IInv'
  OBVIOUS
<1>1. CASE UNCHANGED vars
  BY <1>1, StreamIs, StreamNextIs
     DEF IInv, TypeOK, BeginOK, EarlyOK, WordsOK, WordOK, LimitOK, ImageOK, SegmentIsPrefix,
         LostTailBounded, Storing, Stored, Stream, vars
<1>2. CASE Commit \/ BeginImage
  BY <1>2, BeginStep
<1>3. CASE Symbol
  BY <1>3, SymbolStep
<1>4. CASE Put
  BY <1>4, PutStep
<1>5. CASE Finish
  BY <1>5, FinishStep
<1>6. CASE TerminateLate \/ CutOff
  BY <1>6, TerminateStep
<1>7. CASE Drain
  BY <1>7, DrainStep
<1>8. CASE Destroy
  BY <1>8, DestroyStep
<1>9. QED BY <1>1, <1>2, <1>3, <1>4, <1>5, <1>6, <1>7, <1>8 DEF Next

\* The file, the buffer and the word make up the stream.
LEMMA InvariantIntact == IInv => StreamIntact
<1> SUFFICES ASSUME IInv, pc = "write" PROVE file \o stored \o bits = Stream(written)
  BY DEF StreamIntact
<1>1. bits \in Seq(Nat) /\ written \in Nat /\ Stored \in Nat
  BY DEF IInv, TypeOK, WordsOK
<1>2. Len(bits) \in Nat
  BY <1>1, LenProperties
<1>3. /\ file \o stored = StreamOf(Stored, written) /\ written = Stored + Len(bits)
      /\ \A i \in 1 .. Len(bits) : bits[i] = Stored + i
  BY StreamIs DEF IInv, WordsOK, WordOK, Storing
<1>4. Continues(bits, Stored, written)
  BY <1>1, <1>2, <1>3 DEF Continues
<1>5. Stored <= written
  BY <1>1, <1>2, <1>3
<1>6. \A m : m = Stored + Len(bits) => StreamOf(Stored, written) \o bits = StreamOf(m, written)
  BY <1>1, <1>4, <1>5, StreamExtended
<1>7. QED BY <1>3, <1>6, StreamIs

\* An image's client is at no label of an exception.
LEMMA InvariantUnlimited == IInv => ImageNeverLimited
BY DEF IInv, ImageOK, ImageNeverLimited

-----------------------------------------------------------------------------
(* Theorems *)

\* The invariant holds throughout, whatever the sizes, limits and symbols.
THEOREM SinkInvariant == Spec => []IInv
<1>1. QED BY InitInvariant, NextInvariant, PTL DEF Spec

\* Words, counters and buffer keep their types: the word of obitwrapper is never full
\* between two operations, and the buffer always has room for a word.
THEOREM SinkTypeCorrect == Spec => []TypeOK
<1>1. IInv => TypeOK
  BY DEF IInv
<1>2. QED BY <1>1, SinkInvariant, PTL

\* operator<<, the wrap-around of the buffer and the byte swap of flush_buffer lose,
\* repeat and misplace nothing.
THEOREM StreamKept == Spec => []StreamIntact
<1>1. QED BY InvariantIntact, SinkInvariant, PTL

\* A segment's file is what was written, up to its limit.
THEOREM SegmentKept == Spec => []SegmentIsPrefix
<1>1. IInv => SegmentIsPrefix
  BY DEF IInv
<1>2. QED BY <1>1, SinkInvariant, PTL

\* A bitmap loses no more than its sink's buffer (store.tpp:86).
THEOREM TailBounded == Spec => []LostTailBounded
<1>1. IInv => LostTailBounded
  BY DEF IInv
<1>2. QED BY <1>1, SinkInvariant, PTL

\* The limit that store_image sets never raises its exception.
THEOREM ImageUnlimited == Spec => []ImageNeverLimited
<1>1. QED BY InvariantUnlimited, SinkInvariant, PTL
=============================================================================
