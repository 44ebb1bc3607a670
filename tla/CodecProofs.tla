---------------------------- MODULE CodecProofs ----------------------------
(***************************************************************************)
(* The subbands that the codec's forward transform makes are ones that its *)
(* inverse transform makes the padded image of, for every image and all    *)
(* shifts that validation lets through; and what the encoder skips of them *)
(* in a bit plane has no bits there.                                       *)
(*                                                                         *)
(* First, a level of the transform loses nothing: its inverse gives the    *)
(* image back that it was made of, for every image of even width and       *)
(* height from six pixels on.  It is proved from the inside out.  The      *)
(* inverse filter computes the even pixels first.  It does so from the     *)
(* same high coefficients the forward filter updated them by, if what the  *)
(* extensions of the coefficients have beyond the ends of a row is what    *)
(* the mirrored pixels would have made there (EvenRestored, a case for     *)
(* each place at an end).  So the odd pixels are predicted from the same   *)
(* even ones (OddRestored).  A pass is that for every row, a level is two  *)
(* passes and their transpositions.  A half of a row has n >= 3            *)
(* coefficients: the extension reaches three coefficients back from an     *)
(* end.  The last of three levels has them for images of 17 pixels and     *)
(* more.                                                                   *)
(*                                                                         *)
(* Then the steps: TransformReversible speaks of the last of six of them;  *)
(* TransformInv says at each what the image or the halves in work and the  *)
(* subbands so far are, level by level, and that they stay until all       *)
(* segments are coded.  At the end LevelRestored is applied three times,   *)
(* from the lowest frequencies up (Restored).                              *)
(*                                                                         *)
(* SkippedAreZero needs more of the same subbands: every value of one is a *)
(* multiple of its scale (SubbandsScaled), every coefficient of a block is *)
(* taken from inside the subband that bplane_skip counts it to (PlaceOf,   *)
(* PackedScaled, ScaledAre), no segment reaches beyond the image           *)
(* (SizesAre), and the planes are counted down from a bit depth that is a  *)
(* natural number (LargestOf, WidthIs).  CodingInv carries that from step  *)
(* to step: whatever is skipped has a greater shift than the plane that is *)
(* coded, so its bit there is zero (LowBits).                              *)
(***************************************************************************)
EXTENDS Codec, FiniteSetTheorems, WellFoundedInduction, TLAPS

(* Numbers: induction on the naturals over sets of them, powers of two, digits. *)

Below == {ss \in Nat \X Nat : ss[1] < ss[2]}

\* Nat is well-founded.
LEMMA BelowIsWellFounded == IsWellFoundedOn(Below, Nat)
BY NatLessThanWellFounded DEF OpToRel, Below

\* A set of naturals has a least element.
LEMMA Least == ASSUME NEW S, S \subseteq Nat, S # {}
  PROVE \E n \in S : \A m \in S : n <= m
<1>1. PICK x \in S : \A y \in S : ~(<<y, x>> \in Below)
  BY BelowIsWellFounded, WFMin
<1>2. \A y \in S : ~(y < x)
  BY <1>1 DEF Below
<1>3. QED BY <1>2

\* A set that holds zero and with a number the next one holds all naturals.
LEMMA Induction == ASSUME NEW S, S \subseteq Nat, 0 \in S, \A n \in Nat : n \in S => n + 1 \in S
  PROVE S = Nat
<1>1. SUFFICES ASSUME Nat \ S # {} PROVE FALSE
  OBVIOUS
<1>2. PICK n \in Nat \ S : \A m \in Nat \ S : n <= m
  BY <1>1, Least
<1>3. n # 0 /\ n - 1 \in Nat
  BY <1>2
<1>4. n - 1 \in S
  BY <1>2, <1>3
<1>5. (n - 1) + 1 \in S
  BY <1>3, <1>4
<1>6. QED BY <1>2, <1>5

\* A power of two is positive: it is the number of subsets of a set.
LEMMA PowerPositive ==
  ASSUME NEW k \in Nat
  PROVE  2^k \in Nat \ {0}
<1>1. IsFiniteSet(1..k) /\ Cardinality(1..k) = k
  BY FS_Interval
<1>2. IsFiniteSet(SUBSET (1..k)) /\ Cardinality(SUBSET (1..k)) = 2^k
  BY <1>1, FS_SUBSET
<1>3. Cardinality(SUBSET (1..k)) \in Nat
  BY <1>2, FS_CardinalityType
<1>4. SUBSET (1..k) # {}
  OBVIOUS
<1>5. Cardinality(SUBSET (1..k)) # 0
  BY <1>2, <1>4, FS_EmptySet
<1>6. QED BY <1>2, <1>3, <1>5

\* The next power is twice as large: a set with one element more has the subsets
\* without it and, for each of them, one with it.
LEMMA PowerNext ==
  ASSUME NEW k \in Nat
  PROVE  2^(k + 1) = 2 * 2^k
<1> DEFINE A == SUBSET (1..k)
           With(T) == T \cup {k + 1}
           B == {With(T) : T \in A}
<1>1. /\ IsFiniteSet(1..k) /\ Cardinality(1..k) = k
      /\ IsFiniteSet(1..(k + 1)) /\ Cardinality(1..(k + 1)) = k + 1
  BY FS_Interval
<1>2. /\ IsFiniteSet(A) /\ Cardinality(A) = 2^k
      /\ Cardinality(SUBSET (1..(k + 1))) = 2^(k + 1)
  BY <1>1, FS_SUBSET
<1>3. SUBSET (1..(k + 1)) = A \cup B
  <2>1. ASSUME NEW T \in SUBSET (1..(k + 1)) PROVE T \in A \cup B
    <3>1. CASE k + 1 \in T
      <4>1. T \ {k + 1} \in A /\ T = With(T \ {k + 1})
        BY <3>1
      <4>2. QED BY <4>1
    <3>2. CASE ~(k + 1 \in T)
      BY <3>2
    <3>3. QED BY <3>1, <3>2
  <2>2. A \subseteq SUBSET (1..(k + 1))
    OBVIOUS
  <2>a. B \subseteq SUBSET (1..(k + 1))
    <3>1. ASSUME NEW T \in A PROVE With(T) \in SUBSET (1..(k + 1))
      OBVIOUS
    <3> HIDE DEF With, A
    <3>2. QED BY <3>1
  <2>3. A \cup B \subseteq SUBSET (1..(k + 1))
    <3> HIDE DEF A, B
    <3>1. QED BY <2>2, <2>a
  <2>4. SUBSET (1..(k + 1)) \subseteq A \cup B
    BY <2>1
  <2> HIDE DEF A, B
  <2>5. QED BY <2>3, <2>4
<1>4. A \cap B = {}
  OBVIOUS
<1>5. IsFiniteSet(B) /\ Cardinality(B) = Cardinality(A)
  <2> DEFINE f == [T \in A |-> With(T)]
  <2>1. f \in Bijection(A, B)
    <3>1. f \in [A -> B]
      OBVIOUS
    <3>2. \A S, T \in A : f[S] = f[T] => S = T
      <4>1. \A T \in A : T = With(T) \ {k + 1}
        OBVIOUS
      <4>2. QED BY <4>1
    <3>3. \A T \in B : \E S \in A : f[S] = T
      OBVIOUS
    <3> HIDE DEF A, B, f
    <3>4. QED BY <3>1, <3>2, <3>3 DEF Bijection, Injection, Surjection, IsInjective
  <2> HIDE DEF A, B, f
  <2>2. QED BY <1>2, <2>1, FS_Bijection DEF ExistsBijection
<1> HIDE DEF A, B
<1>6. Cardinality(A \cup B) = Cardinality(A) + Cardinality(B) - Cardinality(A \cap B)
  BY <1>2, <1>5, FS_Union
<1>7. Cardinality(A \cap B) = 0
  BY <1>4, FS_EmptySet
<1>8. 2^k \in Nat
  BY PowerPositive
<1>9. Cardinality(A \cup B) = 2^k + (2^k - 0)
  BY <1>2, <1>5, <1>6, <1>7
<1>10. 2^(k + 1) = 2^k + (2^k - 0)
  BY <1>2, <1>3, <1>9, Zenon
<1>11. QED BY <1>8, <1>10

\* Powers of sums.
LEMMA PowerSum ==
  ASSUME NEW a \in Nat, NEW b \in Nat
  PROVE  2^(a + b) = 2^a * 2^b
<1> DEFINE S == {n \in Nat : 2^(a + n) = 2^a * 2^n}
<1>1. 0 \in S
  <2>1. 2^0 = 1 /\ a + 0 = a /\ 2^a \in Nat
    BY PowerPositive
  <2>2. QED BY <2>1
<1>2. ASSUME NEW n \in Nat, n \in S PROVE n + 1 \in S
  <2>1. 2^(a + n) = 2^a * 2^n
    BY <1>2
  <2>2. 2^((a + n) + 1) = 2 * 2^(a + n) /\ 2^(n + 1) = 2 * 2^n
    <3>1. a + n \in Nat
      OBVIOUS
    <3>2. QED BY <3>1, PowerNext
  <2>3. (a + n) + 1 = a + (n + 1) /\ n + 1 \in Nat
    OBVIOUS
  <2>4. \A x \in Nat, y \in Nat : 2 * (x * y) = x * (2 * y)
    OBVIOUS
  <2>5. 2^a \in Nat /\ 2^n \in Nat
    BY PowerPositive
  <2>6. QED BY <2>1, <2>2, <2>3, <2>4, <2>5
<1> HIDE DEF S
<1>3. S = Nat
  <2>1. S \subseteq Nat
    BY DEF S
  <2>2. QED BY <1>1, <1>2, <2>1, Induction
<1>4. QED BY <1>3 DEF S

\* A number is less than its power of two.
LEMMA PowerGreater ==
  ASSUME NEW n \in Nat
  PROVE  n < 2^n
<1> DEFINE S == {m \in Nat : m < 2^m}
<1>1. 0 \in S
  OBVIOUS
<1>2. ASSUME NEW m \in Nat, m \in S PROVE m + 1 \in S
  <2>1. 2^(m + 1) = 2 * 2^m /\ m < 2^m /\ 2^m \in Nat
    BY <1>2, PowerNext, PowerPositive
  <2>2. QED BY <2>1
<1> HIDE DEF S
<1>3. S = Nat
  <2>1. S \subseteq Nat
    BY DEF S
  <2>2. QED BY <1>1, <1>2, <2>1, Induction
<1>4. QED BY <1>3 DEF S

\* bit_width: the number of digits of a natural number in base two.
LEMMA WidthIs ==
  ASSUME NEW n \in Nat
  PROVE  /\ bit_width(n) \in 0..n
         /\ n < 2^bit_width(n)
         /\ n > 0 => bit_width(n) > 0 /\ 2^(bit_width(n) - 1) <= n
<1>1. CASE n = 0
  BY <1>1 DEF bit_width
<1>2. CASE n > 0
  <2> DEFINE S == {w \in Nat : n < 2^w}
  <2>1. n \in S
    BY PowerGreater
  <2>2. PICK w \in S : \A v \in S : w <= v
    BY <2>1, Least
  <2>3. w # 0
    <3>1. SUFFICES ASSUME w = 0 PROVE FALSE
      OBVIOUS
    <3>2. n < 2^0
      BY <2>2, <3>1
    <3>3. QED BY <1>2, <3>2
  <2>4. w - 1 \in Nat /\ ~(w - 1 \in S)
    BY <2>2, <2>3
  <2>5. 2^(w - 1) <= n
    BY <2>4, PowerPositive
  <2>6. w \in 1..n
    BY <2>1, <2>2, <2>3
  <2>7. \E v \in 1..n : 2^(v - 1) <= n /\ n < 2^v
    BY <2>2, <2>5, <2>6
  <2>8. bit_width(n) \in 1..n /\ 2^(bit_width(n) - 1) <= n /\ n < 2^bit_width(n)
    <3> DEFINE Digits(v) == 2^(v - 1) <= n /\ n < 2^v
    <3>1. bit_width(n) = CHOOSE v \in 1..n : Digits(v)
      <4>1. n # 0
        BY <1>2
      <4>2. QED BY <4>1, Zenon DEF bit_width
    <3>2. \E v \in 1..n : Digits(v)
      BY <2>7
    <3> HIDE DEF Digits
    <3>3. bit_width(n) \in 1..n /\ Digits(bit_width(n))
      BY <3>1, <3>2
    <3>4. QED BY <3>3 DEF Digits
  <2>9. QED BY <1>2, <2>8
<1>3. QED BY <1>1, <1>2

\* The bits of a multiple of a power of two below it are zeros.
LEMMA LowBits ==
  ASSUME NEW v \in Int, NEW s \in Nat, NEW b \in Nat, s > b
  PROVE  Bit(magnitude(v * 2^s), b) = 0
<1> DEFINE d == s - (b + 1)
           m == magnitude(v)
           p == 2^d
           u == 2^b
<1>1. d \in Nat /\ s = d + (b + 1)
  OBVIOUS
<1>2. p \in Nat \ {0} /\ u \in Nat \ {0}
  BY <1>1, PowerPositive
<1>3. 2^s = p * (2 * u)
  <2>1. 2^(d + (b + 1)) = 2^d * 2^(b + 1)
    <3>1. b + 1 \in Nat
      OBVIOUS
    <3> HIDE DEF d
    <3>2. QED BY <1>1, <3>1, PowerSum
  <2>2. 2^(b + 1) = 2 * 2^b
    BY PowerNext
  <2>3. QED BY <1>1, <2>1, <2>2
<1>4. m \in Nat
  BY DEF magnitude
<1>5. magnitude(v * 2^s) = (2 * (m * p)) * u
  <2> HIDE DEF p, u
  <2> DEFINE t == p * (2 * u)
  <2>1. t \in Nat \ {0}
    <3>1. \A x \in Nat \ {0}, y \in Nat \ {0} : x * (2 * y) \in Nat \ {0}
      OBVIOUS
    <3>2. QED BY <1>2, <3>1
  <2>2. magnitude(v * t) = m * t
    <3> HIDE DEF t
    <3>1. CASE v >= 0
      <4>1. v * t >= 0
        BY <2>1, <3>1
      <4>2. QED BY <2>1, <3>1, <4>1 DEF magnitude
    <3>2. CASE v < 0
      <4>1. v * t < 0
        BY <2>1, <3>2
      <4>2. QED BY <2>1, <3>2, <4>1 DEF magnitude
    <3>3. QED BY <3>1, <3>2
  <2>3. m * t = (2 * (m * p)) * u
    <3> HIDE DEF m
    <3>1. \A x \in Nat, y \in Nat, z \in Nat : x * (y * (2 * z)) = (2 * (x * y)) * z
      OBVIOUS
    <3>2. QED BY <1>2, <1>4, <3>1
  <2>4. QED BY <1>3, <2>2, <2>3
<1>6. QED
  <2> DEFINE x == m * p
  <2>1. x \in Nat
    <3> HIDE DEF m, p
    <3>1. \A y \in Nat, z \in Nat : y * z \in Nat
      OBVIOUS
    <3>2. QED BY <1>2, <1>4, <3>1
  <2> HIDE DEF x, u
  <2>2. \A y \in Int, z \in Nat \ {0} : (y * z) \div z = y
    OBVIOUS
  <2>3. ((2 * x) * u) \div u = 2 * x /\ (2 * x) % 2 = 0
    BY <1>2, <2>1, <2>2
  <2>4. QED BY <1>5, <2>3 DEF Bit, x, u

----------------------------------------------------------------------------
(* Rows and bitmaps. *)

\* Rows of n pixels, and bitmaps.
RowSet(n) == [0..(n - 1) -> Int]
ImageSet(w, h) == [width : {w}, height : {h}, at : [0..(h - 1) -> RowSet(w)]]

\* Evaluated is the identity.
LEMMA EvaluatedIs == ASSUME NEW f PROVE Evaluated(f) = f
BY DEF Evaluated

----------------------------------------------------------------------------
(* One row. *)

\* What fwd makes of a row of 2 * n pixels.
HighRow(row, n) == [i \in 0..(n - 1) |-> High(ExtendedForward(row, 2 * n), i)]
LowRow(row, n) ==
  [i \in 0..(n - 1) |-> Low(ExtendedForward(row, 2 * n), HighRow(row, n), i)]

\* extfwd and rextfwd: the pixels of the row, and those beyond its ends.
LEMMA ExtendedInt ==
  ASSUME NEW n \in Nat, n >= 3, NEW row \in RowSet(2 * n)
  PROVE  /\ \A i \in -2..(2 * n + 2) : ExtendedForward(row, 2 * n)[i] \in Int
         /\ \A i \in 0..(2 * n - 1) : ExtendedForward(row, 2 * n)[i] = row[i]
         /\ ExtendedForward(row, 2 * n)[-2] = row[2]
         /\ ExtendedForward(row, 2 * n)[2 * n] = row[2 * n - 2]
         /\ ExtendedForward(row, 2 * n)[2 * n + 2] = row[2 * n - 4]
BY DEF RowSet, ExtendedForward

\* Coefficients are integers.
LEMMA HighInt ==
  ASSUME NEW n \in Nat, n >= 3, NEW row \in RowSet(2 * n)
  PROVE  HighRow(row, n) \in RowSet(n)
<1> DEFINE src == ExtendedForward(row, 2 * n)
<1>1. \A i \in -2..(2 * n + 2) : src[i] \in Int
  BY ExtendedInt
<1> HIDE DEF src
<1>2. ASSUME NEW i \in 0..(n - 1) PROVE High(src, i) \in Int
  <2>1. /\ src[2 * i + 1] \in Int /\ src[2 * i] \in Int /\ src[2 * i + 2] \in Int
        /\ src[2 * i - 2] \in Int /\ src[2 * i + 4] \in Int
    BY <1>1
  <2>2. QED BY <2>1 DEF High
<1>3. QED BY <1>2 DEF HighRow, RowSet, src

\* And those of the low half.
LEMMA LowInt ==
  ASSUME NEW n \in Nat, n >= 3, NEW row \in RowSet(2 * n)
  PROVE  LowRow(row, n) \in RowSet(n)
<1> DEFINE src == ExtendedForward(row, 2 * n)
           high == HighRow(row, n)
<1>1. \A i \in -2..(2 * n + 2) : src[i] \in Int
  BY ExtendedInt
<1>2. \A i \in 0..(n - 1) : high[i] \in Int
  BY HighInt DEF RowSet
<1> HIDE DEF src, high
<1>3. ASSUME NEW i \in 0..(n - 1) PROVE Low(src, high, i) \in Int
  <2>1. src[2 * i] \in Int /\ high[0] \in Int /\ high[i] \in Int /\ (i # 0 => high[i - 1] \in Int)
    BY <1>1, <1>2
  <2>2. QED BY <2>1 DEF Low
<1>4. QED BY <1>3 DEF LowRow, RowSet, src, high

\* bwd restores the even pixels, and those beyond the ends that the odd ones next to
\* the ends are predicted from.
LEMMA EvenRestored ==
  ASSUME NEW n \in Nat, n >= 3, NEW row \in RowSet(2 * n), NEW k \in -1..(n + 1)
  PROVE  Even(ExtendedHigh(HighRow(row, n), n), ExtendedLow(LowRow(row, n), n), k)
           = ExtendedForward(row, 2 * n)[2 * k]
<1> DEFINE src == ExtendedForward(row, 2 * n)
           high == HighRow(row, n)
           low == LowRow(row, n)
           hi == ExtendedHigh(high, n)
           lo == ExtendedLow(low, n)
<1>1. /\ \A i \in 0..(2 * n - 1) : src[i] = row[i]
      /\ src[-2] = row[2] /\ src[2 * n] = row[2 * n - 2] /\ src[2 * n + 2] = row[2 * n - 4]
  BY ExtendedInt
<1>2. \A i \in 0..(n - 1) : high[i] \in Int
  BY HighInt DEF RowSet
<1>3. \A i \in 0..(n - 1) : low[i] = Low(src, high, i)
  BY DEF LowRow
<1>4. \A i \in 0..(2 * n - 1) : row[i] \in Int
  BY DEF RowSet
<1>5. \A i \in -2..(n + 1) :
        hi[i] = high[IF i < 0 THEN -i - 1 ELSE IF i < n THEN i ELSE 2 * n - 2 - i]
  BY DEF ExtendedHigh
<1>6. \A i \in -2..(n + 1) :
        lo[i] = low[IF i < 0 THEN -i ELSE IF i < n THEN i ELSE 2 * n - 1 - i]
  BY DEF ExtendedLow
<1> HIDE DEF src, high, low, hi, lo
<1>7. Even(hi, lo, k) = src[2 * k]
  <2>1. CASE k \in 1..(n - 1)
    <3>1. hi[k - 1] = high[k - 1] /\ hi[k] = high[k] /\ lo[k] = low[k]
      BY <2>1, <1>5, <1>6
    <3>2. low[k] = src[2 * k] - (2 - high[k - 1] - high[k]) \div 4
      BY <2>1, <1>3 DEF Low
    <3>3. src[2 * k] \in Int /\ high[k - 1] \in Int /\ high[k] \in Int
      BY <2>1, <1>1, <1>2, <1>4
    <3>4. QED BY <3>1, <3>2, <3>3 DEF Even
  <2>2. CASE k = 0
    <3>1. hi[-1] = high[0] /\ hi[0] = high[0] /\ lo[0] = low[0]
      BY <1>5, <1>6
    <3>2. low[0] = src[0] - (1 - high[0]) \div 2
      BY <1>3 DEF Low
    <3>3. src[0] \in Int /\ high[0] \in Int
      BY <1>1, <1>2, <1>4
    <3>4. (2 - high[0] - high[0]) \div 4 = (1 - high[0]) \div 2
      BY <3>3
    <3>5. QED BY <2>2, <3>1, <3>2, <3>3, <3>4 DEF Even
  <2>3. CASE k = -1
    <3>1. hi[-2] = high[1] /\ hi[-1] = high[0] /\ lo[-1] = low[1]
      BY <1>5, <1>6
    <3>2. low[1] = src[2] - (2 - high[0] - high[1]) \div 4
      BY <1>3 DEF Low
    <3>3. src[2] \in Int /\ high[0] \in Int /\ high[1] \in Int /\ src[-2] = src[2]
      BY <1>1, <1>2, <1>4
    <3>4. QED BY <2>3, <3>1, <3>2, <3>3 DEF Even
  <2>4. CASE k = n
    <3>1. hi[n - 1] = high[n - 1] /\ hi[n] = high[n - 2] /\ lo[n] = low[n - 1]
      BY <1>5, <1>6
    <3>2. low[n - 1] = src[2 * n - 2] - (2 - high[n - 2] - high[n - 1]) \div 4
      <4>1. n - 1 # 0 /\ n - 1 \in 0..(n - 1) /\ (n - 1) - 1 = n - 2 /\ 2 * (n - 1) = 2 * n - 2
        OBVIOUS
      <4>2. QED BY <4>1, <1>3 DEF Low
    <3>3. /\ src[2 * n - 2] \in Int /\ high[n - 1] \in Int /\ high[n - 2] \in Int
          /\ src[2 * n] = src[2 * n - 2]
      BY <1>1, <1>2, <1>4
    <3>4. QED BY <2>4, <3>1, <3>2, <3>3 DEF Even
  <2>5. CASE k = n + 1
    <3>1. hi[n] = high[n - 2] /\ hi[n + 1] = high[n - 3] /\ lo[n + 1] = low[n - 2]
      <4>1. 2 * n - 2 - n = n - 2 /\ 2 * n - 2 - (n + 1) = n - 3 /\ 2 * n - 1 - (n + 1) = n - 2
        OBVIOUS
      <4>2. QED BY <4>1, <1>5, <1>6
    <3>2. low[n - 2] = src[2 * n - 4] - (2 - high[n - 3] - high[n - 2]) \div 4
      <4>1. n - 2 # 0 /\ n - 2 \in 0..(n - 1) /\ (n - 2) - 1 = n - 3 /\ 2 * (n - 2) = 2 * n - 4
        OBVIOUS
      <4>2. QED BY <4>1, <1>3 DEF Low
    <3>3. /\ src[2 * n - 4] \in Int /\ high[n - 3] \in Int /\ high[n - 2] \in Int
          /\ src[2 * n + 2] = src[2 * n - 4]
      BY <1>1, <1>2, <1>4
    <3>4. (n + 1) - 1 = n /\ 2 * (n + 1) = 2 * n + 2
      OBVIOUS
    <3>5. QED BY <2>5, <3>1, <3>2, <3>3, <3>4 DEF Even
  <2>6. QED BY <2>1, <2>2, <2>3, <2>4, <2>5
<1>8. QED BY <1>7 DEF src, high, low, hi, lo

\* Then the odd ones between them.
LEMMA OddRestored ==
  ASSUME NEW n \in Nat, n >= 3, NEW row \in RowSet(2 * n), NEW i \in 0..(n - 1),
         NEW even, \A k \in -1..(n + 1) : even[k] = ExtendedForward(row, 2 * n)[2 * k]
  PROVE  Odd(ExtendedHigh(HighRow(row, n), n), even, i) = row[2 * i + 1]
<1> DEFINE src == ExtendedForward(row, 2 * n)
           high == HighRow(row, n)
<1>1. \A j \in -2..(2 * n + 2) : src[j] \in Int
  BY ExtendedInt
<1>2. src[2 * i + 1] = row[2 * i + 1]
  BY ExtendedInt
<1>3. high[i] = High(src, i)
  BY DEF HighRow
<1>4. ExtendedHigh(high, n)[i] = high[i]
  BY DEF ExtendedHigh
<1>5. /\ even[i] = src[2 * i] /\ even[i + 1] = src[2 * i + 2]
      /\ even[i - 1] = src[2 * i - 2] /\ even[i + 2] = src[2 * i + 4]
  <2>1. /\ 2 * (i + 1) = 2 * i + 2 /\ 2 * (i - 1) = 2 * i - 2 /\ 2 * (i + 2) = 2 * i + 4
        /\ {i, i + 1, i - 1, i + 2} \subseteq -1..(n + 1)
    OBVIOUS
  <2>2. QED BY <2>1
<1> HIDE DEF src, high
<1>6. /\ src[2 * i + 1] \in Int /\ src[2 * i] \in Int /\ src[2 * i + 2] \in Int
      /\ src[2 * i - 2] \in Int /\ src[2 * i + 4] \in Int
  BY <1>1
<1>7. Odd(ExtendedHigh(high, n), even, i) = src[2 * i + 1]
  BY <1>3, <1>4, <1>5, <1>6 DEF Odd, High
<1>8. QED BY <1>2, <1>7 DEF src, high

----------------------------------------------------------------------------
(* Passes. *)

\* The fields of a bitmap.
LEMMA ImageParts ==
  ASSUME NEW w, NEW h, NEW image \in ImageSet(w, h)
  PROVE  /\ image.width = w /\ image.height = h
         /\ image = [width |-> w, height |-> h, at |-> image.at]
         /\ \A r \in 0..(h - 1) : image.at[r] \in RowSet(w)
         /\ image.at = [r \in 0..(h - 1) |-> [c \in 0..(w - 1) |-> image.at[r][c]]]
BY DEF ImageSet, RowSet

\* The high half of a pass: the coefficients of the rows, in columns.
LEMMA HighPassIs ==
  ASSUME NEW n \in Nat, n >= 3, NEW h \in Nat, NEW image \in ImageSet(2 * n, h)
  PROVE  HighPass(image, 0, n)
           = [width |-> h, height |-> n,
              at |-> [i \in 0..(n - 1) |->
                        [r \in 0..(h - 1) |-> HighRow(image.at[r], n)[i]]]]
<1>1. image.width = 2 * n /\ image.height = h
  BY DEF ImageSet
<1>2. Extended(image) = [r \in 0..(h - 1) |-> ExtendedForward(image.at[r], 2 * n)]
  BY <1>1, EvaluatedIs DEF Extended
<1>3. \A i \in 0..(n - 1), r \in 0..(h - 1) :
        High(Extended(image)[r], i + 0) = HighRow(image.at[r], n)[i]
  BY <1>2 DEF HighRow
<1>4. HighPass(image, 0, n)
        = [width |-> h, height |-> n,
           at |-> [i \in 0..(n - 1) |-> [r \in 0..(h - 1) |-> High(Extended(image)[r], i + 0)]]]
  BY <1>1, EvaluatedIs DEF HighPass, HighRows, Bitmap
<1>5. QED BY <1>3, <1>4

\* The low half.
LEMMA LowPassIs ==
  ASSUME NEW n \in Nat, n >= 3, NEW h \in Nat, NEW image \in ImageSet(2 * n, h)
  PROVE  LowPass(image, 0, n)
           = [width |-> h, height |-> n,
              at |-> [i \in 0..(n - 1) |->
                        [r \in 0..(h - 1) |-> LowRow(image.at[r], n)[i]]]]
<1> DEFINE high == [r \in 0..(h - 1) |->
                      [k \in 0..((2 * n) \div 2 - 1) |-> High(Extended(image)[r], k)]]
<1>1. image.width = 2 * n /\ image.height = h
  BY DEF ImageSet
<1>2. Extended(image) = [r \in 0..(h - 1) |-> ExtendedForward(image.at[r], 2 * n)]
  BY <1>1, EvaluatedIs DEF Extended
<1>3. (2 * n) \div 2 = n
  OBVIOUS
<1>4. \A r \in 0..(h - 1) : high[r] = HighRow(image.at[r], n)
  BY <1>2, <1>3 DEF HighRow
<1>5. LowPass(image, 0, n)
        = [width |-> h, height |-> n,
           at |-> [i \in 0..(n - 1) |->
                     [r \in 0..(h - 1) |-> Low(Extended(image)[r], high[r], i + 0)]]]
  <2> HIDE DEF high
  <2>1. Evaluated(high) = high
    BY EvaluatedIs
  <2>2. LowPass(image, 0, n)
          = [width |-> h, height |-> n,
             at |-> Evaluated([i \in 0..(n - 1) |->
                       [r \in 0..(h - 1) |-> Low(Extended(image)[r], Evaluated(high)[r], i + 0)]])]
    BY <1>1 DEF LowPass, LowRows, Bitmap, high
  <2>3. QED BY <2>1, <2>2, EvaluatedIs
<1> HIDE DEF high
<1>6. \A i \in 0..(n - 1), r \in 0..(h - 1) :
        Low(Extended(image)[r], high[r], i + 0) = LowRow(image.at[r], n)[i]
  BY <1>2, <1>4 DEF LowRow
<1>7. QED BY <1>5, <1>6

\* Transposing twice changes nothing.
LEMMA TransposeIs ==
  ASSUME NEW w, NEW h, NEW image \in ImageSet(w, h)
  PROVE  /\ transpose(image) = [width |-> h, height |-> w,
              at |-> [r \in 0..(w - 1) |-> [c \in 0..(h - 1) |-> image.at[c][r]]]]
         /\ transpose(image) \in ImageSet(h, w)
         /\ transpose(transpose(image)) = image
<1>0. image.width = w /\ image.height = h
  BY DEF ImageSet
<1>1. transpose(image) = [width |-> h, height |-> w,
         at |-> [r \in 0..(w - 1) |-> [c \in 0..(h - 1) |-> image.at[c][r]]]]
  BY <1>0, EvaluatedIs DEF transpose, Bitmap
<1>2. transpose(image) \in ImageSet(h, w)
  <2>1. \A r \in 0..(w - 1), c \in 0..(h - 1) : image.at[c][r] \in Int
    BY DEF ImageSet, RowSet
  <2>2. QED BY <1>1, <2>1 DEF ImageSet, RowSet
<1>3. transpose(transpose(image)) = [width |-> w, height |-> h,
         at |-> [r \in 0..(h - 1) |-> [c \in 0..(w - 1) |-> transpose(image).at[c][r]]]]
  <2> DEFINE turned == transpose(image)
  <2>1. turned.width = h /\ turned.height = w
    BY <1>1
  <2> HIDE DEF turned
  <2>2. transpose(turned) = [width |-> w, height |-> h,
         at |-> [r \in 0..(h - 1) |-> [c \in 0..(w - 1) |-> turned.at[c][r]]]]
    BY <2>1, EvaluatedIs DEF transpose, Bitmap
  <2>3. QED BY <2>2 DEF turned
<1>4. \A r \in 0..(h - 1), c \in 0..(w - 1) : transpose(image).at[c][r] = image.at[r][c]
  BY <1>1
<1>5. [r \in 0..(h - 1) |-> [c \in 0..(w - 1) |-> transpose(image).at[c][r]]] = image.at
  BY <1>4, ImageParts
<1>6. QED BY <1>1, <1>2, <1>3, <1>5, ImageParts

\* The halves of a pass, transposed, are what the inverse pass wants, and it
\* makes of them the image, transposed.
LEMMA PassRestored ==
  ASSUME NEW n \in Nat, n >= 3, NEW h \in Nat, NEW image \in ImageSet(2 * n, h)
  PROVE  /\ HighPass(image, 0, n) \in ImageSet(h, n)
         /\ LowPass(image, 0, n) \in ImageSet(h, n)
         /\ Backward(transpose(HighPass(image, 0, n)), transpose(LowPass(image, 0, n)), 0)
              = transpose(image)
<1> DEFINE high == HighPass(image, 0, n)
           low == LowPass(image, 0, n)
           hsrc == transpose(high)
           lsrc == transpose(low)
<1>1. \A r \in 0..(h - 1) : image.at[r] \in RowSet(2 * n)
  BY DEF ImageSet
<1>h. high = [width |-> h, height |-> n,
              at |-> [i \in 0..(n - 1) |->
                        [r \in 0..(h - 1) |-> HighRow(image.at[r], n)[i]]]]
  BY HighPassIs
<1>l. low = [width |-> h, height |-> n,
             at |-> [i \in 0..(n - 1) |->
                       [r \in 0..(h - 1) |-> LowRow(image.at[r], n)[i]]]]
  BY LowPassIs
<1> HIDE DEF high, low
<1>2. high \in ImageSet(h, n) /\ low \in ImageSet(h, n)
  <2>1. \A r \in 0..(h - 1), i \in 0..(n - 1) :
          HighRow(image.at[r], n)[i] \in Int /\ LowRow(image.at[r], n)[i] \in Int
    BY <1>1, HighInt, LowInt DEF RowSet
  <2>2. QED BY <2>1, <1>h, <1>l DEF ImageSet, RowSet
<1>3. /\ hsrc.width = n /\ hsrc.height = h
      /\ \A r \in 0..(h - 1) : hsrc.at[r] = HighRow(image.at[r], n)
  <2>1. hsrc = [width |-> n, height |-> h,
                at |-> [r \in 0..(h - 1) |-> [i \in 0..(n - 1) |-> high.at[i][r]]]]
    BY <1>2, TransposeIs
  <2>2. ASSUME NEW r \in 0..(h - 1) PROVE hsrc.at[r] = HighRow(image.at[r], n)
    <3>1. hsrc.at[r] = [i \in 0..(n - 1) |-> high.at[i][r]]
      BY <2>1
    <3>2. \A i \in 0..(n - 1) : high.at[i][r] = HighRow(image.at[r], n)[i]
      BY <1>h
    <3>3. HighRow(image.at[r], n) = [i \in 0..(n - 1) |-> HighRow(image.at[r], n)[i]]
      BY DEF HighRow
    <3>4. QED BY <3>1, <3>2, <3>3
  <2> HIDE DEF hsrc
  <2>3. QED BY <2>1, <2>2
<1>4. \A r \in 0..(h - 1) : lsrc.at[r] = LowRow(image.at[r], n)
  <2>1. lsrc = [width |-> n, height |-> h,
                at |-> [r \in 0..(h - 1) |-> [i \in 0..(n - 1) |-> low.at[i][r]]]]
    BY <1>2, TransposeIs
  <2>2. ASSUME NEW r \in 0..(h - 1) PROVE lsrc.at[r] = LowRow(image.at[r], n)
    <3>1. lsrc.at[r] = [i \in 0..(n - 1) |-> low.at[i][r]]
      BY <2>1
    <3>2. \A i \in 0..(n - 1) : low.at[i][r] = LowRow(image.at[r], n)[i]
      BY <1>l
    <3>3. LowRow(image.at[r], n) = [i \in 0..(n - 1) |-> LowRow(image.at[r], n)[i]]
      BY DEF LowRow
    <3>4. QED BY <3>1, <3>2, <3>3
  <2> HIDE DEF lsrc
  <2>3. QED BY <2>1, <2>2
<1> HIDE DEF hsrc, lsrc
<1> DEFINE hi == [r \in 0..(h - 1) |-> ExtendedHigh(hsrc.at[r], n)]
           lo == [r \in 0..(h - 1) |-> ExtendedLow(lsrc.at[r], n)]
           even == [r \in 0..(h - 1) |-> [k \in -1..(n + 1) |-> Even(hi[r], lo[r], k)]]
           Pixel(r, i) == IF i % 2 = 0 THEN even[r][i \div 2] ELSE Odd(hi[r], even[r], i \div 2)
<1>5. Backward(hsrc, lsrc, 0)
        = [width |-> h, height |-> 2 * n,
           at |-> [i \in 0..(2 * n - 1) |-> [r \in 0..(h - 1) |-> Pixel(r, i)]]]
  <2>1. Evaluated(hi) = hi
    BY EvaluatedIs
  <2> DEFINE made == [r \in 0..(h - 1) |-> [k \in -1..(n + 1) |-> Even(Evaluated(hi)[r], lo[r], k)]]
  <2>2. Backward(hsrc, lsrc, 0)
          = [width |-> h, height |-> 2 * n - 0,
             at |-> Evaluated([i \in 0..(2 * n - 0 - 1) |-> [r \in 0..(h - 1) |->
                      IF (i + 0) % 2 = 0 THEN Evaluated(made)[r][(i + 0) \div 2]
                      ELSE Odd(Evaluated(hi)[r], Evaluated(made)[r], (i + 0) \div 2)]])]
    BY <1>3 DEF Backward, Bitmap
  <2>3. Evaluated(made) = even
    BY <2>1, EvaluatedIs
  <2> HIDE DEF hi, even, made
  <2>4. \A i \in 0..(2 * n - 1) : i + 0 = i
    OBVIOUS
  <2>5. 2 * n - 0 = 2 * n
    OBVIOUS
  <2>6. QED BY <2>1, <2>2, <2>3, <2>4, <2>5, EvaluatedIs, SMTT(20)
<1>6. ASSUME NEW r \in 0..(h - 1), NEW i \in 0..(2 * n - 1)
      PROVE  Pixel(r, i) = image.at[r][i]
  <2> DEFINE row == image.at[r]
  <2>1. row \in RowSet(2 * n)
    BY <1>1
  <2>2. hi[r] = ExtendedHigh(HighRow(row, n), n) /\ lo[r] = ExtendedLow(LowRow(row, n), n)
    BY <1>3, <1>4
  <2>3. even[r] = [k \in -1..(n + 1) |-> Even(hi[r], lo[r], k)]
    OBVIOUS
  <2> HIDE DEF row, hi, lo, even
  <2>4. ASSUME NEW k \in -1..(n + 1) PROVE even[r][k] = ExtendedForward(row, 2 * n)[2 * k]
    <3>1. Even(ExtendedHigh(HighRow(row, n), n), ExtendedLow(LowRow(row, n), n), k)
            = ExtendedForward(row, 2 * n)[2 * k]
      BY <2>1, EvenRestored
    <3>2. QED BY <2>2, <2>3, <3>1
  <2>5. CASE i % 2 = 0
    <3>1. i \div 2 \in -1..(n + 1) /\ 2 * (i \div 2) = i
      BY <2>5
    <3>2. Pixel(r, i) = even[r][i \div 2]
      BY <2>5
    <3>3. ExtendedForward(row, 2 * n)[i] = row[i]
      BY <2>1, ExtendedInt
    <3>4. QED BY <2>4, <3>1, <3>2, <3>3 DEF row
  <2>6. CASE i % 2 # 0
    <3>1. i \div 2 \in 0..(n - 1) /\ 2 * (i \div 2) + 1 = i
      BY <2>6
    <3>2. Odd(hi[r], even[r], i \div 2) = row[2 * (i \div 2) + 1]
      BY <2>1, <2>2, <2>4, <3>1, OddRestored
    <3>3. QED BY <2>6, <3>1, <3>2 DEF row
  <2>7. QED BY <2>5, <2>6
<1> HIDE DEF Pixel
<1>7. [i \in 0..(2 * n - 1) |-> [r \in 0..(h - 1) |-> Pixel(r, i)]]
        = [i \in 0..(2 * n - 1) |-> [r \in 0..(h - 1) |-> image.at[r][i]]]
  BY <1>6
<1>8. Backward(hsrc, lsrc, 0) = transpose(image)
  <2>1. transpose(image) = [width |-> h, height |-> 2 * n,
          at |-> [i \in 0..(2 * n - 1) |-> [r \in 0..(h - 1) |-> image.at[r][i]]]]
    BY TransposeIs
  <2>2. QED BY <1>5, <1>7, <2>1
<1>9. QED BY <1>2, <1>8 DEF high, low, hsrc, lsrc

----------------------------------------------------------------------------
(* Levels. *)

\* A level of the transform is reversible: from the four quarters it makes of an image
\* the inverse passes make the image, to the last pixel at every edge.
THEOREM LevelRestored ==
  ASSUME NEW m \in Nat, m >= 3, NEW n \in Nat, n >= 3, NEW image \in ImageSet(2 * m, 2 * n)
  PROVE  LET q == Quarters(Halves(image))
         IN /\ q.ll \in ImageSet(m, n) /\ q.hl \in ImageSet(m, n)
            /\ q.lh \in ImageSet(m, n) /\ q.hh \in ImageSet(m, n)
            /\ JoinedRows(JoinedColumns(transpose(q.ll), q.hl, q.lh, q.hh, 0)) = transpose(image)
<1> DEFINE hout == HighPass(image, 0, m)
           lout == LowPass(image, 0, m)
           halves == Halves(image)
           q == Quarters(halves)
<1>1. /\ hout \in ImageSet(2 * n, m) /\ lout \in ImageSet(2 * n, m)
      /\ Backward(transpose(hout), transpose(lout), 0) = transpose(image)
  BY PassRestored
<1>2. halves = [hout |-> hout, lout |-> lout]
  <2>1. image.width \div 2 = m
    BY DEF ImageSet
  <2>2. QED BY <2>1 DEF Halves
<1> HIDE DEF hout, lout, halves
<1>3. halves.lout.width \div 2 = n
  BY <1>1, <1>2 DEF ImageSet
<1>4. q = [hl |-> LowPass(hout, 0, n), lh |-> HighPass(lout, 0, n),
           hh |-> HighPass(hout, 0, n), ll |-> LowPass(lout, 0, n)]
  BY <1>2, <1>3 DEF Quarters
<1>5. /\ q.ll \in ImageSet(m, n) /\ q.lh \in ImageSet(m, n)
      /\ Backward(transpose(q.lh), transpose(q.ll), 0) = transpose(lout)
  BY <1>1, <1>4, PassRestored
<1>6. /\ q.hl \in ImageSet(m, n) /\ q.hh \in ImageSet(m, n)
      /\ Backward(transpose(q.hh), transpose(q.hl), 0) = transpose(hout)
  BY <1>1, <1>4, PassRestored
<1> HIDE DEF q
<1>7. JoinedColumns(transpose(q.ll), q.hl, q.lh, q.hh, 0)
        = [lout |-> transpose(lout), hout |-> transpose(hout)]
  BY <1>5, <1>6 DEF JoinedColumns
<1>8. JoinedRows(JoinedColumns(transpose(q.ll), q.hl, q.lh, q.hh, 0)) = transpose(image)
  BY <1>1, <1>7 DEF JoinedRows
<1>9. QED BY <1>5, <1>6, <1>8 DEF q, halves

----------------------------------------------------------------------------
(* Padding and scaling. *)

\* A padded dimension can be halved three times, and three coefficients are left.
LEMMA PaddedIs ==
  ASSUME NEW n \in Nat, n >= 17
  PROVE  \E k \in Nat : k >= 3 /\ PaddedTo(n) = 2 * (2 * (2 * k))
<1>1. PaddedTo(n) = ((n + 7) \div 8) * 8
  BY DEF PaddedTo, padding_length
<1>2. (n + 7) \div 8 \in Nat /\ (n + 7) \div 8 >= 3
  OBVIOUS
<1>3. PaddedTo(n) = 2 * (2 * (2 * ((n + 7) \div 8)))
  BY <1>1, <1>2
<1>4. QED BY <1>2, <1>3

\* preprocess_image and the vertical padding make a bitmap.
LEMMA PaddedImage ==
  ASSUME NEW w \in Nat, w >= 1, NEW h \in Nat, h >= 1, NEW image \in ImageSet(w, h)
  PROVE  Padded(image) \in ImageSet(PaddedTo(w), PaddedTo(h))
<1>1. image.width = w /\ image.height = h
  BY DEF ImageSet
<1> DEFINE At(r, c) == image.at[IF r < h THEN r ELSE h - 1][IF c < w THEN c ELSE w - 1]
<1>2. Padded(image) = [width |-> PaddedTo(w), height |-> PaddedTo(h),
        at |-> [r \in 0..(PaddedTo(h) - 1) |-> [c \in 0..(PaddedTo(w) - 1) |-> At(r, c)]]]
  BY <1>1, EvaluatedIs DEF Padded, Bitmap
<1>3. \A r \in 0..(PaddedTo(h) - 1), c \in 0..(PaddedTo(w) - 1) : At(r, c) \in Int
  <2>1. \A r \in 0..(h - 1), c \in 0..(w - 1) : image.at[r][c] \in Int
    BY DEF ImageSet, RowSet
  <2>2. PaddedTo(h) \in Int /\ PaddedTo(w) \in Int
    BY DEF PaddedTo, padding_length
  <2>3. QED BY <2>1, <2>2
<1> HIDE DEF At
<1>4. QED BY <1>2, <1>3 DEF ImageSet, RowSet

\* Shifting to the left and back.
LEMMA UnscaledScaled ==
  ASSUME NEW w, NEW h, NEW subband \in ImageSet(w, h), NEW shift \in Nat
  PROVE  unscaled(scaled(subband, shift), shift) = subband
<1> DEFINE up == scaled(subband, shift)
<1>1. subband.width = w /\ subband.height = h
  BY DEF ImageSet
<1>2. up = [width |-> w, height |-> h,
            at |-> [r \in 0..(h - 1) |-> [c \in 0..(w - 1) |-> subband.at[r][c] * 2^shift]]]
  BY <1>1, EvaluatedIs DEF scaled, Bitmap
<1> HIDE DEF up
<1>3. unscaled(up, shift) = [width |-> w, height |-> h,
            at |-> [r \in 0..(h - 1) |-> [c \in 0..(w - 1) |-> up.at[r][c] \div 2^shift]]]
  BY <1>2, EvaluatedIs DEF unscaled, Bitmap
<1>4. ASSUME NEW r \in 0..(h - 1), NEW c \in 0..(w - 1)
      PROVE  up.at[r][c] \div 2^shift = subband.at[r][c]
  <2>1. subband.at[r][c] \in Int
    BY DEF ImageSet, RowSet
  <2>2. up.at[r][c] = subband.at[r][c] * 2^shift
    BY <1>2
  <2>3. \A v \in Int, d \in Nat \ {0} : (v * d) \div d = v
    OBVIOUS
  <2>4. QED BY <2>1, <2>2, <2>3, PowerPositive
<1>5. [r \in 0..(h - 1) |-> [c \in 0..(w - 1) |-> up.at[r][c] \div 2^shift]] = subband.at
  <2>1. subband.at = [r \in 0..(h - 1) |-> [c \in 0..(w - 1) |-> subband.at[r][c]]]
    BY DEF ImageSet, RowSet
  <2>2. QED BY <1>4, <2>1
<1>6. subband = [width |-> w, height |-> h, at |-> subband.at]
  BY DEF ImageSet
<1>7. QED BY <1>3, <1>5, <1>6 DEF up

----------------------------------------------------------------------------
(* Three levels, step by step. *)

\* The quarters of an image, and what each level starts from.
Made(image) == Quarters(Halves(image))
Source1 == Padded(input.image)
Source2 == Made(Source1).ll
Source3 == Made(Source2).ll

\* The subbands that a level adds, from the n-th on, and those made so far.
ScaledQuarters(image, n) ==
  <<scaled(Made(image).hl, input.bit_shifts[n]), scaled(Made(image).lh, input.bit_shifts[n + 1]),
    scaled(Made(image).hh, input.bit_shifts[n + 2])>>
Subbands1 == <<>> \o ScaledQuarters(Source1, 8) \o <<>>
Subbands2 == <<>> \o ScaledQuarters(Source2, 5) \o Subbands1
Subbands3 ==
  <<scaled(Made(Source3).ll, input.bit_shifts[1])>> \o ScaledQuarters(Source3, 2) \o Subbands2

\* Where the transform is, what it has made.
TransformInv ==
  /\ input \in Inputs
  /\ pc.at = "preprocess" => subbands = <<>>
  /\ pc.at = "rows" =>
       \/ pc.level = 1 /\ work = Source1 /\ subbands = <<>>
       \/ pc.level = 2 /\ work = Source2 /\ subbands = Subbands1
       \/ pc.level = 3 /\ work = Source3 /\ subbands = Subbands2
  /\ pc.at = "columns" =>
       \/ pc.level = 1 /\ work = Halves(Source1) /\ subbands = <<>>
       \/ pc.level = 2 /\ work = Halves(Source2) /\ subbands = Subbands1
       \/ pc.level = 3 /\ work = Halves(Source3) /\ subbands = Subbands2
  /\ pc.at \in {"assemble", "head", "plane", "stage", "refine", "flush"} => subbands = Subbands3

\* The elements of a concatenation.
LEMMA Behind ==
  ASSUME NEW S, NEW s \in Seq(S), NEW t \in Seq(S)
  PROVE  /\ s \o t \in Seq(S) /\ Len(s \o t) = Len(s) + Len(t)
         /\ \A i \in 1..Len(s) : (s \o t)[i] = s[i]
         /\ \A i \in 1..Len(t) : (s \o t)[Len(s) + i] = t[i]
OBVIOUS

\* The ten subbands as the levels put them in front of each other.
LEMMA TenOf ==
  ASSUME NEW a, NEW b1, NEW b2, NEW b3, NEW c1, NEW c2, NEW c3, NEW d1, NEW d2, NEW d3
  PROVE  LET r == <<a>> \o <<b1, b2, b3>>
                    \o (<<>> \o <<c1, c2, c3>> \o (<<>> \o <<d1, d2, d3>> \o <<>>))
         IN /\ r[1] = a /\ r[2] = b1 /\ r[3] = b2 /\ r[4] = b3
            /\ r[5] = c1 /\ r[6] = c2 /\ r[7] = c3
            /\ r[8] = d1 /\ r[9] = d2 /\ r[10] = d3
<1> DEFINE S == {a, b1, b2, b3, c1, c2, c3, d1, d2, d3}
           low == <<a>> \o <<b1, b2, b3>>
           mid == <<>> \o <<c1, c2, c3>>
           top == <<>> \o <<d1, d2, d3>> \o <<>>
<1>1. low \in Seq(S) /\ Len(low) = 4 /\ low[1] = a /\ low[2] = b1 /\ low[3] = b2 /\ low[4] = b3
  <2>1. a \in S /\ b1 \in S /\ b2 \in S /\ b3 \in S
    OBVIOUS
  <2> HIDE DEF S
  <2>2. QED BY <2>1
<1>2. mid \in Seq(S) /\ Len(mid) = 3 /\ mid[1] = c1 /\ mid[2] = c2 /\ mid[3] = c3
  <2>1. c1 \in S /\ c2 \in S /\ c3 \in S
    OBVIOUS
  <2> HIDE DEF S
  <2>2. QED BY <2>1
<1>3. top \in Seq(S) /\ Len(top) = 3 /\ top[1] = d1 /\ top[2] = d2 /\ top[3] = d3
  <2>1. d1 \in S /\ d2 \in S /\ d3 \in S
    OBVIOUS
  <2> HIDE DEF S
  <2>2. QED BY <2>1
<1> HIDE DEF S, low, mid, top
<1> DEFINE upper == mid \o top
           all == low \o upper
<1>4. /\ upper \in Seq(S) /\ Len(upper) = 6
      /\ \A i \in 1..3 : upper[i] = mid[i] /\ upper[3 + i] = top[i]
  <2>1. /\ upper \in Seq(S) /\ Len(upper) = Len(mid) + Len(top)
        /\ \A i \in 1..Len(mid) : upper[i] = mid[i]
        /\ \A i \in 1..Len(top) : upper[Len(mid) + i] = top[i]
    <3>1. \A s \in Seq(S), t \in Seq(S) :
            /\ s \o t \in Seq(S) /\ Len(s \o t) = Len(s) + Len(t)
            /\ \A i \in 1..Len(s) : (s \o t)[i] = s[i]
            /\ \A i \in 1..Len(t) : (s \o t)[Len(s) + i] = t[i]
      BY Behind
    <3>2. QED BY <1>2, <1>3, <3>1, Zenon
  <2> HIDE DEF upper
  <2>2. QED BY <1>2, <1>3, <2>1
<1> HIDE DEF upper
<1>5. (\A i \in 1..4 : all[i] = low[i]) /\ (\A i \in 1..6 : all[4 + i] = upper[i])
  <2>1. /\ \A i \in 1..Len(low) : all[i] = low[i]
        /\ \A i \in 1..Len(upper) : all[Len(low) + i] = upper[i]
    <3>1. \A s \in Seq(S), t \in Seq(S) :
            /\ \A i \in 1..Len(s) : (s \o t)[i] = s[i]
            /\ \A i \in 1..Len(t) : (s \o t)[Len(s) + i] = t[i]
      BY Behind
    <3>2. QED BY <1>1, <1>4, <3>1, Zenon
  <2> HIDE DEF all
  <2>2. QED BY <1>1, <1>4, <2>1
<1> HIDE DEF all
<1>6. /\ all[1] = low[1] /\ all[2] = low[2] /\ all[3] = low[3] /\ all[4] = low[4]
      /\ all[5] = upper[1] /\ all[6] = upper[2] /\ all[7] = upper[3]
      /\ all[8] = upper[4] /\ all[9] = upper[5] /\ all[10] = upper[6]
  <2>1. \A i \in 1..6 : all[4 + i] = upper[i]
    BY <1>5
  <2>2. /\ all[4 + 1] = upper[1] /\ all[4 + 2] = upper[2] /\ all[4 + 3] = upper[3]
        /\ all[4 + 4] = upper[4] /\ all[4 + 5] = upper[5] /\ all[4 + 6] = upper[6]
    BY <2>1
  <2>3. QED BY <1>5, <2>2
<1>7. /\ upper[1] = mid[1] /\ upper[2] = mid[2] /\ upper[3] = mid[3]
      /\ upper[4] = top[1] /\ upper[5] = top[2] /\ upper[6] = top[3]
  <2>1. upper[3 + 1] = top[1] /\ upper[3 + 2] = top[2] /\ upper[3 + 3] = top[3]
    BY <1>4
  <2>2. QED BY <1>4, <2>1
<1>8. QED BY <1>1, <1>2, <1>3, <1>6, <1>7 DEF all, upper, low, mid, top

\* A request starts with no subbands.
LEMMA TransformInitial == Init => TransformInv
BY DEF Init, TransformInv

\* What a transform of columns adds.
LEMMA ColumnsAdd ==
  ASSUME TransformInv, TransformColumns
  PROVE  TransformInv'
<1>1. /\ pc.at = "columns" /\ input' = input /\ work' = Quarters(work).ll
      /\ input \in Inputs
  BY DEF TransformColumns, TransformInv
<1> DEFINE q == Quarters(work)
<1>2. ASSUME pc.level = 1 PROVE TransformInv'
  <2>1. work = Halves(Source1) /\ subbands = <<>>
    BY <1>1, <1>2 DEF TransformInv
  <2>2. subbands' = <<>> \o <<scaled(q.hl, input.bit_shifts[8]), scaled(q.lh, input.bit_shifts[9]),
                             scaled(q.hh, input.bit_shifts[10])>> \o subbands
    BY <1>2 DEF TransformColumns, level_num
  <2>3. pc' = [at |-> "rows", level |-> 2]
    BY <1>2 DEF TransformColumns, level_num, Goto
  <2>4. work' = Source2' /\ subbands' = Subbands1'
    BY <1>1, <2>1, <2>2 DEF Source1, Source2, Made, Subbands1, ScaledQuarters
  <2>5. QED BY <1>1, <2>3, <2>4 DEF TransformInv
<1>3. ASSUME pc.level = 2 PROVE TransformInv'
  <2>1. work = Halves(Source2) /\ subbands = Subbands1
    BY <1>1, <1>3 DEF TransformInv
  <2>2. subbands' = <<>> \o <<scaled(q.hl, input.bit_shifts[5]), scaled(q.lh, input.bit_shifts[6]),
                             scaled(q.hh, input.bit_shifts[7])>> \o subbands
    BY <1>3 DEF TransformColumns, level_num
  <2>3. pc' = [at |-> "rows", level |-> 3]
    BY <1>3 DEF TransformColumns, level_num, Goto
  <2>4. work' = Source3' /\ subbands' = Subbands2'
    BY <1>1, <2>1, <2>2 DEF Source1, Source2, Source3, Made, Subbands1, Subbands2, ScaledQuarters
  <2>5. QED BY <1>1, <2>3, <2>4 DEF TransformInv
<1>4. ASSUME pc.level = 3 PROVE TransformInv'
  <2>1. work = Halves(Source3) /\ subbands = Subbands2
    BY <1>1, <1>4 DEF TransformInv
  <2>2. subbands' = <<scaled(q.ll, input.bit_shifts[1])>>
                      \o <<scaled(q.hl, input.bit_shifts[2]), scaled(q.lh, input.bit_shifts[3]),
                           scaled(q.hh, input.bit_shifts[4])>> \o subbands
    BY <1>4 DEF TransformColumns, level_num
  <2>3. pc' = [at |-> "assemble", level |-> 0]
    BY <1>4 DEF TransformColumns, level_num, Goto
  <2>4. subbands' = Subbands3'
    BY <1>1, <2>1, <2>2, SMTT(20) DEF Source1, Source2, Source3, Made, Subbands1, Subbands2, Subbands3, ScaledQuarters
  <2>5. QED BY <1>1, <2>3, <2>4 DEF TransformInv
<1>5. pc.level \in {1, 2, 3}
  BY <1>1 DEF TransformInv
<1>6. QED BY <1>2, <1>3, <1>4, <1>5

\* The decoder does not go back.
LEMMA DecoderGoesOn ==
  ASSUME \/ DecodeHead \/ DecodePlane \/ DecodeStage \/ DecodeRefinement \/ CloseSegment
         \/ Unpack \/ Unscale \/ InverseColumns \/ InverseRows
  PROVE  /\ input' = input
         /\ pc'.at \in {"dplane", "dstage", "drefine", "close", "open", "unpack", "unscale",
                        "icolumns", "irows", "done"}
<1> USE DEF Goto
<1>1. input' = input
  BY DEF DecodeHead, DecodePlane, DecodeStage, DecodeRefinement, CloseSegment,
         Unpack, Unscale, InverseColumns, InverseRows
<1>2. CASE DecodeHead BY <1>2 DEF DecodeHead
<1>3. CASE DecodePlane BY <1>3 DEF DecodePlane
<1>4. CASE DecodeStage BY <1>4 DEF DecodeStage
<1>5. CASE DecodeRefinement BY <1>5 DEF DecodeRefinement
<1>6. CASE CloseSegment BY <1>6 DEF CloseSegment
<1>7. CASE Unpack BY <1>7 DEF Unpack
<1>8. CASE Unscale BY <1>8 DEF Unscale
<1>9. CASE InverseColumns BY <1>9 DEF InverseColumns
<1>10. CASE InverseRows BY <1>10 DEF InverseRows
<1>11. QED BY <1>1, <1>2, <1>3, <1>4, <1>5, <1>6, <1>7, <1>8, <1>9, <1>10

\* Every step keeps TransformInv.
LEMMA TransformStep == TransformInv /\ [Next]_vars => TransformInv'
<1> SUFFICES ASSUME TransformInv, [Next]_vars PROVE TransformInv'
  OBVIOUS
<1> USE DEF Goto
<1> DEFINE Same == UNCHANGED <<input, subbands>>
           Shapes == /\ Source1' = Source1 /\ Source2' = Source2 /\ Source3' = Source3
                     /\ Subbands1' = Subbands1 /\ Subbands2' = Subbands2 /\ Subbands3' = Subbands3
<1>0. ASSUME input' = input PROVE Shapes
  BY <1>0 DEF Source1, Source2, Source3, Made, Subbands1, Subbands2, Subbands3, ScaledQuarters
<1> HIDE DEF Shapes
<1>1. CASE Preprocess
  BY <1>1, <1>0 DEF Preprocess, TransformInv, Source1
<1>2. CASE TransformRows
  <2>1. Shapes /\ input' = input /\ subbands' = subbands /\ work' = Halves(work)
    BY <1>2, <1>0 DEF TransformRows
  <2>2. pc.at = "rows" /\ pc' = [at |-> "columns", level |-> pc.level]
    BY <1>2 DEF TransformRows
  <2>3. QED BY <2>1, <2>2 DEF TransformInv, Shapes
<1>3. CASE TransformColumns
  BY <1>3, ColumnsAdd
\* While segments are coded the subbands stay.
<1>4. ASSUME Assemble \/ EncodeHead \/ EncodePlane \/ EncodeStage \/ EncodeRefinement \/ FinishSegment
      PROVE  TransformInv'
  <2>1. Shapes /\ input' = input /\ subbands' = subbands
    BY <1>4, <1>0 DEF Assemble, EncodeHead, EncodePlane, EncodeStage, EncodeRefinement, FinishSegment, images
  <2>2. /\ pc.at \in {"assemble", "head", "plane", "stage", "refine", "flush"}
        /\ pc'.at \in {"assemble", "head", "plane", "stage", "refine", "flush", "open"}
    <3>1. CASE Assemble BY <3>1 DEF Assemble
    <3>2. CASE EncodeHead BY <3>2 DEF EncodeHead
    <3>3. CASE EncodePlane
      <4>1. pc.at = "plane" /\ pc' = [at |-> "stage", level |-> 1]
        BY <3>3, Zenon DEF EncodePlane
      <4>2. QED BY <4>1
    <3>4. CASE EncodeStage
      <4>1. /\ pc.at = "stage"
            /\ \/ pc' = [at |-> "stage", level |-> pc.level + 1]
               \/ pc' = [at |-> "refine", level |-> 0]
        BY <3>4, Zenon DEF EncodeStage
      <4>2. QED BY <4>1
    <3>5. CASE EncodeRefinement BY <3>5 DEF EncodeRefinement
    <3>6. CASE FinishSegment BY <3>6 DEF FinishSegment
    <3>7. QED BY <1>4, <3>1, <3>2, <3>3, <3>4, <3>5, <3>6
  <2>3. QED BY <2>1, <2>2 DEF TransformInv, Shapes
<1>5. ASSUME \/ DecodeHead \/ DecodePlane \/ DecodeStage \/ DecodeRefinement \/ CloseSegment
             \/ Unpack \/ Unscale \/ InverseColumns \/ InverseRows
      PROVE  TransformInv'
  BY <1>5, DecoderGoesOn DEF TransformInv
<1>6. CASE UNCHANGED vars
  <2>1. Shapes /\ UNCHANGED <<input, pc, work, subbands>>
    BY <1>6, <1>0 DEF vars, images
  <2>2. QED BY <2>1 DEF TransformInv, Shapes
<1>7. CASE Done
  BY <1>6, <1>7 DEF Done
<1>8. QED BY <1>1, <1>2, <1>3, <1>4, <1>5, <1>6, <1>7 DEF Next

\* Every level makes quarters that its inverse makes its image of, and there are enough
\* coefficients for the next one.
LEMMA LevelsAre ==
  ASSUME input \in Inputs
  PROVE  \E m, n \in Nat :
           /\ m >= 3 /\ n >= 3
           /\ Source1 \in ImageSet(2 * (2 * (2 * m)), 2 * (2 * (2 * n)))
           /\ LET q == Made(Source1)
              IN /\ {q.ll, q.hl, q.lh, q.hh} \subseteq ImageSet(2 * (2 * m), 2 * (2 * n))
                 /\ JoinedRows(JoinedColumns(transpose(q.ll), q.hl, q.lh, q.hh, 0)) = transpose(Source1)
           /\ LET q == Made(Source2)
              IN /\ {q.ll, q.hl, q.lh, q.hh} \subseteq ImageSet(2 * m, 2 * n)
                 /\ JoinedRows(JoinedColumns(transpose(q.ll), q.hl, q.lh, q.hh, 0)) = transpose(Source2)
           /\ LET q == Made(Source3)
              IN /\ {q.ll, q.hl, q.lh, q.hh} \subseteq ImageSet(m, n)
                 /\ JoinedRows(JoinedColumns(transpose(q.ll), q.hl, q.lh, q.hh, 0)) = transpose(Source3)
<1>1. input \in Inputs
  OBVIOUS
<1> DEFINE image == input.image
           shift(n) == input.bit_shifts[n]
           q1 == Made(Source1)
           q2 == Made(Source2)
           q3 == Made(Source3)
<1>a. /\ image \in [width : Nat, height : Nat,
                     at : [0..(image.height - 1) -> [0..(image.width - 1) -> Int]]]
      /\ image.width >= 17 /\ image.height >= 17
  BY <1>1, InputAssumption DEF min_width, min_height
<1>b. \A n \in 1..10 : shift(n) \in Nat
  <2>1. input.bit_shifts \in [1..10 -> 0..max_scale_shift] /\ max_scale_shift \in Nat
    BY <1>1, InputAssumption, GaggleAssumption
  <2>2. QED BY <2>1
<1>2. /\ image.width \in Nat /\ image.width >= 17
      /\ image.height \in Nat /\ image.height >= 17
      /\ \A n \in 1..10 : shift(n) \in Nat
  BY <1>a, <1>b
<1>3. image \in ImageSet(image.width, image.height)
  BY <1>a DEF ImageSet, RowSet
<1>4. PICK m \in Nat, n \in Nat :
        /\ m >= 3 /\ PaddedTo(image.width) = 2 * (2 * (2 * m))
        /\ n >= 3 /\ PaddedTo(image.height) = 2 * (2 * (2 * n))
  BY <1>2, PaddedIs
<1>5. Source1 \in ImageSet(2 * (2 * (2 * m)), 2 * (2 * (2 * n)))
  <2>1. Padded(image) \in ImageSet(PaddedTo(image.width), PaddedTo(image.height))
    <3>1. image.width >= 1 /\ image.height >= 1
      BY <1>2
    <3> HIDE DEF image
    <3>2. QED BY <1>2, <1>3, <3>1, PaddedImage
  <2>2. QED BY <1>4, <2>1 DEF Source1
<1>6. /\ q1.ll \in ImageSet(2 * (2 * m), 2 * (2 * n)) /\ q1.hl \in ImageSet(2 * (2 * m), 2 * (2 * n))
      /\ q1.lh \in ImageSet(2 * (2 * m), 2 * (2 * n)) /\ q1.hh \in ImageSet(2 * (2 * m), 2 * (2 * n))
      /\ JoinedRows(JoinedColumns(transpose(q1.ll), q1.hl, q1.lh, q1.hh, 0)) = transpose(Source1)
  <2>1. 2 * (2 * m) \in Nat /\ 2 * (2 * m) >= 3 /\ 2 * (2 * n) \in Nat /\ 2 * (2 * n) >= 3
    BY <1>4
  <2> HIDE DEF q1
  <2>2. q1 = Quarters(Halves(Source1))
    BY DEF q1, Made
  <2>3. QED BY <1>5, <2>1, <2>2, LevelRestored
<1>7. /\ q2.ll \in ImageSet(2 * m, 2 * n) /\ q2.hl \in ImageSet(2 * m, 2 * n)
      /\ q2.lh \in ImageSet(2 * m, 2 * n) /\ q2.hh \in ImageSet(2 * m, 2 * n)
      /\ JoinedRows(JoinedColumns(transpose(q2.ll), q2.hl, q2.lh, q2.hh, 0)) = transpose(Source2)
  <2>1. 2 * m \in Nat /\ 2 * m >= 3 /\ 2 * n \in Nat /\ 2 * n >= 3
    BY <1>4
  <2>2. Source2 \in ImageSet(2 * (2 * m), 2 * (2 * n))
    BY <1>6 DEF Source2
  <2> HIDE DEF q2
  <2>3. q2 = Quarters(Halves(Source2))
    BY DEF q2, Made
  <2>4. QED BY <2>1, <2>2, <2>3, LevelRestored
<1>8. /\ q3.ll \in ImageSet(m, n) /\ q3.hl \in ImageSet(m, n)
      /\ q3.lh \in ImageSet(m, n) /\ q3.hh \in ImageSet(m, n)
      /\ JoinedRows(JoinedColumns(transpose(q3.ll), q3.hl, q3.lh, q3.hh, 0)) = transpose(Source3)
  <2>1. Source3 \in ImageSet(2 * m, 2 * n)
    BY <1>7 DEF Source3
  <2> HIDE DEF q3
  <2>2. q3 = Quarters(Halves(Source3))
    BY DEF q3, Made
  <2>3. QED BY <1>4, <2>1, <2>2, LevelRestored
<1>9. QED BY <1>4, <1>5, <1>6, <1>7, <1>8

\* The ten subbands are the quarters of the levels, scaled.
LEMMA SubbandsAre ==
  ASSUME input \in Inputs
  PROVE  LET shift(k) == input.bit_shifts[k]
             q1 == Made(Source1)  q2 == Made(Source2)  q3 == Made(Source3)
         IN /\ Subbands3[1] = scaled(q3.ll, shift(1)) /\ Subbands3[2] = scaled(q3.hl, shift(2))
            /\ Subbands3[3] = scaled(q3.lh, shift(3)) /\ Subbands3[4] = scaled(q3.hh, shift(4))
            /\ Subbands3[5] = scaled(q2.hl, shift(5)) /\ Subbands3[6] = scaled(q2.lh, shift(6))
            /\ Subbands3[7] = scaled(q2.hh, shift(7)) /\ Subbands3[8] = scaled(q1.hl, shift(8))
            /\ Subbands3[9] = scaled(q1.lh, shift(9)) /\ Subbands3[10] = scaled(q1.hh, shift(10))
<1> DEFINE shift(n) == input.bit_shifts[n]
           q1 == Made(Source1)
           q2 == Made(Source2)
           q3 == Made(Source3)
<1> HIDE DEF q1, q2, q3
<1>1. Subbands3
        = <<scaled(q3.ll, shift(1))>>
            \o <<scaled(q3.hl, shift(2)), scaled(q3.lh, shift(3)), scaled(q3.hh, shift(4))>>
            \o (<<>> \o <<scaled(q2.hl, shift(5)), scaled(q2.lh, shift(6)), scaled(q2.hh, shift(7))>>
            \o (<<>> \o <<scaled(q1.hl, shift(8)), scaled(q1.lh, shift(9)), scaled(q1.hh, shift(10))>>
            \o <<>>))
  BY DEF Subbands1, Subbands2, Subbands3, ScaledQuarters, q1, q2, q3
<1> HIDE DEF shift
<1>2. /\ Subbands3[1] = scaled(q3.ll, shift(1)) /\ Subbands3[2] = scaled(q3.hl, shift(2))
      /\ Subbands3[3] = scaled(q3.lh, shift(3)) /\ Subbands3[4] = scaled(q3.hh, shift(4))
      /\ Subbands3[5] = scaled(q2.hl, shift(5)) /\ Subbands3[6] = scaled(q2.lh, shift(6))
      /\ Subbands3[7] = scaled(q2.hh, shift(7)) /\ Subbands3[8] = scaled(q1.hl, shift(8))
      /\ Subbands3[9] = scaled(q1.lh, shift(9)) /\ Subbands3[10] = scaled(q1.hh, shift(10))
  BY <1>1, TenOf
<1>3. QED BY <1>2 DEF shift, q1, q2, q3

\* Where the subbands are complete, three inverse levels make the image of them.
LEMMA Restored ==
  ASSUME TransformInv, pc.at = "assemble"
  PROVE  Inverted = Padded(input.image)
<1>1. input \in Inputs /\ subbands = Subbands3
  BY DEF TransformInv
<1> DEFINE shift(n) == input.bit_shifts[n]
           q1 == Made(Source1)
           q2 == Made(Source2)
           q3 == Made(Source3)
<1>2. \A n \in 1..10 : shift(n) \in Nat
  <2>1. input.bit_shifts \in [1..10 -> 0..max_scale_shift] /\ max_scale_shift \in Nat
    BY <1>1, InputAssumption, GaggleAssumption
  <2>2. QED BY <2>1
<1>3. PICK m \in Nat, n \in Nat :
        /\ Source1 \in ImageSet(2 * (2 * (2 * m)), 2 * (2 * (2 * n)))
        /\ {q1.ll, q1.hl, q1.lh, q1.hh} \subseteq ImageSet(2 * (2 * m), 2 * (2 * n))
        /\ JoinedRows(JoinedColumns(transpose(q1.ll), q1.hl, q1.lh, q1.hh, 0)) = transpose(Source1)
        /\ {q2.ll, q2.hl, q2.lh, q2.hh} \subseteq ImageSet(2 * m, 2 * n)
        /\ JoinedRows(JoinedColumns(transpose(q2.ll), q2.hl, q2.lh, q2.hh, 0)) = transpose(Source2)
        /\ {q3.ll, q3.hl, q3.lh, q3.hh} \subseteq ImageSet(m, n)
        /\ JoinedRows(JoinedColumns(transpose(q3.ll), q3.hl, q3.lh, q3.hh, 0)) = transpose(Source3)
  <2> HIDE DEF shift
  <2>1. QED BY <1>1, LevelsAre
<1>9. /\ subbands[1] = scaled(q3.ll, shift(1)) /\ subbands[2] = scaled(q3.hl, shift(2))
      /\ subbands[3] = scaled(q3.lh, shift(3)) /\ subbands[4] = scaled(q3.hh, shift(4))
      /\ subbands[5] = scaled(q2.hl, shift(5)) /\ subbands[6] = scaled(q2.lh, shift(6))
      /\ subbands[7] = scaled(q2.hh, shift(7)) /\ subbands[8] = scaled(q1.hl, shift(8))
      /\ subbands[9] = scaled(q1.lh, shift(9)) /\ subbands[10] = scaled(q1.hh, shift(10))
  BY <1>1, SubbandsAre
<1> DEFINE U(k) == unscaled(subbands[k], input.bit_shifts[k])
<1>10. /\ U(1) = q3.ll /\ U(2) = q3.hl /\ U(3) = q3.lh /\ U(4) = q3.hh
       /\ U(5) = q2.hl /\ U(6) = q2.lh /\ U(7) = q2.hh
       /\ U(8) = q1.hl /\ U(9) = q1.lh /\ U(10) = q1.hh
  <2> HIDE DEF q1, q2, q3
  <2>2. \A k \in 1..10 : shift(k) \in Nat
    BY <1>2
  <2>3. /\ unscaled(scaled(q3.ll, shift(1)), shift(1)) = q3.ll
        /\ unscaled(scaled(q3.hl, shift(2)), shift(2)) = q3.hl
        /\ unscaled(scaled(q3.lh, shift(3)), shift(3)) = q3.lh
        /\ unscaled(scaled(q3.hh, shift(4)), shift(4)) = q3.hh
    BY <1>3, <2>2, UnscaledScaled
  <2>4. /\ unscaled(scaled(q2.hl, shift(5)), shift(5)) = q2.hl
        /\ unscaled(scaled(q2.lh, shift(6)), shift(6)) = q2.lh
        /\ unscaled(scaled(q2.hh, shift(7)), shift(7)) = q2.hh
    BY <1>3, <2>2, UnscaledScaled
  <2>5. /\ unscaled(scaled(q1.hl, shift(8)), shift(8)) = q1.hl
        /\ unscaled(scaled(q1.lh, shift(9)), shift(9)) = q1.lh
        /\ unscaled(scaled(q1.hh, shift(10)), shift(10)) = q1.hh
    BY <1>3, <2>2, UnscaledScaled
  <2>6. QED BY <1>9, <2>3, <2>4, <2>5
<1> DEFINE joined3 == JoinedRows(JoinedColumns(transpose(U(1)), U(2), U(3), U(4), 0))
           joined2 == JoinedRows(JoinedColumns(joined3, U(5), U(6), U(7), 0))
           joined1 == JoinedRows(JoinedColumns(joined2, U(8), U(9), U(10), 0))
<1>11. Inverted = transpose(joined1)
  BY DEF Inverted
<1> HIDE DEF U
<1>12. joined3 = transpose(q2.ll)
  BY <1>3, <1>10 DEF Source3
<1>13. joined2 = transpose(q1.ll)
  <2> HIDE DEF joined3
  <2>1. QED BY <1>3, <1>10, <1>12 DEF Source2
<1>14. joined1 = transpose(Source1)
  <2> HIDE DEF joined2
  <2>1. QED BY <1>3, <1>10, <1>13
<1>15. transpose(transpose(Source1)) = Source1
  BY <1>3, TransposeIs
<1> HIDE DEF joined1
<1>16. QED BY <1>11, <1>14, <1>15 DEF Source1

\* The transform by itself loses nothing, whatever the image, its size and the shifts:
\* the codec's subbands determine the padded image, and the inverse filters compute it.
THEOREM TransformKeepsImage == Spec => []TransformReversible
<1>1. TransformInv => TransformReversible
  BY Restored DEF TransformReversible
<1>2. QED BY <1>1, TransformInitial, TransformStep, PTL DEF Spec

----------------------------------------------------------------------------
(* Segments of scaled coefficients. *)

\* The greatest of finitely many naturals is one of them.
LEMMA LargestOf ==
  ASSUME NEW n \in Nat \ {0}, NEW f \in [1..n -> Nat]
  PROVE  LET S == {f[j] : j \in 1..n}
         IN Largest(S) \in S /\ \A m \in S : m <= Largest(S)
<1> DEFINE S == {f[j] : j \in 1..n}
           B == {k \in 0..n : \E u \in Nat : \A j \in 1..k : f[j] <= u} \cup {k \in Nat : k > n}
           U == {u \in Nat : \A m \in S : m <= u}
<1>1. U # {}
  <2>1. 0 \in B
    OBVIOUS
  <2>2. ASSUME NEW k \in Nat, k \in B PROVE k + 1 \in B
    <3>1. CASE k >= n
      BY <3>1
    <3>2. CASE k < n
      <4>1. PICK u \in Nat : \A j \in 1..k : f[j] <= u
        BY <2>2, <3>2
      <4>2. f[k + 1] \in Nat
        BY <3>2
      <4> DEFINE v == u + f[k + 1]
      <4>3. ASSUME NEW j \in 1..(k + 1) PROVE f[j] <= v
        <5>1. f[j] \in Nat
          BY <3>2
        <5>2. CASE j = k + 1
          BY <4>1, <4>2, <5>2
        <5>3. CASE j \in 1..k
          <6>1. f[j] <= u
            BY <4>1, <5>3
          <6>2. QED BY <4>2, <5>1, <6>1
        <5>4. QED BY <5>2, <5>3
      <4>a. v \in Nat
        BY <4>2
      <4> HIDE DEF v
      <4>4. QED BY <3>2, <4>3, <4>a, SMTT(20)
    <3>3. QED BY <3>1, <3>2
  <2>3. B \subseteq Nat
    OBVIOUS
  <2> HIDE DEF B
  <2>4. n \in B
    BY <2>1, <2>2, <2>3, Induction
  <2>5. PICK u \in Nat : \A j \in 1..n : f[j] <= u
    BY <2>4 DEF B
  <2>6. QED BY <2>5
<1>2. PICK u \in U : \A v \in U : u <= v
  <2>1. U \subseteq Nat
    OBVIOUS
  <2> HIDE DEF U
  <2>2. QED BY <1>1, <2>1, Least
<1>3. u \in S
  <2>1. SUFFICES ASSUME u \notin S PROVE FALSE
    OBVIOUS
  <2>2. f[1] \in S /\ f[1] \in Nat
    OBVIOUS
  <2>3. ASSUME NEW m \in S PROVE m \in Nat /\ m < u
    <3>1. m \in Nat
      OBVIOUS
    <3>2. u \in Nat /\ m <= u /\ m # u
      BY <1>2, <2>1
    <3>3. QED BY <3>1, <3>2
  <2>4. u - 1 \in Nat
    BY <1>2, <2>2, <2>3
  <2>5. u - 1 \in U
    BY <2>3, <2>4
  <2>6. u <= u - 1
    BY <1>2, <2>5
  <2>7. QED BY <2>4, <2>6
<1>4. u \in S /\ \A m \in S : m <= u
  BY <1>2, <1>3
<1> HIDE DEF S
<1>5. QED BY <1>4 DEF Largest, S

\* A bitmap of a subband: its dimensions, and values that are multiples of a power of two.
Multiple(x, s) == \E v \in Int : x = v * 2^s
SideOf(k) == IF k <= 4 THEN 1 ELSE IF k <= 7 THEN 2 ELSE 4
ScaledBy(subband, w, h, s) ==
  /\ subband.width = w /\ subband.height = h
  /\ \A r \in 0..(h - 1), c \in 0..(w - 1) : Multiple(subband.at[r][c], s)
Scaled10(all, m, n) ==
  \A k \in 1..10 : ScaledBy(all[k], SideOf(k) * m, SideOf(k) * n, input.bit_shifts[k])

\* A scaled bitmap is one.
LEMMA ScaledIs ==
  ASSUME NEW w, NEW h, NEW q \in ImageSet(w, h), NEW s
  PROVE  ScaledBy(scaled(q, s), w, h, s)
<1>1. q.width = w /\ q.height = h
  BY DEF ImageSet
<1>2. scaled(q, s) = [width |-> w, height |-> h,
            at |-> [r \in 0..(h - 1) |-> [c \in 0..(w - 1) |-> q.at[r][c] * 2^s]]]
  BY <1>1, EvaluatedIs DEF scaled, Bitmap
<1>3. \A r \in 0..(h - 1), c \in 0..(w - 1) : q.at[r][c] \in Int
  BY DEF ImageSet, RowSet
<1>4. QED BY <1>2, <1>3 DEF ScaledBy, Multiple

\* All ten subbands are.
LEMMA SubbandsScaled ==
  ASSUME input \in Inputs
  PROVE  \E m, n \in Nat : m >= 3 /\ n >= 3 /\ Scaled10(Subbands3, m, n)
<1> DEFINE shift(k) == input.bit_shifts[k]
           q1 == Made(Source1)
           q2 == Made(Source2)
           q3 == Made(Source3)
<1>1. PICK m \in Nat, n \in Nat :
        /\ m >= 3 /\ n >= 3
        /\ {q1.ll, q1.hl, q1.lh, q1.hh} \subseteq ImageSet(2 * (2 * m), 2 * (2 * n))
        /\ {q2.ll, q2.hl, q2.lh, q2.hh} \subseteq ImageSet(2 * m, 2 * n)
        /\ {q3.ll, q3.hl, q3.lh, q3.hh} \subseteq ImageSet(m, n)
  BY LevelsAre
<1>2. /\ Subbands3[1] = scaled(q3.ll, shift(1)) /\ Subbands3[2] = scaled(q3.hl, shift(2))
      /\ Subbands3[3] = scaled(q3.lh, shift(3)) /\ Subbands3[4] = scaled(q3.hh, shift(4))
      /\ Subbands3[5] = scaled(q2.hl, shift(5)) /\ Subbands3[6] = scaled(q2.lh, shift(6))
      /\ Subbands3[7] = scaled(q2.hh, shift(7)) /\ Subbands3[8] = scaled(q1.hl, shift(8))
      /\ Subbands3[9] = scaled(q1.lh, shift(9)) /\ Subbands3[10] = scaled(q1.hh, shift(10))
  BY SubbandsAre
<1> HIDE DEF q1, q2, q3, shift
<1>3. /\ ScaledBy(Subbands3[1], m, n, shift(1)) /\ ScaledBy(Subbands3[2], m, n, shift(2))
      /\ ScaledBy(Subbands3[3], m, n, shift(3)) /\ ScaledBy(Subbands3[4], m, n, shift(4))
  BY <1>1, <1>2, ScaledIs
<1>4. /\ ScaledBy(Subbands3[5], 2 * m, 2 * n, shift(5)) /\ ScaledBy(Subbands3[6], 2 * m, 2 * n, shift(6))
      /\ ScaledBy(Subbands3[7], 2 * m, 2 * n, shift(7))
  BY <1>1, <1>2, ScaledIs
<1>5. /\ ScaledBy(Subbands3[8], 2 * (2 * m), 2 * (2 * n), shift(8))
      /\ ScaledBy(Subbands3[9], 2 * (2 * m), 2 * (2 * n), shift(9))
      /\ ScaledBy(Subbands3[10], 2 * (2 * m), 2 * (2 * n), shift(10))
  BY <1>1, <1>2, ScaledIs
<1>6. m = 1 * m /\ n = 1 * n /\ 2 * (2 * m) = 4 * m /\ 2 * (2 * n) = 4 * n
  OBVIOUS
<1>7. ASSUME NEW k \in 1..10
      PROVE  ScaledBy(Subbands3[k], SideOf(k) * m, SideOf(k) * n, shift(k))
  <2>1. CASE k \in {1, 2, 3, 4}
    <3>1. SideOf(k) = 1
      BY <2>1 DEF SideOf
    <3>2. QED BY <1>3, <1>6, <2>1, <3>1
  <2>2. CASE k \in {5, 6, 7}
    <3>1. SideOf(k) = 2
      BY <2>2 DEF SideOf
    <3>2. QED BY <1>4, <2>2, <3>1
  <2>3. CASE k \in {8, 9, 10}
    <3>1. SideOf(k) = 4
      BY <2>3 DEF SideOf
    <3>2. QED BY <1>5, <1>6, <2>3, <3>1
  <2>4. k \in {1, 2, 3, 4} \cup {5, 6, 7} \cup {8, 9, 10}
    OBVIOUS
  <2>5. QED BY <2>1, <2>2, <2>3, <2>4
<1>8. QED BY <1>1, <1>7 DEF Scaled10, shift

\* The amount by which a coefficient of a block is shifted.
ShiftOf(c) == input.bit_shifts[Subband(c) + 1]

\* Where a coefficient of a block is taken from.
LEMMA PlaceOf ==
  ASSUME NEW c \in 1..63
  PROVE  /\ Subband(c) + 1 \in 2..10
         /\ 2^Level(c) = SideOf(Subband(c) + 1)
         /\ Offset(c)[1] \in 0..(SideOf(Subband(c) + 1) - 1)
         /\ Offset(c)[2] \in 0..(SideOf(Subband(c) + 1) - 1)
<1>1. CASE c \in 1..3
  <2>1. Level(c) = 0 /\ Subband(c) = c
    BY <1>1 DEF Level, Subband
  <2>2. SideOf(c + 1) = 1 /\ 2^0 = 1
    BY <1>1 DEF SideOf
  <2>3. Offset(c) = <<0, 0>>
    BY <2>1 DEF Offset
  <2>4. QED BY <1>1, <2>1, <2>2, <2>3
<1>2. CASE c \in 4..15
  <2>1. Level(c) = 1 /\ Subband(c) = 4 + (c - 4) \div 4 /\ Subband(c) \in 4..6
    BY <1>2 DEF Level, Subband
  <2>2. SideOf(Subband(c) + 1) = 2 /\ 2^1 = 2
    BY <2>1 DEF SideOf
  <2>3. Offset(c) = <<(c % 4) \div 2, c % 2>>
    BY <2>1 DEF Offset
  <2>4. (c % 4) \div 2 \in 0..1 /\ c % 2 \in 0..1
    OBVIOUS
  <2>5. QED BY <2>1, <2>2, <2>3, <2>4
<1>3. CASE c \in 16..63
  <2>1. Level(c) = 2 /\ Subband(c) = 7 + (c - 16) \div 16 /\ Subband(c) \in 7..9
    BY <1>3 DEF Level, Subband
  <2>2. SideOf(Subband(c) + 1) = 4 /\ 2^2 = 4
    BY <2>1 DEF SideOf
  <2> DEFINE group == (c % 16) \div 4
  <2>3. Offset(c) = <<2 * (group \div 2) + ((c % 4) \div 2), 2 * (group % 2) + (c % 2)>>
    BY <2>1 DEF Offset
  <2>4. group \in 0..3
    OBVIOUS
  <2>5. group \div 2 \in 0..1 /\ group % 2 \in 0..1 /\ (c % 4) \div 2 \in 0..1 /\ c % 2 \in 0..1
    <3> HIDE DEF group
    <3>1. QED BY <2>4
  <2> HIDE DEF group
  <2>6. QED BY <2>1, <2>2, <2>3, <2>5
<1>4. QED BY <1>1, <1>2, <1>3

\* A coefficient of a packed block is a multiple of its subband's scale.
LEMMA PackedScaled ==
  ASSUME NEW m \in Nat, m >= 3, NEW n \in Nat, n >= 3, NEW all, Scaled10(all, m, n),
         NEW block \in 0..(m * n - 1), NEW c \in 1..63
  PROVE  Multiple(Packed(all, block)[c], ShiftOf(c))
<1> DEFINE k == Subband(c) + 1
           row == block \div m
           col == block % m
           side == SideOf(k)
           r == row * side + Offset(c)[1]
           q == col * side + Offset(c)[2]
<1>1. /\ k \in 2..10 /\ 2^Level(c) = side
      /\ Offset(c)[1] \in 0..(side - 1) /\ Offset(c)[2] \in 0..(side - 1)
  BY PlaceOf
<1>2. all[1].width = m
  <2>1. all[1].width = SideOf(1) * m /\ SideOf(1) = 1
    BY DEF Scaled10, ScaledBy, SideOf
  <2>2. QED BY <2>1
<1>3. row \in 0..(n - 1) /\ col \in 0..(m - 1)
  <2>1. m * n \in Nat /\ block \in Nat /\ block < m * n
    OBVIOUS
  <2>2. \A a \in Nat, b \in Nat \ {0}, d \in Nat : a < b * d => a \div b < d /\ a \div b >= 0
    OBVIOUS
  <2>3. row < n /\ row >= 0 /\ row \in Int
    BY <2>1, <2>2
  <2>4. QED BY <2>3
<1>4. side \in {1, 2, 4}
  BY DEF SideOf
<1>5. r \in 0..(side * n - 1) /\ q \in 0..(side * m - 1)
  <2> HIDE DEF side, row, col
  <2>1. QED BY <1>1, <1>3, <1>4
<1>6. Multiple(all[k].at[r][q], input.bit_shifts[k])
  <2> HIDE DEF r, q, side
  <2>1. ScaledBy(all[k], SideOf(k) * m, SideOf(k) * n, input.bit_shifts[k])
    BY <1>1 DEF Scaled10
  <2>2. QED BY <1>5, <2>1 DEF ScaledBy, side
<1>7. Packed(all, block)[c] = all[k].at[r][q]
  <2>1. c \in 0..63 /\ c # 0
    OBVIOUS
  <2>2. Packed(all, block)[c]
          = all[Subband(c) + 1].at[row * 2^Level(c) + Offset(c)[1]][col * 2^Level(c) + Offset(c)[2]]
    BY <1>2, <2>1 DEF Packed
  <2> HIDE DEF side
  <2>3. QED BY <1>1, <2>2
<1>8. QED BY <1>6, <1>7 DEF ShiftOf

\* The segments of an image: there is one, none is empty, and none reaches beyond the
\* blocks of the image.
LEMMA SizesAre ==
  ASSUME NEW blocks \in Nat \ {0}, NEW s \in Nat
  PROVE  LET sizes == SegmentSizes(blocks, s)
             first(k) == IF s = 0 THEN 0 ELSE (k - 1) * s
         IN /\ Len(sizes) \in Nat \ {0}
            /\ \A k \in 1..Len(sizes) : /\ sizes[k] \in Nat \ {0} /\ first(k) \in Nat
                                        /\ first(k) + sizes[k] <= blocks
<1> DEFINE size == IF s = 0 THEN blocks ELSE s
           count == (blocks + size - 1) \div size
           sizes == SegmentSizes(blocks, s)
           first(k) == IF s = 0 THEN 0 ELSE (k - 1) * s
<1>1. size \in Nat \ {0}
  OBVIOUS
<1>2. sizes = [k \in 1..count |-> IF k < count THEN size ELSE blocks - (count - 1) * size]
  BY DEF SegmentSizes
<1>3. count \in Nat /\ count * size <= blocks + size - 1 /\ blocks + size - 1 < (count + 1) * size
  <2>1. \A a \in Nat, b \in Nat \ {0} : /\ a \div b \in Nat /\ (a \div b) * b <= a
                                        /\ a < ((a \div b) + 1) * b
    OBVIOUS
  <2> HIDE DEF size
  <2>2. blocks + size - 1 \in Nat
    BY <1>1
  <2>3. QED BY <1>1, <2>1, <2>2
<1>4. count # 0 /\ (s = 0 => count = 1)
  <2>1. count # 0
    <3> HIDE DEF size, count
    <3>1. SUFFICES ASSUME count = 0 PROVE FALSE
      OBVIOUS
    <3>2. (0 + 1) * size = size
      BY <1>1
    <3>3. QED BY <1>1, <1>3, <3>1, <3>2
  <2>2. ASSUME s = 0 PROVE count = 1
    <3>1. size = blocks
      BY <2>2
    <3> HIDE DEF count, size
    <3>2. SUFFICES ASSUME count >= 2 PROVE FALSE
      BY <1>3, <2>1
    <3>3. count * blocks >= 2 * blocks
      BY <1>3, <3>2
    <3>4. QED BY <1>3, <3>1, <3>3
  <2>3. QED BY <2>1, <2>2
<1> HIDE DEF count, sizes
<1>5. Len(sizes) = count /\ \A k \in 1..count : sizes[k] = IF k < count THEN size ELSE blocks - (count - 1) * size
  BY <1>2, <1>3
<1>6. (count - 1) * size \in Nat /\ (count - 1) * size <= blocks - 1
  <2> HIDE DEF size
  <2>1. (count - 1) * size = count * size - size
    BY <1>1, <1>3
  <2>2. count - 1 \in Nat
    BY <1>3, <1>4
  <2>3. \A a \in Nat, b \in Nat : a * b \in Nat
    OBVIOUS
  <2>4. (count - 1) * size \in Nat
    BY <1>1, <2>2, <2>3
  <2>5. count * size \in Int
    BY <1>1, <1>3
  <2>6. QED BY <1>1, <1>3, <2>1, <2>4, <2>5
<1>7. ASSUME NEW k \in 1..count
      PROVE  sizes[k] \in Nat \ {0} /\ first(k) \in Nat /\ first(k) + sizes[k] <= blocks
  <2>1. CASE k < count
    <3>1. sizes[k] = size
      BY <1>5, <2>1
    <3>2. s # 0 /\ size = s
      BY <1>4, <2>1
    <3>3. (k - 1) * size \in Nat /\ (k - 1) * size + size <= (count - 1) * size
      <4> HIDE DEF size
      <4>1. k \in Nat /\ k - 1 \in Nat /\ k <= count - 1 /\ count - 1 \in Nat
        BY <1>3, <1>4, <2>1
      <4>2. \A a \in Nat, b \in Nat, d \in Nat : a + 1 <= b => /\ a * d \in Nat
                                                              /\ a * d + d <= b * d
        OBVIOUS
      <4>3. (k - 1) + 1 <= count - 1
        BY <4>1
      <4>4. QED BY <1>1, <4>1, <4>2, <4>3
    <3> HIDE DEF size
    <3>4. QED BY <1>1, <1>6, <3>1, <3>2, <3>3
  <2>2. CASE ~(k < count)
    <3>1. k = count
      BY <1>3, <2>2
    <3>2. sizes[k] = blocks - (count - 1) * size
      BY <1>5, <3>1
    <3>3. first(k) = (count - 1) * size
      <4>1. CASE s = 0
        <5>1. (count - 1) * size = 0
          BY <1>4, <4>1
        <5>2. QED BY <4>1, <5>1
      <4>2. CASE s # 0
        BY <3>1, <4>2
      <4>3. QED BY <4>1, <4>2
    <3> HIDE DEF size, first
    <3>4. QED BY <1>6, <3>2, <3>3
  <2>3. QED BY <2>1, <2>2
<1>8. QED BY <1>3, <1>4, <1>5, <1>7 DEF sizes

\* The segment that is assembled of some blocks: it has them, and a bit depth.
LEMMA SegmentIs ==
  ASSUME NEW m \in Nat, m >= 3, NEW n \in Nat, n >= 3, NEW all, Scaled10(all, m, n),
         NEW first \in Nat, NEW size \in Nat \ {0}, first + size <= m * n, input \in Inputs
  PROVE  LET s == SegmentOf(all, input.bit_shifts, first, size)
         IN /\ s.size = size /\ s.bit_shifts = input.bit_shifts /\ s.bdepthAc \in Nat
            /\ \A j \in 1..size, c \in 1..63 : Multiple(s.data[j][c], ShiftOf(c))
<1> DEFINE blocks == [j \in 1..size |-> Packed(all, first + j - 1)]
           depths == [j \in 1..size |-> BlockDepth(blocks[j])]
           s == SegmentOf(all, input.bit_shifts, first, size)
<1>1. Len(blocks) = size
  OBVIOUS
<1>2. /\ s.size = size /\ s.bit_shifts = input.bit_shifts /\ s.data = blocks
      /\ s.bdepthAc = Largest({depths[j] : j \in 1..size})
  <2> HIDE DEF blocks
  <2>1. QED BY <1>1 DEF SegmentOf, Assembled, blocks
<1>3. ASSUME NEW j \in 1..size, NEW c \in 1..63
      PROVE  Multiple(blocks[j][c], ShiftOf(c))
  <2>1. first + j - 1 \in 0..(m * n - 1)
    <3>1. m * n \in Nat
      OBVIOUS
    <3>2. QED BY <3>1
  <2>2. Multiple(Packed(all, first + j - 1)[c], ShiftOf(c))
    <3> HIDE DEF blocks, depths, s
    <3>1. PICK block \in 0..(m * n - 1) : block = first + j - 1
      BY <2>1
    <3>2. Multiple(Packed(all, block)[c], ShiftOf(c))
      BY PackedScaled
    <3>3. QED BY <3>1, <3>2
  <2>3. blocks[j] = Packed(all, first + j - 1)
    OBVIOUS
  <2> HIDE DEF blocks
  <2>4. QED BY <2>2, <2>3
<1>4. ASSUME NEW c \in 1..63 PROVE 2^ShiftOf(c) \in Nat \ {0}
  <2>1. input.bit_shifts \in [1..10 -> 0..max_scale_shift] /\ max_scale_shift \in Nat
    BY InputAssumption, GaggleAssumption
  <2>2. Subband(c) + 1 \in 1..10
    BY PlaceOf
  <2>3. ShiftOf(c) \in Nat
    BY <2>1, <2>2 DEF ShiftOf
  <2>4. QED BY <2>3, PowerPositive
<1>5. \A j \in 1..size, c \in 1..63 : blocks[j][c] \in Int
  <2>1. \A a \in Int, b \in Nat : a * b \in Int
    OBVIOUS
  <2> HIDE DEF blocks
  <2>2. QED BY <1>3, <1>4, <2>1 DEF Multiple
<1> HIDE DEF blocks
<1>6. ASSUME NEW j \in 1..size PROVE depths[j] \in Nat
  <2> DEFINE f == [c \in 1..63 |-> magnitude(blocks[j][c])]
             S == {f[c] : c \in 1..63}
  <2>1. f \in [1..63 -> Nat]
    <3>1. \A x \in Int : magnitude(x) \in Nat
      BY DEF magnitude
    <3>2. QED BY <1>5, <3>1
  <2>2. {magnitude(blocks[j][c]) : c \in 1..63} = S
    OBVIOUS
  <2>3. Largest(S) \in S
    <3> HIDE DEF f
    <3>1. 63 \in Nat \ {0}
      OBVIOUS
    <3>2. QED BY <2>1, <3>1, LargestOf
  <2>4. Largest(S) \in Nat
    BY <2>1, <2>3
  <2>5. depths[j] = bit_width(Largest(S))
    BY <2>2 DEF BlockDepth
  <2> HIDE DEF S, depths
  <2>6. bit_width(Largest(S)) \in 0..Largest(S)
    BY <2>4, WidthIs
  <2>7. QED BY <2>4, <2>5, <2>6
<1>7. s.bdepthAc \in Nat
  <2>1. depths \in [1..size -> Nat]
    BY <1>6
  <2> HIDE DEF depths
  <2>2. Largest({depths[j] : j \in 1..size}) \in {depths[j] : j \in 1..size}
    BY <2>1, LargestOf
  <2>3. QED BY <1>2, <2>1, <2>2
<1> HIDE DEF s, depths
<1>8. QED BY <1>2, <1>3, <1>7 DEF s

----------------------------------------------------------------------------
(* Coding, step by step. *)

\* The update of the encoder's record for a plane, and the two behind it.
LEMMA PlaneUpdate ==
  ASSUME NEW e, {"b", "skip", "cur"} \subseteq DOMAIN e,
         NEW s, NEW c, NEW w, NEW o, NEW k, NEW mask
  PROVE  /\ LET d == [e EXCEPT !.skip = s, !.cur = c, !.words = w, !.options = o, !.marked = k]
            IN d.b = e.b /\ d.skip = s /\ d.cur = c /\ DOMAIN d = DOMAIN e
         /\ LET d == [e EXCEPT !.marked = k]
            IN d.b = e.b /\ d.skip = e.skip /\ d.cur = e.cur /\ DOMAIN d = DOMAIN e
         /\ LET d == [e EXCEPT !.mask = mask, !.b = @ - 1]
            IN d.b = e.b - 1 /\ d.skip = e.skip /\ d.cur = e.cur /\ DOMAIN d = DOMAIN e
OBVIOUS

IsSequence(s) == \E S : s \in Seq(S)

\* Appending keeps a sequence.
LEMMA Appended ==
  ASSUME NEW s, IsSequence(s), NEW e
  PROVE  IsSequence(Append(s, e)) /\ Len(Append(s, e)) = Len(s) + 1 /\ Len(s) \in Nat
<1>1. PICK S : s \in Seq(S)
  BY DEF IsSequence
<1>2. s \in Seq(S \cup {e}) /\ e \in S \cup {e}
  BY <1>1
<1> DEFINE T == S \cup {e}
<1> HIDE DEF T
<1>3. s \in Seq(T) /\ e \in T
  BY <1>2 DEF T
<1>4. Append(s, e) \in Seq(T) /\ Len(Append(s, e)) = Len(s) + 1 /\ Len(s) \in Nat
  BY <1>3
<1>5. QED BY <1>4 DEF IsSequence

\* The segments of the image whose subbands the transform has made.
LEMMA SegmentsHere ==
  ASSUME input \in Inputs, NEW all, all = Subbands3
  PROVE  LET sizes == SegmentSizes(all[1].width * all[1].height, input.segment_size)
             first(k) == IF input.segment_size = 0 THEN 0 ELSE (k - 1) * input.segment_size
         IN \E m, n \in Nat :
              /\ m >= 3 /\ n >= 3 /\ Scaled10(all, m, n)
              /\ Len(sizes) \in Nat \ {0}
              /\ \A k \in 1..Len(sizes) : /\ sizes[k] \in Nat \ {0} /\ first(k) \in Nat
                                          /\ first(k) + sizes[k] <= m * n
<1>1. PICK m \in Nat, n \in Nat : m >= 3 /\ n >= 3 /\ Scaled10(all, m, n)
  BY SubbandsScaled
<1>2. all[1].width = m /\ all[1].height = n
  <2>1. all[1].width = SideOf(1) * m /\ all[1].height = SideOf(1) * n /\ SideOf(1) = 1
    BY <1>1 DEF Scaled10, ScaledBy, SideOf
  <2>2. QED BY <2>1
<1>3. m * n \in Nat \ {0}
  BY <1>1
<1>4. PICK s \in Nat : s = input.segment_size
  BY InputAssumption
<1>5. PICK blocks \in Nat \ {0} : blocks = m * n
  BY <1>3
<1>6. /\ Len(SegmentSizes(blocks, s)) \in Nat \ {0}
      /\ \A k \in 1..Len(SegmentSizes(blocks, s)) :
           /\ SegmentSizes(blocks, s)[k] \in Nat \ {0}
           /\ (IF s = 0 THEN 0 ELSE (k - 1) * s) \in Nat
           /\ (IF s = 0 THEN 0 ELSE (k - 1) * s) + SegmentSizes(blocks, s)[k] <= blocks
  BY SizesAre
<1>7. SegmentSizes(all[1].width * all[1].height, input.segment_size) = SegmentSizes(blocks, s)
  BY <1>2, <1>4, <1>5
<1>8. QED BY <1>1, <1>4, <1>5, <1>6, <1>7

\* What stages code of a segment are multiples of the scales of their subbands, and in
\* the lowest planes only coefficients with a greater scale than what is left are skipped.
Coding == {"head", "plane", "stage", "refine", "flush"}
CodingInv ==
  /\ pc.at \in {"preprocess", "rows", "columns"} => segments = <<>>
  /\ pc.at \in {"assemble"} \cup Coding => IsSequence(segments) /\ Len(segments) < Len(Sizes)
  /\ pc.at \in Coding =>
       /\ seg.size \in Nat \ {0} /\ seg.bdepthAc \in Nat /\ seg.bit_shifts = input.bit_shifts
       /\ \A j \in 1..seg.size, c \in 1..63 : Multiple(seg.data[j][c], ShiftOf(c))
  /\ pc.at \in {"plane", "stage", "refine"} =>
       /\ {"b", "skip", "cur"} \subseteq DOMAIN enc
       /\ enc.b \in Nat
       /\ \A c \in enc.skip \cap 1..63 : ShiftOf(c) > enc.b
  /\ pc.at \in {"stage", "refine"} =>
       enc.cur = [j \in 1..seg.size |-> Plane(seg.data[j], enc.b)]

\* The coefficients of the subbands with a scale have it.
LEMMA ScaledAre ==
  ASSUME NEW shift, NEW c \in 1..63, c \in Scaled(input.bit_shifts, shift)
  PROVE  ShiftOf(c) = shift
<1>1. PICK n \in 0..9 : input.bit_shifts[n + 1] = shift /\ c \in bitshift_masks(n)
  BY DEF Scaled
<1>2. Subband(c) = n
  <2>1. CASE n = 0
    BY <1>1, <2>1 DEF bitshift_masks, DC_index
  <2>2. CASE n \in 1..3
    BY <1>1, <2>2 DEF bitshift_masks, Subband
  <2>3. CASE n \in 4..6
    <3>1. c \in (4 + 4 * (n - 4))..(7 + 4 * (n - 4))
      BY <1>1, <2>3 DEF bitshift_masks, C_set
    <3>2. c \in 4..15 /\ Subband(c) = 4 + (c - 4) \div 4
      BY <2>3, <3>1 DEF Subband
    <3>3. QED BY <2>3, <3>1, <3>2
  <2>4. CASE n \in 7..9
    <3>1. c \in (16 + 16 * (n - 7))..(31 + 16 * (n - 7))
      BY <1>1, <2>4 DEF bitshift_masks, G_set
    <3>2. c \in 16..63 /\ Subband(c) = 7 + (c - 16) \div 16
      BY <2>4, <3>1 DEF Subband
    <3>3. QED BY <2>4, <3>1, <3>2
  <2>5. QED BY <2>1, <2>2, <2>3, <2>4
<1>3. QED BY <1>1, <1>2 DEF ShiftOf

\* Nothing of a plane is skipped that is not zero.
LEMMA SkippedZero ==
  ASSUME input \in Inputs, CodingInv, pc.at \in {"stage", "refine"}, NEW j \in 1..seg.size
  PROVE  enc.cur[j] \cap enc.skip = {}
<1>1. /\ enc.cur[j] = Plane(seg.data[j], enc.b) /\ enc.b \in Nat
      /\ \A c \in enc.skip \cap 1..63 : ShiftOf(c) > enc.b
      /\ \A c \in 1..63 : Multiple(seg.data[j][c], ShiftOf(c))
  BY DEF CodingInv, Coding
<1>2. SUFFICES ASSUME NEW c \in Plane(seg.data[j], enc.b), c \in enc.skip PROVE FALSE
  BY <1>1
<1>3. c \in 1..63 /\ Bit(magnitude(seg.data[j][c]), enc.b) = 1
  BY <1>2 DEF Plane
<1>4. PICK v \in Int : seg.data[j][c] = v * 2^ShiftOf(c)
  BY <1>1, <1>3 DEF Multiple
<1>5. ShiftOf(c) \in Nat
  <2>1. input.bit_shifts \in [1..10 -> 0..max_scale_shift] /\ max_scale_shift \in Nat
    BY InputAssumption, GaggleAssumption
  <2>2. Subband(c) + 1 \in 1..10
    BY <1>3, PlaceOf
  <2>3. QED BY <2>1, <2>2 DEF ShiftOf
<1>6. ShiftOf(c) > enc.b
  BY <1>1, <1>2, <1>3
<1>7. Bit(magnitude(v * 2^ShiftOf(c)), enc.b) = 0
  BY <1>1, <1>5, <1>6, LowBits
<1>8. Bit(magnitude(v * 2^ShiftOf(c)), enc.b) = 0
  BY <1>7 DEF Bit, magnitude, Bit, magnitude
<1>9. QED BY <1>3, <1>4, <1>8

\* Nothing has been coded at the start.
LEMMA CodingInitial == Init => CodingInv
BY DEF Init, CodingInv, Coding

\* Steps that leave the segment and the subbands alone.
LEMMA CodingKept ==
  ASSUME CodingInv, input' = input, seg' = seg
  PROVE  /\ pc.at \in Coding => /\ seg'.size \in Nat \ {0} /\ seg'.bdepthAc \in Nat
                                /\ seg'.bit_shifts = input'.bit_shifts
                                /\ \A j \in 1..seg'.size, c \in 1..63 :
                                     Multiple(seg'.data[j][c], ShiftOf(c)')
         /\ \A c \in 1..63 : ShiftOf(c)' = ShiftOf(c)
<1>1. \A c \in 1..63 : ShiftOf(c)' = ShiftOf(c)
  BY DEF ShiftOf
<1>2. QED BY <1>1 DEF CodingInv

\* The last transform of columns: there is something to code.
LEMMA ColumnsCoding ==
  ASSUME TransformInv, TransformInv', CodingInv, TransformColumns
  PROVE  CodingInv'
<1>1. pc.at = "columns" /\ segments' = segments /\ segments = <<>> /\ input' = input
  BY DEF TransformColumns, CodingInv
<1>2. pc' \in {[at |-> "assemble", level |-> 0], [at |-> "rows", level |-> pc.level + 1]}
  BY Zenon DEF TransformColumns, Goto
<1>3. ASSUME pc'.at = "assemble" PROVE Len(<<>>) < Len(Sizes')
  <2>1. input \in Inputs /\ subbands' = Subbands3'
    BY <1>3 DEF TransformInv
  <2>2. Subbands3' = Subbands3
    BY <1>1 DEF Source1, Source2, Source3, Made, Subbands1, Subbands2, Subbands3, ScaledQuarters
  <2>3. PICK all : all = subbands'
    OBVIOUS
  <2>4. Len(SegmentSizes(all[1].width * all[1].height, input.segment_size)) \in Nat \ {0}
    BY <2>1, <2>2, <2>3, SegmentsHere
  <2>5. Sizes' = SegmentSizes(all[1].width * all[1].height, input.segment_size)
    BY <1>1, <2>3 DEF Sizes, Blocks
  <2>6. QED BY <2>4, <2>5
<1>4. IsSequence(<<>>)
  <2>1. <<>> \in Seq({})
    OBVIOUS
  <2>2. QED BY <2>1 DEF IsSequence
<1>5. QED BY <1>1, <1>2, <1>3, <1>4 DEF CodingInv, Coding

\* A segment is assembled of blocks of the image.
LEMMA AssembleCoding ==
  ASSUME TransformInv, CodingInv, Assemble
  PROVE  CodingInv'
<1>1. /\ pc.at = "assemble" /\ input' = input /\ subbands' = subbands /\ segments' = segments
      /\ pc'.at = "head" /\ input \in Inputs /\ subbands = Subbands3
      /\ seg' = SegmentOf(subbands, input.bit_shifts, FirstBlock(Len(segments) + 1),
                          Sizes[Len(segments) + 1])
  BY DEF Assemble, Goto, images, TransformInv
<1>2. IsSequence(segments) /\ Len(segments) < Len(Sizes)
  BY <1>1 DEF CodingInv, Coding
<1>3. PICK k : k = Len(segments) + 1
  OBVIOUS
<1>4. PICK m \in Nat, n \in Nat :
        /\ m >= 3 /\ n >= 3 /\ Scaled10(subbands, m, n)
        /\ Len(Sizes) \in Nat \ {0}
        /\ \A i \in 1..Len(Sizes) : /\ Sizes[i] \in Nat \ {0} /\ FirstBlock(i) \in Nat
                                    /\ FirstBlock(i) + Sizes[i] <= m * n
  <2>1. PICK all : all = subbands
    OBVIOUS
  <2>2. Sizes = SegmentSizes(all[1].width * all[1].height, input.segment_size)
    BY <2>1 DEF Sizes, Blocks
  <2>3. \A i : FirstBlock(i) = IF input.segment_size = 0 THEN 0 ELSE (i - 1) * input.segment_size
    BY DEF FirstBlock
  <2>4. \E m, n \in Nat :
        /\ m >= 3 /\ n >= 3 /\ Scaled10(all, m, n)
        /\ Len(Sizes) \in Nat \ {0}
        /\ \A i \in 1..Len(Sizes) : /\ Sizes[i] \in Nat \ {0} /\ FirstBlock(i) \in Nat
                                    /\ FirstBlock(i) + Sizes[i] <= m * n
    BY <1>1, <2>1, <2>2, <2>3, SegmentsHere
  <2>5. QED BY <2>1, <2>4
<1>5. k \in 1..Len(Sizes)
  <2>1. Len(segments) \in Nat
    BY <1>2, Appended
  <2>2. QED BY <1>2, <1>3, <1>4, <2>1
<1>6. PICK first \in Nat, size \in Nat \ {0} :
        first = FirstBlock(k) /\ size = Sizes[k] /\ first + size <= m * n
  BY <1>4, <1>5
<1>7. seg' = SegmentOf(subbands, input.bit_shifts, first, size)
  BY <1>1, <1>3, <1>6
<1>8. PICK all : all = subbands
  OBVIOUS
<1>9. LET s == SegmentOf(all, input.bit_shifts, first, size)
      IN /\ s.size = size /\ s.bit_shifts = input.bit_shifts /\ s.bdepthAc \in Nat
         /\ \A j \in 1..size, c \in 1..63 : Multiple(s.data[j][c], ShiftOf(c))
  <2>1. Scaled10(all, m, n) /\ m >= 3 /\ n >= 3 /\ first + size <= m * n /\ input \in Inputs
    BY <1>1, <1>4, <1>6, <1>8
  <2>2. QED BY <2>1, SegmentIs, ZenonT(30)
<1>10. /\ seg'.size = size /\ seg'.bit_shifts = input.bit_shifts /\ seg'.bdepthAc \in Nat
       /\ \A j \in 1..size, c \in 1..63 : Multiple(seg'.data[j][c], ShiftOf(c))
  BY <1>7, <1>8, <1>9
<1>11. Sizes' = Sizes /\ \A c \in 1..63 : ShiftOf(c)' = ShiftOf(c)
  BY <1>1 DEF Sizes, Blocks, ShiftOf
<1>12. /\ seg'.size \in Nat \ {0} /\ seg'.bdepthAc \in Nat /\ seg'.bit_shifts = input'.bit_shifts
       /\ \A j \in 1..seg'.size, c \in 1..63 : Multiple(seg'.data[j][c], ShiftOf(c)')
       /\ IsSequence(segments') /\ Len(segments') < Len(Sizes')
  BY <1>1, <1>2, <1>6, <1>10, <1>11
<1>13. QED BY <1>1, <1>12 DEF CodingInv, Coding

\* A plane: what becomes skipped has a scale above it.
LEMMA PlaneCoding ==
  ASSUME TransformInv, CodingInv, EncodePlane
  PROVE  CodingInv'
<1> DEFINE b == enc.b
           skip == IF b < max_scale_shift THEN enc.skip \cup Scaled(seg.bit_shifts, b + 1)
                                          ELSE enc.skip
           cur == [j \in 1..seg.size |-> Plane(seg.data[j], b)]
<1>1. /\ pc.at = "plane" /\ input' = input /\ subbands' = subbands /\ segments' = segments
      /\ seg' = seg /\ pc' = [at |-> "stage", level |-> 1]
  BY Zenon DEF EncodePlane, Goto, images
<1>2. \E w, o, k : enc' = [enc EXCEPT !.skip = skip, !.cur = cur, !.words = w, !.options = o,
                                      !.marked = k]
  BY Zenon DEF EncodePlane
<1>3. /\ {"b", "skip", "cur"} \subseteq DOMAIN enc /\ enc.b \in Nat
      /\ \A c \in enc.skip \cap 1..63 : ShiftOf(c) > enc.b
      /\ seg.bit_shifts = input.bit_shifts
  BY <1>1 DEF CodingInv, Coding
<1>4. enc'.b = b /\ enc'.skip = skip /\ enc'.cur = cur /\ DOMAIN enc' = DOMAIN enc
  <2>1. PICK w, o, k : enc' = [enc EXCEPT !.skip = skip, !.cur = cur, !.words = w, !.options = o,
                                          !.marked = k]
    BY <1>2
  <2> HIDE DEF skip, cur
  <2>2. QED BY <1>3, <2>1, PlaneUpdate
<1>5. \A c \in skip \cap 1..63 : ShiftOf(c) > b
  <2>1. ASSUME NEW c \in 1..63, c \in Scaled(seg.bit_shifts, b + 1) PROVE ShiftOf(c) > b
    <3>1. ShiftOf(c) = b + 1
      BY <1>3, <2>1, ScaledAre
    <3>2. QED BY <1>3, <3>1
  <2>2. QED BY <1>3, <2>1
<1>6. Sizes' = Sizes /\ IsSequence(segments') /\ Len(segments') < Len(Sizes')
  BY <1>1 DEF CodingInv, Coding, Sizes, Blocks
<1>7. /\ seg'.size \in Nat \ {0} /\ seg'.bdepthAc \in Nat /\ seg'.bit_shifts = input'.bit_shifts
      /\ \A j \in 1..seg'.size, c \in 1..63 : Multiple(seg'.data[j][c], ShiftOf(c)')
      /\ \A c \in 1..63 : ShiftOf(c)' = ShiftOf(c)
  BY <1>1, CodingKept DEF Coding
<1>8. enc'.cur = [j \in 1..seg'.size |-> Plane(seg'.data[j], enc'.b)]
  BY <1>1, <1>4
<1> HIDE DEF skip, cur
<1>9. /\ {"b", "skip", "cur"} \subseteq DOMAIN enc' /\ enc'.b \in Nat
      /\ \A c \in enc'.skip \cap 1..63 : ShiftOf(c)' > enc'.b
  BY <1>3, <1>4, <1>5, <1>7
<1>10. pc'.at = "stage"
  BY <1>1
<1>11. QED BY <1>6, <1>7, <1>8, <1>9, <1>10 DEF CodingInv, Coding

\* The head of a segment, a stage, the refinement, and the end of a segment.
LEMMA StagesCoding ==
  ASSUME TransformInv, CodingInv,
         EncodeHead \/ EncodeStage \/ EncodeRefinement \/ FinishSegment
  PROVE  CodingInv'
<1>1. input' = input /\ subbands' = subbands /\ Sizes' = Sizes
  BY DEF EncodeHead, EncodeStage, EncodeRefinement, FinishSegment, images, Sizes, Blocks
<1>2. ASSUME seg' = seg, pc.at \in Coding
      PROVE  /\ seg'.size \in Nat \ {0} /\ seg'.bdepthAc \in Nat
             /\ seg'.bit_shifts = input'.bit_shifts
             /\ \A j \in 1..seg'.size, c \in 1..63 : Multiple(seg'.data[j][c], ShiftOf(c)')
             /\ \A c \in 1..63 : ShiftOf(c)' = ShiftOf(c)
  BY <1>1, <1>2, CodingKept
<1>3. CASE EncodeHead
  <2>1. /\ pc.at = "head" /\ seg' = seg /\ segments' = segments
        /\ enc'.b = seg.bdepthAc - 1 /\ enc'.skip = {} /\ {"b", "skip", "cur"} \subseteq DOMAIN enc'
        /\ pc' = [at |-> IF seg.bdepthAc > 0 THEN "plane" ELSE "flush", level |-> 0]
    BY <1>3 DEF EncodeHead, Goto
  <2>2. seg.bdepthAc \in Nat /\ IsSequence(segments) /\ Len(segments) < Len(Sizes)
    BY <2>1 DEF CodingInv, Coding
  <2>3. pc'.at \in {"plane", "flush"} /\ (pc'.at = "plane" => enc'.b \in Nat)
    BY <2>1, <2>2
  <2>4. pc.at \in Coding
    BY <2>1 DEF Coding
  <2>5. QED BY <1>1, <1>2, <2>1, <2>2, <2>3, <2>4 DEF CodingInv, Coding
<1>4. CASE EncodeStage
  <2>1. /\ pc.at = "stage" /\ seg' = seg /\ segments' = segments
        /\ \E k : enc' = [enc EXCEPT !.marked = k]
    BY <1>4, Zenon DEF EncodeStage
  <2>2. pc' \in {[at |-> "stage", level |-> pc.level + 1], [at |-> "refine", level |-> 0]}
    BY <1>4, Zenon DEF EncodeStage, Goto
  <2>3. {"b", "skip", "cur"} \subseteq DOMAIN enc
    BY <2>1 DEF CodingInv
  <2>4. enc'.b = enc.b /\ enc'.skip = enc.skip /\ enc'.cur = enc.cur /\ DOMAIN enc' = DOMAIN enc
    BY <2>1, <2>3, PlaneUpdate
  <2>5. pc'.at \in {"stage", "refine"}
    BY <2>2
  <2>6. pc.at \in Coding
    BY <2>1 DEF Coding
  <2>7. /\ enc.b \in Nat /\ \A c \in enc.skip \cap 1..63 : ShiftOf(c) > enc.b
        /\ enc.cur = [j \in 1..seg.size |-> Plane(seg.data[j], enc.b)]
        /\ IsSequence(segments) /\ Len(segments) < Len(Sizes)
    BY <2>1 DEF CodingInv, Coding
  <2>8. /\ seg'.size \in Nat \ {0} /\ seg'.bdepthAc \in Nat /\ seg'.bit_shifts = input'.bit_shifts
        /\ \A j \in 1..seg'.size, c \in 1..63 : Multiple(seg'.data[j][c], ShiftOf(c)')
        /\ \A c \in 1..63 : ShiftOf(c)' = ShiftOf(c)
    BY <1>2, <2>1, <2>6
  <2>9. /\ {"b", "skip", "cur"} \subseteq DOMAIN enc' /\ enc'.b \in Nat
        /\ \A c \in enc'.skip \cap 1..63 : ShiftOf(c)' > enc'.b
        /\ enc'.cur = [j \in 1..seg'.size |-> Plane(seg'.data[j], enc'.b)]
        /\ IsSequence(segments') /\ Len(segments') < Len(Sizes')
    <3>1. {"b", "skip", "cur"} \subseteq DOMAIN enc' /\ enc'.b \in Nat
      BY <2>3, <2>4, <2>7
    <3>2. \A c \in enc'.skip \cap 1..63 : ShiftOf(c)' > enc'.b
      BY <2>4, <2>7, <2>8
    <3>3. enc'.cur = [j \in 1..seg'.size |-> Plane(seg'.data[j], enc'.b)]
      BY <2>1, <2>4, <2>7
    <3>4. IsSequence(segments') /\ Len(segments') < Len(Sizes')
      BY <1>1, <2>1, <2>7
    <3>5. QED BY <3>1, <3>2, <3>3, <3>4
  <2>10. QED BY <2>5, <2>8, <2>9 DEF CodingInv, Coding
<1>5. CASE EncodeRefinement
  <2>1. /\ pc.at = "refine" /\ seg' = seg /\ segments' = segments
        /\ \E mask : enc' = [enc EXCEPT !.mask = mask, !.b = @ - 1]
    BY <1>5, Zenon DEF EncodeRefinement
  <2>2. pc' = [at |-> IF enc.b = 0 THEN "flush" ELSE "plane", level |-> 0]
    BY <1>5, Zenon DEF EncodeRefinement, Goto
  <2>3. {"b", "skip", "cur"} \subseteq DOMAIN enc
    BY <2>1 DEF CodingInv
  <2>4. enc'.b = enc.b - 1 /\ enc'.skip = enc.skip /\ DOMAIN enc' = DOMAIN enc
    BY <2>1, <2>3, PlaneUpdate
  <2>6. pc.at \in Coding
    BY <2>1 DEF Coding
  <2>7. /\ enc.b \in Nat /\ \A c \in enc.skip \cap 1..63 : ShiftOf(c) > enc.b
        /\ IsSequence(segments) /\ Len(segments) < Len(Sizes)
    BY <2>1 DEF CodingInv, Coding
  <2>5. pc'.at \in {"plane", "flush"} /\ (pc'.at = "plane" => enc'.b \in Nat)
    BY <2>2, <2>4, <2>7
  <2>8. \A c \in enc'.skip \cap 1..63 : ShiftOf(c)' > enc'.b
    <3>1. ASSUME NEW c \in enc.skip \cap 1..63 PROVE ShiftOf(c)' > enc.b - 1
      <4>1. ShiftOf(c)' = ShiftOf(c) /\ ShiftOf(c) > enc.b
        BY <1>2, <2>1, <2>6, <2>7
      <4>2. ShiftOf(c) \in Nat
        <5>1. input.bit_shifts \in [1..10 -> 0..max_scale_shift] /\ max_scale_shift \in Nat
          BY InputAssumption, GaggleAssumption DEF TransformInv
        <5>2. Subband(c) + 1 \in 1..10
          BY PlaceOf
        <5>3. QED BY <5>1, <5>2 DEF ShiftOf
      <4>3. QED BY <2>7, <4>1, <4>2
    <3>2. QED BY <2>4, <3>1
  <2>9. QED BY <1>1, <1>2, <2>1, <2>3, <2>4, <2>5, <2>6, <2>7, <2>8 DEF CodingInv, Coding
<1>6. CASE FinishSegment
  <2>1. /\ pc.at = "flush"
        /\ \E e : segments' = Append(segments, e)
        /\ pc' = [at |-> IF Len(segments') < Len(Sizes) THEN "assemble" ELSE "open", level |-> 0]
    BY <1>6, Zenon DEF FinishSegment, Goto
  <2>2. IsSequence(segments)
    BY <2>1 DEF CodingInv, Coding
  <2>3. IsSequence(segments')
    BY <2>1, <2>2, Appended
  <2>4. pc'.at \in {"assemble", "open"} /\ (pc'.at = "assemble" => Len(segments') < Len(Sizes))
    BY <2>1
  <2>5. QED BY <1>1, <2>3, <2>4 DEF CodingInv, Coding
<1>7. QED BY <1>3, <1>4, <1>5, <1>6

\* Every step keeps CodingInv.
LEMMA CodingStep == TransformInv /\ TransformInv' /\ CodingInv /\ [Next]_vars => CodingInv'
<1> SUFFICES ASSUME TransformInv, TransformInv', CodingInv, [Next]_vars PROVE CodingInv'
  OBVIOUS
<1>1. CASE Preprocess
  BY <1>1 DEF Preprocess, Goto, CodingInv, Coding
<1>2. CASE TransformRows
  BY <1>2 DEF TransformRows, Goto, CodingInv, Coding
<1>3. CASE TransformColumns
  BY <1>3, ColumnsCoding
<1>4. CASE Assemble
  BY <1>4, AssembleCoding
<1>5. CASE EncodePlane
  BY <1>5, PlaneCoding
<1>6. CASE EncodeHead \/ EncodeStage \/ EncodeRefinement \/ FinishSegment
  BY <1>6, StagesCoding
<1>7. ASSUME \/ DecodeHead \/ DecodePlane \/ DecodeStage \/ DecodeRefinement \/ CloseSegment
             \/ Unpack \/ Unscale \/ InverseColumns \/ InverseRows
      PROVE  CodingInv'
  <2>1. pc'.at \in {"dplane", "dstage", "drefine", "close", "open", "unpack", "unscale",
                    "icolumns", "irows", "done"}
    BY <1>7, DecoderGoesOn
  <2>2. QED BY <2>1 DEF CodingInv, Coding
<1>8. CASE UNCHANGED vars
  <2>1. /\ pc' = pc /\ input' = input /\ segments' = segments /\ seg' = seg /\ enc' = enc
        /\ Sizes' = Sizes
    BY <1>8 DEF vars, images, encoder, Sizes, Blocks
  <2>2. \A c \in 1..63 : ShiftOf(c)' = ShiftOf(c)
    BY <2>1 DEF ShiftOf
  <2>3. QED BY <2>1, <2>2 DEF CodingInv
<1>9. CASE Done
  BY <1>8, <1>9 DEF Done
<1>10. QED BY <1>1, <1>2, <1>3, <1>4, <1>5, <1>6, <1>7, <1>8, <1>9 DEF Next

\* What bplane_skip leaves out of a bit plane has no bits there, for every image, all
\* shifts and every size of segments: shifts left zeros in the planes below them.
THEOREM NothingSkippedIsLost == Spec => []SkippedAreZero
<1>1. TransformInv /\ CodingInv => SkippedAreZero
  BY SkippedZero DEF SkippedAreZero, TransformInv
<1>2. QED BY <1>1, TransformInitial, TransformStep, CodingInitial, CodingStep, PTL DEF Spec
=============================================================================
