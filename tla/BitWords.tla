------------------------------ MODULE BitWords ------------------------------
(***************************************************************************)
(* Words of bits and the bit streams they are written to and read from:    *)
(* vlw_t, the packing of selected coefficients of a bit plane into a word, *)
(* and the reading side of a stream (bpe/ibitwrapper.tpp).  A word is the  *)
(* sequence of its bits, most significant first; a stream is one long word *)
(* and a position in it is the number of bits already read.                *)
(***************************************************************************)
EXTENDS Integers, Sequences, FiniteSets

\* One bit of an integer; \div and % make it the two's complement bit of a
\* negative one.
Bit(n, b) == (n \div 2^b) % 2

Bits(n, len) == [i \in 1..len |-> Bit(n, len - i)]

Largest(S) == CHOOSE m \in S : \A n \in S : n <= m

\* A left fold over a sequence (the one of SequencesExt looks for the next
\* index by CHOOSE, which is too slow for streams).
Folded(op(_, _), base, s) ==
  LET f[i \in 0..Len(s)] == IF i = 0 THEN base ELSE op(f[i - 1], s[i])
  IN f[Len(s)]

\* std::sort, of items no two of which are equal: each comes behind those less than it.
Sorted(items, Less(_, _)) ==
  [k \in 1..Cardinality(items) |->
     CHOOSE item \in items :
       Cardinality({other \in items \ {item} : Less(other, item)}) = k - 1]

Concat(words) == Folded(LAMBDA u, v : u \o v, <<>>, words)

Number(word) == Folded(LAMBDA n, bit : 2 * n + bit, 0, word)

bit_width(n) ==
  IF n = 0 THEN 0 ELSE CHOOSE w \in 1..n : 2^(w - 1) <= n /\ n < 2^w

\* The value of a word whose first bit is a sign.
signext(n, len) == IF 2 * n >= 2^len THEN n - 2^len ELSE n

\* signxor and magnitude: |n| for the magnitude, |n| - 1 of a negative n else.
signxor(n) == IF n < 0 THEN -n - 1 ELSE n
magnitude(n) == IF n < 0 THEN -n ELSE n

----------------------------------------------------------------------------
(* Selecting bits of a block's bit plane by a mask.  A mask is the sequence of
   the coefficients' indices it selects, a plane the set of those whose bit is
   one. *)

Select(mask, kept) ==
  Folded(LAMBDA s, c : IF c \in kept THEN Append(s, c) ELSE s, <<>>, mask)

combine_bword(plane, mask) ==
  [i \in 1..Len(mask) |-> IF mask[i] \in plane THEN 1 ELSE 0]

decompose_bword(word, mask) == {mask[i] : i \in {k \in 1..Len(mask) : word[k] = 1}}

----------------------------------------------------------------------------
(* Reading.  A source that has no data left delivers zeros. *)

BitAt(stream, pos) == IF pos < Len(stream) THEN stream[pos + 1] ELSE 0

extract(stream, pos, len) == [i \in 1..len |-> BitAt(stream, pos + i - 1)]

\* The number of zeros before the next one.  Without one the code reads zeros
\* until its byte limit throws; here it stops behind the stream.
extract_next_one(stream, pos) ==
  IF \E n \in pos..(Len(stream) - 1) : stream[n + 1] = 1
    THEN (CHOOSE n \in pos..(Len(stream) - 1) :
            stream[n + 1] = 1 /\ \A k \in pos..(n - 1) : stream[k + 1] = 0) - pos
    ELSE IF pos < Len(stream) THEN Len(stream) - pos ELSE 0
=============================================================================
