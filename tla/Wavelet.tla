------------------------------ MODULE Wavelet ------------------------------
(***************************************************************************)
(* The integer wavelet transform (dwt/dwtcore.tpp, dwt/dwtscale.tpp and    *)
(* the transformers of dwt/dwt.cpp).  A pass filters every row of a bitmap *)
(* into a high and a low half and transposes both, so that the next pass   *)
(* filters columns; three levels of two passes make the ten subbands.      *)
(***************************************************************************)
EXTENDS Bitmaps, Sequences

level_num == 3
padding_length == 8

\* A dimension of an image, padded.
PaddedTo(n) == ((n + padding_length - 1) \div padding_length) * padding_length

----------------------------------------------------------------------------
(* One row.  A row is a function of indices that may lie outside the bitmap:
   the extensions say what is there. *)

\* extfwd and rextfwd: rows are mirrored at the first and the last pixel.  The
\* padding makes the length even and the last pixel an odd one.
ExtendedForward(row, n) ==
  [i \in -2..(n + 2) |->
     IF i < 0 THEN row[-i] ELSE IF i < n THEN row[i] ELSE row[2 * n - 2 - i]]

\* fwd: the odd pixels less their prediction from the even ones.
High(src, i) ==
  src[2 * i + 1]
    - (src[2 * i] + src[2 * i + 2]
         + ((src[2 * i] + src[2 * i + 2] - src[2 * i - 2] - src[2 * i + 4]) \div 8) + 1) \div 2

\* Mutation: nothing is corrected for the first one.
LowUncorrected(src, high, i) ==
  src[2 * i] - (2 - (IF i = 0 THEN 0 ELSE high[i - 1]) - high[i]) \div 4

\* fwd and corrlfwd: the even pixels less the update from the odd ones; the
\* first one has no high coefficient on its left.
Low(src, high, i) ==
  src[2 * i] - (IF i = 0 THEN (1 - high[0]) \div 2
                         ELSE (2 - high[i - 1] - high[i]) \div 4)

\* bwd: the even pixels, then the odd ones between them.  hi and lo are
\* extended by two coefficients on each side.
Even(hi, lo, i) == lo[i] + (2 - hi[i - 1] - hi[i]) \div 4
Odd(hi, even, i) ==
  hi[i] + (even[i] + even[i + 1]
             + ((even[i] + even[i + 1] - even[i - 1] - even[i + 2]) \div 8) + 1) \div 2

\* Mutation: the last high coefficient is mirrored as a low one is.
ExtendedHighAsLow(hi, n) ==
  [i \in -2..(n + 1) |->
     hi[IF i < 0 THEN -i - 1 ELSE IF i < n THEN i ELSE 2 * n - 1 - i]]

\* exthbwd, rexthbwd, extlbwd and rextlbwd, for rows of n coefficients.
ExtendedHigh(hi, n) ==
  [i \in -2..(n + 1) |->
     hi[IF i < 0 THEN -i - 1 ELSE IF i < n THEN i ELSE 2 * n - 2 - i]]
ExtendedLow(lo, n) ==
  [i \in -2..(n + 1) |->
     lo[IF i < 0 THEN -i ELSE IF i < n THEN i ELSE 2 * n - 1 - i]]

----------------------------------------------------------------------------
(* Passes. *)

\* ForwardWaveletTransformer::transform, one half at a time, transposed.  The
\* filter may start drop coefficients behind the first one of the n pixels.
HighRows(rows, height, drop, count) ==
  Bitmap(height, count, LAMBDA i, r : High(rows[r], i + drop))

LowRows(rows, n, height, drop, count) ==
  LET high == Evaluated([r \in 0..(height - 1) |->
                            [k \in 0..(n \div 2 - 1) |-> High(rows[r], k)]])
  IN Bitmap(height, count, LAMBDA i, r : Low(rows[r], high[r], i + drop))

Extended(image) ==
  Evaluated([r \in 0..(image.height - 1) |-> ExtendedForward(image.at[r], image.width)])
HighPass(image, drop, count) == HighRows(Extended(image), image.height, drop, count)
LowPass(image, drop, count) ==
  LowRows(Extended(image), image.width, image.height, drop, count)

\* BackwardWaveletTransformer::transform: rows of the two halves to transposed
\* rows of twice the length, the first drop of them left out.
Backward(hsrc, lsrc, drop) ==
  LET n == hsrc.width
      rows == 0..(hsrc.height - 1)
      hi == Evaluated([r \in rows |-> ExtendedHigh(hsrc.at[r], n)])
      lo == [r \in rows |-> ExtendedLow(lsrc.at[r], n)]
      even == Evaluated([r \in rows |-> [k \in -1..(n + 1) |-> Even(hi[r], lo[r], k)]])
      Pixel(r, i) == IF i % 2 = 0 THEN even[r][i \div 2] ELSE Odd(hi[r], even[r], i \div 2)
  IN Bitmap(hsrc.height, 2 * n - drop, LAMBDA i, r : Pixel(r, i + drop))

----------------------------------------------------------------------------
(* The whole image. *)

\* preprocess_image and the vertical padding: the last pixel of a row and the
\* last row are repeated up to a multiple of eight.
Padded(image) ==
  Bitmap(PaddedTo(image.width), PaddedTo(image.height),
         LAMBDA r, c : image.at[IF r < image.height THEN r ELSE image.height - 1]
                               [IF c < image.width THEN c ELSE image.width - 1])

\* A level: the horizontal halves of an image, and the four quarters of those.
Halves(image) ==
  [hout |-> HighPass(image, 0, image.width \div 2),
   lout |-> LowPass(image, 0, image.width \div 2)]

\* The subbands HL, LH, HH of the level and the source of the next.
Quarters(halves) ==
  LET rows == halves.lout.width \div 2
  IN [hl |-> LowPass(halves.hout, 0, rows), lh |-> HighPass(halves.lout, 0, rows),
      hh |-> HighPass(halves.hout, 0, rows), ll |-> LowPass(halves.lout, 0, rows)]

\* The inverse of a level.  Subbands are transposed first: a pass wants the
\* coefficients of a column in a row.  drop is what is left out of a column.
JoinedColumns(ll, hl, lh, hh, drop) ==
  [lout |-> Backward(transpose(lh), ll, drop),
   hout |-> Backward(transpose(hh), transpose(hl), drop)]
JoinedRows(halves) == Backward(halves.hout, halves.lout, 0)

\* scale and unscale.
scaled(subband, shift) ==
  Bitmap(subband.width, subband.height, LAMBDA r, c : subband.at[r][c] * 2^shift)
unscaled(subband, shift) ==
  Bitmap(subband.width, subband.height, LAMBDA r, c : subband.at[r][c] \div 2^shift)
=============================================================================
