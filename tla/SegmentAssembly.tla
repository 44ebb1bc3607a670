-------------------------- MODULE SegmentAssembly --------------------------
(***************************************************************************)
(* Segments out of subbands and back (dwt/segment_assembly.cpp): packing   *)
(* the coefficients of ten subbands into blocks of 64, quantising and      *)
(* differencing the DC coefficients, and the inverse of each.              *)
(*                                                                         *)
(* Subbands are a sequence of ten bitmaps, subband n at index n + 1.       *)
(***************************************************************************)
EXTENDS BitWords, Bitmaps

\* Where coefficient c of a block is: its subband and the offset in the
\* square of the subband that belongs to the block.
Level(c) == IF c < 4 THEN 0 ELSE IF c < 16 THEN 1 ELSE 2
Subband(c) ==
  CASE c = 0 -> 0
    [] c \in 1..3 -> c
    [] c \in 4..15 -> 4 + (c - 4) \div 4
    [] OTHER -> 7 + (c - 16) \div 16
\* The square of a child is in raster order, that of a grandchild in raster
\* order of squares in raster order.
Offset(c) ==
  CASE Level(c) = 0 -> <<0, 0>>
    [] Level(c) = 1 -> <<(c % 4) \div 2, c % 2>>
    [] OTHER -> LET group == (c % 16) \div 4
                IN <<2 * (group \div 2) + ((c % 4) \div 2), 2 * (group % 2) + (c % 2)>>

----------------------------------------------------------------------------
(* Assembly. *)

\* pack: block n of the image, its DC coefficient left out.
Packed(subbands, n) ==
  LET row == n \div subbands[1].width
      col == n % subbands[1].width
  IN [c \in 0..63 |->
        IF c = 0 THEN 0
        ELSE subbands[Subband(c) + 1].at[row * 2^Level(c) + Offset(c)[1]]
                                         [col * 2^Level(c) + Offset(c)[2]]]

\* The bits below the quantised DC coefficient.
quant_dc(bdepthDc, bdepthAc, shiftDc) ==
  LET half == bdepthAc \div 2 + 1
      shallow == IF bdepthDc - half <= 1 THEN bdepthDc - 3 ELSE half
      deep == IF bdepthDc - shallow > 10 THEN bdepthDc - 10 ELSE shallow
  IN Largest({deep, shiftDc})

\* kdiff of an item c and its successor: with theta, the distance from c to
\* the nearer end of the range, a difference beyond it needs no sign.  norm
\* is what the range is centred on.
Theta(c, bdepth, norm) ==
  LET n == c - norm
      mask == 2^(bdepth - 1)
  IN (IF n >= 0 THEN -n - 1 ELSE n) % mask

kdiff(data, bdepth, norm) ==
  [i \in 1..(Len(data) - 1) |->
     LET difference == data[i + 1] - data[i]
         size == signxor(difference)
         theta == Theta(data[i], bdepth, norm)
     IN size + (IF theta < size THEN theta ELSE size) + (IF difference < 0 THEN 1 ELSE 0)]

\* Bits of the magnitudes of a block (accorv), of a vector in two's
\* complement (bdepthv).
BlockDepth(block) == bit_width(Largest({magnitude(block[c]) : c \in 1..63}))
bdepthv(data) == 1 + bit_width(Largest({signxor(data[i]) : i \in 1..Len(data)}))

\* apply: the segment of the given blocks and DC coefficients.  Planes of the
\* bit depths are differenced if they have more than one bit.  paddingDc is the item
\* behind those of quantizedDc: the coefficients are padded with zeros.
Assembled(blocks, dc, bit_shifts) ==
  LET depths == [j \in 1..Len(blocks) |-> BlockDepth(blocks[j])]
      bdepthDc == bdepthv(dc)
      bdepthAc == Largest({depths[j] : j \in 1..Len(blocks)})
      q == quant_dc(bdepthDc, bdepthAc, bit_shifts[1])
      quantized == [j \in 1..Len(dc) |-> dc[j] \div 2^q]
      bdepthQDc == bdepthDc - q + 1
      bdepthAcBdepth == bit_width(bdepthAc)
  IN [size |-> Len(blocks), bit_shifts |-> bit_shifts, data |-> blocks,
      bdepthDc |-> bdepthDc, bdepthAc |-> bdepthAc, q |-> q,
      plainDc |-> [j \in 1..Len(dc) |-> dc[j] % 2^q],
      referenceSample |-> quantized[1],
      quantizedDc |-> IF bdepthQDc > 1 THEN kdiff(quantized, bdepthQDc, 0)
                                       ELSE SubSeq(quantized, 1, Len(dc) - 1),
      paddingDc |-> IF bdepthQDc > 1 THEN kdiff(<<quantized[Len(dc)], 0>>, bdepthQDc, 0)[1]
                                     ELSE quantized[Len(dc)],
      referenceBdepthAc |-> IF bdepthAcBdepth > 1 THEN depths[1] ELSE 0,
      quantizedBdepthAc |->
        IF bdepthAcBdepth > 1 THEN kdiff(depths, bdepthAcBdepth, 2^(bdepthAcBdepth - 1))
                              ELSE SubSeq(depths, 1, Len(depths) - 1)]

\* The sizes of the segments of an image; a size of 0 asks for one segment.
SegmentSizes(block_count, segment_size) ==
  LET size == IF segment_size = 0 THEN block_count ELSE segment_size
      count == (block_count + size - 1) \div size
  IN [s \in 1..count |-> IF s < count THEN size ELSE block_count - (count - 1) * size]

SegmentOf(subbands, bit_shifts, first, size) ==
  LET DC(n) == subbands[1].at[n \div subbands[1].width][n % subbands[1].width]
  IN Assembled([j \in 1..size |-> Packed(subbands, first + j - 1)],
               [j \in 1..size |-> DC(first + j - 1)], bit_shifts)

----------------------------------------------------------------------------
(* Disassembly. *)

\* Mutation: a negative difference comes out one too large.
rkdiffShort(data, reference, bdepth, norm) ==
  LET Restored(previous, d) ==
        LET theta == Theta(previous, bdepth, norm)
            beyond == d - theta
            zigzag == IF d % 2 = 1 THEN -(d \div 2) ELSE d \div 2
        IN previous + (IF beyond <= theta THEN zigzag
                       ELSE IF previous < norm THEN beyond ELSE -beyond)
  IN Folded(LAMBDA s, d : Append(s, Restored(s[Len(s)], d)), <<reference>>, data)

\* rkdiff: a large difference points away from the nearer end.
rkdiff(data, reference, bdepth, norm) ==
  LET Restored(previous, d) ==
        LET theta == Theta(previous, bdepth, norm)
            beyond == d - theta
            zigzag == IF d % 2 = 1 THEN -(d \div 2) - 1 ELSE d \div 2
        IN previous + (IF beyond <= theta THEN zigzag
                       ELSE IF previous < norm THEN beyond ELSE -beyond)
  IN Folded(LAMBDA s, d : Append(s, Restored(s[Len(s)], d)), <<reference>>, data)

\* apply: the DC coefficients of a decoded segment.  The depth is an unsigned
\* number in the code: a negative one is a large one.
DisassembledDC(seg) ==
  LET bdepthQDc == seg.bdepthDc - seg.q + 1
      quantized == IF bdepthQDc \in {0, 1}
                     THEN [j \in 1..seg.size |-> IF j = 1 THEN seg.referenceSample ELSE 0]
                   ELSE IF bdepthQDc < 0 THEN [j \in 1..seg.size |-> 0]
                   ELSE rkdiff(seg.quantizedDc, seg.referenceSample, bdepthQDc, 0)
  IN [j \in 1..seg.size |-> IF j > 1 /\ bdepthQDc \in {0, 1} THEN 0
                            ELSE quantized[j] * 2^seg.q + seg.plainDc[j]]

DisassembledDepths(seg) ==
  LET bdepthAcBdepth == bit_width(seg.bdepthAc)
  IN IF bdepthAcBdepth > 1
       THEN rkdiff(seg.quantizedBdepthAc, seg.referenceBdepthAc, bdepthAcBdepth,
                   2^(bdepthAcBdepth - 1))
       ELSE <<seg.referenceBdepthAc>> \o seg.quantizedBdepthAc

\* unpack: the blocks of an image, width of them in a row, become fragments
\* of limited height.  A fragment starts with the last rows of the one before
\* it, so that each can be transformed on its own.  values[n][c] is coefficient
\* c of block n.
overlap_rows == 7
BufferRows(width) ==
  CASE 8 * width < 2048 + 8 * overlap_rows -> width + overlap_rows
    [] 8 * width \in (2048 + 8 * overlap_rows)..(2^14 - 1) -> 256 + overlap_rows
    [] OTHER -> 2 * ((2^28 \div (8 * width) + 15) \div 16)

Unpacked(width, blocks, values) ==
  LET rows == (blocks + width - 1) \div width
      full == BufferRows(width)
      step == full - overlap_rows
      count == IF rows <= full THEN 1 ELSE (rows - overlap_rows + step - 1) \div step
      Scale(n) == 2^(IF n = 0 THEN 0 ELSE (n - 1) \div 3)
      Coefficient(n, offset) ==
        CHOOSE c \in 0..63 : Subband(c) = n /\ Offset(c) = offset
      At(first, n, r, c) ==
        LET block == (first + r \div Scale(n)) * width + c \div Scale(n)
        IN IF block >= blocks THEN 0
           ELSE values[block][Coefficient(n, <<r % Scale(n), c % Scale(n)>>)]
      Fragment(first, height) ==
        [n \in 1..10 |-> Bitmap(width * Scale(n - 1), height * Scale(n - 1),
                                LAMBDA r, c : At(first, n - 1, r, c))]
  IN [k \in 1..count |-> Fragment((k - 1) * step,
                                  IF k < count THEN full ELSE rows - (k - 1) * step)]
=============================================================================
