---------------------------- MODULE Restoration ----------------------------
(***************************************************************************)
(* From decoded segments to an image (core/samples/routines.tpp and        *)
(* BackwardWaveletTransformer::apply): the segments become fragments of    *)
(* subbands that overlap, each fragment is transformed on its own, and the *)
(* pieces are put together.                                                *)
(***************************************************************************)
EXTENDS Fragments, SegmentAssembly

----------------------------------------------------------------------------
(* disassemble_segments. *)

\* The coefficients of the blocks of an image, from its segments in order.
BlockValues(segments) ==
  LET Values(seg) ==
        LET dc == DisassembledDC(seg)
        IN [j \in 1..seg.size |-> [c \in 0..63 |-> IF c = 0 THEN dc[j] ELSE seg.data[j][c]]]
      all == Evaluated(Folded(LAMBDA s, seg : s \o Evaluated(Values(seg)), <<>>, segments))
  IN Evaluated([n \in 0..(Len(all) - 1) |-> all[n + 1]])

top_overlap == 4
bottom_overlap == 3

\* Mutation: the rows a fragment shares with the next one count as its own.
FragmentContextsDoubled(fragments) ==
  LET Top(k) == IF k = 1 THEN 0 ELSE top_overlap
      Height(k) == 8 * (fragments[k][1].height - Top(k))
      y[k \in 1..Len(fragments)] == IF k = 1 THEN 0 ELSE y[k - 1] + Height(k - 1)
  IN [k \in 1..Len(fragments) |->
        [subbands |-> fragments[k], top_overlap |-> Top(k),
         bottom_overlap |-> IF k = Len(fragments) THEN 0 ELSE bottom_overlap,
         frame |-> ImgPos(0, y[k], 8 * fragments[k][1].width, Height(k))]]

\* The contexts of the fragments: where the part of the image is that each
\* restores, without the rows it shares with its neighbours.
FragmentContexts(fragments) ==
  LET Top(k) == IF k = 1 THEN 0 ELSE top_overlap
      Bottom(k) == IF k = Len(fragments) THEN 0 ELSE bottom_overlap
      Height(k) == 8 * (fragments[k][1].height - Top(k) - Bottom(k))
      y[k \in 1..Len(fragments)] == IF k = 1 THEN 0 ELSE y[k - 1] + Height(k - 1)
  IN [k \in 1..Len(fragments) |->
        [subbands |-> fragments[k], top_overlap |-> Top(k), bottom_overlap |-> Bottom(k),
         frame |-> ImgPos(0, y[k], 8 * fragments[k][1].width, Height(k))]]

----------------------------------------------------------------------------
(* BackwardWaveletTransformer::apply. *)

\* The rows above the fragment that a level gets, and the invalid ones at the
\* top of what it makes: on the last level all the fragment does not need.
BufferOverlap(top, level) ==
  LET double[l \in 1..level_num] ==
        Smaller(lowpass_dependency_radius, IF l = level_num THEN top ELSE 2 * double[l + 1])
  IN double[level]
Dropped(top, level) ==
  LET overlap == BufferOverlap(top, level)
  IN zeropred(lowpass_dependency_radius, overlap >= lowpass_dependency_radius)
       + zeropred(overlap, level = 1)

\* The subbands of one level, without rows above what the level gets.  The DC
\* subband is unscaled already (skip_dc_scaling).
LevelRows(subband, top, level) ==
  LET offset == top * 2^(level_num - level) - BufferOverlap(top, level)
  IN slice(subband, 0, offset, subband.width, subband.height - offset)

BackwardTransform(subbands, top, shifts) ==
  LET Source(n, level) == unscaled(LevelRows(subbands[n], top, level), shifts[n])
      ll[level \in 0..level_num] ==
        IF level = level_num THEN transpose(LevelRows(subbands[1], top, level_num))
        ELSE LET first == 3 * (level_num - level - 1) + 1
             IN JoinedRows(JoinedColumns(ll[level + 1], Source(first + 1, level + 1),
                                         Source(first + 2, level + 1),
                                         Source(first + 3, level + 1),
                                         Dropped(top, level + 1)))
  IN ll[0]

WithoutRows(image, rows) == shrink(image, image.height - rows)

\* restore_image: a part of the image.
RestoredFragment(cx, shifts, transpose_output) ==
  LET dst == BackwardTransform(cx.subbands, cx.top_overlap, shifts)
  IN WithoutRows(IF transpose_output THEN dst ELSE transpose(dst), 8 * cx.bottom_overlap)

----------------------------------------------------------------------------
(* postprocess_image. *)

\* Frames do not know of the transposition, fragments do.
Placed(frame, transposed) ==
  IF transposed THEN ImgPos(frame.y, frame.x, frame.height, frame.width) ELSE frame

\* Mutation: fragments are put in the order in which they were restored.
AssembledUnsorted(fragments, img_width, rows_pad_count, transposed) ==
  LET y[k \in 1..(Len(fragments) + 1)] ==
        IF k = 1 THEN 0 ELSE y[k - 1] + fragments[k - 1].frame.height
      At(r, c) ==
        LET k == CHOOSE k \in 1..Len(fragments) : r \in y[k]..(y[k + 1] - 1)
        IN fragments[k].image.at[r - y[k]][c]
  IN IF transposed THEN fragments[1].image
     ELSE Bitmap(img_width, y[Len(fragments) + 1] - rows_pad_count, At)

\* Every fragment at its place in an image of whole blocks, and that cut to
\* the size of the original.
AssembledImage(fragments, img_width, rows_pad_count, transposed) ==
  LET sorted == Evaluated(Sorted({fragments[k] : k \in 1..Len(fragments)},
                                 LAMBDA f, g : f.frame.y < g.frame.y))
      height == Folded(LAMBDA sum, f : sum + f.frame.height, 0, sorted)
      placed == [k \in 1..Len(sorted) |-> Placed(sorted[k].frame, transposed)]
      Within(k, r, c) == /\ r \in placed[k].y..(placed[k].y + placed[k].height - 1)
                         /\ c \in placed[k].x..(placed[k].x + placed[k].width - 1)
      At(r, c) == LET k == CHOOSE k \in 1..Len(sorted) : Within(k, r, c)
                  IN sorted[k].image.at[r - placed[k].y][c - placed[k].x]
  IN IF transposed THEN Bitmap(height - rows_pad_count, img_width, At)
                   ELSE Bitmap(img_width, height - rows_pad_count, At)
=============================================================================
