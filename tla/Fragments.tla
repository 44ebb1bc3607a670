----------------------------- MODULE Fragments -----------------------------
(***************************************************************************)
(* The forward transform of an image in frames (dwt/dwt.cpp) and what the  *)
(* compression routines do with the fragments of subbands it makes         *)
(* (core/samples/routines.tpp): cutting the image into frames, collecting  *)
(* the fragments and merging them into subbands of the whole image.        *)
(*                                                                         *)
(* A frame is a record of x, y, width and height.  Frames are as wide as a *)
(* segment is long and follow each other in raster order: one that crosses *)
(* the right edge goes on at the left edge, below itself.                  *)
(***************************************************************************)
EXTENDS Wavelet, BitWords

CONSTANT height_granularity   \* 256 in the code

ASSUME GranularityAssumption ==
  height_granularity \in Nat \ {0} /\ height_granularity % padding_length = 0

overlap_img_range == 28
lowpass_dependency_radius == 4

Smaller(m, n) == IF m < n THEN m ELSE n
zeropred(value, keep) == IF keep THEN value ELSE 0
relu(n) == IF n < 0 THEN 0 ELSE n
ImgPos(x, y, width, height) == [x |-> x, y |-> y, width |-> width, height |-> height]

----------------------------------------------------------------------------
(* Cutting the image into frames (preprocess_image).  The image's width and
   height are padded ones here. *)

\* The height of a frame: a quarter of the image, rounded to the granularity.
FrameHeight(image_height) ==
  LET quarter == image_height \div 4
      frame_height == IF quarter < height_granularity THEN height_granularity ELSE quarter
  IN ((frame_height + height_granularity \div 2) \div height_granularity) * height_granularity

\* Mutation: the frame behind one that crosses the edge starts at the edge.
NextFrameAtEdge(frame, image_width) ==
  LET x == frame.x + frame.width
      right_edge_reached == x >= image_width
  IN [frame EXCEPT !.x = zeropred(x, ~right_edge_reached),
                   !.y = @ + zeropred(frame.height, right_edge_reached)]

\* The next frame's position; one that crosses the right edge leaves the rest
\* of its width to the next row.
NextFrame(frame, image_width) ==
  LET x == frame.x + frame.width
      right_edge_reached == x >= image_width
  IN [frame EXCEPT !.x = x - zeropred(image_width, right_edge_reached),
                   !.y = @ + zeropred(frame.height, right_edge_reached)]

\* All frames: the last one ends at the right edge, those of the last row at
\* the bottom.
Frames(image_width, image_height, largest_segment_size) ==
  LET frame_height == FrameHeight(image_height)
      frame_width == Smaller(image_width, largest_segment_size)
      from[p \in (0..(image_height + frame_height)) \X (0..(image_width - 1))] ==
        LET frame == ImgPos(p[2], p[1], frame_width, frame_height)
            next == NextFrame(frame, image_width)
        IN IF p[1] >= image_height THEN <<>> ELSE <<frame>> \o from[<<next.y, next.x>>]
      all == from[<<0, 0>>]
      Trimmed(i) ==
        [all[i] EXCEPT
           !.width = IF i = Len(all) THEN image_width - all[i].x ELSE @,
           !.height = Smaller(@, image_height - all[i].y)]
  IN [i \in 1..Len(all) |-> Trimmed(i)]

----------------------------------------------------------------------------
(* Transforming a frame (ForwardWaveletTransformer::apply). *)

\* decompose_frame: a frame that crosses the right edge is two rectangles,
\* unless nothing is left of the image below it.
decompose_frame(width, height, frame) ==
  LET divided == width < frame.x + frame.width /\ height > frame.y + frame.height
      first == ImgPos(frame.x, frame.y, Smaller(frame.width, width - frame.x),
                      Smaller(frame.height, height - frame.y))
      below == first.y + first.height
      second == ImgPos(0, below, frame.width - first.width,
                       Smaller(frame.height, height - below))
  IN IF divided THEN <<first, second>> ELSE <<first>>

\* The pixels beyond the edges of a rectangle that its coefficients depend on,
\* as far as there are any.
EdgeOverlap(width, height, frame) ==
  [top |-> Smaller(frame.y, overlap_img_range),
   left |-> Smaller(frame.x, overlap_img_range),
   right |-> Smaller(width - (frame.x + frame.width), overlap_img_range),
   bottom |-> Smaller(height - (frame.y + frame.height), overlap_img_range)]

\* What is left of an overlap behind a low pass: a full one loses what the
\* filter's radius makes invalid.  requirement is what the level still needs.
Requirement(level) ==
  CASE level = 1 -> 24 [] level = 2 -> 8 [] level = 3 -> 0
Remaining(overlap, level) ==
  relu(IF overlap > Requirement(level) THEN overlap - lowpass_dependency_radius
                                       ELSE overlap) \div 2

\* Mutation: none are dropped.
LowDropNone(overlap, level) == 0

\* The low coefficients at the start of a slice that are not valid.
LowDrop(overlap, level) == relu(overlap - Requirement(level)) \div 2

\* First pass of level 1: rows of the image with the pixels around the
\* rectangle, not mirrored but read from the image (skip_src_extension).  Rows
\* the image does not have, at the bottom, are the last one again: they are
\* filled in behind the pass (apply_height_padding), counted from the end.
ImageHalves(image, frame, overlap) ==
  LET x0 == frame.x - overlap.left
      y0 == frame.y - overlap.top
      rows == frame.height + overlap.top + overlap.bottom
      columns == frame.width + overlap.left + overlap.right
      beyond == frame.y + frame.height + overlap.bottom > image.height
      missing == IF beyond THEN PaddedTo(image.height) - image.height ELSE 0
      width == PaddedTo(image.width)
      Source(r) ==
        LET row == image.at[y0 + Smaller(r, rows - missing - 1)]
            padded == Evaluated([c \in 0..(width - 1) |-> row[Smaller(c, image.width - 1)]])
        IN [i \in -2..(columns + 2) |-> ExtendedForward(padded, width)[x0 + i]]
      source == Evaluated([r \in 0..(rows - 1) |-> Source(r)])
      wide == frame.width \div 2
  IN [hout |-> HighRows(source, rows, overlap.left \div 2, wide),
      lout |-> LowRows(source, columns, rows, LowDrop(overlap.left, 1),
                       wide + Remaining(overlap.left, 1) + Remaining(overlap.right, 1))]

\* First pass of a deeper level: rows of what the level before has left.
BufferHalves(image, width, overlap, level) ==
  [hout |-> HighPass(image, overlap.left \div 2, width \div 2),
   lout |-> LowPass(image, LowDrop(overlap.left, level),
                    width \div 2 + Remaining(overlap.left, level)
                                 + Remaining(overlap.right, level))]

\* Second pass.  LH still has the overlap of its columns: it is dropped when
\* the fragment is put together.
FrameQuarters(halves, width, height, overlap, level) ==
  LET rows == height \div 2
      left == Remaining(overlap.left, level)
      lh == HighPass(halves.lout, overlap.top \div 2, rows)
  IN [hl |-> LowPass(halves.hout, overlap.top \div 2, rows),
      lh |-> slice(lh, left, 0, width \div 2, rows),
      hh |-> HighPass(halves.hout, overlap.top \div 2, rows),
      ll |-> LowPass(halves.lout, LowDrop(overlap.top, level),
                     rows + Remaining(overlap.top, level) + Remaining(overlap.bottom, level))]

\* The level that a subband is of; it is that often halved.
Gen(n) == IF n = 1 THEN 3 ELSE 3 - (n - 2) \div 3

\* What the three levels have made, as subbands from the lowest frequency on.
SubbandAt(quarters, frame, n) ==
  LET level == Gen(n)
  IN CASE n = 1 -> slice(quarters[3].ll, 0, 0, frame.width \div 8, frame.height \div 8)
     [] n % 3 = 2 -> quarters[level].hl
     [] n > 1 /\ n % 3 = 0 -> quarters[level].lh
     [] n > 1 /\ n % 3 = 1 -> quarters[level].hh

\* A rectangle through all levels, scaled.
TransformRectangle(image, frame, overlap, shifts) ==
  LET \* The overlap that a level gets from those before.
      OverlapAt[level \in 1..3] ==
        IF level = 1 THEN overlap
        ELSE [edge \in DOMAIN overlap |-> Remaining(OverlapAt[level - 1][edge], level - 1)]
      Transformed(quarters, level) ==
        LET width == frame.width \div 2^(level - 1)
            height == frame.height \div 2^(level - 1)
        IN Append(quarters,
             FrameQuarters(IF level = 1 THEN ImageHalves(image, frame, overlap)
                           ELSE BufferHalves(quarters[level - 1].ll, width, OverlapAt[level], level),
                           width, height, OverlapAt[level], level))
      quarters == Folded(Transformed, <<>>, <<1, 2, 3>>)
  IN [n \in 1..10 |-> scaled(SubbandAt(quarters, frame, n), shifts[n])]

\* apply: the subbands of a frame, those of its second rectangle on the right
\* of those of the first.  Below the second one, if it is the lower of the two,
\* is what the buffer had there.
Joined(left, right) ==
  Bitmap(left.width + right.width, left.height, LAMBDA r, c :
           IF c < left.width THEN left.at[r][c]
           ELSE IF r < right.height THEN right.at[r][c - left.width] ELSE 0)
JoinedParts(done) ==
  IF Len(done) = 1 THEN done[1] ELSE [n \in 1..10 |-> Joined(done[1][n], done[2][n])]

TransformFragment(image, frame, shifts) ==
  LET width == PaddedTo(image.width)
      height == PaddedTo(image.height)
      parts == decompose_frame(width, height, frame)
      Overlap(k) ==
        LET o == EdgeOverlap(width, height, parts[k])
        IN IF k = 1 THEN o ELSE [o EXCEPT !.left = 0]
  IN JoinedParts(Evaluated([k \in 1..Len(parts) |->
                              TransformRectangle(image, parts[k], Overlap(k), shifts)]))

\* The subbands of the whole image, in one piece.
WholeTransform(image, shifts) ==
  TransformRectangle(image, ImgPos(0, 0, PaddedTo(image.width), PaddedTo(image.height)),
                     [top |-> 0, left |-> 0, right |-> 0, bottom |-> 0], shifts)

----------------------------------------------------------------------------
(* Collecting and merging the fragments.  They are in a list in the order
   their transforms ended; here a fragment is its frame. *)

Before(frame, other) == frame.y < other.y \/ (frame.y = other.y /\ frame.x < other.x)

\* Mutation: the fragments are taken as they come.
collect_unsorted(fragments, image_width) ==
  LET next[i \in 0..Len(fragments)] ==
        IF i = 0 THEN ImgPos(0, 0, 0, 0) ELSE NextFrame(fragments[i], image_width)
      Contiguous(i) == /\ fragments[i].x = next[i - 1].x
                       /\ fragments[i].y = next[i - 1].y
      count == CHOOSE n \in 0..Len(fragments) :
                 /\ \A i \in 1..n : Contiguous(i)
                 /\ n = Len(fragments) \/ ~Contiguous(n + 1)
  IN SubSeq(fragments, 1, count)

\* collect_contiguous_fragments: the fragments in raster order, from the first
\* one of the image on and as long as each begins where the last one ended.
collect_contiguous_fragments(fragments, image_width) ==
  LET sorted == Evaluated(Sorted({fragments[i] : i \in 1..Len(fragments)}, Before))
      next[i \in 0..Len(sorted)] ==
        IF i = 0 THEN ImgPos(0, 0, 0, 0) ELSE NextFrame(sorted[i], image_width)
      Contiguous(i) == /\ sorted[i].x = next[i - 1].x
                       /\ sorted[i].y = next[i - 1].y
      count == CHOOSE n \in 0..Len(sorted) :
                 /\ \A i \in 1..n : Contiguous(i)
                 /\ n = Len(sorted) \/ ~Contiguous(n + 1)
  IN SubSeq(sorted, 1, count)

\* merge_subbands, the region: how many rows of the image the fragments fill,
\* how many fragments that takes and how wide the rest of them is, the tail.
MergedRegion(fragments, image_width) ==
  LET Count(region, i) ==
        LET width == region.width + 8 * fragments[i][1].width
            right_edge_reached == width >= image_width
        IN [width |-> width - zeropred(image_width, right_edge_reached),
            height |-> region.height + zeropred(8 * fragments[i][1].height, right_edge_reached),
            count |-> IF right_edge_reached THEN i ELSE region.count]
  IN Folded(Count, [width |-> 0, height |-> 0, count |-> 0],
            [i \in 1..Len(fragments) |-> i])

\* Where a fragment is put.  Behind one that reaches the right edge the next
\* one starts at the left edge, even if the rest of that one is there already.
ImageFrames(fragments, image_width) ==
  LET frame[i \in 1..Len(fragments)] ==
        IF i = 1 THEN [x |-> 0, y |-> 0]
        ELSE LET x == frame[i - 1].x + 8 * fragments[i - 1][1].width
                 right_edge_reached == x >= image_width
             IN [x |-> zeropred(x, ~right_edge_reached),
                 y |-> frame[i - 1].y + zeropred(8 * fragments[1][1].height, right_edge_reached)]
  IN Evaluated(frame)

\* Whether the last fragment, where it is put, crosses the right edge: to know
\* how high the part beyond the edge is, the code asks the fragment behind it,
\* which there is none of.
ReadsBehind(fragments, image_width) ==
  LET region == MergedRegion(fragments, image_width)
      last == Len(fragments)
  IN /\ region.count = last /\ last > 0
     /\ ImageFrames(fragments, image_width)[last].x + 8 * fragments[last][1].width > image_width

\* One subband of the result, of fragments with their position.  What crosses
\* the right edge goes on below, as high as the next fragment is; a later
\* fragment overwrites an earlier one.
MergedSubband(parts, width, height) ==
  LET Right(part) == part.x + part.subband.width
      Bottom(part) == part.y + part.subband.height
      rows == Evaluated([r \in 0..(height - 1) |->
        [within |-> {i \in DOMAIN parts : parts[i].y <= r /\ r < Bottom(parts[i])},
         beyond |-> {i \in DOMAIN parts :
                       /\ Right(parts[i]) > width
                       /\ Bottom(parts[i]) <= r /\ r < Bottom(parts[i]) + parts[i].below}]])
      Last(within, beyond, r, c) ==
        IF within \cup beyond = {} THEN 0
        ELSE LET i == Largest(within \cup beyond)
             IN IF i \in within THEN parts[i].subband.at[r - parts[i].y][c - parts[i].x]
                ELSE parts[i].subband.at[r - Bottom(parts[i])][c + width - parts[i].x]
  IN Bitmap(width, height, LAMBDA r, c :
       Last({i \in rows[r].within : parts[i].x <= c /\ c < Right(parts[i])},
            {i \in rows[r].beyond : c + width < Right(parts[i])}, r, c))

\* The fragments put together.  Those of a whole image end at its right edge:
\* nothing is left for the tail, of which only the width is kept here, and no
\* fragment is cut down.  behind is what the memory behind the last fragment
\* holds where a height is expected, as far as the last fragment has rows: of what
\* is copied from behind these nothing can be said.
merge_subbands(fragments, image_width, behind) ==
  LET region == MergedRegion(fragments, image_width)
      frames == ImageFrames(fragments, image_width)
      Parts(n, scale) ==
        Evaluated([i \in 1..region.count |->
          [x |-> frames[i].x \div scale, y |-> frames[i].y \div scale,
           subband |-> fragments[i][n],
           below |-> IF i = Len(fragments) THEN Smaller(behind, fragments[i][n].height)
                                           ELSE fragments[i + 1][n].height]])
      Merged(n, scale) ==
        MergedSubband(Parts(n, scale), image_width \div scale, region.height \div scale)
  IN [subbands |-> [n \in 1..10 |-> Merged(n, 2^Gen(n))], tail_width |-> region.width,
      past_end |-> ReadsBehind(fragments, image_width)]
=============================================================================
