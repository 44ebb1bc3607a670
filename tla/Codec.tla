------------------------------- MODULE Codec -------------------------------
(***************************************************************************)
(* One image on its way through the codec: forward transform, assembly of  *)
(* segments, coding of each segment stage by stage, and all of it back.    *)
(* The encoder keeps marks of where it was after every stage, so that the  *)
(* decoder's way through the same stream can be compared with its.         *)
(***************************************************************************)
EXTENDS Wavelet, SegmentAssembly, BitPlaneEncoder, BitPlaneDecoder

CONSTANT
  Inputs,  \* what is compressed: image, bit_shifts, segment_size, and heuristic,
           \* the vectors coded with heuristic parameters, of "DC" and "AC"
  Garbage  \* what memory that is not initialised may hold

min_width == 17
min_height == 17

\* What validation lets through (Command): images that are not too small, and no
\* shift beyond the largest.  The size of a segment is a size_t.
ASSUME InputAssumption ==
  \A request \in Inputs :
    LET image == request.image
    IN /\ image \in [width : Nat, height : Nat,
                     at : [0..(image.height - 1) -> [0..(image.width - 1) -> Int]]]
       /\ image.width >= min_width /\ image.height >= min_height
       /\ request.bit_shifts \in [1..10 -> 0..max_scale_shift]
       /\ request.segment_size \in Nat
       /\ request.heuristic \subseteq {"DC", "AC"}

ASSUME GarbageAssumption == Garbage # {} /\ Garbage \subseteq Nat

VARIABLES
  input,     \* the member of Inputs that is compressed
  pc,        \* the next step
  work,      \* the bitmap or pair of halves the transform has arrived at
  subbands,  \* the subbands the transform has made, or the decoder has
  seg,       \* the segment in the encoder or decoder
  enc,       \* the encoder's plane and what it remembers
  stream,    \* the bits of the segment so far
  marks,     \* where the encoder was after each stage, with its selections
  segments,  \* segments coded: the header's values, stream and marks
  dec,       \* the decoder
  decoded    \* segments decoded

images == <<work, subbands>>
encoder == <<enc, stream, marks>>
vars == <<input, pc, images, seg, encoder, segments, dec, decoded>>

Nothing == [none |-> TRUE]

Init ==
  /\ input \in Inputs
  /\ pc = [at |-> "preprocess", level |-> 0]
  /\ work = Nothing
  /\ subbands = <<>>
  /\ seg = Nothing /\ enc = Nothing /\ stream = <<>> /\ marks = <<>>
  /\ segments = <<>> /\ dec = Nothing /\ decoded = <<>>

Goto(at, level) == pc' = [at |-> at, level |-> level]

----------------------------------------------------------------------------
(* Forward transform. *)

Preprocess ==
  /\ pc.at = "preprocess"
  /\ work' = Padded(input.image)
  /\ Goto("rows", 1)
  /\ UNCHANGED <<input, subbands, seg, encoder, segments, dec, decoded>>

TransformRows ==
  /\ pc.at = "rows"
  /\ work' = Halves(work)
  /\ Goto("columns", pc.level)
  /\ UNCHANGED <<input, subbands, seg, encoder, segments, dec, decoded>>

\* Subbands of a level go in front of those of the level before, scaled.
TransformColumns ==
  /\ pc.at = "columns"
  /\ LET quarters == Quarters(work)
         Shift(n) == input.bit_shifts[n + 1]
         first == 3 * (level_num - pc.level)
         scaledQuarters ==
           <<scaled(quarters.hl, Shift(first + 1)), scaled(quarters.lh, Shift(first + 2)),
             scaled(quarters.hh, Shift(first + 3))>>
         last == pc.level = level_num
     IN /\ work' = quarters.ll
        /\ subbands' = (IF last THEN <<scaled(quarters.ll, Shift(0))>> ELSE <<>>)
                         \o scaledQuarters \o subbands
        /\ IF last THEN Goto("assemble", 0) ELSE Goto("rows", pc.level + 1)
  /\ UNCHANGED <<input, seg, encoder, segments, dec, decoded>>

----------------------------------------------------------------------------
(* Coding of a segment. *)

Blocks == subbands[1].width * subbands[1].height
Sizes == SegmentSizes(Blocks, input.segment_size)

\* The block the next segment starts with.
FirstBlock(n) == IF input.segment_size = 0 THEN 0 ELSE (n - 1) * input.segment_size

\* The DC coefficients of some blocks, kept to be compared with the decoder's.
DCs(first, size) ==
  [j \in 1..size |-> subbands[1].at[(first + j - 1) \div subbands[1].width]
                                   [(first + j - 1) % subbands[1].width]]

Assemble ==
  /\ pc.at = "assemble"
  /\ LET n == Len(segments) + 1
     IN seg' = SegmentOf(subbands, input.bit_shifts, FirstBlock(n), Sizes[n])
  /\ Goto("head", 0)
  /\ UNCHANGED <<input, images, encoder, segments, dec, decoded>>

EncodeHead ==
  /\ pc.at = "head"
  /\ \E garbage \in Garbage : stream' = EncodedHead(seg, input.heuristic, garbage)
  /\ enc' = [b |-> seg.bdepthAc - 1, skip |-> {}, mask |-> [j \in 1..seg.size |-> {}],
             negative |-> [j \in 1..seg.size |-> Negative(seg.data[j])],
             cur |-> <<>>, words |-> <<>>, options |-> <<>>, marked |-> <<>>]
  /\ marks' = <<>>
  /\ IF seg.bdepthAc > 0 THEN Goto("plane", 0) ELSE Goto("flush", 0)
  /\ UNCHANGED <<input, images, seg, segments, dec, decoded>>

\* A mark: the length of the stream and the selections.
Marked(bits, mask) == Append(marks, [pos |-> Len(bits), mask |-> mask])

\* The plane's words are made before any of them is written.  Only in the
\* lowest planes are subbands looked for that have no bits left.
EncodePlane ==
  /\ pc.at = "plane"
  /\ LET b == enc.b
         low == b < max_scale_shift
         skip == IF low THEN enc.skip \cup Scaled(seg.bit_shifts, b + 1) ELSE enc.skip
         cur == [j \in 1..seg.size |-> Plane(seg.data[j], b)]
         words == [j \in 1..seg.size |->
                     BlockWords(cur[j], enc.mask[j], skip, enc.negative[j])]
         first(g) == (g - 1) * items_per_gaggle + 1
         last(g) == IF g * items_per_gaggle < seg.size THEN g * items_per_gaggle ELSE seg.size
         stage0 == IF b < seg.q /\ DC_index \notin skip
                     THEN bplaneEncode(seg.plainDc, b, 1) ELSE <<>>
     IN /\ enc' = [enc EXCEPT
                     !.skip = skip, !.cur = cur, !.words = words,
                     !.options = [g \in Gaggles(seg.size) |->
                                    GaggleOptions(SubSeq(words, first(g), last(g)))],
                     !.marked = [g \in Gaggles(seg.size) |-> {}]]
        /\ stream' = stream \o stage0
        /\ marks' = Marked(stream', enc.mask)
  /\ Goto("stage", 1)
  /\ UNCHANGED <<input, images, seg, segments, dec, decoded>>

\* Stages 1 to 3.
EncodeStage ==
  /\ pc.at = "stage"
  /\ LET all == EncodeBlocks(enc.words, pc.level, enc.options, enc.marked)
     IN /\ stream' = stream \o all.bits
        /\ enc' = [enc EXCEPT !.marked = all.marked]
        /\ marks' = Marked(stream', enc.mask)
  /\ IF pc.level < 3 THEN Goto("stage", pc.level + 1) ELSE Goto("refine", 0)
  /\ UNCHANGED <<input, images, seg, segments, dec, decoded>>

\* Stage 4, and on to the next plane.
EncodeRefinement ==
  /\ pc.at = "refine"
  /\ LET bits == Concat([j \in 1..seg.size |->
                           Refinement(enc.cur[j], enc.mask[j], enc.skip)])
         mask == [j \in 1..seg.size |->
                    enc.mask[j] \cup Transit(enc.cur[j], enc.mask[j], enc.skip)]
     IN /\ stream' = stream \o bits
        /\ enc' = [enc EXCEPT !.mask = mask, !.b = @ - 1]
        /\ marks' = Marked(stream', mask)
  /\ IF enc.b = 0 THEN Goto("flush", 0) ELSE Goto("plane", 0)
  /\ UNCHANGED <<input, images, seg, segments, dec, decoded>>

\* The segment is complete; what the header says of it stays with it.
FinishSegment ==
  /\ pc.at = "flush"
  /\ segments' = Append(segments, [seg |-> seg, stream |-> stream, marks |-> marks,
                                   dc |-> DCs(FirstBlock(Len(segments) + 1), seg.size)])
  /\ seg' = Nothing /\ enc' = Nothing /\ stream' = <<>> /\ marks' = <<>>
  /\ IF Len(segments') < Len(Sizes) THEN Goto("assemble", 0) ELSE Goto("open", 0)
  /\ UNCHANGED <<input, images, dec, decoded>>

----------------------------------------------------------------------------
(* Decoding of a segment.  The decoder has the header's values and the
   stream. *)

Coded == segments[Len(decoded) + 1]

\* What the header tells of a segment; q follows from it.
Received(s) ==
  [size |-> s.size, bit_shifts |-> s.bit_shifts, bdepthDc |-> s.bdepthDc,
   bdepthAc |-> s.bdepthAc, q |-> quant_dc(s.bdepthDc, s.bdepthAc, s.bit_shifts[1]),
   data |-> <<>>, plainDc |-> <<>>, quantizedDc |-> <<>>, referenceSample |-> 0,
   quantizedBdepthAc |-> <<>>, referenceBdepthAc |-> 0]

DecodeHead ==
  /\ pc.at = "open"
  /\ LET read == DecodedHead(Received(Coded.seg), Coded.stream)
     IN /\ seg' = read.seg
        /\ dec' = [state |-> DecoderState(read.seg, read.pos), b |-> read.seg.bdepthAc]
  /\ IF Coded.seg.bdepthAc > 0 THEN Goto("dplane", 0) ELSE Goto("close", 0)
  /\ UNCHANGED <<input, images, encoder, segments, decoded>>

DecodePlane ==
  /\ pc.at = "dplane"
  /\ LET state == NextPlane(dec.state, seg, dec.b)
         stage0 == dec.b <= seg.q /\ DC_index \notin state.skip
     IN IF stage0
          THEN /\ dec' = [dec EXCEPT !.state = [state EXCEPT !.pos = @ + seg.size]]
               /\ seg' = [seg EXCEPT !.plainDc = bplaneDecode(@, 1, Coded.stream, state.pos)]
          ELSE dec' = [dec EXCEPT !.state = state] /\ seg' = seg
  /\ Goto("dstage", 1)
  /\ UNCHANGED <<input, images, encoder, segments, decoded>>

DecodeStage ==
  /\ pc.at = "dstage"
  /\ dec' = [dec EXCEPT !.state =
               CASE pc.level = 1 -> OverBlocks(DecodeStage1, @, Coded.stream)
                 [] pc.level = 2 -> OverBlocks(DecodeStage2, @, Coded.stream)
                 [] pc.level = 3 -> OverBlocks(DecodeStage3, @, Coded.stream)]
  /\ IF pc.level < 3 THEN Goto("dstage", pc.level + 1) ELSE Goto("drefine", 0)
  /\ UNCHANGED <<input, images, seg, encoder, segments, decoded>>

DecodeRefinement ==
  /\ pc.at = "drefine"
  /\ dec' = [state |-> Accumulated(OverBlocks(DecodeStage4, dec.state, Coded.stream)),
             b |-> dec.b - 1]
  /\ IF dec.b = 1 THEN Goto("close", 0) ELSE Goto("dplane", 0)
  /\ UNCHANGED <<input, images, seg, encoder, segments, decoded>>

\* Signs and the DC coefficients come in; the segment joins the others.
CloseSegment ==
  /\ pc.at = "close"
  /\ LET full == IF seg.bdepthAc > 0 THEN Signed(seg, dec.state)
                 ELSE [seg EXCEPT !.data = dec.state.data]
         dc == DisassembledDC(full)
     IN decoded' = Append(decoded, [seg |-> full, dc |-> dc])
  /\ seg' = Nothing /\ dec' = Nothing
  /\ IF Len(decoded') < Len(segments) THEN Goto("open", 0) ELSE Goto("unpack", 0)
  /\ UNCHANGED <<input, images, encoder, segments>>

----------------------------------------------------------------------------
(* Backward transform. *)

Unpack ==
  /\ pc.at = "unpack"
  /\ LET SegmentAt(n) == IF input.segment_size = 0 THEN 1 ELSE n \div input.segment_size + 1
         Value(n, c) ==
           LET s == SegmentAt(n)
               j == n - FirstBlock(s) + 1
           IN IF c = 0 THEN decoded[s].dc[j] ELSE decoded[s].seg.data[j][c]
         values == [n \in 0..(Blocks - 1) |-> [c \in 0..63 |-> Value(n, c)]]
     IN subbands' = Unpacked(PaddedTo(input.image.width) \div 8, Blocks, values)[1]
  /\ work' = Nothing
  /\ Goto("unscale", 0)
  /\ UNCHANGED <<input, seg, encoder, segments, dec, decoded>>

\* The DC subband is unscaled already (skip_dc_scaling).
Unscale ==
  /\ pc.at = "unscale"
  /\ subbands' = [n \in 1..10 |-> IF n = 1 THEN subbands[1]
                                  ELSE unscaled(subbands[n], input.bit_shifts[n])]
  /\ work' = transpose(subbands[1])
  /\ Goto("icolumns", level_num)
  /\ UNCHANGED <<input, seg, encoder, segments, dec, decoded>>

InverseColumns ==
  /\ pc.at = "icolumns"
  /\ LET first == 3 * (level_num - pc.level) + 1
     IN work' = JoinedColumns(work, subbands[first + 1], subbands[first + 2], subbands[first + 3], 0)
  /\ Goto("irows", pc.level)
  /\ UNCHANGED <<input, subbands, seg, encoder, segments, dec, decoded>>

InverseRows ==
  /\ pc.at = "irows"
  /\ LET joined == JoinedRows(work)
     IN work' = IF pc.level > 1 THEN joined
                ELSE slice(transpose(joined), 0, 0, input.image.width, input.image.height)
  /\ IF pc.level > 1 THEN Goto("icolumns", pc.level - 1) ELSE Goto("done", 0)
  /\ UNCHANGED <<input, subbands, seg, encoder, segments, dec, decoded>>

Done == pc.at = "done" /\ UNCHANGED vars

Next ==
  \/ Preprocess \/ TransformRows \/ TransformColumns
  \/ Assemble \/ EncodeHead \/ EncodePlane \/ EncodeStage \/ EncodeRefinement \/ FinishSegment
  \/ DecodeHead \/ DecodePlane \/ DecodeStage \/ DecodeRefinement \/ CloseSegment
  \/ Unpack \/ Unscale \/ InverseColumns \/ InverseRows
  \/ Done

Spec == Init /\ [][Next]_vars /\ WF_vars(Next)

----------------------------------------------------------------------------
(* Properties. *)

Steps == {"preprocess", "rows", "columns", "assemble", "head", "plane", "stage", "refine",
          "flush", "open", "dplane", "dstage", "drefine", "close", "unpack", "unscale",
          "icolumns", "irows", "done"}
HeaderFields(s) ==
  /\ s.size \in 1..(2^20 - 1)
  /\ s.bdepthDc \in 0..31 /\ s.bdepthAc \in 0..31
  /\ s.q \in 0..31
  /\ \A j \in 1..s.size : s.plainDc[j] \in 0..(2^s.q - 1)

\* The next step is known, streams are bits, and what the header says of a coded segment
\* fits the header's fields (io/headers.hpp), with no negative number of DC bit planes.
TypeOK ==
  /\ pc.at \in Steps /\ pc.level \in 0..level_num
  /\ \A n \in 1..Len(stream) : stream[n] \in {0, 1}
  /\ \A k \in 1..Len(segments) : HeaderFields(segments[k].seg)
  /\ Len(decoded) <= Len(segments)

\* What a segment must be like for the decoder to follow the encoder at all: no padding
\* between several additional DC planes, differences of no more than N bits, and a
\* first gaggle that is full if its parameter is heuristic.
Fits(items, depth) ==
  \A i \in 1..Len(items) : items[i] < 2^(IF depth < 1 THEN 1 ELSE depth)
Representable(s) ==
  /\ AdditionalDepth(s) <= 1 \/ s.size % bplane_alignment = 0
  /\ Fits(s.quantizedDc, s.bdepthDc - s.q)
  /\ Fits(s.quantizedBdepthAc, bit_width(s.bdepthAc))
Heuristic(s) == \/ "DC" \in input.heuristic /\ s.bdepthDc - s.q > 1
                \/ "AC" \in input.heuristic /\ bit_width(s.bdepthAc) > 1
Codable(s) == Representable(s) /\ (Heuristic(s) => s.size >= items_per_gaggle)

\* What it must be like for its DC coefficients to survive: no additional plane, of which
\* the lowest is not written; a single bit only for zeros; and some bit plane to code,
\* since the shift of the DC coefficients is undone behind the bit planes.
Lossless(s) ==
  /\ Codable(s)
  /\ AdditionalDepth(s) = 0
  /\ s.bdepthAc > 0 \/ s.bit_shifts[1] = 0
  /\ s.bdepthDc - s.q <= 1 =>
       \A j \in 1..s.size : {s.plainDc[j], s.referenceSample, (s.quantizedDc \o <<0>>)[j]} = {0}

\* The number of marks the encoder had made when it was where the decoder is now.
Passed ==
  5 * (Coded.seg.bdepthAc - dec.b)
    + CASE pc.at = "dplane" -> 0 [] pc.at = "dstage" -> pc.level [] pc.at = "drefine" -> 4

\* The transform by itself loses nothing, whatever the coder does later: where the
\* subbands are complete, the inverse transform would make the padded image of them,
\* to the last pixel at every edge (ForwardWaveletTransformer::apply, the filters of
\* dwtcore.tpp and BackwardWaveletTransformer::apply, which nothing else relates).
Inverted ==
  LET Unscaled(n) == unscaled(subbands[n], input.bit_shifts[n])
      Joined(ll, n) ==
        JoinedRows(JoinedColumns(ll, Unscaled(n), Unscaled(n + 1), Unscaled(n + 2), 0))
  IN transpose(Joined(Joined(Joined(transpose(Unscaled(1)), 2), 5), 8))
TransformReversible == pc.at = "assemble" => Inverted = Padded(input.image)

\* Behind every stage of every bit plane the decoder stands at the bit of the stream the
\* encoder stood at, with the same coefficients selected (encodeBpeStages and
\* decodeBpeStages take the same decisions).
Lockstep ==
  (pc.at \in {"dplane", "dstage", "drefine"} /\ Passed > 0 /\ Codable(Coded.seg)) =>
    /\ dec.state.pos = Coded.marks[Passed].pos
    /\ dec.state.mask = Coded.marks[Passed].mask

\* After every bit plane the decoder has the high bits of every magnitude, and the signs of
\* exactly the coefficients that are no longer zero (accumulation in decodeBpeStages).
Progressive ==
  (pc.at \in {"dplane", "close"} /\ Codable(Coded.seg)) =>
    \A j \in 1..seg.size : \A c \in 1..63 :
      LET value == Coded.seg.data[j][c]
          seen == magnitude(value) \div 2^dec.b
      IN /\ dec.state.data[j][c] = seen
         /\ c \in dec.state.signs[j] <=> value < 0 /\ seen > 0

\* The decoder's flags of families still waiting for a transition agree with the selections
\* the encoder derives them from: waiting means that nothing of the family is selected.  The
\* largest family's flag is dropped once all of the family is finished.
TransitionsAgree ==
  ((pc.at = "dplane" \/ pc = [at |-> "dstage", level |-> 1]) /\ Codable(Coded.seg)) =>
    \A j \in 1..seg.size :
      LET tran == dec.state.tran[j]
          Untouched(family) == family \cap dec.state.mask[j] = {}
      IN /\ tran.B => Untouched(B_set)
         /\ ~(B_set \subseteq dec.state.skip) => (Untouched(B_set) => tran.B)
         /\ \A f \in F : /\ f \in tran.D <=> Untouched(D_set(f))
                        /\ f \in tran.G <=> Untouched(G_set(f))
                        /\ \A k \in Hx : <<f, k>> \in tran.H <=> Untouched(H_set(f, k))

\* A subband is left out of a plane only if it has no bits there: shifts left zeros in the
\* planes below them (bplane_skip).
SkippedAreZero ==
  pc.at \in {"stage", "refine"} =>
    \A j \in 1..seg.size : enc.cur[j] \cap enc.skip = {}

\* The bit depths of the blocks survive differencing, coding and rkdiff, if the first one
\* is in the lower half of its range: kReverse takes it for a signed number.
DepthsRestored ==
  \A k \in 1..Len(decoded) :
    LET s == segments[k].seg
    IN Codable(s) /\ 2 * s.referenceBdepthAc < 2^bit_width(s.bdepthAc) /\ s.bdepthAc > 1 =>
         DisassembledDepths(decoded[k].seg) = [j \in 1..s.size |-> BlockDepth(s.data[j])]

\* The coefficients of a segment survive coding: all AC coefficients if the decoder can
\* follow, the DC coefficients if no bit of them is dropped.
SegmentRestored ==
  \A k \in 1..Len(decoded) :
    LET s == segments[k].seg
    IN /\ Codable(s) => \A j \in 1..s.size : \A c \in 1..63 :
                          decoded[k].seg.data[j][c] = s.data[j][c]
       /\ Lossless(s) => \A j \in 1..s.size :
                           decoded[k].dc[j] = segments[k].dc[j] \div 2^s.bit_shifts[1]

\* The integer transform and the coder lose nothing: a restored image is the original
\* (decompression of a whole image, all bit planes kept).
ImageRestored ==
  pc.at = "done" /\ (\A k \in 1..Len(segments) : Lossless(segments[k].seg)) =>
    work = input.image
=============================================================================
