-------------------------- MODULE BitPlaneDecoder --------------------------
(***************************************************************************)
(* BitPlaneDecoder (bpe/bpe.cpp).  The decoder learns from the stream what *)
(* the encoder knew: it keeps the position, the coefficients selected so   *)
(* far and, per block, the families whose transition bit is still due.     *)
(***************************************************************************)
EXTENDS BlockPlanes

----------------------------------------------------------------------------
(* Differences: kDecode.  A reader is a record with the position and what it
   has read. *)

\* An item's first part as a number of zeros, for every item of a gaggle.
ReadZeros(stream, pos, count) ==
  Folded(LAMBDA r, i :
           LET zeros == extract_next_one(stream, r.pos)
           IN [pos |-> r.pos + zeros + 1, data |-> Append(r.data, zeros)],
         [pos |-> pos, data |-> <<>>], [i \in 1..count |-> i])

\* The items of a gaggle with parameter k: the parts of all items are separate.
ReadGaggle(stream, pos, count, k, N) ==
  LET uncoded == k = 2^bit_width(N - 1) - 1
      len == IF uncoded THEN N ELSE k
      first == IF uncoded THEN [pos |-> pos, data |-> [i \in 1..count |-> 0]]
                          ELSE ReadZeros(stream, pos, count)
  IN [pos |-> first.pos + count * len,
      data |-> [i \in 1..count |->
                  first.data[i] * 2^len
                    + Number(extract(stream, first.pos + (i - 1) * len, len))]]

\* kReverse: gaggle after gaggle, the reference behind the first parameter.
kReverse(stream, pos, datalength, N) ==
  LET last == GaggleOf(datalength + 1)
      Count(g) == (IF g = last THEN datalength + 1 ELSE g * items_per_gaggle)
                    - (g - 1) * items_per_gaggle - (IF g = 1 THEN 1 ELSE 0)
      width == bit_width(N - 1)
  IN Folded(LAMBDA r, g :
              LET start == r.pos + width + (IF g = 1 THEN N ELSE 0)
                  read == ReadGaggle(stream, start, Count(g),
                                     Number(extract(stream, r.pos, width)), N)
              IN [r EXCEPT !.pos = read.pos, !.data = @ \o read.data],
            [pos |-> pos, data |-> <<>>,
             reference |-> signext(Number(extract(stream, pos + width, N)), N)],
            [g \in 1..last |-> g])

kDecode(stream, pos, datalength, depth) ==
  LET N == IF depth < min_N_value THEN min_N_value ELSE depth
      Single(p) == signext(BitAt(stream, p), 1)
  IN IF N > 1 THEN kReverse(stream, pos, datalength, N)
     ELSE [pos |-> pos + 1 + datalength, reference |-> Single(pos),
           data |-> [i \in 1..datalength |-> Single(pos + i)]]

\* decode in front of the bit planes: the segment with its DC coefficients
\* and bit depths, and the position of the first plane.  The header has given
\* it size, bdepthDc, bdepthAc and bit_shifts; q follows from them.
DecodedHead(seg, stream) ==
  LET dc == kDecode(stream, 0, seg.size - 1, seg.bdepthDc - seg.q)
      depth == IF seg.bdepthAc < seg.bit_shifts[1] THEN seg.bit_shifts[1] ELSE seg.bdepthAc
      planes == IF seg.q > depth THEN seg.q - depth ELSE 0
      ac == dc.pos + planes * seg.size
      depths == kDecode(stream, ac, seg.size - 1, bit_width(seg.bdepthAc))
      head == [seg EXCEPT !.quantizedDc = dc.data, !.referenceSample = dc.reference,
                          !.plainDc = bplaneDecode([i \in 1..seg.size |-> 0], planes,
                                                   stream, dc.pos)]
  IN IF seg.bdepthAc = 0
       THEN [seg |-> head, pos |-> ac]
       ELSE [seg |-> [head EXCEPT !.quantizedBdepthAc = depths.data,
                                  !.referenceBdepthAc = depths.reference],
             pos |-> depths.pos]

----------------------------------------------------------------------------
(* Bit planes.  What the decoder keeps from plane to plane: tran has for every
   block the families still waiting for a one; mask is what it has selected,
   signs the negative ones, data the magnitudes read so far.  cur, transit,
   options and marked belong to the plane. *)

tran_due == [B |-> TRUE, D |-> F, G |-> F, H |-> F \X Hx]

DecoderState(seg, pos) ==
  LET Blocks(value) == [j \in 1..seg.size |-> value]
  IN [pos |-> pos, skip |-> {}, tran |-> Blocks(tran_due), mask |-> Blocks({}),
      signs |-> Blocks({}), transit |-> Blocks({}), cur |-> Blocks({}),
      data |-> Blocks([c \in 0..63 |-> 0]),
      options |-> [g \in Gaggles(seg.size) |->
                     [len \in CodedLengths |-> entropy_uncoded_codeoption]],
      marked |-> [g \in Gaggles(seg.size) |-> {}]]

\* decode_vlw: a word of len bits, after the option if it is the first of its
\* length in the gaggle.  d is the decoder; the result has the word in .word.
decode_vlw(d, stream, j, len) ==
  LET g == GaggleOf(j)
      fresh == len \in CodedLengths \ d.marked[g]
      width == CodeBits(len)
      read == Number(extract(stream, d.pos, width))
      option == IF ~fresh THEN d.options[g][len]
                ELSE IF read = 2^width - 1 THEN entropy_uncoded_codeoption ELSE read
      code == extract_code(stream, IF fresh THEN d.pos + width ELSE d.pos, len, option)
  IN IF len \notin CodedLengths
       THEN [d |-> [d EXCEPT !.pos = @ + len], word |-> extract(stream, d.pos, len)]
       ELSE [d |-> [d EXCEPT !.pos = code.pos, !.options[g][len] = option,
                             !.marked[g] = @ \cup {len}],
             word |-> code.word]

ReadSymbol(d, stream, j, len, option) ==
  LET read == decode_vlw(d, stream, j, len)
  IN [read EXCEPT !.word = IF len \in CodedLengths THEN SymbolBackward(@, option) ELSE @]

\* decode_plain_vlw: types of the family's coefficients that are not selected
\* yet, then the signs of those that are now.
decode_plain_vlw(d, stream, j, mask, option) ==
  LET types == ReadSymbol(d, stream, j, Len(mask), option)
      ones == decompose_bword(types.word, mask)
      selected == Select(mask, ones)
      signs == extract(stream, types.d.pos, Len(selected))
  IN [types.d EXCEPT !.pos = @ + Len(selected),
                     !.signs[j] = @ \cup decompose_bword(signs, selected),
                     !.transit[j] = @ \cup ones,
                     !.cur[j] = @ \cup ones]

\* decode_tran_vlw: one bit for each family that is due; .word has the ones.
decode_tran_vlw(d, stream, j, due, option) ==
  LET read == ReadSymbol(d, stream, j, Len(due), option)
  IN [read EXCEPT !.word = decompose_bword(@, due)]

Unselected(d, j, family) == Select(family, (0..63) \ (d.mask[j] \cup d.skip))

----------------------------------------------------------------------------
(* The stages of one block. *)

DecodeStage1(d, stream, j) ==
  IF P_set \subseteq d.skip THEN d
  ELSE decode_plain_vlw(d, stream, j, Unselected(d, j, P_mask), 0)

\* tran_B, and behind it tran_D and the children.
DecodeStage2(d, stream, j) ==
  LET due_B == d.tran[j].B /\ ~(B_set \subseteq d.skip)
      bit_B == IF due_B THEN BitAt(stream, d.pos) ELSE 0
      dB == [d EXCEPT !.pos = @ + (IF due_B THEN 1 ELSE 0),
                      !.tran[j].B = due_B /\ bit_B = 0]
      due_D == Select(FSeq, {f \in dB.tran[j].D : ~(D_set(f) \subseteq d.skip)})
      readD == decode_tran_vlw(dB, stream, j, due_D, symbol_tran_D_codeoption)
      dD == [readD.d EXCEPT !.tran[j].D = @ \ readD.word]
      Children(e, f) ==
        IF f \in e.tran[j].D \/ e.skip \cap C_set(f) # {} THEN e
        ELSE decode_plain_vlw(e, stream, j, Unselected(e, j, C_mask(f)), 0)
  IN IF dB.tran[j].B THEN dB ELSE Folded(Children, dD, FSeq)

\* tran_G, tran_H of every family with an open group set, and its groups.
DecodeStage3(d, stream, j) ==
  LET due_G == Select(FSeq, {f \in d.tran[j].G \ d.tran[j].D : ~(G_set(f) \subseteq d.skip)})
      readG == decode_tran_vlw(d, stream, j, due_G, 0)
      dG == [readG.d EXCEPT !.tran[j].G = @ \ readG.word]
      Open(e, f) == f \notin e.tran[j].G /\ e.skip \cap G_set(f) = {}
      Groups(e, f) ==
        LET due == Select(HxSeq, {k \in Hx : <<f, k>> \in e.tran[j].H})
            readH == decode_tran_vlw(e, stream, j, due, symbol_H_codeoption)
        IN IF ~Open(e, f) THEN e
           ELSE [readH.d EXCEPT !.tran[j].H = @ \ {<<f, k>> : k \in readH.word}]
      dH == Folded(Groups, dG, FSeq)
      Grandchildren(e, n) ==
        LET f == (n - 1) \div 4  k == (n - 1) % 4
        IN IF ~Open(e, f) \/ <<f, k>> \in e.tran[j].H THEN e
           ELSE decode_plain_vlw(e, stream, j, Unselected(e, j, H_mask(f, k)),
                                 symbol_H_codeoption)
  IN IF d.tran[j].B THEN d ELSE Folded(Grandchildren, dH, [n \in 1..12 |-> n])

\* Refinement bits, and the plane's selections take effect.
DecodeStage4(d, stream, j) ==
  LET mask == Select(AC_mask, d.mask[j] \ d.skip)
  IN [d EXCEPT !.pos = @ + Len(mask),
               !.cur[j] = @ \cup decompose_bword(extract(stream, d.pos, Len(mask)), mask),
               !.mask[j] = @ \cup d.transit[j],
               !.transit[j] = {}]

\* A stage over all blocks of the segment.
OverBlocks(Stage(_, _, _), d, stream) ==
  Folded(LAMBDA e, j : Stage(e, stream, j), d, [j \in 1..Len(d.mask) |-> j])

\* Mutation: the gaggles' options of the plane before stay in force.
NextPlaneSameOptions(d, seg, b) ==
  [d EXCEPT !.skip = @ \cup Scaled(seg.bit_shifts, b)]

\* Mutation: every family waits again.
NextPlaneAllDue(d, seg, b) ==
  [d EXCEPT !.skip = @ \cup Scaled(seg.bit_shifts, b),
            !.marked = [g \in DOMAIN @ |-> {}],
            !.tran = [j \in DOMAIN @ |-> tran_due]]

\* A plane begins: subbands that have only zeros left are skipped, and the
\* gaggles' options are read again.
NextPlane(d, seg, b) ==
  [d EXCEPT !.skip = @ \cup Scaled(seg.bit_shifts, b),
            !.marked = [g \in DOMAIN @ |-> {}]]

\* Mutation: the plane is not cleared for the next one.
AccumulatedOnly(d) ==
  [d EXCEPT !.data = [j \in DOMAIN @ |-> [c \in 0..63 |->
                        2 * @[j][c] + (IF c \in d.cur[j] THEN 1 ELSE 0)]]]

\* A plane ends: its bits become the low bits of the magnitudes.
Accumulated(d) ==
  [d EXCEPT !.data = [j \in DOMAIN @ |-> [c \in 0..63 |->
                        2 * @[j][c] + (IF c \in d.cur[j] THEN 1 ELSE 0)]],
            !.cur = [j \in DOMAIN @ |-> {}]]

relu(n) == IF n < 0 THEN 0 ELSE n

\* Mutation: the DC subband still counts as scaled.
SignedOnly(seg, d) ==
  [seg EXCEPT !.data = [j \in 1..seg.size |-> [c \in 0..63 |->
                          IF c \in d.signs[j] THEN -d.data[j][c] ELSE d.data[j][c]]]]

\* After the last plane: signs, and the DC subband counts as unscaled.
Signed(seg, d) ==
  [seg EXCEPT !.data = [j \in 1..seg.size |-> [c \in 0..63 |->
                          IF c \in d.signs[j] THEN -d.data[j][c] ELSE d.data[j][c]]],
              !.q = relu(@ - seg.bit_shifts[1]),
              !.bdepthDc = relu(@ - seg.bit_shifts[1]),
              !.bit_shifts[1] = 0]
=============================================================================
