-------------------------- MODULE BitPlaneEncoder --------------------------
(***************************************************************************)
(* BitPlaneEncoder (bpe/bpe.cpp): the coding of a segment's DC             *)
(* coefficients and bit depths, and of its AC bit planes.  Everything here *)
(* is a function of the segment and of what the coder remembers from plane *)
(* to plane: the coefficients selected so far (bplane_mask) and those      *)
(* whose subband has only zeros left (bplane_skip).                        *)
(***************************************************************************)
EXTENDS BlockPlanes

k_uncoded_codeoption == -1
MinOf(S) == CHOOSE m \in S : \A n \in S : m <= n

----------------------------------------------------------------------------
(* Differences: kEncode.  A vector starts with a reference of N bits and goes
   on with items; gaggle boundaries count the reference. *)

\* The items of a vector's gaggle; item i is element i + 1 of the vector.
GaggleItems(data, gaggle) ==
  LET first == IF gaggle = 1 THEN 1 ELSE (gaggle - 1) * items_per_gaggle
      last == gaggle * items_per_gaggle - 1
  IN SubSeq(data, first, IF last < Len(data) THEN last ELSE Len(data))

Unary(n) == [i \in 1..(n + 1) |-> IF i <= n THEN 0 ELSE 1]

\* The code words of a gaggle: all first parts, then all second parts.
KCoded(items, k, N) ==
  IF k = k_uncoded_codeoption
    THEN Concat([i \in 1..Len(items) |-> Bits(items[i], N)])
    ELSE Concat([i \in 1..Len(items) |-> Unary(items[i] \div 2^k)])
           \o Concat([i \in 1..Len(items) |-> Bits(items[i], k)])

\* kOptimal: the smallest of the best parameters, unless the items are
\* shorter uncoded.  The lengths it compares leave the second parts out.
OptimalK(items, gaggle, last, N) ==
  LET Sum(k) == Folded(LAMBDA s, d : s + d \div 2^k, 0, items)
      Parameters == 0..(IF N - 2 < 8 THEN N - 2 ELSE 8)
      best == MinOf({Sum(k) : k \in Parameters})
      counted == IF gaggle = 1 THEN items_per_gaggle - 1
                 ELSE IF last THEN Len(items) ELSE items_per_gaggle
  IN IF best >= (N - 1) * counted
       THEN k_uncoded_codeoption
       ELSE MinOf({k \in Parameters : Sum(k) = best})

\* The items kHeuristic codes as a gaggle: the first one has items_per_gaggle - 1
\* of them whatever the vector has, with those behind its end.
HeuristicItems(data, behind, gaggle) ==
  IF gaggle = 1 THEN SubSeq(data \o behind, 1, items_per_gaggle - 1)
                ELSE GaggleItems(data, gaggle)

\* kHeuristic: a parameter from the mean of the items.
HeuristicK(items, N) ==
  LET J == Len(items)
      delta == Folded(LAMBDA s, d : s + d, 0, items)
  IN IF delta * 64 >= J * 23 * 2^N THEN k_uncoded_codeoption
     ELSE IF J * 207 > delta * 128 THEN 0
     ELSE IF J * 2^(N + 5) <= delta * 128 + J * 49 THEN N - 2
     ELSE bit_width((delta * 128 + J * 49) \div J) - 7

\* kEncode.  The blocks of the vector are its items and its reference; kHeuristic
\* writes nothing at all, nor the reference, for a vector without items.  behind
\* is what memory holds behind the items.
kEncode(data, behind, depth, reference, use_heuristic) ==
  LET N == IF depth < min_N_value THEN min_N_value ELSE depth
      last == GaggleOf(Len(data) + 1)
      Gaggle(g, k, items) == Bits(k, bit_width(N - 1))
                               \o (IF g = 1 THEN Bits(reference, N) ELSE <<>>)
                               \o KCoded(items, k, N)
      Optimal(g) == LET items == GaggleItems(data, g)
                    IN Gaggle(g, OptimalK(items, g, g = last, N), items)
      Heuristic(g) == LET items == HeuristicItems(data, behind, g)
                      IN Gaggle(g, HeuristicK(items, N), items)
  IN IF N = 1 THEN Bits(reference, 1) \o Concat([i \in 1..Len(data) |-> Bits(data[i], 1)])
     ELSE IF ~use_heuristic THEN Concat([g \in 1..last |-> Optimal(g)])
     ELSE IF data = <<>> THEN <<>>
     ELSE Concat([g \in 1..last |-> Heuristic(g)])

\* Planes of the DC coefficients above every plane of AC coefficients.
AdditionalDepth(seg) ==
  LET depth == IF seg.bdepthAc < seg.bit_shifts[1] THEN seg.bit_shifts[1] ELSE seg.bdepthAc
  IN IF seg.q > depth THEN seg.q - depth ELSE 0

\* Behind the DC differences lie that of the last coefficient to the zeros that pad the
\* vector and those between them; the depths are padded with memory that
\* nobody initialised, of which every item is taken to be the same.
BehindDc(seg) == [i \in 1..items_per_gaggle |-> IF i = 1 THEN seg.paddingDc ELSE 0]
BehindDepths(garbage) == [i \in 1..items_per_gaggle |-> garbage]

\* The parts of the stream in front of the bit planes; heuristic has the vectors
\* that are coded by kHeuristic.
EncodedHead(seg, heuristic, garbage) ==
  kEncode(seg.quantizedDc, BehindDc(seg), seg.bdepthDc - seg.q, seg.referenceSample,
          "DC" \in heuristic)
    \o bplaneEncode(seg.plainDc, seg.q, AdditionalDepth(seg))
    \o (IF seg.bdepthAc > 0
          THEN kEncode(seg.quantizedBdepthAc, BehindDepths(garbage), bit_width(seg.bdepthAc),
                       seg.referenceBdepthAc, "AC" \in heuristic)
          ELSE <<>>)

----------------------------------------------------------------------------
(* The words of a block in a bit plane: cur is the plane, mask the set of
   coefficients selected in higher planes, skip that of the finished ones. *)

Mapped(word, option) ==
  [bits |-> IF Len(word) \in CodedLengths THEN SymbolForward(word, option) ELSE word,
   coded |-> TRUE]
Raw(word) == [bits |-> word, coded |-> FALSE]

\* A transition bit is due for a family without a selected coefficient.
Due(family, mask, skip) == mask \cap family = {} /\ ~(family \subseteq skip)
Closed(family, cur, mask, skip) == Due(family, mask, skip) /\ cur \cap family = {}
TranBit(family, cur, mask, skip) ==
  IF Due(family, mask, skip) THEN <<IF cur \cap family = {} THEN 0 ELSE 1>> ELSE <<>>

\* The types of a family's coefficients and the signs of those that become
\* significant.
Plain(family, option, cur, mask, skip, negative) ==
  LET effective == Select(family, (0..63) \ (mask \cup skip))
      selected == Select(effective, cur)
  IN <<Mapped(combine_bword(cur, effective), option), Raw(combine_bword(negative, selected))>>

\* The family's bits are held back by a closed larger family.
SkipD(f, cur, mask, skip) == Closed(D_set(f), cur, mask, skip)
SkipG(f, cur, mask, skip) ==
  SkipD(f, cur, mask, skip) \/ Closed(G_set(f), cur, mask, skip)

Stage1Words(cur, mask, skip, negative) ==
  IF P_set \subseteq skip THEN <<>> ELSE Plain(P_mask, 0, cur, mask, skip, negative)

Stage2Words(cur, mask, skip, negative) ==
  LET tran_D == Concat([i \in 1..3 |-> TranBit(D_set(FSeq[i]), cur, mask, skip)])
      Children(f) == IF skip \cap C_set(f) # {} \/ SkipD(f, cur, mask, skip) THEN <<>>
                     ELSE Plain(C_mask(f), 0, cur, mask, skip, negative)
  IN <<Raw(TranBit(B_set, cur, mask, skip))>>
       \o (IF Closed(B_set, cur, mask, skip) THEN <<>>
           ELSE <<Mapped(tran_D, symbol_tran_D_codeoption)>>
                  \o Concat([i \in 1..3 |-> Children(FSeq[i])]))

Stage3Words(cur, mask, skip, negative) ==
  LET tran_G == Concat([i \in 1..3 |->
                  IF SkipD(FSeq[i], cur, mask, skip) THEN <<>>
                  ELSE TranBit(G_set(FSeq[i]), cur, mask, skip)])
      Held(f) == skip \cap G_set(f) # {} \/ SkipG(f, cur, mask, skip)
      tran_H(f) == IF Held(f) THEN <<>>
                   ELSE Concat([k \in 1..4 |-> TranBit(H_set(f, HxSeq[k]), cur, mask, skip)])
      Grandchildren(f, k) ==
        IF Held(f) \/ Closed(H_set(f, k), cur, mask, skip) THEN <<>>
        ELSE Plain(H_mask(f, k), symbol_H_codeoption, cur, mask, skip, negative)
  IN IF Closed(B_set, cur, mask, skip) THEN <<>>
     ELSE <<Mapped(tran_G, 0)>>
            \o [i \in 1..3 |-> Mapped(tran_H(FSeq[i]), symbol_H_codeoption)]
            \o Concat([n \in 1..12 |-> Grandchildren((n - 1) \div 4, (n - 1) % 4)])

\* The words of stages 1 to 3.
BlockWords(cur, mask, skip, negative) ==
  <<Stage1Words(cur, mask, skip, negative), Stage2Words(cur, mask, skip, negative),
    Stage3Words(cur, mask, skip, negative)>>

\* Coefficients whose type was coded with a one.
Transit(cur, mask, skip) == cur \ (mask \cup skip)

----------------------------------------------------------------------------
(* compute_gaggle_wlv: the code option of every word length, from the words all
   blocks of the gaggle have in this plane. *)

GaggleOptions(words) ==
  LET all == Concat([i \in 1..Len(words) |-> Concat(words[i])])
      Length(len, option) ==
        Folded(LAMBDA s, w : IF w.coded /\ Len(w.bits) = len
                               THEN s + word_length(Number(w.bits), len, option) ELSE s,
               0, all)
      Best(len) ==
        LET best == MinOf({Length(len, o) : o \in CodeOptions(len)})
        IN IF best >= Length(len, entropy_uncoded_codeoption)
             THEN entropy_uncoded_codeoption
             ELSE MinOf({o \in CodeOptions(len) : Length(len, o) = best})
  IN [len \in CodedLengths |-> Best(len)]

\* encode_vlw: the option in front of the first word of each length.
encode_vlw(acc, word, options) ==
  LET len == Len(word.bits)
  IN IF ~(word.coded /\ len \in CodedLengths)
       THEN [acc EXCEPT !.bits = @ \o word.bits]
       ELSE [bits |-> acc.bits
                        \o (IF len \in acc.marked THEN <<>>
                            ELSE Bits(options[len], CodeBits(len)))
                        \o translate(word.bits, options[len]),
             marked |-> acc.marked \cup {len}]

\* A gaggle's words of one stage, after the lengths already marked.
EncodeWords(words, options, marked) ==
  Folded(LAMBDA acc, w : encode_vlw(acc, w, options),
         [bits |-> <<>>, marked |-> marked], words)

\* Stages 1 to 3: the words of all blocks in order.
EncodeBlocks(words, stage, options, marked) ==
  LET Block(acc, j) ==
        LET g == GaggleOf(j)
            coded == EncodeWords(words[j][stage], options[g], acc.marked[g])
        IN [bits |-> acc.bits \o coded.bits,
            marked |-> [acc.marked EXCEPT ![g] = coded.marked]]
  IN Folded(Block, [bits |-> <<>>, marked |-> marked], [j \in 1..Len(words) |-> j])

\* Stage 4: refinement bits of the coefficients selected in higher planes.
Refinement(cur, mask, skip) ==
  combine_bword(cur, Select(AC_mask, mask \ skip))
=============================================================================
