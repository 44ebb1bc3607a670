---------------------------- MODULE BlockPlanes ----------------------------
(***************************************************************************)
(* What the bit plane encoder and decoder share: the layout of a block,    *)
(* the families of coefficients the words of the coder speak of            *)
(* (bpe/constant.hpp), gaggles, and whole bit planes of a vector           *)
(* (bpe/bitplane.tpp).                                                     *)
(*                                                                         *)
(* A segment is a record with the fields of struct segment the coder uses. *)
(* Its data is a sequence of blocks, a block a function from the index of  *)
(* a coefficient in the block to its value; index 0 belongs to the DC      *)
(* coefficient, which is kept in plainDc and quantizedDc instead.          *)
(***************************************************************************)
EXTENDS EntropyCodes

CONSTANTS
  items_per_gaggle,  \* blocks of a gaggle (16 in the code)
  max_scale_shift,   \* the largest shift of a subband (3)
  bplane_alignment   \* the unit in which several planes are written (16)

ASSUME GaggleAssumption ==
  /\ items_per_gaggle \in Nat \ {0}
  /\ max_scale_shift \in Nat
  /\ bplane_alignment \in Nat \ {0}

----------------------------------------------------------------------------
(* Families.  Only parents, children and single groups of grandchildren are
   ever turned into words; the larger families are only tested. *)

F == 0..2                  \* families
Hx == 0..3                 \* groups of a family's grandchildren
FSeq == <<0, 1, 2>>
HxSeq == <<0, 1, 2, 3>>

Family(first, len) == [i \in 1..len |-> first + i - 1]

DC_index == 0
P_mask == Family(1, 3)
C_mask(f) == Family(4 + 4 * f, 4)
H_mask(f, k) == Family(16 + 16 * f + 4 * k, 4)
AC_mask == Family(1, 63)

P_set == 1..3
C_set(f) == (4 + 4 * f)..(7 + 4 * f)
H_set(f, k) == (16 + 16 * f + 4 * k)..(19 + 16 * f + 4 * k)
G_set(f) == (16 + 16 * f)..(31 + 16 * f)
D_set(f) == C_set(f) \cup G_set(f)
B_set == 4..63

\* The coefficients of the n-th subband, as segment::bit_shifts numbers them.
bitshift_masks(n) ==
  CASE n = 0 -> {DC_index}
    [] n \in 1..3 -> {n}
    [] n \in 4..6 -> C_set(n - 4)
    [] OTHER -> G_set(n - 7)

\* Mutation: a subband is finished one plane too early.
ScaledTooFar(bit_shifts, shift) ==
  UNION {bitshift_masks(n) : n \in {m \in 0..9 : bit_shifts[m + 1] = shift - 1}}

\* The coefficients whose subband is scaled by exactly this shift.
Scaled(bit_shifts, shift) ==
  UNION {bitshift_masks(n) : n \in {m \in 0..9 : bit_shifts[m + 1] = shift}}

----------------------------------------------------------------------------
min_N_value == 1   \* differences have at least one bit

GaggleOf(block) == (block - 1) \div items_per_gaggle + 1
Gaggles(size) == 1..GaggleOf(size)

\* Bit plane b of a block's magnitudes, as the set of the coefficients with a one.
Plane(block, b) == {c \in 1..63 : Bit(magnitude(block[c]), b) = 1}
Negative(block) == {c \in 1..63 : block[c] < 0}

----------------------------------------------------------------------------
(* Whole planes of a vector. *)

RoundUp(n, unit) == ((n + unit - 1) \div unit) * unit

\* Mutation: the higher bits are not masked off.
bplaneUnmasked(data, b) == [i \in 1..Len(data) |-> data[i] \div 2^b]

bplane(data, b) == [i \in 1..Len(data) |-> Bit(data[i], b)]

\* One of the planes bplanev4 writes at a time: it is filled up to a multiple
\* of the alignment.
bplanev4(data, b) ==
  [i \in 1..RoundUp(Len(data), bplane_alignment) |->
     IF i <= Len(data) THEN Bit(data[i], b) ELSE 0]

\* pcount planes from pindex downwards, four at a time.  A group of one plane
\* is written by bplane.
bplaneEncode(data, pindex, pcount) ==
  Concat([p \in 1..pcount |->
            IF p = pcount /\ pcount % 4 = 1 THEN bplane(data, pindex - p + 1)
                                            ELSE bplanev4(data, pindex - p + 1)])

\* Appends pcount planes read from the stream below the bits of data.
bplaneDecode(data, pcount, stream, pos) ==
  [i \in 1..Len(data) |->
     Folded(LAMBDA n, p : 2 * n + BitAt(stream, pos + p * Len(data) + i - 1),
            data[i], [p \in 1..pcount |-> p - 1])]
=============================================================================
