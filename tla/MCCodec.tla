------------------------------ MODULE MCCodec ------------------------------
EXTENDS Codec

Pixel(kind, r, c) ==
  CASE kind = "flat" -> 5
    [] kind = "steps" -> 3 * (r \div 8) + 2 * (c \div 8)
    [] kind = "ramp" -> 3 * r + 2 * c
    [] kind = "edges" -> IF (r \div 3 + c \div 5) % 2 = 0 THEN 0 ELSE 200
    [] kind = "noise" -> (r * r * 37 + c * 101 + r * c * 13) % 256
    [] kind = "dots" -> IF r = 5 /\ c = 17 THEN 90 ELSE 0
    [] kind = "bright" -> 24000 + ((r * 5 + c * 3) % 4)
    [] kind = "dark" -> IF (r + c) % 5 = 0 THEN 1 ELSE 0
    [] kind = "signed" -> IF (r + c) % 7 = 0 THEN -128 ELSE (r * 31 + c * 17) % 64

Picture(kind, w, h) == Bitmap(w, h, LAMBDA r, c : Pixel(kind, r, c))
default_shifts == <<3, 3, 3, 2, 2, 2, 1, 1, 1, 0>>

Request(kind, w, h, shifts, size, heuristic) ==
  [image |-> Picture(kind, w, h), bit_shifts |-> shifts, segment_size |-> size,
   heuristic |-> heuristic]
no_shifts == [n \in 1..10 |-> 0]
parent_shifts == <<0, 0, 0, 0, 3, 3, 3, 3, 3, 3>>
other_shifts == <<2, 1, 2, 3, 0, 2, 1, 1, 0, 2>>

\* Whole and ragged sizes, one and several segments, deep and shallow images.
MCInputs ==
  { Request("noise", 17, 20, default_shifts, 4, {}),
    Request("signed", 17, 24, other_shifts, 5, {}),
    Request("edges", 32, 17, no_shifts, 0, {"DC", "AC"}),
    Request("ramp", 24, 19, default_shifts, 4, {"DC", "AC"}),
    Request("flat", 17, 17, default_shifts, 0, {}),
    Request("flat", 17, 17, no_shifts, 0, {}),
    Request("steps", 24, 19, parent_shifts, 6, {"AC"}),
    Request("dark", 17, 24, no_shifts, 0, {}),
    Request("bright", 32, 32, default_shifts, 16, {}),
    Request("dots", 23, 18, other_shifts, 0, {}) }
MCGarbage == {0, 3}
=============================================================================
