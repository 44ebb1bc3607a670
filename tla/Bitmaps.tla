------------------------------ MODULE Bitmaps ------------------------------
(***************************************************************************)
(* Images and subbands as the code's bitmaps (dwt/bitmap.tpp): a record of *)
(* the width, the height and the rows, all counted from 0.                 *)
(***************************************************************************)
EXTENDS Integers

\* f, but with every value of it evaluated once (the comparison does it) and not
\* whenever it is read.
Evaluated(f) == CHOOSE g \in {f} : g = f

Bitmap(w, h, At(_, _)) ==
  [width |-> w, height |-> h,
   at |-> Evaluated([r \in 0..(h - 1) |-> [c \in 0..(w - 1) |-> At(r, c)]])]

\* slice: the part of a bitmap from row y and column x on.
slice(image, x, y, w, h) == Bitmap(w, h, LAMBDA r, c : image.at[y + r][x + c])

transpose(image) == Bitmap(image.height, image.width, LAMBDA r, c : image.at[c][r])

\* shrink: the first h rows.
shrink(image, h) == slice(image, 0, 0, image.width, h)
=============================================================================
