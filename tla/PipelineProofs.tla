--------------------------- MODULE PipelineProofs ---------------------------
(***************************************************************************)
(* The frames that an image is transformed in take every block of it       *)
(* exactly once, for every image and all sizes that validation accepts,    *)
(* however the tasks of the channels interleave.                           *)
(*                                                                         *)
(* Frames is a recursion over the places where frames start.  Its function *)
(* exists because what is left of the image gets smaller from place to     *)
(* place (Left, RasterExists), and what it returns is a chain: every frame *)
(* starts where the one in front of it says, and the last one ends below   *)
(* the image (Raster).  A place divides the points of the image into those *)
(* in front of it and the others (Ahead).  The rectangles of a frame are   *)
(* the points between its own place and the next one's (InnerParts,        *)
(* LastParts), what is in front of a place is in front of all that follow  *)
(* (AheadGrows), so a point is in the first frame after which it is in     *)
(* front, and in no other (FramesTile).                                    *)
(*                                                                         *)
(* FramesInv keeps those frames together while tasks run: those that wait  *)
(* and those transformed are all frames of a channel, or none of them as   *)
(* long as its image is not cut.                                           *)
(*                                                                         *)
(* The second half is about orders.  Files are loaded in the order of      *)
(* their names, and that is the order of channels and segments, whatever   *)
(* their numbers (NamesInOrder, LoadedInOrder): a number's digits, behind  *)
(* enough zeros, compare as the number does.  From headers in that order   *)
(* the settings are collected under the ids at which they were told        *)
(* (CollectedAsWritten).  The fragments of an image, sorted by the places  *)
(* of their frames, are its frames in the order of Frames, and all of them *)
(* are collected (CollectedInOrder).                                       *)
(***************************************************************************)
EXTENDS Pipeline, FiniteSetTheorems, WellFoundedInduction, TLAPS

(* Induction on the naturals, over sets of them. *)

Below == {ss \in Nat \X Nat : ss[1] < ss[2]}

\* Nat is well-founded.
LEMMA BelowIsWellFounded == IsWellFoundedOn(Below, Nat)
BY NatLessThanWellFounded DEF OpToRel, Below

\* A set of naturals has a least element.
LEMMA Least == ASSUME NEW S, S \subseteq Nat, S # {}
  PROVE \E n \in S : \A m \in S : n <= m
<1>1. PICK x \in S : \A y \in S : ~(<<y, x>> \in Below)
  BY BelowIsWellFounded, WFMin
<1>2. \A y \in S : ~(y < x)
  BY <1>1 DEF Below
<1>3. QED BY <1>2

\* A set that holds zero and with a number the next one holds all naturals.
LEMMA Induction == ASSUME NEW S, S \subseteq Nat, 0 \in S, \A n \in Nat : n \in S => n + 1 \in S
  PROVE S = Nat
<1>1. SUFFICES ASSUME Nat \ S # {} PROVE FALSE
  OBVIOUS
<1>2. PICK n \in Nat \ S : \A m \in Nat \ S : n <= m
  BY <1>1, Least
<1>3. n # 0 /\ n - 1 \in Nat
  BY <1>2
<1>4. n - 1 \in S
  BY <1>2, <1>3
<1>5. (n - 1) + 1 \in S
  BY <1>3, <1>4
<1>6. QED BY <1>2, <1>5

----------------------------------------------------------------------------
(* The frames, from place to place. *)

Places(w, h, fh) == (0..(h + fh)) \X (0..(w - 1))
Frame(p, fw, fh) == ImgPos(p[2], p[1], fw, fh)
NextPlace(p, w, fw, fh) ==
  LET next == NextFrame(Frame(p, fw, fh), w) IN <<next.y, next.x>>
Left(p, w, h, fh) == ((h + fh) - p[1]) * w + (w - p[2])

RasterFrom(from, P, w, h, fw, fh) ==
  from = [p \in P |-> IF p[1] >= h THEN <<>>
                      ELSE <<Frame(p, fw, fh)>> \o from[NextPlace(p, w, fw, fh)]]

\* The place of the next frame: NextFrame changes two fields.
LEMMA NextFrameIs ==
  ASSUME NEW x, NEW y, NEW fw, NEW fh, NEW w
  PROVE  NextFrame(ImgPos(x, y, fw, fh), w)
           = ImgPos((x + fw) - zeropred(w, x + fw >= w), y + zeropred(fh, x + fw >= w), fw, fh)
<1> DEFINE f == ImgPos(x, y, fw, fh)
           x2 == (x + fw) - zeropred(w, x + fw >= w)
           y2 == y + zeropred(fh, x + fw >= w)
<1>1. f.x = x /\ f.y = y /\ f.width = fw /\ f.height = fh
  BY DEF ImgPos
<1>2. NextFrame(f, w) = [[f EXCEPT !.x = x2] EXCEPT !.y = y2]
  <2> HIDE DEF f
  <2>1. QED BY <1>1 DEF NextFrame
<1>3. [f EXCEPT !.x = x2] = ImgPos(x2, y, fw, fh)
  BY DEF ImgPos
<1>4. [ImgPos(x2, y, fw, fh) EXCEPT !.y = y2] = ImgPos(x2, y2, fw, fh)
  BY DEF ImgPos
<1>5. QED BY <1>2, <1>3, <1>4

\* Places stay in the domain of the recursion as long as it goes on.
LEMMA NextPlaceIs ==
  ASSUME NEW w \in Nat \ {0}, NEW h \in Nat, NEW fh \in Nat \ {0}, NEW fw \in 1..w,
         NEW p \in Places(w, h, fh)
  PROVE  /\ NextPlace(p, w, fw, fh)
              = IF p[2] + fw >= w THEN <<p[1] + fh, p[2] + fw - w>> ELSE <<p[1], p[2] + fw>>
         /\ p[1] < h => NextPlace(p, w, fw, fh) \in Places(w, h, fh)
<1>1. p[1] \in Nat /\ p[2] \in Nat /\ p[2] < w
  BY DEF Places
<1>2. NextPlace(p, w, fw, fh)
              = IF p[2] + fw >= w THEN <<p[1] + fh, p[2] + fw - w>> ELSE <<p[1], p[2] + fw>>
  BY <1>1 DEF NextPlace, NextFrame, Frame, ImgPos, zeropred
<1>3. QED BY <1>1, <1>2 DEF Places

\* The measure of the recursion: a next place leaves less of the image.
LEMMA LeftDecreases ==
  ASSUME NEW w \in Nat \ {0}, NEW h \in Nat, NEW fh \in Nat \ {0}, NEW fw \in 1..w,
         NEW p \in Places(w, h, fh), p[1] < h
  PROVE  /\ Left(p, w, h, fh) \in Nat
         /\ Left(NextPlace(p, w, fw, fh), w, h, fh) < Left(p, w, h, fh)
<1>1. p[1] \in Nat /\ p[2] \in Nat /\ p[2] < w
  BY DEF Places
<1> DEFINE a == (h + fh) - p[1]
<1>2. a \in Nat /\ a >= fh
  BY <1>1
<1>3. a * w \in Nat /\ (a - fh) * w = a * w - fh * w /\ fh * w >= w /\ fh * w \in Nat
  BY <1>2
<1>4. CASE p[2] + fw >= w
  <2>1. Left(NextPlace(p, w, fw, fh), w, h, fh) = ((h + fh) - (p[1] + fh)) * w + (w - (p[2] + fw - w))
    BY <1>4, NextPlaceIs DEF Left
  <2>2. (h + fh) - (p[1] + fh) = a - fh
    BY <1>1
  <2>3. Left(p, w, h, fh) = a * w + (w - p[2])
    BY DEF Left
  <2> HIDE DEF a
  <2>4. QED BY <1>1, <1>3, <2>1, <2>2, <2>3, <1>4
<1>5. CASE ~(p[2] + fw >= w)
  <2>1. Left(NextPlace(p, w, fw, fh), w, h, fh) = a * w + (w - (p[2] + fw))
    BY <1>5, NextPlaceIs DEF Left
  <2>3. Left(p, w, h, fh) = a * w + (w - p[2])
    BY DEF Left
  <2> HIDE DEF a
  <2>4. QED BY <1>1, <1>3, <2>1, <2>3
<1>6. QED BY <1>4, <1>5

\* It is a natural number, and bounded.
LEMMA LeftNat ==
  ASSUME NEW w \in Nat \ {0}, NEW h \in Nat, NEW fh \in Nat \ {0}, NEW p \in Places(w, h, fh)
  PROVE  Left(p, w, h, fh) \in Nat /\ Left(p, w, h, fh) <= (h + fh) * w + w
<1>1. p[1] \in Nat /\ p[2] \in Nat /\ p[2] < w /\ p[1] <= h + fh
  BY DEF Places
<1> DEFINE a == h + fh
<1>2. a \in Nat /\ p[1] <= a
  BY <1>1
<1>3. (a - p[1]) * w \in Nat /\ (a - p[1]) * w <= a * w /\ a * w \in Nat
  <2> HIDE DEF a
  <2>1. (a - p[1]) * w = a * w - p[1] * w /\ p[1] * w \in Nat /\ a * w \in Nat
    BY <1>1, <1>2
  <2>2. a - p[1] \in Nat
    BY <1>1, <1>2
  <2>3. (a - p[1]) * w \in Nat
    BY <2>2
  <2>4. QED BY <2>1, <2>3
<1>4. Left(p, w, h, fh) = (a - p[1]) * w + (w - p[2])
  BY DEF Left
<1> HIDE DEF a
<1>5. Left(p, w, h, fh) \in Nat /\ Left(p, w, h, fh) <= a * w + w
  BY <1>1, <1>3, <1>4
<1>6. QED BY <1>5 DEF a

\* The recursive function of Frames exists, by induction on what is left.
LEMMA RasterExists ==
  ASSUME NEW w \in Nat \ {0}, NEW h \in Nat, NEW fh \in Nat \ {0}, NEW fw \in 1..w
  PROVE  \E from : RasterFrom(from, Places(w, h, fh), w, h, fw, fh)
<1> DEFINE D(n) == {p \in Places(w, h, fh) : Left(p, w, h, fh) < n}
           S == {n \in Nat : \E g : RasterFrom(g, D(n), w, h, fw, fh)}
<1>1. 0 \in S
  <2>1. D(0) = {}
    BY LeftNat
  <2>2. RasterFrom([p \in D(0) |-> <<>>], D(0), w, h, fw, fh)
    BY <2>1 DEF RasterFrom
  <2>3. QED BY <2>2
<1>2. \A n \in Nat : n \in S => n + 1 \in S
  <2> SUFFICES ASSUME NEW n \in Nat, n \in S PROVE n + 1 \in S
    OBVIOUS
  <2>0. PICK g : RasterFrom(g, D(n), w, h, fw, fh)
    OBVIOUS
  <2> DEFINE Value(f, p) == IF p[1] >= h THEN <<>>
                            ELSE <<Frame(p, fw, fh)>> \o f[NextPlace(p, w, fw, fh)]
             g2 == [p \in D(n + 1) |-> Value(g, p)]
  <2>1. g = [p \in D(n) |-> Value(g, p)]
    BY <2>0 DEF RasterFrom
  <2>2. ASSUME NEW p \in D(n + 1), ~(p[1] >= h)
        PROVE  NextPlace(p, w, fw, fh) \in D(n)
    <3>0. p[1] \in Nat
      BY DEF Places
    <3>1. /\ NextPlace(p, w, fw, fh) \in Places(w, h, fh)
          /\ Left(NextPlace(p, w, fw, fh), w, h, fh) < Left(p, w, h, fh)
      BY <2>2, <3>0, NextPlaceIs, LeftDecreases
    <3>2. Left(p, w, h, fh) < n + 1 /\ Left(p, w, h, fh) \in Nat
      BY LeftNat
    <3>3. Left(NextPlace(p, w, fw, fh), w, h, fh) \in Nat
      BY <3>1, LeftNat
    <3>4. QED BY <3>1, <3>2, <3>3
  <2>3. D(n) \subseteq D(n + 1)
    BY LeftNat
  <2> HIDE DEF D
  <2>4. ASSUME NEW q \in D(n)
        PROVE  g2[q] = g[q]
    BY <2>1, <2>3
  <2>5. ASSUME NEW p \in D(n + 1)
        PROVE  Value(g, p) = Value(g2, p)
    <3>1. CASE p[1] >= h
      BY <3>1
    <3>2. CASE ~(p[1] >= h)
      <4>1. g2[NextPlace(p, w, fw, fh)] = g[NextPlace(p, w, fw, fh)]
        BY <3>2, <2>2, <2>4
      <4>2. QED BY <4>1
    <3>3. QED BY <3>1, <3>2
  <2>6. g2 = [p \in D(n + 1) |-> Value(g2, p)]
    BY <2>5
  <2>7. RasterFrom(g2, D(n + 1), w, h, fw, fh)
    BY <2>6 DEF RasterFrom
  <2> HIDE DEF g2
  <2>8. QED BY <2>7
<1>3. S = Nat
  <2> HIDE DEF D
  <2>1. S \subseteq Nat
    OBVIOUS
  <2> HIDE DEF S
  <2>2. QED BY <1>1, <1>2, <2>1, Induction
<1> DEFINE top == (h + fh) * w + w + 1
<1>4. top \in Nat /\ D(top) = Places(w, h, fh)
  <2>1. (h + fh) * w \in Nat
    OBVIOUS
  <2>2. \A p \in Places(w, h, fh) : Left(p, w, h, fh) < top
    BY LeftNat, <2>1
  <2>3. QED BY <2>1, <2>2
<1>5. QED BY <1>3, <1>4

FrameSet(w, h, fw, fh) == [x : 0..(w - 1), y : 0..(h - 1), width : {fw}, height : {fh}]

Raster(s, p, w, h, fw, fh) ==
  /\ s \in Seq(FrameSet(w, h, fw, fh))
  /\ p[1] >= h => s = <<>>
  /\ p[1] < h => Len(s) >= 1 /\ s[1] = Frame(p, fw, fh)
  /\ \A k \in 1..(Len(s) - 1) : s[k + 1] = NextFrame(s[k], w)
  /\ s # <<>> => NextFrame(s[Len(s)], w).y >= h

\* From each place, what it returns is a chain of frames down to the bottom.
LEMMA RasterIs ==
  ASSUME NEW w \in Nat \ {0}, NEW h \in Nat, NEW fh \in Nat \ {0}, NEW fw \in 1..w,
         NEW from, RasterFrom(from, Places(w, h, fh), w, h, fw, fh),
         NEW p \in Places(w, h, fh)
  PROVE  Raster(from[p], p, w, h, fw, fh)
<1> DEFINE P == Places(w, h, fh)
           Bad == {Left(q, w, h, fh) : q \in {q \in P : ~Raster(from[q], q, w, h, fw, fh)}}
<1>1. SUFFICES ASSUME Bad # {} PROVE FALSE
  OBVIOUS
<1>2. PICK n \in Bad : \A m \in Bad : n <= m
  <2>1. Bad \subseteq Nat
    BY LeftNat
  <2> HIDE DEF Bad
  <2>2. QED BY <1>1, <2>1, Least
<1>3. PICK q \in P : n = Left(q, w, h, fh) /\ ~Raster(from[q], q, w, h, fw, fh)
  BY <1>2
<1>4. from[q] = IF q[1] >= h THEN <<>> ELSE <<Frame(q, fw, fh)>> \o from[NextPlace(q, w, fw, fh)]
  BY DEF RasterFrom
<1>5. q[1] \in Nat /\ q[2] \in 0..(w - 1)
  BY DEF Places
<1>6. CASE q[1] >= h
  <2>1. from[q] = <<>>
    BY <1>4, <1>6
  <2>2. Raster(<<>>, q, w, h, fw, fh)
    BY <1>5, <1>6 DEF Raster
  <2>3. QED BY <1>3, <2>1, <2>2
<1>7. CASE ~(q[1] >= h)
  <2> DEFINE r == NextPlace(q, w, fw, fh)
             f == Frame(q, fw, fh)
             s == from[q]
             t == from[r]
  <2>1. r \in P /\ Left(r, w, h, fh) < Left(q, w, h, fh)
    BY <1>5, <1>7, NextPlaceIs, LeftDecreases, SMTT(20)
  <2>2. Raster(t, r, w, h, fw, fh)
    <3>1. SUFFICES ASSUME ~Raster(t, r, w, h, fw, fh) PROVE FALSE
      OBVIOUS
    <3>2. Left(r, w, h, fh) \in Bad
      BY <2>1, <3>1
    <3>3. Left(q, w, h, fh) \in Nat /\ Left(r, w, h, fh) \in Nat
      BY <2>1, LeftNat
    <3>4. QED BY <1>2, <1>3, <2>1, <3>2, <3>3
  <2>3. f \in FrameSet(w, h, fw, fh)
    BY <1>5, <1>7 DEF Frame, ImgPos, FrameSet
  <2>4. s = <<f>> \o t
    BY <1>4, <1>7
  <2>5. NextFrame(f, w) = Frame(r, fw, fh)
    <3> DEFINE n1 == NextFrame(f, w)
    <3>1. r[2] = n1.x /\ r[1] = n1.y
      BY DEF NextPlace
    <3>2. \E x, y : n1 = ImgPos(x, y, fw, fh)
      <4>1. n1 = ImgPos((q[2] + fw) - zeropred(w, q[2] + fw >= w),
                        q[1] + zeropred(fh, q[2] + fw >= w), fw, fh)
        BY NextFrameIs DEF Frame
      <4>2. QED BY <4>1
    <3> HIDE DEF r, n1
    <3>3. n1 = Frame(r, fw, fh)
      BY <3>1, <3>2 DEF Frame, ImgPos
    <3>4. QED BY <3>3 DEF n1
  <2>6. r[1] = NextFrame(f, w).y
    BY DEF NextPlace
  <2> HIDE DEF r, f, s, t
  <2>7. /\ s \in Seq(FrameSet(w, h, fw, fh)) /\ Len(s) = Len(t) + 1
        /\ s[1] = f /\ \A k \in 1..Len(t) : s[k + 1] = t[k]
        /\ t \in Seq(FrameSet(w, h, fw, fh)) /\ Len(t) \in Nat
    BY <2>2, <2>3, <2>4 DEF Raster
  <2>8. \A k \in 1..(Len(s) - 1) : s[k + 1] = NextFrame(s[k], w)
    <3> SUFFICES ASSUME NEW k \in 1..(Len(s) - 1) PROVE s[k + 1] = NextFrame(s[k], w)
      OBVIOUS
    <3>1. CASE k = 1
      <4>1. t # <<>> /\ s[2] = t[1]
        BY <2>7, <3>1
      <4>2. t[1] = Frame(r, fw, fh)
        BY <2>1, <2>2, <4>1 DEF Raster, Places
      <4>3. QED BY <2>5, <2>7, <3>1, <4>1, <4>2
    <3>2. CASE k # 1
      <4>1. k \in 1..Len(t) /\ k - 1 \in 1..Len(t) /\ k - 1 \in 1..(Len(t) - 1)
        BY <2>7, <3>2
      <4>2. t[(k - 1) + 1] = NextFrame(t[k - 1], w)
        BY <2>2, <4>1 DEF Raster
      <4>3. s[k + 1] = t[k] /\ s[(k - 1) + 1] = t[k - 1]
        BY <2>7, <4>1
      <4>4. QED BY <4>1, <4>2, <4>3
    <3>3. QED BY <3>1, <3>2
  <2>9. NextFrame(s[Len(s)], w).y >= h
    <3>1. CASE t = <<>>
      <4>1. Len(s) = 1 /\ s[Len(s)] = f
        BY <2>7, <3>1
      <4>2. r[1] >= h
        BY <2>1, <2>2, <3>1 DEF Raster, Places
      <4>3. QED BY <2>6, <4>1, <4>2
    <3>2. CASE t # <<>>
      <4>1. Len(t) \in 1..Len(t) /\ s[Len(s)] = t[Len(t)]
        BY <2>7, <3>2
      <4>2. QED BY <2>2, <3>2, <4>1 DEF Raster
    <3>3. QED BY <3>1, <3>2
  <2>10. Raster(s, q, w, h, fw, fh)
    BY <1>5, <1>7, <2>7, <2>8, <2>9 DEF Raster, f
  <2>11. QED BY <1>3, <2>10 DEF s
<1>8. QED BY <1>6, <1>7

\* The frames as the transform gets them, and the points in front of a place.
Trim(s, k, w, h) ==
  [s[k] EXCEPT !.width = IF k = Len(s) THEN w - s[k].x ELSE @, !.height = Smaller(@, h - s[k].y)]
PartSet(w, h, frame) ==
  LET parts == decompose_frame(w, h, frame) IN {parts[n] : n \in 1..Len(parts)}
Ahead(frame, x, y) == y < frame.y \/ (y < frame.y + frame.height /\ x < frame.x)

\* Frames: the chain from the first place, trimmed.
LEMMA FramesAre ==
  ASSUME NEW w \in Nat \ {0}, NEW h \in Nat \ {0}, NEW size \in Nat \ {0},
         FrameHeight(h) \in Nat \ {0}
  PROVE  LET fh == FrameHeight(h)
             fw == Smaller(w, size)
         IN \E s : /\ Raster(s, <<0, 0>>, w, h, fw, fh)
                  /\ Frames(w, h, size) = [k \in 1..Len(s) |-> Trim(s, k, w, h)]
<1> DEFINE fh == FrameHeight(h)
           fw == Smaller(w, size)
           P == Places(w, h, fh)
           F == CHOOSE from : RasterFrom(from, P, w, h, fw, fh)
<1>1. fw \in 1..w
  BY DEF Smaller
<1>2. RasterFrom(F, P, w, h, fw, fh)
  <2> HIDE DEF fh, fw, P
  <2>1. \E from : RasterFrom(from, P, w, h, fw, fh)
    BY <1>1, RasterExists DEF P, fh
  <2>2. QED BY <2>1
<1>3. Raster(F[<<0, 0>>], <<0, 0>>, w, h, fw, fh)
  <2>1. <<0, 0>> \in P
    BY DEF Places
  <2> HIDE DEF F, fw
  <2>2. QED BY <1>1, <1>2, <2>1, RasterIs
<1>4. Frames(w, h, size) = [k \in 1..Len(F[<<0, 0>>]) |-> Trim(F[<<0, 0>>], k, w, h)]
  BY DEF Frames, RasterFrom, Places, NextPlace, Frame, Trim
<1>5. QED BY <1>3, <1>4

\* The rectangles of a frame.
FirstPart(f, w, h) == ImgPos(f.x, f.y, Smaller(f.width, w - f.x), Smaller(f.height, h - f.y))
SecondPart(f, w, h) ==
  LET first == FirstPart(f, w, h)
      below == first.y + first.height
  IN ImgPos(0, below, f.width - first.width, Smaller(f.height, h - below))

\* decompose_frame: a frame that wraps around has two rectangles, if there are rows for it.
LEMMA PartSetIs ==
  ASSUME NEW w, NEW h, NEW f
  PROVE  PartSet(w, h, f) = IF w < f.x + f.width /\ h > f.y + f.height
                              THEN {FirstPart(f, w, h), SecondPart(f, w, h)}
                              ELSE {FirstPart(f, w, h)}
<1> DEFINE a == FirstPart(f, w, h)
           b == SecondPart(f, w, h)
           parts == decompose_frame(w, h, f)
<1>1. parts = IF w < f.x + f.width /\ h > f.y + f.height THEN <<a, b>> ELSE <<a>>
  BY DEF decompose_frame, FirstPart, SecondPart
<1>2. PartSet(w, h, f) = {parts[n] : n \in 1..Len(parts)}
  BY DEF PartSet
<1> HIDE DEF a, b, parts
<1>3. {<<a, b>>[n] : n \in 1..Len(<<a, b>>)} = {a, b}
  OBVIOUS
<1>4. {<<a>>[n] : n \in 1..Len(<<a>>)} = {a}
  OBVIOUS
<1>5. QED BY <1>1, <1>2, <1>3, <1>4 DEF a, b

\* A point is in some of the rectangles, and in no two of them.
Reached(parts, x, y) == \E p \in parts : Inside(p, x, y)
Once(parts, x, y) == \A p, q \in parts : Inside(p, x, y) /\ Inside(q, x, y) => p = q

\* A frame that another follows has the points between its place and the next one's.
LEMMA InnerParts ==
  ASSUME NEW w \in Nat \ {0}, NEW h \in Nat \ {0}, NEW fh \in Nat \ {0}, NEW fw \in 1..w,
         NEW fx \in 0..(w - 1), NEW fy \in 0..(h - 1),
         NextFrame(ImgPos(fx, fy, fw, fh), w).y < h,
         NEW x \in 0..(w - 1), NEW y \in 0..(h - 1)
  PROVE  LET f == ImgPos(fx, fy, fw, fh)
             parts == PartSet(w, h, ImgPos(fx, fy, fw, Smaller(fh, h - fy)))
         IN /\ Reached(parts, x, y) <=> ~Ahead(f, x, y) /\ Ahead(NextFrame(f, w), x, y)
            /\ Once(parts, x, y)
<1> DEFINE f == ImgPos(fx, fy, fw, fh)
           g == ImgPos(fx, fy, fw, Smaller(fh, h - fy))
           next == NextFrame(f, w)
           a == FirstPart(g, w, h)
           b == SecondPart(g, w, h)
<1>1. f.x = fx /\ f.y = fy /\ f.width = fw /\ f.height = fh
  BY DEF ImgPos
<1>2. g.x = fx /\ g.y = fy /\ g.width = fw /\ g.height = Smaller(fh, h - fy)
  BY DEF ImgPos
<1>3. /\ next.x = IF fx + fw >= w THEN fx + fw - w ELSE fx + fw
      /\ next.y = IF fx + fw >= w THEN fy + fh ELSE fy
      /\ next.height = fh
  <2>1. next = ImgPos((fx + fw) - zeropred(w, fx + fw >= w),
                      fy + zeropred(fh, fx + fw >= w), fw, fh)
    BY NextFrameIs
  <2> HIDE DEF next
  <2>2. QED BY <2>1 DEF zeropred, ImgPos
<1>4. /\ a.x = fx /\ a.y = fy
      /\ a.width = IF fx + fw <= w THEN fw ELSE w - fx
      /\ a.height = IF fh <= h - fy THEN fh ELSE h - fy
  BY <1>2 DEF FirstPart, Smaller, ImgPos
<1>5. /\ b.x = 0 /\ b.y = fy + a.height /\ b.width = fw - a.width
      /\ b.height = IF g.height <= h - (fy + a.height) THEN g.height ELSE h - (fy + a.height)
  BY <1>2, <1>4 DEF SecondPart, Smaller, ImgPos
<1>6. PartSet(w, h, g) = IF w < fx + fw /\ h > fy + g.height THEN {a, b} ELSE {a}
  BY <1>2, PartSetIs
<1>7. g.height = a.height
  BY <1>2, <1>4 DEF Smaller
<1>8. next.y < h
  OBVIOUS
<1> HIDE DEF f, g, next, a, b
<1>9. Inside(a, x, y) <=> x >= fx /\ x < fx + a.width /\ y >= fy /\ y < fy + a.height
  BY <1>4 DEF Inside
<1>10. Inside(b, x, y) <=> x < b.width /\ y >= b.y /\ y < b.y + b.height
  BY <1>4, <1>5, <1>7 DEF Inside
<1>11. Ahead(f, x, y) <=> y < fy \/ (y < fy + fh /\ x < fx)
  BY <1>1 DEF Ahead
<1>12. Ahead(next, x, y) <=> y < next.y \/ (y < next.y + fh /\ x < next.x)
  BY <1>3 DEF Ahead
<1>13. CASE fx + fw <= w
  <2>1. PartSet(w, h, g) = {a}
    BY <1>6, <1>13
  <2>2. Inside(a, x, y) <=> ~Ahead(f, x, y) /\ Ahead(next, x, y)
    BY <1>3, <1>4, <1>8, <1>9, <1>11, <1>12, <1>13
  <2>3. QED BY <2>1, <2>2 DEF f, g, next, Reached, Once
<1>14. CASE ~(fx + fw <= w)
  <2>1. PartSet(w, h, g) = {a, b} /\ fy + fh < h /\ a.height = fh
    BY <1>3, <1>4, <1>6, <1>7, <1>8, <1>14
  <2>2. Inside(a, x, y) \/ Inside(b, x, y) <=> ~Ahead(f, x, y) /\ Ahead(next, x, y)
    BY <2>1, <1>3, <1>4, <1>5, <1>7, <1>8, <1>9, <1>10, <1>11, <1>12, <1>14
  <2>3. ~(Inside(a, x, y) /\ Inside(b, x, y))
    BY <2>1, <1>4, <1>5, <1>9, <1>10
  <2>4. QED BY <2>1, <2>2, <2>3 DEF f, g, next, Reached, Once
<1>15. QED BY <1>13, <1>14

\* The last frame has all points that follow.
LEMMA LastParts ==
  ASSUME NEW w \in Nat \ {0}, NEW h \in Nat \ {0}, NEW fh \in Nat \ {0}, NEW fw \in 1..w,
         NEW fx \in 0..(w - 1), NEW fy \in 0..(h - 1),
         NextFrame(ImgPos(fx, fy, fw, fh), w).y >= h,
         NEW x \in 0..(w - 1), NEW y \in 0..(h - 1)
  PROVE  LET parts == PartSet(w, h, ImgPos(fx, fy, w - fx, Smaller(fh, h - fy)))
         IN /\ Reached(parts, x, y) <=> ~Ahead(ImgPos(fx, fy, fw, fh), x, y)
            /\ Once(parts, x, y)
<1> DEFINE f == ImgPos(fx, fy, fw, fh)
           g == ImgPos(fx, fy, w - fx, Smaller(fh, h - fy))
           next == NextFrame(f, w)
           a == FirstPart(g, w, h)
<1>1. f.x = fx /\ f.y = fy /\ f.width = fw /\ f.height = fh
  BY DEF ImgPos
<1>2. g.x = fx /\ g.y = fy /\ g.width = w - fx /\ g.height = Smaller(fh, h - fy)
  BY DEF ImgPos
<1>3. next.y = IF fx + fw >= w THEN fy + fh ELSE fy
  <2>1. next = ImgPos((fx + fw) - zeropred(w, fx + fw >= w),
                      fy + zeropred(fh, fx + fw >= w), fw, fh)
    BY NextFrameIs
  <2> HIDE DEF next
  <2>2. QED BY <2>1 DEF zeropred, ImgPos
<1>4. fy + fh >= h
  BY <1>3
<1>5. Smaller(fh, h - fy) = h - fy
  BY <1>4 DEF Smaller
<1>6. a.x = fx /\ a.y = fy /\ a.width = w - fx /\ a.height = h - fy
  BY <1>2, <1>5 DEF FirstPart, Smaller, ImgPos
<1>7. PartSet(w, h, g) = {a}
  BY <1>2, PartSetIs
<1> HIDE DEF f, g, next, a
<1>8. Inside(a, x, y) <=> x >= fx /\ y >= fy
  BY <1>6 DEF Inside
<1>9. Ahead(f, x, y) <=> y < fy \/ (y < fy + fh /\ x < fx)
  BY <1>1 DEF Ahead
<1>10. Inside(a, x, y) <=> ~Ahead(f, x, y)
  BY <1>4, <1>8, <1>9
<1>11. QED BY <1>7, <1>10 DEF f, g, Reached, Once

\* What is in front of a frame is in front of all that follow.
LEMMA AheadGrows ==
  ASSUME NEW w \in Nat \ {0}, NEW h \in Nat \ {0}, NEW fh \in Nat \ {0}, NEW fw \in 1..w,
         NEW s, Raster(s, <<0, 0>>, w, h, fw, fh),
         NEW x \in 0..(w - 1), NEW y \in 0..(h - 1), NEW j \in 1..Len(s), Ahead(s[j], x, y)
  PROVE  \A k \in j..Len(s) : Ahead(s[k], x, y)
<1> DEFINE Bad == {k \in j..Len(s) : ~Ahead(s[k], x, y)}
<1>0. Len(s) \in Nat /\ \A k \in 1..Len(s) : s[k] \in FrameSet(w, h, fw, fh)
  BY DEF Raster
<1>1. SUFFICES ASSUME Bad # {} PROVE FALSE
  OBVIOUS
<1>2. PICK k \in Bad : \A m \in Bad : k <= m
  <2>1. Bad \subseteq Nat
    OBVIOUS
  <2> HIDE DEF Bad
  <2>2. QED BY <1>1, <2>1, Least
<1>3. k \in (j + 1)..Len(s) /\ k - 1 \in j..Len(s) /\ k - 1 \notin Bad
  BY <1>0, <1>2
<1>4. Ahead(s[k - 1], x, y) /\ k - 1 \in 1..(Len(s) - 1)
  BY <1>0, <1>3
<1>5. s[k] = NextFrame(s[k - 1], w)
  <2>1. s[(k - 1) + 1] = NextFrame(s[k - 1], w)
    BY <1>4 DEF Raster
  <2>2. (k - 1) + 1 = k
    BY <1>3
  <2>3. QED BY <2>1, <2>2
<1>6. Ahead(NextFrame(s[k - 1], w), x, y)
  <2> DEFINE f == s[k - 1]
  <2>1. f \in FrameSet(w, h, fw, fh)
    BY <1>0, <1>4
  <2>2. f = ImgPos(f.x, f.y, fw, fh) /\ f.x \in 0..(w - 1) /\ f.y \in 0..(h - 1)
    BY <2>1 DEF FrameSet, ImgPos
  <2> HIDE DEF f
  <2>3. NextFrame(f, w) = ImgPos((f.x + fw) - zeropred(w, f.x + fw >= w),
                                 f.y + zeropred(fh, f.x + fw >= w), fw, fh)
    BY <2>2, NextFrameIs, SMTT(20)
  <2>4. y < f.y \/ (y < f.y + fh /\ x < f.x)
    BY <1>4, <2>2, SMTT(20) DEF Ahead, f, ImgPos
  <2> DEFINE next == NextFrame(f, w)
  <2>5. /\ next.x = IF f.x + fw >= w THEN f.x + fw - w ELSE f.x + fw
        /\ next.y = IF f.x + fw >= w THEN f.y + fh ELSE f.y
        /\ next.height = fh
    <3> HIDE DEF next
    <3>1. next = ImgPos((f.x + fw) - zeropred(w, f.x + fw >= w),
                        f.y + zeropred(fh, f.x + fw >= w), fw, fh)
      BY <2>3 DEF next
    <3>2. QED BY <2>2, <3>1 DEF ImgPos, zeropred
  <2> HIDE DEF next
  <2>6. y < next.y \/ (y < next.y + next.height /\ x < next.x)
    BY <2>2, <2>4, <2>5, SMTT(20)
  <2>7. QED BY <2>6 DEF Ahead, next, f
<1>7. QED BY <1>2, <1>5, <1>6

\* What trimming changes: the width of the last frame, heights at the bottom.
LEMMA TrimIs ==
  ASSUME NEW w \in Nat \ {0}, NEW h \in Nat \ {0}, NEW fh, NEW fw,
         NEW s, Raster(s, <<0, 0>>, w, h, fw, fh), NEW k \in 1..Len(s)
  PROVE  /\ s[k] = ImgPos(s[k].x, s[k].y, fw, fh)
         /\ s[k].x \in 0..(w - 1) /\ s[k].y \in 0..(h - 1)
         /\ Trim(s, k, w, h)
              = ImgPos(s[k].x, s[k].y, IF k = Len(s) THEN w - s[k].x ELSE fw,
                       Smaller(fh, h - s[k].y))
<1>1. s[k] \in FrameSet(w, h, fw, fh)
  BY DEF Raster
<1>2. /\ s[k] = ImgPos(s[k].x, s[k].y, fw, fh)
      /\ s[k].x \in 0..(w - 1) /\ s[k].y \in 0..(h - 1)
  BY <1>1 DEF FrameSet, ImgPos
<1> DEFINE w2 == IF k = Len(s) THEN w - s[k].x ELSE fw
           h2 == Smaller(fh, h - s[k].y)
<1>3. s[k].width = fw /\ s[k].height = fh
  BY <1>1 DEF FrameSet
<1>4. Trim(s, k, w, h) = [[s[k] EXCEPT !.width = w2] EXCEPT !.height = h2]
  BY <1>3 DEF Trim
<1>5. [ImgPos(s[k].x, s[k].y, fw, fh) EXCEPT !.width = w2] = ImgPos(s[k].x, s[k].y, w2, fh)
  BY DEF ImgPos
<1>6. [ImgPos(s[k].x, s[k].y, w2, fh) EXCEPT !.height = h2] = ImgPos(s[k].x, s[k].y, w2, h2)
  BY DEF ImgPos
<1>7. QED BY <1>2, <1>4, <1>5, <1>6

TakenOnce(parts, x, y) == \E part : {p \in parts : Inside(p, x, y)} = {part}

\* So every point is in one rectangle of one frame.
LEMMA FramesTile ==
  ASSUME NEW w \in Nat \ {0}, NEW h \in Nat \ {0}, NEW fh \in Nat \ {0}, NEW fw \in 1..w,
         NEW s, Raster(s, <<0, 0>>, w, h, fw, fh),
         NEW x \in 0..(w - 1), NEW y \in 0..(h - 1)
  PROVE  TakenOnce(UNION {PartSet(w, h, Trim(s, k, w, h)) : k \in 1..Len(s)}, x, y)
<1> DEFINE n == Len(s)
           parts(k) == PartSet(w, h, Trim(s, k, w, h))
           Has(k) == Reached(parts(k), x, y)
<1>1. /\ n \in Nat /\ n >= 1
      /\ s[1] = ImgPos(0, 0, fw, fh)
      /\ \A k \in 1..(n - 1) : s[k + 1] = NextFrame(s[k], w)
      /\ NextFrame(s[n], w).y >= h
  BY DEF Raster, Frame
<1>2. ASSUME NEW k \in 1..(n - 1)
      PROVE  /\ Has(k) <=> ~Ahead(s[k], x, y) /\ Ahead(s[k + 1], x, y)
             /\ Once(parts(k), x, y)
  <2>1. k \in 1..n /\ k + 1 \in 1..n /\ k # n
    BY <1>1
  <2>2. NextFrame(s[k], w) = s[k + 1] /\ s[k + 1].y < h
    <3>1. s[k + 1].y \in 0..(h - 1)
      BY <2>1, TrimIs
    <3>2. QED BY <1>1, <3>1
  <2>3. /\ s[k] = ImgPos(s[k].x, s[k].y, fw, fh)
        /\ s[k].x \in 0..(w - 1) /\ s[k].y \in 0..(h - 1)
        /\ Trim(s, k, w, h) = ImgPos(s[k].x, s[k].y, fw, Smaller(fh, h - s[k].y))
    <3>1. Trim(s, k, w, h) = ImgPos(s[k].x, s[k].y, IF k = n THEN w - s[k].x ELSE fw,
                                    Smaller(fh, h - s[k].y))
      BY <2>1, TrimIs
    <3>2. (IF k = n THEN w - s[k].x ELSE fw) = fw
      BY <2>1
    <3>3. s[k] = ImgPos(s[k].x, s[k].y, fw, fh) /\ s[k].x \in 0..(w - 1) /\ s[k].y \in 0..(h - 1)
      BY <2>1, TrimIs
    <3>4. QED BY <3>1, <3>2, <3>3
  <2> DEFINE fx == s[k].x
             fy == s[k].y
  <2>4. NextFrame(ImgPos(fx, fy, fw, fh), w).y < h
    BY <2>2, <2>3
  <2>9. fx \in 0..(w - 1) /\ fy \in 0..(h - 1)
    BY <2>3
  <2> HIDE DEF fx, fy
  <2>5. LET f == ImgPos(fx, fy, fw, fh)
            set == PartSet(w, h, ImgPos(fx, fy, fw, Smaller(fh, h - fy)))
        IN /\ Reached(set, x, y) <=> ~Ahead(f, x, y) /\ Ahead(NextFrame(f, w), x, y)
           /\ Once(set, x, y)
    BY <2>4, <2>9, InnerParts
  <2>6. QED BY <2>2, <2>3, <2>5 DEF fx, fy
<1>3. /\ Has(n) <=> ~Ahead(s[n], x, y)
      /\ Once(parts(n), x, y)
  <2>1. n \in 1..n
    BY <1>1
  <2>2. /\ s[n] = ImgPos(s[n].x, s[n].y, fw, fh)
        /\ s[n].x \in 0..(w - 1) /\ s[n].y \in 0..(h - 1)
        /\ Trim(s, n, w, h) = ImgPos(s[n].x, s[n].y, w - s[n].x, Smaller(fh, h - s[n].y))
    BY <2>1, TrimIs
  <2> DEFINE fx == s[n].x
             fy == s[n].y
  <2>3. NextFrame(ImgPos(fx, fy, fw, fh), w).y >= h
    BY <1>1, <2>2
  <2>9. fx \in 0..(w - 1) /\ fy \in 0..(h - 1)
    BY <2>2
  <2> HIDE DEF fx, fy
  <2>4. LET set == PartSet(w, h, ImgPos(fx, fy, w - fx, Smaller(fh, h - fy)))
        IN /\ Reached(set, x, y) <=> ~Ahead(ImgPos(fx, fy, fw, fh), x, y)
           /\ Once(set, x, y)
    BY <2>3, <2>9, LastParts
  <2>5. QED BY <2>2, <2>4 DEF fx, fy
<1> DEFINE Later == {k \in 1..n : k < n => Ahead(s[k + 1], x, y)}
<1>4. PICK k \in Later : \A m \in Later : k <= m
  <2>1. Later \subseteq Nat /\ n \in Later
    BY <1>1
  <2> HIDE DEF Later
  <2>2. QED BY <2>1, Least
<1>5. ~Ahead(s[k], x, y)
  <2>1. CASE k = 1
    BY <1>1, <2>1 DEF Ahead, ImgPos
  <2>2. CASE k # 1
    <3>1. k - 1 \in 1..(n - 1) /\ k - 1 < n /\ (k - 1) + 1 = k /\ ~(k <= k - 1)
      BY <1>1, <2>2
    <3>2. k - 1 \notin Later
      BY <1>4, <3>1
    <3>3. QED BY <3>1, <3>2
  <2>3. QED BY <2>1, <2>2
<1>6. Has(k)
  <2>1. CASE k = n
    BY <1>3, <1>5, <2>1
  <2>2. CASE k # n
    <3>1. k \in 1..(n - 1) /\ k < n
      BY <1>1, <2>2
    <3>2. Ahead(s[k + 1], x, y)
      BY <1>4, <3>1
    <3> HIDE DEF Has
    <3>3. QED BY <1>2, <1>5, <3>1, <3>2
  <2>3. QED BY <2>1, <2>2
<1>7. ASSUME NEW m \in 1..n, Has(m) PROVE m = k
  <2>1. ~Ahead(s[m], x, y)
    <3>1. CASE m = n
      BY <1>3, <1>7, <3>1
    <3>2. CASE m # n
      <4>1. m \in 1..(n - 1)
        BY <1>1, <3>2
      <4> HIDE DEF Has
      <4>2. QED BY <1>2, <1>7, <4>1
    <3>3. QED BY <3>1, <3>2
  <2>2. ~(m > k)
    <3> SUFFICES ASSUME m > k PROVE FALSE
      OBVIOUS
    <3>1. k < n /\ k + 1 \in 1..n /\ m \in (k + 1)..n
      BY <1>1
    <3>2. Ahead(s[k + 1], x, y)
      BY <1>4, <3>1
    <3>3. \A l \in (k + 1)..n : Ahead(s[l], x, y)
      BY <3>1, <3>2, AheadGrows
    <3>4. QED BY <2>1, <3>1, <3>3
  <2>3. ~(m < k)
    <3> SUFFICES ASSUME m < k PROVE FALSE
      OBVIOUS
    <3>1. m \in 1..(n - 1) /\ m < n /\ ~(k <= m)
      BY <1>1, SMTT(20)
    <3>2. ~Ahead(s[m + 1], x, y)
      BY <1>1, <1>4, <3>1
    <3> HIDE DEF Has
    <3>3. QED BY <1>2, <1>7, <3>1, <3>2
  <2>4. QED BY <1>1, <2>2, <2>3
<1>8. Once(parts(k), x, y)
  <2>1. CASE k = n
    BY <1>3, <2>1
  <2>2. CASE k # n
    <3>1. k \in 1..(n - 1)
      BY <1>1, <2>2
    <3> HIDE DEF parts
    <3>2. QED BY <1>2, <3>1
  <2>3. QED BY <2>1, <2>2
<1> HIDE DEF parts
<1>9. PICK part \in parts(k) : Inside(part, x, y)
  BY <1>6 DEF Reached
<1>10. {p \in UNION {parts(m) : m \in 1..n} : Inside(p, x, y)} = {part}
  BY <1>4, <1>7, <1>8, <1>9 DEF Once, Reached
<1>11. QED BY <1>10 DEF parts, TakenOnce

----------------------------------------------------------------------------
(* The sizes of images and frames. *)

\* Evaluated is the identity.
LEMMA EvaluatedIs == ASSUME NEW f PROVE Evaluated(f) = f
BY DEF Evaluated

\* Padding keeps a size positive.
LEMMA PaddedPositive == ASSUME NEW n \in Nat \ {0} PROVE PaddedTo(n) \in Nat \ {0}
BY DEF PaddedTo, padding_length

\* Frames have rows, whatever the granularity.
LEMMA FrameHeightPositive == ASSUME NEW h \in Nat PROVE FrameHeight(h) \in Nat \ {0}
<1> DEFINE g == height_granularity
           quarter == h \div 4
           fh == IF quarter < g THEN g ELSE quarter
           half == g \div 2
           n == (fh + half) \div g
<1>1. g \in Nat \ {0}
  BY GranularityAssumption
<1>2. half \in Nat /\ fh \in Nat /\ fh >= g
  BY <1>1
<1>3. n \in Nat /\ n >= 1
  <2> DEFINE m == fh + half
  <2>1. m \in Nat /\ m >= g
    BY <1>1, <1>2
  <2> HIDE DEF m, g
  <2>2. m \div g \in Nat /\ m \div g >= 1
    BY <1>1, <2>1
  <2>3. QED BY <2>2 DEF m, g
<1>4. FrameHeight(h) = n * g
  BY DEF FrameHeight
<1> HIDE DEF g, n
<1>5. n * g \in Nat /\ n * g >= 1
  BY <1>1, <1>3
<1>6. QED BY <1>4, <1>5

\* Largest picks an element, of a set of numbers that has a bound.
LEMMA LargestIs ==
  ASSUME NEW n \in Nat, NEW S, S \subseteq 0..n, S # {}
  PROVE  Largest(S) \in S
<1> DEFINE T == {n - m : m \in S}
<1>1. T \subseteq Nat /\ T # {}
  <2>1. \A m \in S : n - m \in Nat
    OBVIOUS
  <2>2. QED BY <2>1
<1> HIDE DEF T
<1>2. PICK k \in T : \A l \in T : k <= l
  BY <1>1, Least
<1> USE DEF T
<1>3. PICK m \in S : k = n - m
  BY <1>2
<1>4. \A l \in S : l <= m
  BY <1>2, <1>3
<1>5. QED BY <1>4 DEF Largest

----------------------------------------------------------------------------
(* What is prepared for a request. *)

FrameList(i, channel) == Prepared[i][channel].frames
ShapeOf(request, channel) ==
  LET image == request.images[channel]
  IN IF request.params.img_transpose THEN <<PaddedTo(image.height), PaddedTo(image.width)>>
                                     ELSE <<PaddedTo(image.width), PaddedTo(image.height)>>

\* The frames of a channel are those of its padded image.
LEMMA FrameListIs ==
  ASSUME NEW i \in DOMAIN Inputs, ValidRequest(Inputs[i]), NEW channel \in DOMAIN Inputs[i].images
  PROVE  LET shape == ShapeOf(Inputs[i], channel)
         IN /\ shape[1] \in Nat \ {0} /\ shape[2] \in Nat \ {0}
            /\ \E size \in Nat \ {0} : FrameList(i, channel) = Frames(shape[1], shape[2], size)
<1> DEFINE request == Inputs[i]
           header == request.file.header
           params == request.params
           shown == Description(request)
           image == request.images[channel]
           sizes == {SegmentSettingsOf(request)[k].value.size :
                       k \in 1..Len(SegmentSettingsOf(request))}
<1>1. /\ header.ImageWidth \in Int /\ header.ImageHeight \in Int
      /\ Len(params.segment) \in Nat \ {0}
      /\ shown.depth \in Nat /\ channel \in 1..shown.depth
      /\ image.width = shown.width /\ image.height = shown.height
  BY RequestAssumption
<1>2. shown.width = magnitude(header.ImageWidth) /\ shown.height = magnitude(header.ImageHeight)
  BY DEF Description, get_image_description
<1>3. shown.width \in Nat \ {0} /\ shown.height \in Nat \ {0}
  <2>1. shown.width \in Nat /\ shown.height \in Nat
    BY <1>1, <1>2 DEF magnitude
  <2>2. validate_parameters(params, shown)
    BY DEF ValidRequest
  <2> HIDE DEF shown, params
  <2>3. (IF params.img_transpose THEN shown.height ELSE shown.width) >= 17
        /\ (IF params.img_transpose THEN shown.width ELSE shown.height) >= 17
    BY <2>2 DEF validate_parameters, min_width, min_height
  <2>4. QED BY <2>1, <2>3
<1>4. Largest(sizes) \in Nat \ {0}
  <2> DEFINE n == Len(params.segment)
  <2>1. \A k \in 1..n : params.segment[k].size \in 16..(2 * 2^20)
    <3>1. validate_parameters(params, shown)
      BY DEF ValidRequest
    <3> HIDE DEF params, shown
    <3>2. QED BY <3>1 DEF validate_parameters, min_blocks_per_segment, max_blocks_per_segment
  <2>2. SegmentSettingsOf(request) = [k \in 1..n |-> parse_segment_settings(params.segment[k])]
    BY DEF SegmentSettingsOf, Parsed
  <2>3. Len(SegmentSettingsOf(request)) = n
    BY <1>1, <2>2
  <2>4. sizes = {params.segment[k].size : k \in 1..n}
    BY <2>2, <2>3, SMTT(20) DEF parse_segment_settings
  <2>5. 2^20 \in Nat
    OBVIOUS
  <2> DEFINE bound == 2 * 2^20
  <2>6. bound \in Nat
    BY <2>5
  <2>7. \A m \in sizes : m \in 16..bound
    BY <2>1, <2>4
  <2>8. sizes # {}
    <3>1. 1 \in 1..n
      BY <1>1
    <3> HIDE DEF n
    <3>2. params.segment[1].size \in sizes
      BY <2>4, <3>1
    <3>3. QED BY <3>2
  <2> HIDE DEF sizes, bound
  <2>9. sizes \subseteq 0..bound
    BY <2>6, <2>7
  <2>10. Largest(sizes) \in sizes
    BY <2>6, <2>8, <2>9, LargestIs
  <2>11. QED BY <2>6, <2>7, <2>10
<1> DEFINE loaded == load_channels(request.file)
           source == Source(loaded[channel], params)
<1>5. loaded[channel].width = shown.width /\ loaded[channel].height = shown.height
      /\ Len(loaded) = shown.depth
  <2> DEFINE masks == get_channel_masks(header).channels
  <2>1. shown.depth = Len(masks)
    BY DEF Description, get_image_description
  <2>2. /\ DOMAIN loaded = 1..Len(masks)
        /\ \A z \in 1..Len(masks) : /\ loaded[z].width = get_image_scan_spec(header).width
                                    /\ loaded[z].height = get_image_scan_spec(header).height
    BY DEF load_channels, Bitmap
  <2>3. \E f : loaded = [z \in 1..Len(masks) |-> f[z]]
    <3>1. loaded = [z \in 1..Len(masks) |-> loaded[z]]
      BY DEF load_channels
    <3> HIDE DEF loaded
    <3>2. QED BY <3>1
  <2> HIDE DEF loaded, masks, shown
  <2>4. Len(loaded) = shown.depth
    BY <1>1, <2>1, <2>3
  <2>5. QED BY <1>1, <1>2, <2>1, <2>2, <2>4 DEF get_image_scan_spec
<1>6. FrameList(i, channel) = FramesOf(source, request)
  <2>1. Prepared[i] = ChannelsOf(request)
    BY EvaluatedIs DEF Prepared
  <2>2. ChannelsOf(request)
          = [c \in 1..Len(loaded) |-> Channel(loaded[c], request)]
    BY EvaluatedIs DEF ChannelsOf
  <2>3. channel \in 1..Len(loaded)
    BY <1>1, <1>5
  <2> HIDE DEF loaded, request
  <2>4. Prepared[i][channel] = Channel(loaded[channel], request)
    BY <2>1, <2>2, <2>3
  <2>5. QED BY <2>4, EvaluatedIs DEF Channel, FrameList
<1>7. source.width = (IF params.img_transpose THEN shown.height ELSE shown.width)
      /\ source.height = (IF params.img_transpose THEN shown.width ELSE shown.height)
  BY <1>5 DEF Source, transpose, Bitmap
<1>8. ShapeOf(request, channel) = <<PaddedTo(source.width), PaddedTo(source.height)>>
  BY <1>1, <1>7 DEF ShapeOf
<1>9. source.width \in Nat \ {0} /\ source.height \in Nat \ {0}
  BY <1>3, <1>7
<1>10. FrameList(i, channel)
         = Frames(PaddedTo(source.width), PaddedTo(source.height), Largest(sizes))
  BY <1>6 DEF FramesOf, LargestSize
<1> HIDE DEF sizes, source, request
<1>11. /\ ShapeOf(request, channel)[1] = PaddedTo(source.width)
       /\ ShapeOf(request, channel)[2] = PaddedTo(source.height)
  BY <1>8
<1>12. PaddedTo(source.width) \in Nat \ {0} /\ PaddedTo(source.height) \in Nat \ {0}
  BY <1>9, PaddedPositive
<1>13. QED BY <1>4, <1>10, <1>11, <1>12 DEF request

ElementsOf(s) == {s[k] : k \in 1..Len(s)}

\* And they take every point of it once.
LEMMA FrameListTiles ==
  ASSUME NEW i \in DOMAIN Inputs, ValidRequest(Inputs[i]), NEW channel \in DOMAIN Inputs[i].images
  PROVE  LET shape == ShapeOf(Inputs[i], channel)
         IN /\ shape[1] \in Nat \ {0} /\ shape[2] \in Nat \ {0}
            /\ FrameList(i, channel) \in Seq(ElementsOf(FrameList(i, channel)))
            /\ \A x \in 0..(shape[1] - 1), y \in 0..(shape[2] - 1) :
                 TakenOnce(UNION {PartSet(shape[1], shape[2], f) :
                                    f \in ElementsOf(FrameList(i, channel))}, x, y)
<1> DEFINE shape == ShapeOf(Inputs[i], channel)
           w == shape[1]
           h == shape[2]
           list == FrameList(i, channel)
<1>1. w \in Nat \ {0} /\ h \in Nat \ {0}
  BY FrameListIs
<1>2. PICK size \in Nat \ {0} : list = Frames(w, h, size)
  BY FrameListIs
<1> DEFINE fh == FrameHeight(h)
           fw == Smaller(w, size)
<1> HIDE DEF w, h, list
<1>3. fh \in Nat \ {0}
  BY <1>1, FrameHeightPositive
<1>4. fw \in 1..w
  BY <1>1 DEF Smaller
<1>5. PICK s : /\ Raster(s, <<0, 0>>, w, h, fw, fh)
               /\ list = [k \in 1..Len(s) |-> Trim(s, k, w, h)]
  <2>1. \E s : /\ Raster(s, <<0, 0>>, w, h, fw, fh)
               /\ Frames(w, h, size) = [k \in 1..Len(s) |-> Trim(s, k, w, h)]
    BY <1>1, <1>3, FramesAre
  <2> HIDE DEF fw, fh
  <2>2. QED BY <1>2, <2>1
<1>6. Len(s) \in Nat
  BY <1>5 DEF Raster
<1>7. Len(list) = Len(s) /\ list \in Seq(ElementsOf(list))
  <2>1. Len(list) = Len(s)
    BY <1>5, <1>6
  <2>2. list \in [1..Len(s) -> ElementsOf(list)]
    BY <1>5, <2>1 DEF ElementsOf
  <2>3. QED BY <1>6, <2>1, <2>2
<1>8. {PartSet(w, h, f) : f \in ElementsOf(list)}
        = {PartSet(w, h, Trim(s, k, w, h)) : k \in 1..Len(s)}
  BY <1>5, <1>7 DEF ElementsOf
<1> HIDE DEF fw, fh
<1>9. ASSUME NEW x \in 0..(w - 1), NEW y \in 0..(h - 1)
      PROVE  TakenOnce(UNION {PartSet(w, h, f) : f \in ElementsOf(list)}, x, y)
  <2>1. TakenOnce(UNION {PartSet(w, h, Trim(s, k, w, h)) : k \in 1..Len(s)}, x, y)
    <3>1. Raster(s, <<0, 0>>, w, h, fw, fh)
      BY <1>5
    <3>2. x \in 0..(w - 1) /\ y \in 0..(h - 1)
      OBVIOUS
    <3>3. QED BY <1>1, <1>3, <1>4, <3>1, <3>2, FramesTile
  <2>2. QED BY <1>8, <2>1
<1>10. QED BY <1>1, <1>7, <1>9 DEF w, h, list

----------------------------------------------------------------------------
(* The tasks of the first flow. *)

FrameSetOf(channel) == ElementsOf(FrameList(input, channel))
Waiting(channel) ==
  {queue[i].cx : i \in {i \in 1..Len(queue) :
                          queue[i].op = "transform_fragment" /\ queue[i].channel = channel}}
Transformed(channel) == {fragments[channel][k].frame : k \in 1..Len(fragments[channel])}
TransformTasks ==
  [op : {"preprocess_image", "transform_fragment"}, channel : Channels,
   cx : {Nothing} \cup UNION {FrameSetOf(channel) : channel \in Channels}]

\* All frames of a channel's image are tasks or transformed, once it is cut.
FramesInv ==
  /\ input \in DOMAIN Inputs
  /\ flow = "validate" => queue = <<>> /\ fragments = ForAll(<<>>)
  /\ flow = "transform" =>
       /\ ValidRequest(Request)
       /\ queue \in Seq(TransformTasks)
       /\ DOMAIN fragments = Channels
       /\ \A channel \in Channels :
            /\ fragments[channel] \in Seq(ElementsOf(fragments[channel]))
            /\ Transformed(channel) \cup Waiting(channel) \in {{}, FrameSetOf(channel)}

\* The other tasks and flows.
LateTasks ==
  {"preprocess_fragments", "assemble_segments", "compress_segment", "decode_segment",
   "disassemble_segments", "restore_image", "postprocess_image"}

\* A task of another flow runs in no state that FramesInv speaks about.
LEMMA LateTask ==
  ASSUME FramesInv, NEW i, NEW op \in LateTasks, Runs(i, op)
  PROVE  flow \notin {"validate", "transform"}
<1>1. i \in 1..Len(queue) /\ queue[i].op = op
  BY DEF Runs
<1>2. CASE flow = "validate"
  BY <1>1, <1>2 DEF FramesInv
<1>3. CASE flow = "transform"
  <2>1. queue[i] \in TransformTasks
    BY <1>1, <1>3 DEF FramesInv
  <2>2. op \in {"preprocess_image", "transform_fragment"}
    BY <1>1, <2>1 DEF TransformTasks
  <2>3. QED BY <2>2 DEF LateTasks
<1>4. QED BY <1>2, <1>3

\* What ends in another flow leaves nothing to show.
LEMMA Frames_Others ==
  ASSUME FramesInv, input' = input, flow' \notin {"validate", "transform"}
  PROVE  FramesInv'
BY DEF FramesInv

\* So do the tasks of the other flows,
LEMMA Frames_LateTasks ==
  ASSUME FramesInv, NEW i,
         \/ PreprocessFragments(i) \/ AssembleSegments(i) \/ CompressSegment(i)
         \/ DecodeSegment(i) \/ DisassembleSegments(i) \/ RestoreImage(i) \/ PostprocessImage(i)
  PROVE  FramesInv'
<1>1. ASSUME NEW op \in LateTasks, Runs(i, op), UNCHANGED <<input, flow>> PROVE FramesInv'
  BY <1>1, LateTask, Frames_Others
<1>2. CASE PreprocessFragments(i)
  <2>1. Runs(i, "preprocess_fragments") /\ UNCHANGED <<input, flow>>
    BY <1>2 DEF PreprocessFragments, known
  <2>2. QED BY <1>1, <2>1 DEF LateTasks
<1>3. CASE AssembleSegments(i)
  <2>1. Runs(i, "assemble_segments") /\ UNCHANGED <<input, flow>>
    BY <1>3 DEF AssembleSegments, known
  <2>2. QED BY <1>1, <2>1 DEF LateTasks
<1>4. CASE CompressSegment(i)
  <2>1. Runs(i, "compress_segment") /\ UNCHANGED <<input, flow>>
    BY <1>4 DEF CompressSegment, known
  <2>2. QED BY <1>1, <2>1 DEF LateTasks
<1>5. CASE DecodeSegment(i)
  <2>1. Runs(i, "decode_segment") /\ UNCHANGED <<input, flow>>
    BY <1>5 DEF DecodeSegment, known
  <2>2. QED BY <1>1, <2>1 DEF LateTasks
<1>6. CASE DisassembleSegments(i)
  <2>1. Runs(i, "disassemble_segments") /\ UNCHANGED <<input, flow>>
    BY <1>6 DEF DisassembleSegments, known
  <2>2. QED BY <1>1, <2>1 DEF LateTasks
<1>7. CASE RestoreImage(i)
  <2>1. Runs(i, "restore_image") /\ UNCHANGED <<input, flow>>
    BY <1>7 DEF RestoreImage, known
  <2>2. QED BY <1>1, <2>1 DEF LateTasks
<1>8. CASE PostprocessImage(i)
  <2>1. Runs(i, "postprocess_image") /\ UNCHANGED <<input, flow>>
    BY <1>8 DEF PostprocessImage, known
  <2>2. QED BY <1>1, <2>1 DEF LateTasks
<1>9. QED BY <1>2, <1>3, <1>4, <1>5, <1>6, <1>7, <1>8

\* and the steps from flow to flow, but for Import.
LEMMA Frames_Flows ==
  ASSUME FramesInv, Reject \/ Compress \/ Restore \/ Disassemble \/ Postprocess \/ Export \/ Finished
  PROVE  FramesInv'
<1>1. CASE Reject
  BY <1>1, Frames_Others DEF Reject, NextFlow, known
<1>2. CASE Compress
  BY <1>2, Frames_Others DEF Compress, NextFlow, known
<1>3. CASE Restore
  <2>1. flow' = "decompress" /\ input' = input
    BY <1>3 DEF Restore, NextFlow
  <2>2. QED BY <2>1, Frames_Others
<1>4. CASE Disassemble
  BY <1>4, Frames_Others DEF Disassemble, NextFlow, known
<1>5. CASE Postprocess
  BY <1>5, Frames_Others DEF Postprocess, NextFlow, known
<1>6. CASE Export
  BY <1>6, Frames_Others DEF Export, NextFlow, known
<1>7. CASE Finished
  BY <1>7, Frames_Others DEF Finished, vars, known
<1>8. QED BY <1>1, <1>2, <1>3, <1>4, <1>5, <1>6, <1>7

\* The first flow starts with the images of all channels.
LEMMA Frames_Import ==
  ASSUME FramesInv, Import
  PROVE  FramesInv'
<1>1. /\ flow = "validate" /\ flow' = "transform" /\ ValidRequest(Request)
      /\ queue' = TaskOfAll("preprocess_image")
      /\ input' = input /\ fragments' = fragments
  BY DEF Import, NextFlow, transform_vars
<1>2. input \in DOMAIN Inputs /\ fragments = ForAll(<<>>)
  BY <1>1 DEF FramesInv
<1> DEFINE depth == Description(Request).depth
<1>3. Channels = 1..depth /\ depth \in Nat
  BY <1>1, <1>2, RequestAssumption DEF Channels, Request
<1>4. Channels' = Channels /\ Request' = Request
  BY <1>1 DEF Channels, Request
<1>5. queue' \in Seq(TransformTasks')
  <2>1. queue' \in [1..depth -> TransformTasks']
    BY <1>1, <1>3, <1>4 DEF TaskOfAll, Task, TransformTasks
  <2> HIDE DEF depth
  <2>2. QED BY <1>3, <2>1
<1>6. /\ Len(queue') = depth
      /\ \A k \in 1..depth : queue'[k].op = "preprocess_image"
  <2> HIDE DEF depth
  <2>1. QED BY <1>1, <1>3 DEF TaskOfAll, Task
<1>7. ASSUME NEW channel \in Channels
      PROVE  /\ fragments'[channel] \in Seq(ElementsOf(fragments'[channel]))
             /\ Transformed(channel)' \cup Waiting(channel)' = {}
  <2>1. fragments'[channel] = <<>>
    BY <1>1, <1>2 DEF ForAll
  <2>2. Transformed(channel)' = {}
    BY <2>1 DEF Transformed
  <2>3. Waiting(channel)' = {}
    BY <1>6 DEF Waiting
  <2>4. QED BY <2>1, <2>2, <2>3
<1>8. QED BY <1>1, <1>2, <1>4, <1>5, <1>7 DEF FramesInv, ForAll

\* The elements of a concatenation.
LEMMA Behind ==
  ASSUME NEW S, NEW s \in Seq(S), NEW t \in Seq(S)
  PROVE  /\ s \o t \in Seq(S) /\ Len(s \o t) = Len(s) + Len(t)
         /\ \A i \in 1..Len(s) : (s \o t)[i] = s[i]
         /\ \A i \in 1..Len(t) : (s \o t)[Len(s) + i] = t[i]
OBVIOUS

\* The tasks that are left.
LEMMA WithoutIs ==
  ASSUME NEW S, queue \in Seq(S), NEW i \in 1..Len(queue)
  PROVE  /\ Without(i) \in Seq(S) /\ Len(Without(i)) = Len(queue) - 1
         /\ \A k \in 1..(Len(queue) - 1) :
              Without(i)[k] = IF k < i THEN queue[k] ELSE queue[k + 1]
<1>1. Without(i) = SubSeq(queue, 1, i - 1) \o SubSeq(queue, i + 1, Len(queue))
  BY DEF Without, RemoveAt
<1> DEFINE a == SubSeq(queue, 1, i - 1)
           b == SubSeq(queue, i + 1, Len(queue))
<1>2. Len(queue) \in Nat /\ i - 1 \in Nat /\ i - 1 < Len(queue)
  OBVIOUS
<1>3. a \in Seq(S) /\ Len(a) = i - 1 /\ \A k \in 1..(i - 1) : a[k] = queue[k]
  BY <1>2
<1>4. /\ b \in Seq(S) /\ Len(b) = Len(queue) - i
      /\ \A k \in 1..(Len(queue) - i) : b[k] = queue[i + k]
  BY <1>2
<1> HIDE DEF a, b
<1> DEFINE r == a \o b
<1>5. /\ r \in Seq(S) /\ Len(r) = Len(a) + Len(b)
      /\ \A k \in 1..Len(a) : r[k] = a[k]
      /\ \A k \in 1..Len(b) : r[Len(a) + k] = b[k]
  <2>1. \A s \in Seq(S), t \in Seq(S) :
          /\ s \o t \in Seq(S) /\ Len(s \o t) = Len(s) + Len(t)
          /\ \A k \in 1..Len(s) : (s \o t)[k] = s[k]
          /\ \A k \in 1..Len(t) : (s \o t)[Len(s) + k] = t[k]
    BY Behind
  <2>2. QED BY <1>3, <1>4, <2>1, Zenon
<1> HIDE DEF r
<1>6. ASSUME NEW k \in 1..(Len(queue) - 1)
      PROVE  r[k] = IF k < i THEN queue[k] ELSE queue[k + 1]
  <2>1. CASE k < i
    <3>1. k \in 1..(i - 1)
      BY <1>2, <2>1
    <3>2. r[k] = a[k] /\ a[k] = queue[k]
      BY <1>3, <1>5, <3>1
    <3>3. QED BY <2>1, <3>2
  <2>2. CASE ~(k < i)
    <3>1. PICK l \in 1..(Len(queue) - i) : (i - 1) + l = k /\ i + l = k + 1
      <4>1. /\ (k - i) + 1 \in 1..(Len(queue) - i)
            /\ (i - 1) + ((k - i) + 1) = k /\ i + ((k - i) + 1) = k + 1
        BY <1>2, <2>2
      <4>2. QED BY <4>1
    <3>2. r[(i - 1) + l] = b[l]
      BY <1>3, <1>4, <1>5
    <3>3. b[l] = queue[i + l]
      BY <1>4
    <3>4. QED BY <2>2, <3>1, <3>2, <3>3
  <2>3. QED BY <2>1, <2>2
<1>7. Len(r) = Len(queue) - 1
  BY <1>2, <1>3, <1>4, <1>5
<1>8. QED BY <1>1, <1>5, <1>6, <1>7 DEF a, b, r

\* Likewise as a set.
LEMMA WithoutElements ==
  ASSUME NEW S, queue \in Seq(S), NEW i \in 1..Len(queue)
  PROVE  /\ ElementsOf(Without(i)) \subseteq ElementsOf(queue)
         /\ ElementsOf(queue) \subseteq ElementsOf(Without(i)) \cup {queue[i]}
<1> DEFINE r == Without(i)
<1>1. /\ Len(r) = Len(queue) - 1 /\ Len(queue) \in Nat
      /\ \A k \in 1..(Len(queue) - 1) : r[k] = IF k < i THEN queue[k] ELSE queue[k + 1]
  BY WithoutIs
<1> HIDE DEF r
<1>2. ASSUME NEW k \in 1..Len(r) PROVE r[k] \in ElementsOf(queue)
  <2>1. k \in 1..Len(queue) /\ k + 1 \in 1..Len(queue)
    BY <1>1
  <2>2. QED BY <1>1, <2>1 DEF ElementsOf
<1>3. ASSUME NEW k \in 1..Len(queue), k # i PROVE queue[k] \in ElementsOf(r)
  <2>1. CASE k < i
    <3>1. k \in 1..Len(r) /\ r[k] = queue[k]
      BY <1>1, <2>1
    <3>2. QED BY <3>1 DEF ElementsOf
  <2>2. CASE ~(k < i)
    <3>1. k - 1 \in 1..Len(r) /\ ~(k - 1 < i) /\ (k - 1) + 1 = k
      BY <1>1, <1>3, <2>2
    <3>2. r[k - 1] = queue[k]
      BY <1>1, <3>1
    <3>3. QED BY <3>1, <3>2 DEF ElementsOf
  <2>3. QED BY <2>1, <2>2
<1>4. QED BY <1>2, <1>3 DEF ElementsOf, r

\* The elements of two sequences, one behind the other.
LEMMA JoinedElements ==
  ASSUME NEW S, NEW s \in Seq(S), NEW t \in Seq(S)
  PROVE  s \o t \in Seq(S) /\ ElementsOf(s \o t) = ElementsOf(s) \cup ElementsOf(t)
<1> DEFINE r == s \o t
<1>1. /\ Len(r) = Len(s) + Len(t) /\ Len(s) \in Nat /\ Len(t) \in Nat /\ r \in Seq(S)
      /\ \A k \in 1..Len(s) : r[k] = s[k]
      /\ \A k \in 1..Len(t) : r[Len(s) + k] = t[k]
  OBVIOUS
<1> HIDE DEF r
<1>2. ASSUME NEW k \in 1..Len(r) PROVE r[k] \in ElementsOf(s) \cup ElementsOf(t)
  <2>1. CASE k <= Len(s)
    BY <1>1, <2>1 DEF ElementsOf
  <2>2. CASE ~(k <= Len(s))
    <3>1. k - Len(s) \in 1..Len(t) /\ Len(s) + (k - Len(s)) = k
      BY <1>1, <2>2
    <3>2. r[k] = t[k - Len(s)]
      BY <1>1, <3>1
    <3>3. QED BY <3>1, <3>2 DEF ElementsOf
  <2>3. QED BY <2>1, <2>2
<1>3. ASSUME NEW k \in 1..Len(s) PROVE s[k] \in ElementsOf(r)
  <2>1. k \in 1..Len(r)
    BY <1>1
  <2>2. QED BY <1>1, <2>1 DEF ElementsOf
<1>4. ASSUME NEW k \in 1..Len(t) PROVE t[k] \in ElementsOf(r)
  <2>1. Len(s) + k \in 1..Len(r)
    BY <1>1
  <2>2. QED BY <1>1, <2>1 DEF ElementsOf
<1>5. QED BY <1>1, <1>2, <1>3, <1>4 DEF ElementsOf, r

\* The frames that the fragments to transform, of some tasks, have.
FramesOfTasks(tasks, channel) ==
  {task.cx : task \in {task \in tasks :
                         task.op = "transform_fragment" /\ task.channel = channel}}

\* The frames that tasks wait with, by the elements of the queue.
LEMMA WaitingIs ==
  ASSUME NEW channel
  PROVE  /\ Waiting(channel) = FramesOfTasks(ElementsOf(queue), channel)
         /\ Waiting(channel)' = FramesOfTasks(ElementsOf(queue'), channel)
<1>1. Waiting(channel) = FramesOfTasks(ElementsOf(queue), channel)
  BY DEF Waiting, ElementsOf, FramesOfTasks
<1>2. Waiting(channel)' = FramesOfTasks(ElementsOf(queue'), channel)
  BY DEF Waiting, ElementsOf, FramesOfTasks
<1>3. QED BY <1>1, <1>2

\* Likewise for the fragments.
LEMMA TransformedIs ==
  ASSUME NEW channel
  PROVE  /\ Transformed(channel) = {f.frame : f \in ElementsOf(fragments[channel])}
         /\ Transformed(channel)' = {f.frame : f \in ElementsOf(fragments'[channel])}
<1>1. Transformed(channel) = {f.frame : f \in ElementsOf(fragments[channel])}
  BY DEF Transformed, ElementsOf
<1>2. Transformed(channel)' = {f.frame : f \in ElementsOf(fragments'[channel])}
  BY DEF Transformed, ElementsOf
<1>3. QED BY <1>1, <1>2

\* A task that leaves the queue takes at most its own frame along.
LEMMA TaskLeaves ==
  ASSUME NEW all, NEW left, NEW task, left \subseteq all, all \subseteq left \cup {task}, NEW c
  PROVE  /\ task.op = "transform_fragment" /\ task.channel = c =>
              FramesOfTasks(all, c) \subseteq FramesOfTasks(left, c) \cup {task.cx}
         /\ FramesOfTasks(left, c) \subseteq FramesOfTasks(all, c)
         /\ task \in all /\ task.op = "transform_fragment" /\ task.channel = c =>
              task.cx \in FramesOfTasks(all, c)
<1>1. FramesOfTasks(left, c) \subseteq FramesOfTasks(all, c)
  BY DEF FramesOfTasks
<1>2. task.op = "transform_fragment" /\ task.channel = c =>
        FramesOfTasks(all, c) \subseteq FramesOfTasks(left, c) \cup {task.cx}
  BY DEF FramesOfTasks
<1>3. task \in all /\ task.op = "transform_fragment" /\ task.channel = c =>
        task.cx \in FramesOfTasks(all, c)
  BY DEF FramesOfTasks
<1>4. QED BY <1>1, <1>2, <1>3

\* A task of another kind or channel takes none.
LEMMA OtherTaskLeaves ==
  ASSUME NEW all, NEW left, NEW task, NEW c, left \subseteq all, all \subseteq left \cup {task},
         ~(task.op = "transform_fragment" /\ task.channel = c)
  PROVE  FramesOfTasks(all, c) = FramesOfTasks(left, c)
<1>1. FramesOfTasks(left, c) \subseteq FramesOfTasks(all, c)
  BY DEF FramesOfTasks
<1>2. FramesOfTasks(all, c) \subseteq FramesOfTasks(left, c)
  BY DEF FramesOfTasks
<1>3. QED BY <1>1, <1>2

\* Frames of tasks, task by task.
LEMMA TasksJoin ==
  ASSUME NEW S, NEW T, NEW c
  PROVE  FramesOfTasks(S \cup T, c) = FramesOfTasks(S, c) \cup FramesOfTasks(T, c)
BY DEF FramesOfTasks

\* The tasks made for frames wait with these frames.
LEMMA TasksOfFrames ==
  ASSUME NEW S, NEW channel, NEW c
  PROVE  FramesOfTasks({Task("transform_fragment", channel, f) : f \in S}, c)
           = IF c = channel THEN S ELSE {}
<1>1. \A f : LET t == Task("transform_fragment", channel, f)
             IN t.op = "transform_fragment" /\ t.channel = channel /\ t.cx = f
  BY DEF Task
<1>2. CASE c = channel
  BY <1>1, <1>2 DEF FramesOfTasks
<1>3. CASE c # channel
  BY <1>1, <1>3 DEF FramesOfTasks
<1>4. QED BY <1>2, <1>3

\* An image that is cut: all its frames wait.
LEMMA Frames_PreprocessImage ==
  ASSUME FramesInv, NEW i, PreprocessImage(i)
  PROVE  FramesInv'
<1>0. PICK channel : channel = queue[i].channel
  OBVIOUS
<1> DEFINE list == FrameList(input, channel)
           new == [k \in 1..Len(list) |-> Task("transform_fragment", channel, list[k])]
<1>1. /\ Runs(i, "preprocess_image")
      /\ queue' = Without(i) \o new
      /\ UNCHANGED <<input, flow, fragments>>
  BY <1>0 DEF PreprocessImage, transform_vars, FrameList
<1>2. i \in 1..Len(queue) /\ queue[i].op = "preprocess_image"
  BY <1>1 DEF Runs
<1>3. CASE flow # "transform"
  <2>1. flow # "validate"
    BY <1>2 DEF FramesInv
  <2>2. QED BY <1>1, <1>3, <2>1, Frames_Others
<1>4. CASE flow = "transform"
  <2>1. /\ input \in DOMAIN Inputs /\ ValidRequest(Request) /\ queue \in Seq(TransformTasks)
        /\ DOMAIN fragments = Channels
        /\ \A c \in Channels :
             /\ fragments[c] \in Seq(ElementsOf(fragments[c]))
             /\ Transformed(c) \cup Waiting(c) \in {{}, FrameSetOf(c)}
    BY <1>4 DEF FramesInv
  <2>2. queue[i] \in TransformTasks
    BY <1>2, <2>1
  <2>3. channel \in Channels
    BY <1>0, <2>2 DEF TransformTasks
  <2>4. list \in Seq(FrameSetOf(channel))
    BY <2>1, <2>3, FrameListTiles DEF Request, Channels, FrameSetOf
  <2>5. new \in Seq(TransformTasks) /\ Len(new) = Len(list)
    <3> HIDE DEF list
    <3>1. Len(list) \in Nat /\ \A k \in 1..Len(list) : list[k] \in FrameSetOf(channel)
      BY <2>4
    <3>2. \A k \in 1..Len(list) :
            Task("transform_fragment", channel, list[k]) \in TransformTasks
      BY <2>3, <3>1 DEF Task, TransformTasks
    <3>3. QED BY <3>1, <3>2
  <2> DEFINE made == {Task("transform_fragment", channel, f) : f \in FrameSetOf(channel)}
  <2>6. ElementsOf(new) = made
    <3>1. FrameSetOf(channel) = ElementsOf(list)
      BY DEF FrameSetOf
    <3> HIDE DEF list
    <3>2. QED BY <2>5, <3>1 DEF ElementsOf
  <2> HIDE DEF list, new
  <2>7. /\ Without(i) \in Seq(TransformTasks)
        /\ ElementsOf(Without(i)) \subseteq ElementsOf(queue)
        /\ ElementsOf(queue) \subseteq ElementsOf(Without(i)) \cup {queue[i]}
    BY <1>2, <2>1, WithoutIs, WithoutElements
  <2>8. /\ queue' \in Seq(TransformTasks)
        /\ ElementsOf(queue') = ElementsOf(Without(i)) \cup made
    BY <1>1, <2>5, <2>6, <2>7, JoinedElements
  <2>9. /\ Channels' = Channels /\ Request' = Request /\ TransformTasks' = TransformTasks
        /\ \A c : FrameSetOf(c)' = FrameSetOf(c) /\ Transformed(c)' = Transformed(c)
    BY <1>1 DEF Channels, Request, TransformTasks, FrameSetOf, Transformed
  <2>10. ASSUME NEW c \in Channels
         PROVE  Transformed(c)' \cup Waiting(c)' \in {{}, FrameSetOf(c)}
    <3>1. FramesOfTasks(ElementsOf(Without(i)), c) = Waiting(c)
      <4>1. ~(queue[i].op = "transform_fragment" /\ queue[i].channel = c)
        BY <1>2
      <4>2. FramesOfTasks(ElementsOf(queue), c) = FramesOfTasks(ElementsOf(Without(i)), c)
        BY <2>7, <4>1, OtherTaskLeaves
      <4>3. QED BY <4>2, WaitingIs
    <3>2. FramesOfTasks(made, c) = IF c = channel THEN FrameSetOf(c) ELSE {}
      BY TasksOfFrames
    <3> HIDE DEF made
    <3>3. Waiting(c)' = Waiting(c) \cup FramesOfTasks(made, c)
      BY <2>8, <3>1, WaitingIs, TasksJoin
    <3>4. QED BY <2>1, <2>9, <3>2, <3>3
  <2>11. QED BY <1>1, <1>4, <2>1, <2>8, <2>9, <2>10 DEF FramesInv
<1>5. QED BY <1>3, <1>4

\* A frame that waited is transformed.
LEMMA Frames_TransformFragment ==
  ASSUME FramesInv, NEW i, TransformFragmentTask(i)
  PROVE  FramesInv'
<1>0. PICK channel, new : /\ channel = queue[i].channel
                          /\ new = [frame |-> queue[i].cx,
                                    subbands |-> Prepared[input][channel].fragments[queue[i].cx]]
  OBVIOUS
<1>1. /\ Runs(i, "transform_fragment")
      /\ queue' = Without(i)
      /\ fragments' = [fragments EXCEPT ![channel] = Append(@, new)]
      /\ UNCHANGED <<input, flow>>
  BY <1>0 DEF TransformFragmentTask, known
<1>2. i \in 1..Len(queue) /\ queue[i].op = "transform_fragment"
  BY <1>1 DEF Runs
<1>3. CASE flow # "transform"
  <2>1. flow # "validate"
    BY <1>2 DEF FramesInv
  <2>2. QED BY <1>1, <1>3, <2>1, Frames_Others
<1>4. CASE flow = "transform"
  <2>1. /\ input \in DOMAIN Inputs /\ ValidRequest(Request) /\ queue \in Seq(TransformTasks)
        /\ DOMAIN fragments = Channels
        /\ \A c \in Channels :
             /\ fragments[c] \in Seq(ElementsOf(fragments[c]))
             /\ Transformed(c) \cup Waiting(c) \in {{}, FrameSetOf(c)}
    BY <1>4 DEF FramesInv
  <2>2. channel \in Channels
    <3>1. queue[i] \in TransformTasks
      BY <1>2, <2>1
    <3>2. QED BY <1>0, <3>1 DEF TransformTasks
  <2>3. /\ Without(i) \in Seq(TransformTasks)
        /\ ElementsOf(Without(i)) \subseteq ElementsOf(queue)
        /\ ElementsOf(queue) \subseteq ElementsOf(Without(i)) \cup {queue[i]}
    BY <1>2, <2>1, WithoutIs, WithoutElements
  <2>4. /\ Channels' = Channels /\ Request' = Request /\ TransformTasks' = TransformTasks
        /\ \A c : FrameSetOf(c)' = FrameSetOf(c)
    BY <1>1 DEF Channels, Request, TransformTasks, FrameSetOf
  <2>5. ASSUME NEW c \in Channels, c # channel
        PROVE  /\ fragments'[c] = fragments[c]
               /\ Transformed(c)' = Transformed(c) /\ Waiting(c)' = Waiting(c)
    <3>1. fragments'[c] = fragments[c]
      BY <1>1, <2>1, <2>5
    <3>2. Transformed(c)' = Transformed(c)
      BY <3>1 DEF Transformed
    <3>3. Waiting(c)' = Waiting(c)
      <4>1. ~(queue[i].op = "transform_fragment" /\ queue[i].channel = c)
        BY <1>0, <2>5
      <4>2. FramesOfTasks(ElementsOf(queue), c) = FramesOfTasks(ElementsOf(Without(i)), c)
        BY <2>3, <4>1, OtherTaskLeaves
      <4>3. QED BY <1>1, <4>2, WaitingIs
    <3>4. QED BY <3>1, <3>2, <3>3
  <2>6. /\ fragments'[channel] \in Seq(ElementsOf(fragments'[channel]))
        /\ Transformed(channel)' = Transformed(channel) \cup {queue[i].cx}
    <3>0. PICK s, t : s = fragments[channel] /\ t = fragments'[channel]
      OBVIOUS
    <3>1. t = Append(s, new) /\ s \in Seq(ElementsOf(s))
      BY <1>1, <2>1, <2>2, <3>0
    <3> DEFINE S == ElementsOf(s) \cup {new}
    <3>2. s \in Seq(S)
      BY <3>1
    <3>10. PICK one : one = <<new>>
      OBVIOUS
    <3>3. one \in Seq(S) /\ ElementsOf(one) = {new}
      BY <3>10 DEF ElementsOf
    <3>4. t = s \o one
      BY <3>10, <3>1
    <3>5. t \in Seq(S) /\ ElementsOf(t) = S
      <4> HIDE DEF S
      <4>1. s \o one \in Seq(S) /\ ElementsOf(s \o one) = ElementsOf(s) \cup ElementsOf(one)
        BY <3>2, <3>3, JoinedElements, SMTT(20)
      <4>2. QED BY <3>3, <3>4, <4>1, Zenon DEF S
    <3>6. /\ Transformed(channel) = {f.frame : f \in ElementsOf(s)}
          /\ Transformed(channel)' = {f.frame : f \in ElementsOf(t)}
      BY <3>0, TransformedIs
    <3>7. new.frame = queue[i].cx
      BY <1>0
    <3>8. {f.frame : f \in S} = {f.frame : f \in ElementsOf(s)} \cup {new.frame}
      OBVIOUS
    <3> HIDE DEF S
    <3>9. QED BY <3>0, <3>5, <3>6, <3>7, <3>8
  <2>7. Transformed(channel)' \cup Waiting(channel)' = Transformed(channel) \cup Waiting(channel)
    <3>1. queue[i].op = "transform_fragment" /\ queue[i].channel = channel
      BY <1>0, <1>2
    <3>2. queue[i] \in ElementsOf(queue)
      BY <1>2 DEF ElementsOf
    <3>3. /\ FramesOfTasks(ElementsOf(queue), channel)
               \subseteq FramesOfTasks(ElementsOf(Without(i)), channel) \cup {queue[i].cx}
          /\ FramesOfTasks(ElementsOf(Without(i)), channel)
               \subseteq FramesOfTasks(ElementsOf(queue), channel)
          /\ queue[i].cx \in FramesOfTasks(ElementsOf(queue), channel)
      BY <2>3, <3>1, <3>2, TaskLeaves, Zenon
    <3>4. QED BY <1>1, <2>6, <3>3, WaitingIs
  <2>8. DOMAIN fragments' = Channels
    BY <1>1, <2>1
  <2>9. ASSUME NEW c \in Channels
        PROVE  /\ fragments'[c] \in Seq(ElementsOf(fragments'[c]))
               /\ Transformed(c)' \cup Waiting(c)' \in {{}, FrameSetOf(c)}
    BY <2>1, <2>2, <2>5, <2>6, <2>7
  <2>10. QED BY <1>1, <1>4, <2>1, <2>3, <2>4, <2>8, <2>9 DEF FramesInv
<1>5. QED BY <1>3, <1>4

----------------------------------------------------------------------------
(* The theorem. *)

\* No image is cut at first.
LEMMA FramesInit == ASSUME Init PROVE FramesInv
BY DEF Init, FramesInv

\* Every step keeps the frames together.
LEMMA FramesStep == ASSUME FramesInv, [Next]_vars PROVE FramesInv'
<1>1. CASE UNCHANGED vars
  <2>1. UNCHANGED <<input, flow, queue, fragments>>
    BY <1>1 DEF vars, known, transform_vars
  <2>2. /\ Request' = Request /\ Channels' = Channels /\ TransformTasks' = TransformTasks
        /\ ForAll(<<>>)' = ForAll(<<>>)
    BY <2>1 DEF Request, Channels, ForAll, TransformTasks, FrameSetOf
  <2>3. \A c : /\ FrameSetOf(c)' = FrameSetOf(c)
              /\ Transformed(c)' = Transformed(c) /\ Waiting(c)' = Waiting(c)
    BY <2>1 DEF FrameSetOf, Transformed, Waiting
  <2>4. QED BY <2>1, <2>2, <2>3 DEF FramesInv
<1>2. CASE \E i \in 1..Len(queue) : PreprocessImage(i)
  BY <1>2, Frames_PreprocessImage
<1>3. CASE \E i \in 1..Len(queue) : TransformFragmentTask(i)
  BY <1>3, Frames_TransformFragment
<1>4. CASE \E i \in 1..Len(queue) :
             \/ PreprocessFragments(i) \/ AssembleSegments(i) \/ CompressSegment(i)
             \/ DecodeSegment(i) \/ DisassembleSegments(i) \/ RestoreImage(i)
             \/ PostprocessImage(i)
  BY <1>4, Frames_LateTasks
<1>5. CASE Import
  BY <1>5, Frames_Import
<1>6. CASE Reject \/ Compress \/ Restore \/ Disassemble \/ Postprocess \/ Export \/ Finished
  BY <1>6, Frames_Flows
<1>7. QED BY <1>1, <1>2, <1>3, <1>4, <1>5, <1>6 DEF Next

\* In every state the frames of a channel that wait and those that are transformed are, once
\* its image is cut by preprocess_image, all its frames, and until then none.
THEOREM FramesConserved == Spec => []FramesInv
<1>1. Init => FramesInv
  BY FramesInit
<1>2. FramesInv /\ [Next]_vars => FramesInv'
  BY FramesStep
<1>3. QED BY <1>1, <1>2, PTL DEF Spec

\* The invariant, with what the frames of a channel are, gives the cover.
LEMMA CoverFollows == ASSUME FramesInv PROVE FramesCover
<1> SUFFICES ASSUME NEW channel \in Channels, flow = "transform",
                    UNION {Wrapped(channel, frame) :
                             frame \in Transformed(channel) \cup Waiting(channel)} # {},
                    NEW x \in {8 * n : n \in 0..(OriginalShape(channel)[1] \div 8 - 1)},
                    NEW y \in {8 * n : n \in 0..(OriginalShape(channel)[2] \div 8 - 1)}
             PROVE  Cardinality({part \in UNION {Wrapped(channel, frame) :
                                                  frame \in Transformed(channel) \cup Waiting(channel)} :
                                   Inside(part, x, y)}) = 1
  BY DEF FramesCover, Transformed, Waiting
<1> DEFINE w == OriginalShape(channel)[1]
           h == OriginalShape(channel)[2]
           parts == UNION {Wrapped(channel, frame) : frame \in FrameSetOf(channel)}
<1>1. input \in DOMAIN Inputs /\ ValidRequest(Inputs[input]) /\ channel \in DOMAIN Inputs[input].images
  BY DEF FramesInv, Request, Channels
<1>2. Transformed(channel) \cup Waiting(channel) = FrameSetOf(channel)
  BY DEF FramesInv
<1>3. OriginalShape(channel) = ShapeOf(Inputs[input], channel)
  BY DEF OriginalShape, OriginalSize, ShapeOf, Request
<1>4. \A frame : Wrapped(channel, frame) = PartSet(w, h, frame)
  BY DEF Wrapped, PartSet
<1>5. w \in Nat \ {0} /\ h \in Nat \ {0}
  BY <1>1, <1>3, FrameListTiles
<1>6. \A a \in 0..(w - 1), b \in 0..(h - 1) :
        TakenOnce(UNION {PartSet(w, h, f) : f \in FrameSetOf(channel)}, a, b)
  BY <1>1, <1>3, FrameListTiles DEF FrameSetOf
<1>7. UNION {PartSet(w, h, f) : f \in FrameSetOf(channel)} = parts
  BY <1>4
<1> HIDE DEF w, h, parts
<1>8. x \in 0..(w - 1) /\ y \in 0..(h - 1)
  <2>1. x \in {8 * n : n \in 0..(w \div 8 - 1)} /\ y \in {8 * n : n \in 0..(h \div 8 - 1)}
    BY DEF w, h
  <2>2. QED BY <1>5, <2>1
<1>9. TakenOnce(parts, x, y)
  BY <1>6, <1>7, <1>8
<1>10. PICK part : {p \in parts : Inside(p, x, y)} = {part}
  BY <1>9 DEF TakenOnce
<1>11. Cardinality({p \in parts : Inside(p, x, y)}) = 1
  BY <1>10, FS_Singleton
<1>12. QED BY <1>2, <1>11 DEF parts

\* The frames that preprocess_image cuts a channel's padded image into, wrapped around its
\* right edge and trimmed at its bottom, take every block of the image exactly once: of any
\* image, any size of segments and any granularity, however the tasks of the flow interleave.
THEOREM FramesTheWhole == Spec => []FramesCover
<1>1. FramesInv => FramesCover
  BY CoverFollows
<1>2. QED BY <1>1, FramesConserved, PTL

----------------------------------------------------------------------------
(* Orders. *)

\* A strict total order of the items of S: ahead[x] are those less than x.
Orders(ahead, S) ==
  /\ \A x \in S : ahead[x] \subseteq S /\ x \notin ahead[x]
  /\ \A x \in S, y \in S : x # y => x \in ahead[y] \/ y \in ahead[x]
  /\ \A x \in S, y \in S : x \in ahead[y] => ahead[x] \subseteq ahead[y]

\* Who is ahead has fewer ahead of it,
LEMMA RanksGrow ==
  ASSUME NEW S, IsFiniteSet(S), NEW ahead, Orders(ahead, S)
  PROVE  /\ Cardinality(S) \in Nat
         /\ \A x \in S : Cardinality(ahead[x]) \in 0..(Cardinality(S) - 1)
         /\ \A x \in S, y \in S :
              x \in ahead[y] <=> Cardinality(ahead[x]) < Cardinality(ahead[y])
<1>1. Cardinality(S) \in Nat
  BY FS_CardinalityType
<1>2. ASSUME NEW x \in S
      PROVE  /\ IsFiniteSet(ahead[x]) /\ Cardinality(ahead[x]) \in Nat
             /\ Cardinality(ahead[x]) \in 0..(Cardinality(S) - 1)
             /\ Cardinality(ahead[x] \cup {x}) = Cardinality(ahead[x]) + 1
  <2>1. ahead[x] \in SUBSET S /\ x \notin ahead[x] /\ ahead[x] \cup {x} \in SUBSET S
    BY DEF Orders
  <2>2. IsFiniteSet(ahead[x])
    BY <2>1, FS_Subset
  <2>3. Cardinality(ahead[x] \cup {x}) = Cardinality(ahead[x]) + 1
    BY <2>1, <2>2, FS_AddElement
  <2>4. Cardinality(ahead[x] \cup {x}) <= Cardinality(S)
    BY <2>1, FS_Subset
  <2>5. Cardinality(ahead[x]) \in Nat
    BY <2>2, FS_CardinalityType
  <2>6. QED BY <1>1, <2>2, <2>3, <2>4, <2>5
<1> DEFINE rank(x) == Cardinality(ahead[x])
<1>3. ASSUME NEW x \in S, NEW y \in S, x \in ahead[y]
      PROVE  rank(x) < rank(y)
  <2>1. ahead[x] \cup {x} \in SUBSET ahead[y]
    BY <1>3 DEF Orders
  <2>2. IsFiniteSet(ahead[y])
    BY <1>2
  <2>3. Cardinality(ahead[x] \cup {x}) <= Cardinality(ahead[y])
    BY <2>1, <2>2, FS_Subset
  <2>4. rank(x) \in Nat /\ rank(y) \in Nat /\ rank(x) + 1 <= rank(y)
    BY <1>2, <2>3
  <2> HIDE DEF rank
  <2>5. QED BY <2>4
<1>4. ASSUME NEW x \in S, NEW y \in S, rank(x) < rank(y)
      PROVE  x \in ahead[y]
  <2>1. rank(x) \in Nat /\ rank(y) \in Nat /\ (y \in ahead[x] => rank(y) < rank(x))
    BY <1>2, <1>3
  <2>2. x # y => x \in ahead[y] \/ y \in ahead[x]
    BY DEF Orders
  <2> HIDE DEF rank
  <2>3. QED BY <1>4, <2>1, <2>2
<1>5. QED BY <1>1, <1>2, <1>3, <1>4

\* so every number of items ahead, up to all but one, is some item's.
LEMMA RanksFill ==
  ASSUME NEW S, IsFiniteSet(S), NEW ahead, Orders(ahead, S)
  PROVE  \A k \in 1..Cardinality(S) : \E x \in S : Cardinality(ahead[x]) = k - 1
<1> DEFINE n == Cardinality(S)
           T == 0..(n - 1)
           rank == [x \in S |-> Cardinality(ahead[x])]
<1>1. n \in Nat /\ \A x \in S : Cardinality(ahead[x]) \in T
  BY RanksGrow
<1>2. \A x \in S, y \in S : x # y => Cardinality(ahead[x]) # Cardinality(ahead[y])
  <2> SUFFICES ASSUME NEW x \in S, NEW y \in S, x # y, Cardinality(ahead[x]) = Cardinality(ahead[y])
               PROVE  FALSE
    OBVIOUS
  <2>1. x \in ahead[y] \/ y \in ahead[x]
    BY DEF Orders
  <2>2. Cardinality(ahead[x]) < Cardinality(ahead[y]) \/ Cardinality(ahead[y]) < Cardinality(ahead[x])
    BY <2>1, RanksGrow
  <2>3. QED BY <1>1, <2>2
<1> HIDE DEF n
<1>3. rank \in Injection(S, T)
  <2>1. rank \in [S -> T]
    BY <1>1
  <2>2. \A x, y \in S : rank[x] = rank[y] => x = y
    BY <1>2
  <2>3. QED BY <2>1, <2>2 DEF Injection, IsInjective
<1>4. IsFiniteSet(T) /\ Cardinality(T) = n
  <2>1. 0 \in Int /\ n - 1 \in Int
    BY <1>1
  <2>2. IsFiniteSet(T) /\ Cardinality(T) = IF 0 > n - 1 THEN 0 ELSE (n - 1) - 0 + 1
    BY <2>1, FS_Interval
  <2>3. QED BY <1>1, <2>2
<1> HIDE DEF rank, T
<1>5. rank \in Surjection(S, T)
  BY <1>3, <1>4, FS_Injection DEF n
<1> USE DEF rank, T
<1>6. ASSUME NEW k \in 1..n PROVE \E x \in S : Cardinality(ahead[x]) = k - 1
  <2>1. k - 1 \in T
    BY <1>1
  <2>2. \E x \in S : rank[x] = k - 1
    BY <1>5, <2>1 DEF Surjection
  <2>3. QED BY <2>2
<1>7. QED BY <1>6 DEF n

\* The items of S, each behind those ahead of it.
Listed(s, S, ahead) ==
  /\ s \in Seq(S) /\ Len(s) = Cardinality(S)
  /\ \A x \in S : \E k \in 1..Len(s) : s[k] = x
  /\ \A j \in 1..Len(s), k \in 1..Len(s) : j < k <=> s[j] \in ahead[s[k]]

\* What Sorted returns, whatever it sorts by.
LEMMA SortedIs ==
  ASSUME NEW S, IsFiniteSet(S), NEW ahead, Orders(ahead, S), NEW s,
         s = [k \in 1..Cardinality(S) |->
                CHOOSE x \in S : Cardinality(ahead[x]) = k - 1]
  PROVE  Listed(s, S, ahead)
<1> DEFINE n == Cardinality(S)
<1>1. n \in Nat
  BY RanksGrow
<1>2. ASSUME NEW k \in 1..n PROVE s[k] \in S /\ Cardinality(ahead[s[k]]) = k - 1
  <2>1. \E x \in S : Cardinality(ahead[x]) = k - 1
    BY RanksFill
  <2>2. s[k] = CHOOSE x \in S : Cardinality(ahead[x]) = k - 1
    OBVIOUS
  <2>3. QED BY <2>1, <2>2
<1>3. s \in Seq(S) /\ Len(s) = n
  <2>1. s = [k \in 1..n |-> s[k]]
    OBVIOUS
  <2> HIDE DEF n
  <2>2. \A k \in 1..n : s[k] \in S
    BY <1>2
  <2> DEFINE v == [k \in 1..n |-> s[k]]
  <2>3. v \in Seq(S) /\ Len(v) = n
    BY <1>1, <2>2
  <2> HIDE DEF v
  <2>4. s = v
    BY <2>1 DEF v
  <2>5. QED BY <2>3, <2>4
<1>4. ASSUME NEW j \in 1..n, NEW k \in 1..n PROVE j < k <=> s[j] \in ahead[s[k]]
  <2>1. s[j] \in ahead[s[k]] <=> Cardinality(ahead[s[j]]) < Cardinality(ahead[s[k]])
    BY <1>2, RanksGrow
  <2>2. QED BY <1>1, <1>2, <2>1
<1>5. ASSUME NEW x \in S PROVE \E k \in 1..n : s[k] = x
  <2> DEFINE k == Cardinality(ahead[x]) + 1
  <2>1. k \in 1..n /\ Cardinality(ahead[x]) = k - 1
    BY <1>1, RanksGrow
  <2>2. Cardinality(ahead[s[k]]) = Cardinality(ahead[x]) /\ s[k] \in S
    BY <1>2, <2>1
  <2>3. ~(x \in ahead[s[k]]) /\ ~(s[k] \in ahead[x])
    BY <2>2, <2>1, RanksGrow
  <2>4. s[k] = x
    BY <2>2, <2>3 DEF Orders
  <2>5. QED BY <2>1, <2>4
<1>6. QED BY <1>3, <1>4, <1>5 DEF Listed

InOrder(s, S, ahead) ==
  /\ s \in Seq(S)
  /\ \A x \in S : \E k \in 1..Len(s) : s[k] = x
  /\ \A j \in 1..Len(s), k \in 1..Len(s) : j < k => s[j] \in ahead[s[k]]

\* There is one way to list the items.
LEMMA ListedOnce ==
  ASSUME NEW S, NEW ahead, NEW s, NEW t, Orders(ahead, S), InOrder(s, S, ahead),
         InOrder(t, S, ahead)
  PROVE  s = t
<1>0. /\ s \in Seq(S) /\ (\A x \in S : \E k \in 1..Len(s) : s[k] = x)
      /\ \A j \in 1..Len(s), k \in 1..Len(s) : j < k => s[j] \in ahead[s[k]]
      /\ t \in Seq(S) /\ (\A x \in S : \E k \in 1..Len(t) : t[k] = x)
      /\ \A j \in 1..Len(t), k \in 1..Len(t) : j < k => t[j] \in ahead[t[k]]
  BY DEF InOrder
<1> DEFINE Same == {k \in Nat : /\ k <= Len(s) <=> k <= Len(t)
                                /\ \A j \in 1..Len(s) : j <= k => s[j] = t[j]}
<1>1. Len(s) \in Nat /\ Len(t) \in Nat
      /\ (\A k \in 1..Len(s) : s[k] \in S) /\ (\A k \in 1..Len(t) : t[k] \in S)
  BY <1>0
<1>2. \A x \in S, y \in S : ~(x \in ahead[y] /\ y \in ahead[x])
  BY DEF Orders
<1>3. 0 \in Same
  BY <1>1
<1>4. ASSUME NEW n \in Nat, n \in Same PROVE n + 1 \in Same
  <2>1. /\ n <= Len(s) <=> n <= Len(t)
        /\ \A j \in 1..Len(s) : j <= n => s[j] = t[j]
    BY <1>4
  <2>2. ASSUME n + 1 <= Len(s)
        PROVE  \E k \in 1..Len(t) : n + 1 <= k /\ s[n + 1] = t[k]
    <3>1. n + 1 \in 1..Len(s)
      BY <1>1, <2>2
    <3>2. PICK k \in 1..Len(t) : t[k] = s[n + 1]
      BY <1>0, <1>1, <3>1
    <3>3. ~(k <= n)
      <4> SUFFICES ASSUME k <= n PROVE FALSE
        OBVIOUS
      <4>1. k \in 1..Len(s) /\ k < n + 1
        BY <1>1, <3>1
      <4>2. s[k] = t[k] /\ s[k] \in ahead[s[n + 1]]
        BY <1>0, <2>1, <3>1, <4>1
      <4>3. s[n + 1] \in ahead[s[n + 1]] /\ s[n + 1] \in S
        BY <1>1, <3>1, <3>2, <4>2
      <4>4. QED BY <1>2, <4>3
    <3>4. QED BY <3>2, <3>3
  <2>3. ASSUME n + 1 <= Len(t)
        PROVE  \E k \in 1..Len(s) : n + 1 <= k /\ t[n + 1] = s[k]
    <3>1. n + 1 \in 1..Len(t)
      BY <1>1, <2>3
    <3>2. PICK k \in 1..Len(s) : s[k] = t[n + 1]
      BY <1>0, <1>1, <3>1
    <3>3. ~(k <= n)
      <4> SUFFICES ASSUME k <= n PROVE FALSE
        OBVIOUS
      <4>1. k \in 1..Len(t) /\ k < n + 1
        BY <1>1, <3>1, <3>2
      <4>2. s[k] = t[k] /\ t[k] \in ahead[t[n + 1]]
        BY <1>0, <2>1, <3>1, <4>1
      <4>3. t[n + 1] \in ahead[t[n + 1]] /\ t[n + 1] \in S
        BY <1>1, <3>1, <3>2, <4>2
      <4>4. QED BY <1>2, <4>3
    <3>4. QED BY <3>2, <3>3
  <2>4. n + 1 <= Len(s) <=> n + 1 <= Len(t)
    BY <1>1, <2>2, <2>3
  <2>5. ASSUME n + 1 <= Len(s) PROVE s[n + 1] = t[n + 1]
    <3>1. n + 1 \in 1..Len(s) /\ n + 1 \in 1..Len(t)
      BY <1>1, <2>4, <2>5
    <3>2. PICK k \in 1..Len(t) : n + 1 <= k /\ s[n + 1] = t[k]
      BY <2>2, <2>5
    <3>3. PICK l \in 1..Len(s) : n + 1 <= l /\ t[n + 1] = s[l]
      BY <2>3, <3>1
    <3>4. CASE k = n + 1
      BY <3>2, <3>4
    <3>5. CASE l = n + 1
      BY <3>3, <3>5
    <3>6. CASE k # n + 1 /\ l # n + 1
      <4>1. n + 1 < k /\ n + 1 < l
        BY <3>2, <3>3, <3>6
      <4>2. t[n + 1] \in ahead[t[k]] /\ s[n + 1] \in ahead[s[l]]
        BY <1>0, <3>1, <4>1
      <4>3. QED BY <1>1, <1>2, <3>1, <3>2, <3>3, <4>2
    <3>7. QED BY <3>4, <3>5, <3>6
  <2>6. ASSUME NEW j \in 1..Len(s), j <= n + 1 PROVE s[j] = t[j]
    <3>1. CASE j <= n
      BY <2>1, <3>1
    <3>2. CASE ~(j <= n)
      <4>1. j = n + 1 /\ n + 1 <= Len(s)
        BY <1>1, <2>6, <3>2
      <4>2. QED BY <2>5, <4>1
    <3>3. QED BY <3>1, <3>2
  <2>7. QED BY <2>4, <2>6
<1> HIDE DEF Same
<1>5. \A k \in Nat : /\ k <= Len(s) <=> k <= Len(t)
                     /\ \A j \in 1..Len(s) : j <= k => s[j] = t[j]
  <2>1. Same \subseteq Nat
    BY DEF Same
  <2>2. Same = Nat
    BY <1>3, <1>4, <2>1, Induction
  <2>3. QED BY <2>2 DEF Same
<1>6. Len(s) = Len(t)
  BY <1>1, <1>5
<1>7. \A j \in 1..Len(s) : s[j] = t[j]
  BY <1>1, <1>5
<1>8. QED
  <2>1. s = [j \in 1..Len(s) |-> s[j]] /\ t = [j \in 1..Len(t) |-> t[j]]
    BY <1>0
  <2>2. QED BY <1>6, <1>7, <2>1

----------------------------------------------------------------------------
(* The names of files. *)

DigitTable(f, number) ==
  f = [n \in 0..number |-> IF n < 10 THEN <<n>> ELSE Append(f[n \div 10], n % 10)]

\* The function that Digits defines exists,
LEMMA TableExists == ASSUME NEW number \in Nat PROVE \E f : DigitTable(f, number)
<1> DEFINE Known == {m \in Nat : \E f : DigitTable(f, m)}
<1>1. 0 \in Known
  <2> DEFINE f == [n \in 0..0 |-> <<n>>]
  <2>1. DigitTable(f, 0)
    BY DEF DigitTable
  <2>2. QED BY <2>1
<1>2. ASSUME NEW m \in Nat, m \in Known PROVE m + 1 \in Known
  <2>1. PICK f : DigitTable(f, m)
    BY <1>2
  <2> DEFINE g == [n \in 0..(m + 1) |-> IF n < 10 THEN <<n>> ELSE Append(f[n \div 10], n % 10)]
  <2>8. \A n \in 0..(m + 1) :
          g[n] = IF n < 10 THEN <<n>> ELSE Append(f[n \div 10], n % 10)
    OBVIOUS
  <2>9. \A n \in 0..m : f[n] = IF n < 10 THEN <<n>> ELSE Append(f[n \div 10], n % 10)
    BY <2>1 DEF DigitTable
  <2>10. g = [n \in 0..(m + 1) |-> g[n]]
    OBVIOUS
  <2> HIDE DEF g
  <2>2. \A n \in 0..m : g[n] = f[n]
    <3> SUFFICES ASSUME NEW n \in 0..m PROVE g[n] = f[n]
      OBVIOUS
    <3>1. n \in 0..(m + 1)
      OBVIOUS
    <3>2. QED BY <2>8, <2>9, <3>1
  <2>3. \A n \in 0..(m + 1) : ~(n < 10) => n \div 10 \in 0..m
    OBVIOUS
  <2>4. \A n \in 0..(m + 1) :
          g[n] = IF n < 10 THEN <<n>> ELSE Append(g[n \div 10], n % 10)
    <3> SUFFICES ASSUME NEW n \in 0..(m + 1)
                 PROVE  g[n] = IF n < 10 THEN <<n>> ELSE Append(g[n \div 10], n % 10)
      OBVIOUS
    <3>1. CASE n < 10
      BY <2>8, <3>1
    <3>2. CASE ~(n < 10)
      <4>1. g[n \div 10] = f[n \div 10]
        BY <2>2, <2>3, <3>2
      <4>2. QED BY <2>8, <3>2, <4>1
    <3>3. QED BY <3>1, <3>2
  <2>6. DigitTable(g, m + 1)
    BY <2>4, <2>10 DEF DigitTable
  <2>7. QED BY <2>6
<1> HIDE DEF Known
<1>3. Known \subseteq Nat
  BY DEF Known
<1>4. Known = Nat
  BY <1>1, <1>2, <1>3, Induction
<1>5. QED BY <1>4 DEF Known

\* and has the same values for every bound.
LEMMA TablesAgree ==
  ASSUME NEW number \in Nat, NEW other \in Nat, NEW f, NEW g,
         DigitTable(f, number), DigitTable(g, other),
         NEW n \in Nat, n <= number, n <= other
  PROVE  f[n] = g[n]
<1> DEFINE Bad == {m \in Nat : m <= number /\ m <= other /\ f[m] # g[m]}
<1>1. SUFFICES ASSUME Bad # {} PROVE FALSE
  OBVIOUS
<1>2. PICK m \in Bad : \A k \in Bad : m <= k
  <2>1. Bad \subseteq Nat
    OBVIOUS
  <2> HIDE DEF Bad
  <2>2. QED BY <1>1, <2>1, Least
<1>3. m \in 0..number /\ m \in 0..other
  OBVIOUS
<1>4. /\ f[m] = IF m < 10 THEN <<m>> ELSE Append(f[m \div 10], m % 10)
      /\ g[m] = IF m < 10 THEN <<m>> ELSE Append(g[m \div 10], m % 10)
  BY <1>3 DEF DigitTable
<1>5. CASE m < 10
  BY <1>4, <1>5
<1>6. CASE ~(m < 10)
  <2>1. m \div 10 \in Nat /\ m \div 10 < m
    BY <1>6
  <2>2. f[m \div 10] = g[m \div 10]
    BY <1>2, <2>1
  <2>3. QED BY <1>4, <1>6, <2>2
<1>7. QED BY <1>5, <1>6

\* A number's digits: those of its tenth and the last one.
LEMMA DigitsIs ==
  ASSUME NEW n \in Nat
  PROVE  Digits(n) = IF n < 10 THEN <<n>> ELSE Append(Digits(n \div 10), n % 10)
<1> DEFINE F(m) == CHOOSE f : DigitTable(f, m)
<1>1. \A m \in Nat : DigitTable(F(m), m)
  BY TableExists
<1>2. \A m \in Nat : Digits(m) = F(m)[m]
  BY DEF Digits, DigitTable
<1> HIDE DEF F
<1>3. Digits(n) = IF n < 10 THEN <<n>> ELSE Append(F(n)[n \div 10], n % 10)
  <2>1. n \in 0..n /\ DigitTable(F(n), n)
    BY <1>1
  <2>2. QED BY <1>2, <2>1 DEF DigitTable
<1>4. CASE n < 10
  BY <1>3, <1>4
<1>5. CASE ~(n < 10)
  <2> DEFINE m == n \div 10
  <2>1. m \in Nat /\ m <= n /\ m <= m
    OBVIOUS
  <2> HIDE DEF m
  <2>2. DigitTable(F(n), n) /\ DigitTable(F(m), m)
    BY <1>1, <2>1
  <2>3. F(n)[m] = F(m)[m]
    BY <2>1, <2>2, TablesAgree
  <2>4. QED BY <1>2, <1>3, <1>5, <2>1, <2>3 DEF m
<1>6. QED BY <1>4, <1>5

\* Digits are less than ten, and there is one at least.
LEMMA DigitsAre ==
  ASSUME NEW n \in Nat
  PROVE  Digits(n) \in Seq(0..9) /\ Len(Digits(n)) \in Nat \ {0}
<1> DEFINE Good(m) == Digits(m) \in Seq(0..9) /\ Len(Digits(m)) \in Nat \ {0}
           Bad == {m \in Nat : ~Good(m)}
<1>1. SUFFICES ASSUME Bad # {} PROVE FALSE
  OBVIOUS
<1>2. PICK m \in Bad : \A k \in Bad : m <= k
  <2>1. Bad \subseteq Nat
    OBVIOUS
  <2> HIDE DEF Bad
  <2>2. QED BY <1>1, <2>1, Least
<1>3. CASE m < 10
  <2>1. Digits(m) = <<m>> /\ m \in 0..9
    BY <1>3, DigitsIs
  <2>3. <<m>> \in Seq(0..9) /\ Len(<<m>>) = 1
    BY <2>1
  <2>4. Good(m)
    BY <2>1, <2>3
  <2>2. QED BY <2>4
<1>4. CASE ~(m < 10)
  <2>1. m \div 10 \in Nat /\ m \div 10 < m
    BY <1>4
  <2>2. Good(m \div 10)
    BY <1>2, <2>1
  <2>3. m % 10 \in 0..9
    OBVIOUS
  <2>4. PICK d : d = Digits(m \div 10)
    OBVIOUS
  <2>5. Digits(m) = Append(d, m % 10) /\ d \in Seq(0..9)
    BY <1>4, <2>2, <2>4, DigitsIs
  <2>6. Append(d, m % 10) \in Seq(0..9) /\ Len(Append(d, m % 10)) = Len(d) + 1
    BY <2>3, <2>5
  <2>7. Good(m)
    BY <2>5, <2>6
  <2>8. QED BY <2>7
<1>5. QED BY <1>3, <1>4

\* The order of digits by length and then by the first that differs
Shorter(d, e) ==
  \/ Len(d) < Len(e)
  \/ /\ Len(d) = Len(e)
     /\ \E i \in 1..Len(d) : d[i] < e[i] /\ \A j \in 1..(i - 1) : d[j] = e[j]

\* is kept behind the same or different numbers,
LEMMA ShorterGrows ==
  ASSUME NEW d \in Seq(0..9), NEW e \in Seq(0..9), NEW a \in 0..9, NEW b \in 0..9,
         Shorter(d, e) \/ (d = e /\ a < b)
  PROVE  Shorter(Append(d, a), Append(e, b))
<1> DEFINE u == Append(d, a)
           v == Append(e, b)
<1>1. /\ Len(u) = Len(d) + 1 /\ u[Len(d) + 1] = a /\ \A j \in 1..Len(d) : u[j] = d[j]
      /\ Len(v) = Len(e) + 1 /\ v[Len(e) + 1] = b /\ \A j \in 1..Len(e) : v[j] = e[j]
      /\ Len(d) \in Nat /\ Len(e) \in Nat
  OBVIOUS
<1> HIDE DEF u, v
<1>2. CASE Len(d) < Len(e)
  BY <1>1, <1>2 DEF Shorter, u, v
<1>3. CASE Len(d) = Len(e) /\ \E i \in 1..Len(d) : d[i] < e[i] /\ \A j \in 1..(i - 1) : d[j] = e[j]
  <2>1. PICK i \in 1..Len(d) : d[i] < e[i] /\ \A j \in 1..(i - 1) : d[j] = e[j]
    BY <1>3
  <2>2. i \in 1..Len(u) /\ u[i] < v[i] /\ \A j \in 1..(i - 1) : u[j] = v[j]
    BY <1>1, <1>3, <2>1
  <2>3. Len(u) = Len(v)
    BY <1>1, <1>3
  <2>4. QED BY <2>2, <2>3 DEF Shorter, u, v
<1>4. CASE d = e /\ a < b
  <2>1. Len(d) + 1 \in 1..Len(u) /\ u[Len(d) + 1] < v[Len(d) + 1]
        /\ \A j \in 1..((Len(d) + 1) - 1) : u[j] = v[j]
    BY <1>1, <1>4
  <2>2. Len(u) = Len(v)
    BY <1>1, <1>4
  <2>3. QED BY <2>1, <2>2 DEF Shorter, u, v
<1>5. QED BY <1>2, <1>3, <1>4 DEF Shorter

\* and it is the order of the numbers.
LEMMA DigitsOrdered ==
  ASSUME NEW a \in Nat, NEW b \in Nat, a < b
  PROVE  Shorter(Digits(a), Digits(b))
<1> DEFINE Bad == {m \in Nat : \E k \in Nat : k < m /\ ~Shorter(Digits(k), Digits(m))}
<1>1. SUFFICES ASSUME Bad # {} PROVE FALSE
  OBVIOUS
<1>2. PICK m \in Bad : \A k \in Bad : m <= k
  <2>1. Bad \subseteq Nat
    OBVIOUS
  <2> HIDE DEF Bad
  <2>2. QED BY <1>1, <2>1, Least
<1>3. PICK k \in Nat : k < m /\ ~Shorter(Digits(k), Digits(m))
  OBVIOUS
<1>4. CASE m < 10
  <2>1. Digits(m) = <<m>> /\ Digits(k) = <<k>>
    BY <1>3, <1>4, DigitsIs
  <2>2. QED BY <1>3, <2>1 DEF Shorter
<1>5. CASE ~(m < 10)
  <2>1. m \div 10 \in Nat /\ m \div 10 < m /\ m % 10 \in 0..9
    BY <1>5
  <2>2. PICK e : e = Digits(m \div 10)
    OBVIOUS
  <2>3. Digits(m) = Append(e, m % 10) /\ e \in Seq(0..9) /\ Len(e) \in Nat \ {0}
    BY <1>5, <2>1, <2>2, DigitsIs, DigitsAre
  <2>4. CASE k < 10
    <3>1. Digits(k) = <<k>>
      BY <2>4, DigitsIs
    <3>2. Len(Digits(k)) = 1 /\ Len(Append(e, m % 10)) = Len(e) + 1
      BY <2>1, <2>3, <3>1
    <3>3. QED BY <1>3, <2>3, <3>2 DEF Shorter
  <2>5. CASE ~(k < 10)
    <3>1. k \div 10 \in Nat /\ k % 10 \in 0..9
          /\ (k \div 10 < m \div 10 \/ (k \div 10 = m \div 10 /\ k % 10 < m % 10))
      BY <1>3, <2>5
    <3>2. PICK d : d = Digits(k \div 10)
      OBVIOUS
    <3>3. Digits(k) = Append(d, k % 10) /\ d \in Seq(0..9)
      BY <2>5, <3>1, <3>2, DigitsIs, DigitsAre
    <3>4. Shorter(d, e) \/ (d = e /\ k % 10 < m % 10)
      <4>1. CASE k \div 10 < m \div 10
        <5>1. m \div 10 \notin Bad
          BY <1>2, <2>1
        <5>2. QED BY <2>1, <2>2, <3>1, <3>2, <4>1, <5>1
      <4>2. QED BY <2>2, <3>1, <3>2, <4>1
    <3>5. Shorter(Append(d, k % 10), Append(e, m % 10))
      BY <2>1, <2>3, <3>1, <3>3, <3>4, ShorterGrows
    <3>6. QED BY <1>3, <2>3, <3>3, <3>5
  <2>6. QED BY <2>4, <2>5
<1>6. QED BY <1>4, <1>5

\* Digits d behind the first p items of a name, with the separator behind them.
Holds(name, p, d) ==
  /\ name \in Seq(0..10) /\ p \in Nat /\ d \in Seq(0..9)
  /\ p + Len(d) + 1 <= Len(name)
  /\ \A i \in 1..Len(d) : name[p + i] = d[i]
  /\ name[p + Len(d) + 1] = separator

FirstAt(name, other, i) == name[i] # other[i] /\ \A j \in 1..(i - 1) : name[j] = other[j]
SeparatorAt(s, first, i) == s[i] = separator /\ \A j \in first..(i - 1) : s[j] # separator

\* LessByNumber, given where names begin to differ and how many digits are ahead.
LEMMA LessIs ==
  ASSUME NEW name, NEW other, NEW q \in 1..Len(name), NEW i \in q..Len(name), NEW j \in q..Len(other),
         Len(name) \in Nat, Len(other) \in Nat,
         FirstAt(name, other, q), SeparatorAt(name, q, i), SeparatorAt(other, q, j)
  PROVE  LessByNumber(name, other)
           <=> i < j \/ (i = j /\ j > q /\ name[q] < other[q])
<1> DEFINE first == CHOOSE k \in 1..Len(name) : FirstAt(name, other, k)
           End(s) == CHOOSE k \in first..Len(s) : SeparatorAt(s, first, k)
<1>1. first = q
  <2>1. \E k \in 1..Len(name) : FirstAt(name, other, k)
    OBVIOUS
  <2>2. first \in 1..Len(name) /\ FirstAt(name, other, first)
    BY <2>1
  <2> HIDE DEF first
  <2>3. ~(first < q) /\ ~(q < first)
    BY <2>2 DEF FirstAt
  <2>4. QED BY <2>2, <2>3
<1>2. LessByNumber(name, other)
        <=> \/ End(name) - first < End(other) - first
            \/ /\ End(name) - first = End(other) - first /\ End(other) - first > 0
               /\ name[first] < other[first]
  BY DEF LessByNumber, FirstAt, SeparatorAt
<1> HIDE DEF first
<1>3. ASSUME NEW s, NEW k \in q..Len(s), Len(s) \in Nat, SeparatorAt(s, q, k) PROVE End(s) = k
  <2> DEFINE e == End(s)
  <2>1. \E l \in first..Len(s) : SeparatorAt(s, first, l)
    BY <1>1, <1>3
  <2>2. e \in q..Len(s) /\ SeparatorAt(s, q, e)
    BY <1>1, <2>1
  <2> HIDE DEF e
  <2>3. ~(e < k) /\ ~(k < e)
    BY <1>3, <2>2 DEF SeparatorAt
  <2>4. e = k
    BY <1>3, <2>2, <2>3
  <2>5. QED BY <2>4 DEF e
<1>4. End(name) = i /\ End(other) = j
  BY <1>3
<1> HIDE DEF End
<1>5. QED BY <1>1, <1>2, <1>4

\* Names that are the same in front of different digits are in the digits' order.
LEMMA NamesCompare ==
  ASSUME NEW name, NEW other, NEW p, NEW d, NEW e, Holds(name, p, d), Holds(other, p, e),
         \A j \in 1..p : name[j] = other[j], Shorter(d, e)
  PROVE  LessByNumber(name, other) /\ ~LessByNumber(other, name)
<1>1. /\ Len(name) \in Nat /\ Len(other) \in Nat /\ p \in Nat /\ Len(d) \in Nat /\ Len(e) \in Nat
      /\ \A i \in 1..Len(d) : d[i] \in 0..9 /\ name[p + i] = d[i]
      /\ \A i \in 1..Len(e) : e[i] \in 0..9 /\ other[p + i] = e[i]
      /\ p + Len(d) + 1 <= Len(name) /\ p + Len(e) + 1 <= Len(other)
      /\ name[p + Len(d) + 1] = 10 /\ other[p + Len(e) + 1] = 10
  <2>1. ASSUME NEW word, NEW digits, Holds(word, p, digits)
        PROVE  /\ Len(word) \in Nat /\ p \in Nat /\ Len(digits) \in Nat
               /\ \A i \in 1..Len(digits) : digits[i] \in 0..9 /\ word[p + i] = digits[i]
               /\ p + Len(digits) + 1 <= Len(word) /\ word[p + Len(digits) + 1] = 10
    <3>1. /\ word \in Seq(0..10) /\ p \in Nat /\ digits \in Seq(0..9)
          /\ p + Len(digits) + 1 <= Len(word) /\ word[p + Len(digits) + 1] = 10
          /\ \A i \in 1..Len(digits) : word[p + i] = digits[i]
      BY <2>1 DEF Holds, separator
    <3>2. Len(word) \in Nat /\ Len(digits) \in Nat
      BY <3>1
    <3>3. \A i \in 1..Len(digits) : digits[i] \in 0..9
      BY <3>1
    <3>4. QED BY <3>1, <3>2, <3>3
  <2>2. QED BY <2>1
<1> DEFINE m == p + Len(d) + 1
           n == p + Len(e) + 1
<1>2. PICK i \in 1..(Len(d) + 1) :
        /\ i <= Len(e) /\ name[p + i] # other[p + i]
        /\ \A j \in 1..(i - 1) : name[p + j] = other[p + j]
        /\ Len(d) < Len(e) \/ (Len(d) = Len(e) /\ i <= Len(d) /\ name[p + i] < other[p + i])
  <2>1. CASE Len(d) < Len(e)
    <3> DEFINE Bad == {i \in 1..(Len(d) + 1) : name[p + i] # other[p + i]}
    <3>1. Bad \subseteq Nat
      OBVIOUS
    <3>2. Len(d) + 1 \in Bad
      <4>1. Len(d) + 1 \in 1..Len(e) /\ p + (Len(d) + 1) = p + Len(d) + 1
        BY <1>1, <2>1
      <4>2. other[p + (Len(d) + 1)] \in 0..9
        BY <1>1, <4>1
      <4>3. name[p + (Len(d) + 1)] = 10
        BY <1>1, <4>1
      <4>4. name[p + (Len(d) + 1)] # other[p + (Len(d) + 1)]
        BY <4>2, <4>3
      <4>5. Len(d) + 1 \in 1..(Len(d) + 1)
        BY <1>1
      <4>6. QED BY <4>4, <4>5
    <3> HIDE DEF Bad
    <3>3. PICK i \in Bad : \A j \in Bad : i <= j
      BY <3>1, <3>2, Least
    <3>4. /\ i \in 1..(Len(d) + 1) /\ name[p + i] # other[p + i]
      BY DEF Bad
    <3>5. ASSUME NEW j \in 1..(i - 1) PROVE name[p + j] = other[p + j]
      <4>1. j \in 1..(Len(d) + 1) /\ ~(i <= j)
        BY <1>1, <3>4
      <4>2. j \notin Bad
        BY <3>3, <4>1
      <4>3. QED BY <4>1, <4>2 DEF Bad
    <3>6. i <= Len(e)
      BY <1>1, <2>1, <3>4
    <3>7. QED BY <2>1, <3>4, <3>5, <3>6
  <2>2. CASE Len(d) = Len(e) /\ \E i \in 1..Len(d) : d[i] < e[i] /\ \A j \in 1..(i - 1) : d[j] = e[j]
    <3>1. PICK i \in 1..Len(d) : d[i] < e[i] /\ \A j \in 1..(i - 1) : d[j] = e[j]
      BY <2>2
    <3>2. \A j \in 1..(i - 1) : j \in 1..Len(d) /\ j \in 1..Len(e)
      BY <1>1, <2>2
    <3>3. name[p + i] = d[i] /\ other[p + i] = e[i] /\ d[i] \in 0..9 /\ e[i] \in 0..9
      BY <1>1, <2>2
    <3>4. \A j \in 1..(i - 1) : name[p + j] = other[p + j]
      BY <1>1, <3>1, <3>2
    <3>5. name[p + i] # other[p + i] /\ name[p + i] < other[p + i]
      BY <3>1, <3>3
    <3>6. i \in 1..(Len(d) + 1) /\ i <= Len(e) /\ i <= Len(d)
      BY <1>1, <2>2
    <3>7. QED BY <2>2, <3>4, <3>5, <3>6
  <2>3. QED BY <2>1, <2>2 DEF Shorter
<1> DEFINE q == p + i
<1>3. q \in 1..Len(name) /\ q \in 1..Len(other) /\ m \in q..Len(name) /\ n \in q..Len(other)
      /\ n > q
  BY <1>1, <1>2
<1>4. FirstAt(name, other, q) /\ FirstAt(other, name, q)
  <2>1. ASSUME NEW j \in 1..(q - 1) PROVE name[j] = other[j]
    <3>1. CASE j <= p
      BY <1>1, <3>1
    <3>2. CASE ~(j <= p)
      <4>1. j - p \in 1..(i - 1) /\ p + (j - p) = j
        BY <1>1, <1>2, <3>2
      <4>2. QED BY <1>2, <4>1
    <3>3. QED BY <3>1, <3>2
  <2>2. QED BY <1>2, <2>1 DEF FirstAt
<1>5. SeparatorAt(name, q, m) /\ SeparatorAt(other, q, n)
  <2>1. ASSUME NEW j \in q..(m - 1) PROVE name[j] # 10
    <3>1. j - p \in 1..Len(d) /\ p + (j - p) = j
      BY <1>1, <1>2
    <3>2. name[j] \in 0..9
      BY <1>1, <3>1
    <3>3. QED BY <3>2
  <2>2. ASSUME NEW j \in q..(n - 1) PROVE other[j] # 10
    <3>1. j - p \in 1..Len(e) /\ p + (j - p) = j
      BY <1>1, <1>2
    <3>2. other[j] \in 0..9
      BY <1>1, <3>1, ZenonT(30)
    <3>3. QED BY <3>2
  <2>3. QED BY <1>1, <2>1, <2>2 DEF SeparatorAt, separator
<1>6. m < n \/ (m = n /\ name[q] < other[q] /\ name[q] \in Int /\ other[q] \in Int)
  <2>1. CASE Len(d) < Len(e)
    BY <1>1, <2>1
  <2>2. CASE Len(d) = Len(e) /\ i <= Len(d) /\ name[p + i] < other[p + i]
    <3>1. name[q] \in Int /\ other[q] \in Int
      <4>1. i \in 1..Len(d) /\ i \in 1..Len(e)
        BY <1>1, <1>2, <2>2
      <4>2. name[p + i] \in 0..9 /\ other[p + i] \in 0..9
        BY <1>1, <4>1
      <4>3. QED BY <4>2
    <3>2. QED BY <1>1, <2>2, <3>1
  <2>3. QED BY <1>2, <2>1, <2>2
<1>7. m \in Nat /\ n \in Nat
  BY <1>1
<1> HIDE DEF m, n, q
<1>8. LessByNumber(name, other) <=> m < n \/ (m = n /\ n > q /\ name[q] < other[q])
  BY <1>1, <1>3, <1>4, <1>5, LessIs
<1>9. LessByNumber(other, name) <=> n < m \/ (n = m /\ m > q /\ other[q] < name[q])
  BY <1>1, <1>3, <1>4, <1>5, LessIs
<1>10. QED BY <1>3, <1>6, <1>7, <1>8, <1>9

\* The order of a channel's number and, in a channel, of a segment's.
Numbered(file, other) ==
  \/ file.channel < other.channel
  \/ file.channel = other.channel /\ file.id < other.id

NumberedFile(file) == file.channel \in Nat \ {0} /\ file.id \in Nat

\* A name: the digits of two numbers.
LEMMA NameHolds ==
  ASSUME NEW file, NumberedFile(file)
  PROVE  LET d == Digits(file.channel - 1)
             name == FileName(file)
         IN /\ Holds(name, 0, d) /\ Holds(name, Len(d) + 1, Digits(file.id))
            /\ \A j \in 1..Len(d) : name[j] = d[j]
            /\ name[Len(d) + 1] = separator
<1>1. PICK d, e : d = Digits(file.channel - 1) /\ e = Digits(file.id)
  OBVIOUS
<1>2. file.channel - 1 \in Nat /\ file.id \in Nat
  BY DEF NumberedFile
<1>3. d \in Seq(0..10) /\ e \in Seq(0..10) /\ d \in Seq(0..9) /\ e \in Seq(0..9)
  <2>1. d \in Seq(0..9) /\ e \in Seq(0..9)
    BY <1>1, <1>2, DigitsAre
  <2>2. \A s \in Seq(0..9) : s \in Seq(0..10)
    OBVIOUS
  <2>3. QED BY <2>1, <2>2
<1>4. PICK one : one = <<separator>>
  OBVIOUS
<1>5. one \in Seq(0..10) /\ Len(one) = 1 /\ one[1] = separator
  BY <1>4 DEF separator
<1>6. PICK name : name = ((d \o one) \o e) \o one
  OBVIOUS
<1>7. FileName(file) = name
  BY <1>1, <1>4, <1>6 DEF FileName
<1>8. \A s \in Seq(0..10), t \in Seq(0..10) :
        /\ s \o t \in Seq(0..10) /\ Len(s \o t) = Len(s) + Len(t)
        /\ \A k \in 1..Len(s) : (s \o t)[k] = s[k]
        /\ \A k \in 1..Len(t) : (s \o t)[Len(s) + k] = t[k]
  BY Behind
<1>9. PICK u : u = d \o one
  OBVIOUS
<1>10. PICK v : v = u \o e
  OBVIOUS
<1>11. /\ u \in Seq(0..10) /\ Len(u) = Len(d) + Len(one)
       /\ \A k \in 1..Len(d) : u[k] = d[k]
       /\ \A k \in 1..Len(one) : u[Len(d) + k] = one[k]
  BY <1>3, <1>5, <1>8, <1>9, Zenon
<1>12. /\ v \in Seq(0..10) /\ Len(v) = Len(u) + Len(e)
       /\ \A k \in 1..Len(u) : v[k] = u[k]
       /\ \A k \in 1..Len(e) : v[Len(u) + k] = e[k]
  BY <1>3, <1>11, <1>8, <1>10, Zenon
<1>13. name = v \o one
  BY <1>6, <1>9, <1>10, Zenon
<1>14. /\ name \in Seq(0..10) /\ Len(name) = Len(v) + Len(one)
       /\ \A k \in 1..Len(v) : name[k] = v[k]
       /\ \A k \in 1..Len(one) : name[Len(v) + k] = one[k]
  BY <1>5, <1>12, <1>8, <1>13, Zenon
<1>15. Len(d) \in Nat /\ Len(e) \in Nat
  BY <1>3
<1>16. /\ Len(u) = Len(d) + 1 /\ Len(v) = Len(d) + 1 + Len(e) /\ Len(name) = Len(d) + 1 + Len(e) + 1
  BY <1>5, <1>11, <1>12, <1>14, <1>15
<1>17. \A j \in 1..Len(d) : name[j] = d[j]
  <2> SUFFICES ASSUME NEW j \in 1..Len(d) PROVE name[j] = d[j]
    OBVIOUS
  <2>1. j \in 1..Len(u) /\ j \in 1..Len(v)
    BY <1>15, <1>16
  <2>2. QED BY <1>11, <1>12, <1>14, <2>1
<1>18. name[Len(d) + 1] = separator
  <2>1. Len(d) + 1 \in 1..Len(u) /\ Len(d) + 1 \in 1..Len(v) /\ 1 \in 1..Len(one)
    BY <1>5, <1>15, <1>16
  <2>2. QED BY <1>5, <1>11, <1>12, <1>14, <2>1
<1>19. \A j \in 1..Len(e) : name[(Len(d) + 1) + j] = e[j]
  <2> SUFFICES ASSUME NEW j \in 1..Len(e) PROVE name[(Len(d) + 1) + j] = e[j]
    OBVIOUS
  <2>1. (Len(d) + 1) + j \in 1..Len(v)
    BY <1>15, <1>16
  <2>2. QED BY <1>12, <1>14, <1>16, <2>1
<1>20. name[(Len(d) + 1) + Len(e) + 1] = separator
  <2>1. 1 \in 1..Len(one) /\ Len(v) + 1 = (Len(d) + 1) + Len(e) + 1
    BY <1>5, <1>15, <1>16
  <2>2. QED BY <1>5, <1>14, <2>1
<1>21. Holds(name, 0, d)
  <2>1. \A i \in 1..Len(d) : 0 + i = i
    BY <1>15
  <2>2. 0 + Len(d) + 1 = Len(d) + 1 /\ 0 + Len(d) + 1 <= Len(name)
    BY <1>15, <1>16
  <2>3. QED BY <1>3, <1>14, <1>17, <1>18, <2>1, <2>2 DEF Holds
<1>22. Holds(name, Len(d) + 1, e)
  <2>1. (Len(d) + 1) + Len(e) + 1 <= Len(name) /\ Len(d) + 1 \in Nat
    BY <1>15, <1>16
  <2>2. QED BY <1>3, <1>14, <1>19, <1>20, <2>1 DEF Holds
<1>23. QED BY <1>1, <1>7, <1>17, <1>18, <1>21, <1>22

\* Names of files compare as their numbers do, for any number of channels and segments.
THEOREM NamesInOrder ==
  ASSUME NEW file, NEW other, NumberedFile(file), NumberedFile(other), Numbered(file, other)
  PROVE  /\ LessByNumber(FileName(file), FileName(other))
         /\ ~LessByNumber(FileName(other), FileName(file))
<1>1. PICK a, b, d, e, name, second :
        /\ a = Digits(file.channel - 1) /\ b = Digits(other.channel - 1)
        /\ d = Digits(file.id) /\ e = Digits(other.id)
        /\ name = FileName(file) /\ second = FileName(other)
  OBVIOUS
<1>2. /\ Holds(name, 0, a) /\ Holds(name, Len(a) + 1, d)
      /\ \A j \in 1..Len(a) : name[j] = a[j]
      /\ name[Len(a) + 1] = separator
  BY <1>1, NameHolds
<1>3. /\ Holds(second, 0, b) /\ Holds(second, Len(b) + 1, e)
      /\ \A j \in 1..Len(b) : second[j] = b[j]
      /\ second[Len(b) + 1] = separator
  BY <1>1, NameHolds
<1>4. /\ file.channel - 1 \in Nat /\ other.channel - 1 \in Nat /\ file.id \in Nat /\ other.id \in Nat
  BY DEF NumberedFile
<1>5. CASE file.channel < other.channel
  <2>1. file.channel - 1 < other.channel - 1
    BY <1>4, <1>5 DEF NumberedFile
  <2>2. Shorter(a, b)
    BY <1>1, <1>4, <2>1, DigitsOrdered
  <2>3. \A j \in 1..0 : name[j] = second[j]
    OBVIOUS
  <2>4. QED BY <1>1, <1>2, <1>3, <2>2, <2>3, NamesCompare
<1>6. CASE file.channel = other.channel /\ file.id < other.id
  <2>1. a = b
    BY <1>1, <1>6
  <2>2. Shorter(d, e)
    BY <1>1, <1>4, <1>6, DigitsOrdered
  <2>3. Len(a) \in Nat
    BY <1>2 DEF Holds
  <2>4. \A j \in 1..(Len(a) + 1) : name[j] = second[j]
    BY <1>2, <1>3, <2>1, <2>3
  <2>5. QED BY <1>1, <1>2, <1>3, <2>1, <2>2, <2>4, NamesCompare
<1>7. QED BY <1>5, <1>6 DEF Numbered

\* Files as a session leaves them: a file for each of the segments of each of the
\* channels, of which there is one at least.
SessionFiles(files) ==
  /\ IsFiniteSet(files)
  /\ \A file \in files : NumberedFile(file)
  /\ \A file \in files, other \in files :
       file.channel = other.channel /\ file.id = other.id => file = other
  /\ \A file \in files : file.id > 0 =>
       \E other \in files : other.channel = file.channel /\ other.id = file.id - 1
  /\ \A file \in files : file.channel > 1 =>
       \E other \in files : other.channel = file.channel - 1 /\ other.id = 0

\* The files are loaded channel by channel and segment by segment, all of them, with numbers
\* of any length: names sort as numbers do, which is what the order given to std::sort is for.
THEOREM LoadedInOrder ==
  ASSUME NEW files, SessionFiles(files)
  PROVE  LET s == load_segments(files)
         IN /\ s \in Seq(files) /\ Len(s) \in Nat
            /\ \A file \in files : \E k \in 1..Len(s) : s[k] = file
            /\ \A j \in 1..Len(s), k \in 1..Len(s) : j < k <=> Numbered(s[j], s[k])
<1> DEFINE Less(file, other) == LessByNumber(FileName(file), FileName(other))
           ahead == [file \in files |-> {other \in files \ {file} : Less(other, file)}]
           s == load_segments(files)
<1>1. \A file \in files, other \in files : Numbered(file, other) => Less(file, other) /\ ~Less(other, file)
  BY NamesInOrder DEF SessionFiles
<1>2. \A file \in files, other \in files : file = other \/ Numbered(file, other) \/ Numbered(other, file)
  BY DEF SessionFiles, NumberedFile, Numbered
<1>3. \A file \in files, other \in files, third \in files :
        /\ ~Numbered(file, file)
        /\ ~(Numbered(file, other) /\ Numbered(other, file))
        /\ Numbered(file, other) /\ Numbered(other, third) => Numbered(file, third)
  BY DEF SessionFiles, NumberedFile, Numbered
<1> HIDE DEF Less
<1>4. \A file \in files : ahead[file] = {other \in files : Numbered(other, file)}
  BY <1>1, <1>2, <1>3
<1> HIDE DEF ahead
<1>5. Orders(ahead, files)
  BY <1>2, <1>3, <1>4 DEF Orders
<1>6. s = [k \in 1..Cardinality(files) |->
             CHOOSE file \in files : Cardinality(ahead[file]) = k - 1]
  <2>1. \A file \in files : ahead[file] = {other \in files \ {file} : Less(other, file)}
    BY DEF ahead
  <2>2. s = [k \in 1..Cardinality(files) |->
               CHOOSE file \in files :
                 Cardinality({other \in files \ {file} : Less(other, file)}) = k - 1]
    BY DEF load_segments, Sorted, Less
  <2>3. \A k : (CHOOSE file \in files :
                  Cardinality({other \in files \ {file} : Less(other, file)}) = k - 1)
             = CHOOSE file \in files : Cardinality(ahead[file]) = k - 1
    BY <2>1
  <2>4. QED BY <2>2, <2>3
<1>7. IsFiniteSet(files) /\ Cardinality(files) \in Nat
  BY FS_CardinalityType DEF SessionFiles
<1> HIDE DEF s
<1>8. Listed(s, files, ahead)
  BY <1>5, <1>6, <1>7, SortedIs
<1>9. s \in Seq(files) /\ Len(s) \in Nat
  BY <1>7, <1>8 DEF Listed
<1>10. \A j \in 1..Len(s), k \in 1..Len(s) : j < k <=> Numbered(s[j], s[k])
  BY <1>4, <1>8, <1>9 DEF Listed
<1>11. QED BY <1>8, <1>9, <1>10 DEF Listed, s

\* So the first one is the first channel's first segment, and what follows a segment is the
\* channel's next one or the next channel's first one.
LEMMA LoadedStepwise ==
  ASSUME NEW files, SessionFiles(files), NEW s, s = load_segments(files)
  PROVE  /\ Len(s) > 0 => s[1].channel = 1 /\ s[1].id = 0
         /\ \A k \in 1..(Len(s) - 1) :
              \/ s[k + 1].channel = s[k].channel /\ s[k + 1].id = s[k].id + 1
              \/ s[k + 1].channel = s[k].channel + 1 /\ s[k + 1].id = 0
<1>1. /\ s \in Seq(files) /\ Len(s) \in Nat
      /\ \A file \in files : \E k \in 1..Len(s) : s[k] = file
      /\ \A j \in 1..Len(s), k \in 1..Len(s) : j < k <=> Numbered(s[j], s[k])
  BY LoadedInOrder
<1>2. \A k \in 1..Len(s) : s[k] \in files
  BY <1>1
<1>3. \A file \in files : file.channel \in Nat \ {0} /\ file.id \in Nat
  BY DEF SessionFiles, NumberedFile
<1>4. ASSUME NEW k \in 1..Len(s), s[k].id > 0
      PROVE  \E j \in 1..(k - 1) : s[j].channel = s[k].channel /\ s[j].id = s[k].id - 1
  <2>1. PICK other \in files : other.channel = s[k].channel /\ other.id = s[k].id - 1
    BY <1>2, <1>4 DEF SessionFiles
  <2>2. PICK j \in 1..Len(s) : s[j] = other
    BY <1>1
  <2>3. Numbered(s[j], s[k])
    BY <1>2, <1>3, <2>1, <2>2 DEF Numbered
  <2>4. j < k
    BY <1>1, <2>3
  <2>5. QED BY <1>1, <2>1, <2>2, <2>4
<1>5. ASSUME NEW k \in 1..Len(s), s[k].channel > 1
      PROVE  \E j \in 1..(k - 1) : s[j].channel = s[k].channel - 1 /\ s[j].id = 0
  <2>1. PICK other \in files : other.channel = s[k].channel - 1 /\ other.id = 0
    BY <1>2, <1>5 DEF SessionFiles
  <2>2. PICK j \in 1..Len(s) : s[j] = other
    BY <1>1
  <2>3. Numbered(s[j], s[k])
    BY <1>2, <1>3, <2>1, <2>2 DEF Numbered
  <2>4. j < k
    BY <1>1, <2>3
  <2>5. QED BY <1>1, <2>1, <2>2, <2>4
<1>6. ASSUME Len(s) > 0 PROVE s[1].channel = 1 /\ s[1].id = 0
  <2>1. 1 \in 1..Len(s) /\ ~\E j \in 1..(1 - 1) : TRUE
    BY <1>1, <1>6
  <2>2. ~(s[1].id > 0) /\ ~(s[1].channel > 1)
    BY <1>4, <1>5, <2>1
  <2>3. QED BY <1>2, <1>3, <2>1, <2>2
<1>7. ASSUME NEW k \in 1..(Len(s) - 1)
      PROVE  \/ s[k + 1].channel = s[k].channel /\ s[k + 1].id = s[k].id + 1
             \/ s[k + 1].channel = s[k].channel + 1 /\ s[k + 1].id = 0
  <2>1. k \in 1..Len(s) /\ k + 1 \in 1..Len(s) /\ k < k + 1
    BY <1>1
  <2>2. PICK f, g : f = s[k] /\ g = s[k + 1]
    OBVIOUS
  <2>3. /\ f.channel \in Nat \ {0} /\ f.id \in Nat /\ g.channel \in Nat \ {0} /\ g.id \in Nat
        /\ Numbered(f, g)
    BY <1>1, <1>2, <1>3, <2>1, <2>2
  <2>4. ASSUME NEW j \in 1..((k + 1) - 1)
        PROVE  ~Numbered(f, s[j]) /\ s[j].channel \in Nat \ {0} /\ s[j].id \in Nat
    <3>1. j \in 1..Len(s) /\ ~(k < j)
      BY <1>1, <2>1
    <3>2. QED BY <1>1, <1>2, <1>3, <2>1, <2>2, <3>1
  <2>5. CASE g.id > 0
    <3>1. PICK j \in 1..((k + 1) - 1) : s[j].channel = g.channel /\ s[j].id = g.id - 1
      BY <1>4, <2>1, <2>2, <2>5
    <3>2. ~Numbered(f, s[j])
      BY <2>4
    <3>3. f.channel = g.channel /\ g.id = f.id + 1
      BY <2>3, <2>5, <3>1, <3>2 DEF Numbered
    <3>4. QED BY <2>2, <3>3
  <2>6. CASE ~(g.id > 0)
    <3>1. g.id = 0 /\ f.channel < g.channel /\ g.channel > 1
      BY <2>3, <2>6 DEF Numbered
    <3>2. PICK j \in 1..((k + 1) - 1) : s[j].channel = g.channel - 1 /\ s[j].id = 0
      BY <1>5, <2>1, <2>2, <3>1
    <3>3. ~Numbered(f, s[j])
      BY <2>4
    <3>4. g.channel = f.channel + 1
      BY <2>3, <3>1, <3>2, <3>3 DEF Numbered
    <3>5. QED BY <2>2, <3>1, <3>4
  <2>7. QED BY <2>5, <2>6
<1>8. QED BY <1>6, <1>7

----------------------------------------------------------------------------
(* Sequences of whatever there is. *)

List(s, n) == n \in Nat /\ s \in Seq(ElementsOf(s)) /\ Len(s) = n

\* A sequence over some set is one over its elements.
LEMMA ListIs ==
  ASSUME NEW S, NEW s \in Seq(S)
  PROVE  List(s, Len(s)) /\ ElementsOf(s) \subseteq S
<1>1. Len(s) \in Nat /\ \A k \in 1..Len(s) : s[k] \in S /\ s[k] \in ElementsOf(s)
  BY DEF ElementsOf
<1>2. ElementsOf(s) \subseteq S
  BY <1>1 DEF ElementsOf
<1>3. s \in Seq(ElementsOf(s))
  <2> DEFINE T == ElementsOf(s)
  <2> HIDE DEF T
  <2>1. \A k \in 1..Len(s) : s[k] \in T
    BY <1>1 DEF T
  <2>2. s \in Seq(T)
    BY <1>1, <2>1
  <2>3. QED BY <2>2 DEF T
<1>4. QED BY <1>1, <1>2, <1>3 DEF List

\* So is a function on the first numbers.
LEMMA ListMade ==
  ASSUME NEW n \in Nat, NEW s, s = [k \in 1..n |-> s[k]]
  PROVE  List(s, n)
<1> DEFINE T == {s[k] : k \in 1..n}
<1>1. \A k \in 1..n : s[k] \in T
  OBVIOUS
<1> DEFINE v == [k \in 1..n |-> s[k]]
<1> HIDE DEF T
<1>2. v \in Seq(T) /\ Len(v) = n
  BY <1>1
<1> HIDE DEF v
<1>3. s = v
  BY DEF v
<1>4. s \in Seq(T) /\ Len(s) = n
  BY <1>2, <1>3
<1>5. QED BY <1>4, ListIs

\* Joining two.
LEMMA ListJoined ==
  ASSUME NEW s, NEW t, NEW m, NEW n, List(s, m), List(t, n)
  PROVE  /\ List(s \o t, m + n)
         /\ \A k \in 1..m : (s \o t)[k] = s[k]
         /\ \A k \in 1..n : (s \o t)[m + k] = t[k]
         /\ ElementsOf(s \o t) = ElementsOf(s) \cup ElementsOf(t)
<1> DEFINE S == ElementsOf(s) \cup ElementsOf(t)
<1>1. s \in Seq(ElementsOf(s)) /\ t \in Seq(ElementsOf(t)) /\ Len(s) = m /\ Len(t) = n
      /\ m \in Nat /\ n \in Nat
  BY DEF List
<1>2. PICK A, B : A = ElementsOf(s) /\ B = ElementsOf(t)
  OBVIOUS
<1>3. s \in Seq(S) /\ t \in Seq(S)
  <2>1. s \in Seq(A \cup B) /\ t \in Seq(A \cup B)
    BY <1>1, <1>2
  <2>2. QED BY <1>2, <2>1
<1> HIDE DEF S
<1>4. /\ s \o t \in Seq(S) /\ Len(s \o t) = Len(s) + Len(t)
      /\ \A k \in 1..Len(s) : (s \o t)[k] = s[k]
      /\ \A k \in 1..Len(t) : (s \o t)[Len(s) + k] = t[k]
  BY <1>3, Behind
<1>5. ElementsOf(s \o t) = ElementsOf(s) \cup ElementsOf(t)
  BY <1>3, JoinedElements
<1>6. List(s \o t, m + n)
  BY <1>1, <1>4, ListIs
<1>7. QED BY <1>1, <1>4, <1>5, <1>6

\* Appending an item.
LEMMA ListAppended ==
  ASSUME NEW s, NEW n, List(s, n), NEW x
  PROVE  /\ List(Append(s, x), n + 1)
         /\ \A k \in 1..n : Append(s, x)[k] = s[k]
         /\ Append(s, x)[n + 1] = x
         /\ ElementsOf(Append(s, x)) = ElementsOf(s) \cup {x}
<1>1. PICK one : one = <<x>>
  OBVIOUS
<1>2. List(one, 1) /\ one[1] = x /\ ElementsOf(one) = {x}
  BY <1>1 DEF List, ElementsOf
<1>3. Append(s, x) = s \o one
  <2>1. s \in Seq(ElementsOf(s))
    BY DEF List
  <2>2. PICK S : S = ElementsOf(s) \cup {x}
    OBVIOUS
  <2>3. s \in Seq(S) /\ x \in S
    <3>1. PICK A : A = ElementsOf(s)
      OBVIOUS
    <3>2. s \in Seq(A)
      BY <2>1, <3>1
    <3>3. s \in Seq(A \cup {x})
      BY <3>2
    <3>4. QED BY <2>2, <3>1, <3>3
  <2>4. QED BY <1>1, <2>3
<1>4. 1 \in 1..1 /\ n \in Nat
  BY DEF List
<1>5. PICK joined : joined = s \o one
  OBVIOUS
<1>6. /\ List(joined, n + 1)
      /\ \A k \in 1..n : joined[k] = s[k]
      /\ \A k \in 1..1 : joined[n + k] = one[k]
      /\ ElementsOf(joined) = ElementsOf(s) \cup ElementsOf(one)
  <2>1. List(s, n) /\ List(one, 1)
    BY <1>2
  <2>2. /\ List(s \o one, n + 1)
        /\ \A k \in 1..n : (s \o one)[k] = s[k]
        /\ \A k \in 1..1 : (s \o one)[n + k] = one[k]
        /\ ElementsOf(s \o one) = ElementsOf(s) \cup ElementsOf(one)
    BY ONLY <2>1, ListJoined
  <2>3. QED BY <1>5, <2>2
<1>7. joined[n + 1] = one[1]
  BY <1>4, <1>6
<1>8. QED BY <1>2, <1>3, <1>5, <1>6, <1>7

\* Changing an item.
LEMMA ListChanged ==
  ASSUME NEW s, NEW n, List(s, n), NEW i, NEW x
  PROVE  /\ List([s EXCEPT ![i] = x], n)
         /\ \A k \in 1..n : [s EXCEPT ![i] = x][k] = IF k = i THEN x ELSE s[k]
<1>1. n \in Nat /\ s \in Seq(ElementsOf(s)) /\ Len(s) = n
  BY DEF List
<1>2. PICK S : S = ElementsOf(s)
  OBVIOUS
<1>3. s \in Seq(S)
  BY <1>1, <1>2
<1>4. DOMAIN s = 1..n
  BY <1>1, <1>3
<1>5. PICK v : v = [s EXCEPT ![i] = x]
  OBVIOUS
<1>6. \A k \in 1..n : v[k] = IF k = i THEN x ELSE s[k]
  BY <1>4, <1>5
<1>7. v = [k \in 1..n |-> v[k]]
  BY <1>4, <1>5
<1>8. List(v, n)
  BY <1>1, <1>7, ListMade
<1>9. QED BY <1>5, <1>6, <1>8

----------------------------------------------------------------------------
(* What the decoder collects from the headers. *)

Channelled(taken, c) ==
  /\ List(taken.compression, c) /\ List(taken.segment, c)
  /\ "handles" \in DOMAIN taken /\ "segment" \in DOMAIN taken

\* A header that begins a channel is its segment 0, the others are numbered through.
LEMMA CollectedNext ==
  ASSUME NEW taken, NEW header, NEW custom_shifts, NEW c, Channelled(taken, c)
  PROVE  LET first == header.p1a.StartImgFlag
             new == Collected(taken, header, custom_shifts)
             channel == IF first THEN c + 1 ELSE c
             id == IF first THEN 0 ELSE taken.next_id
         IN /\ Channelled(new, channel) /\ new.next_id = id + 1
            /\ new.handles = Append(taken.handles, [channel |-> channel, id |-> id])
<1>1. PICK new : new = Collected(taken, header, custom_shifts)
  OBVIOUS
<1> DEFINE first == header.p1a.StartImgFlag
           id == IF first THEN 0 ELSE taken.next_id
           Begun(params) == IF first THEN Append(params, <<>>) ELSE params
           channel == Len(Begun(taken.compression))
           Noted(params, told, value) ==
             IF told THEN [Begun(params) EXCEPT ![channel] = Append(@, [id |-> id, value |-> value])]
                     ELSE Begun(params)
           d == IF first THEN c + 1 ELSE c
<1>2. ASSUME NEW params, List(params, c)
      PROVE  /\ List(Begun(params), d)
             /\ \A told, value : List(Noted(params, told, value), d)
  <2>1. List(Begun(params), d)
    BY <1>2, ListAppended
  <2>2. ASSUME NEW told, NEW value PROVE List(Noted(params, told, value), d)
    <3> DEFINE b == Begun(params)
               x == Append(b[channel], [id |-> id, value |-> value])
    <3>1. List([b EXCEPT ![channel] = x], d)
      <4> HIDE DEF b, x, channel
      <4>1. QED BY <2>1, ListChanged DEF b
    <3>2. Noted(params, told, value) = IF told THEN [b EXCEPT ![channel] = x] ELSE b
      OBVIOUS
    <3> HIDE DEF b, x
    <3>3. QED BY <2>1, <3>1, <3>2 DEF b
  <2>3. QED BY <2>1, <2>2
<1>3. channel = d
  <2>1. List(Begun(taken.compression), d)
    BY <1>2 DEF Channelled
  <2> HIDE DEF Begun
  <2>2. QED BY <2>1 DEF List
<1>4. /\ new.compression = Noted(taken.compression, header.p1a.Part2Flag,
                                 get_compression_params(header))
      /\ new.segment = Noted(taken.segment, header.p1a.Part3Flag, get_segment_params(header))
      /\ new.next_id = id + 1
      /\ new.handles = Append(taken.handles, [channel |-> channel, id |-> id])
      /\ "handles" \in DOMAIN new /\ "segment" \in DOMAIN new
  BY <1>1 DEF Collected
<1>5. List(new.compression, d) /\ List(new.segment, d)
  <2> HIDE DEF Noted, d
  <2>1. QED BY <1>2, <1>4 DEF Channelled
<1>6. Channelled(new, d)
  BY <1>4, <1>5 DEF Channelled
<1>7. QED BY <1>1, <1>3, <1>4, <1>6

CollectedFrom(f, headers, custom_shifts) ==
  f = [i \in 0..Len(headers) |->
         IF i = 0 THEN Uncollected ELSE Collected(f[i - 1], headers[i], custom_shifts)]

\* The function that is folded exists.
LEMMA CollectingExists ==
  ASSUME NEW headers, NEW custom_shifts, Len(headers) \in Nat
  PROVE  \E f : CollectedFrom(f, headers, custom_shifts)
<1> DEFINE Upto(f, n) ==
             f = [i \in 0..n |->
                    IF i = 0 THEN Uncollected ELSE Collected(f[i - 1], headers[i], custom_shifts)]
           Known == {n \in Nat : \E f : Upto(f, n)}
<1>1. 0 \in Known
  <2> DEFINE f == [i \in 0..0 |-> Uncollected]
  <2>1. Upto(f, 0)
    OBVIOUS
  <2>2. QED BY <2>1
<1>2. ASSUME NEW n \in Nat, n \in Known PROVE n + 1 \in Known
  <2>1. PICK f : Upto(f, n)
    BY <1>2
  <2> DEFINE g == [i \in 0..(n + 1) |->
                     IF i = 0 THEN Uncollected ELSE Collected(f[i - 1], headers[i], custom_shifts)]
  <2>2. \A i \in 0..n : f[i] = IF i = 0 THEN Uncollected
                                ELSE Collected(f[i - 1], headers[i], custom_shifts)
    BY <2>1
  <2>3. \A i \in 0..(n + 1) : g[i] = IF i = 0 THEN Uncollected
                                      ELSE Collected(f[i - 1], headers[i], custom_shifts)
    OBVIOUS
  <2>4. g = [i \in 0..(n + 1) |-> g[i]]
    OBVIOUS
  <2> HIDE DEF g, Upto
  <2>5. \A i \in 0..n : g[i] = f[i]
    <3> SUFFICES ASSUME NEW i \in 0..n PROVE g[i] = f[i]
      OBVIOUS
    <3>1. i \in 0..(n + 1)
      OBVIOUS
    <3>2. QED BY <2>2, <2>3, <3>1
  <2>6. \A i \in 0..(n + 1) : g[i] = IF i = 0 THEN Uncollected
                                      ELSE Collected(g[i - 1], headers[i], custom_shifts)
    <3> SUFFICES ASSUME NEW i \in 0..(n + 1)
                 PROVE  g[i] = IF i = 0 THEN Uncollected
                                        ELSE Collected(g[i - 1], headers[i], custom_shifts)
      OBVIOUS
    <3>1. i # 0 => i - 1 \in 0..n
      OBVIOUS
    <3>2. QED BY <2>3, <2>5, <3>1
  <2>7. Upto(g, n + 1)
    BY <2>4, <2>6 DEF Upto
  <2>8. QED BY <2>7
<1>3. Known \subseteq Nat
  OBVIOUS
<1> HIDE DEF Known
<1>4. Known = Nat
  BY <1>1, <1>2, <1>3, Induction
<1>5. QED BY <1>4 DEF Known, CollectedFrom

Started(files) == \A file \in files : file.header.p1a.StartImgFlag <=> file.id = 0

HandlesUpTo(s, k) == [j \in 1..k |-> [channel |-> s[j].channel, id |-> s[j].id]]
ChannelAt(s, k) == IF k = 0 THEN 0 ELSE s[k].channel
TakenUpTo(taken, s, k) ==
  /\ Channelled(taken, ChannelAt(s, k)) /\ taken.handles = HandlesUpTo(s, k)
  /\ k # 0 => taken.next_id = s[k].id + 1
Taking(f, s, custom_shifts) ==
  /\ f[0] = Uncollected
  /\ \A i \in 1..Len(s) : f[i] = Collected(f[i - 1], s[i].header, custom_shifts)
  /\ \A i \in 0..Len(s) : TakenUpTo(f[i], s, i)
TakenFrom(f, s, custom_shifts) ==
  collect_decompression_session_params([k \in 1..Len(s) |-> s[k].header], custom_shifts)
    = [f[Len(s)] EXCEPT !.session = [f[Len(s)].session[1] EXCEPT !.rows_pad_count = f[Len(s)].pads[1]]]

\* Header by header the decoder counts as the encoder did.
LEMMA TakenAsWritten ==
  ASSUME NEW files, SessionFiles(files), Started(files), NEW custom_shifts,
         NEW s, s = load_segments(files)
  PROVE  \E f : Taking(f, s, custom_shifts) /\ TakenFrom(f, s, custom_shifts)
<1>1. PICK n : n = Len(s)
  OBVIOUS
<1>2. PICK headers : headers = [k \in 1..n |-> s[k].header]
  OBVIOUS
<1>3. /\ n \in Nat /\ \A k \in 1..n : s[k] \in files
      /\ \A k \in 1..n : s[k].channel \in Nat \ {0} /\ s[k].id \in Nat
  <2>1. s \in Seq(files) /\ n \in Nat
    BY <1>1, LoadedInOrder
  <2>2. \A k \in 1..n : s[k] \in files
    BY <1>1, <2>1
  <2>3. QED BY <2>1, <2>2 DEF SessionFiles, NumberedFile
<1>4. Len(headers) = n
  BY <1>2, <1>3
<1>5. PICK f : CollectedFrom(f, headers, custom_shifts)
           /\ Folded(LAMBDA k, header : Collected(k, header, custom_shifts), Uncollected, headers)
                = f[n]
  <2> DEFINE f == CHOOSE f : CollectedFrom(f, headers, custom_shifts)
  <2>1. CollectedFrom(f, headers, custom_shifts)
    BY <1>3, <1>4, CollectingExists
  <2>2. Folded(LAMBDA k, header : Collected(k, header, custom_shifts), Uncollected, headers)
          = f[n]
    BY <1>4 DEF Folded, CollectedFrom
  <2>3. QED BY <2>1, <2>2
<1>6. /\ f[0] = Uncollected
      /\ \A i \in 1..n : f[i] = Collected(f[i - 1], headers[i], custom_shifts)
  <2>1. \A i \in 0..n : f[i] = IF i = 0 THEN Uncollected
                                ELSE Collected(f[i - 1], headers[i], custom_shifts)
    BY <1>4, <1>5 DEF CollectedFrom
  <2>2. 0 \in 0..n /\ \A i \in 1..n : i \in 0..n /\ i # 0
    BY <1>3
  <2>3. QED BY <2>1, <2>2
<1> DEFINE Handle(k) == [channel |-> s[k].channel, id |-> s[k].id]
           C(k) == ChannelAt(s, k)
           Taken(k) == /\ Channelled(f[k], C(k))
                       /\ f[k].handles = [j \in 1..k |-> Handle(j)]
                       /\ k # 0 => f[k].next_id = s[k].id + 1
           Good == {k \in Nat : k <= n => Taken(k)}
<1>7. 0 \in Good
  <2>1. List(<<>>, 0)
    BY DEF List, ElementsOf
  <2>2. Channelled(Uncollected, 0) /\ Uncollected.handles = <<>>
    BY <2>1 DEF Channelled, Uncollected
  <2>3. [j \in 1..0 |-> Handle(j)] = <<>>
    OBVIOUS
  <2>4. QED BY <1>6, <2>2, <2>3 DEF ChannelAt
<1>8. ASSUME NEW k \in Nat, k \in Good PROVE k + 1 \in Good
  <2> SUFFICES ASSUME k + 1 <= n PROVE Taken(k + 1)
    OBVIOUS
  <2>1. k + 1 \in 1..n /\ k <= n /\ (k + 1) - 1 = k /\ k + 1 # 0
    BY <1>3
  <2>2. Taken(k)
    BY <1>8, <2>1
  <2>3. f[k + 1] = Collected(f[k], headers[k + 1], custom_shifts)
    BY <1>6, <2>1
  <2>4. headers[k + 1].p1a.StartImgFlag <=> s[k + 1].id = 0
    BY <1>2, <1>3, <2>1 DEF Started
  <2> DEFINE first == headers[k + 1].p1a.StartImgFlag
             channel == IF first THEN C(k) + 1 ELSE C(k)
             id == IF first THEN 0 ELSE f[k].next_id
  <2>5. /\ Channelled(f[k + 1], channel) /\ f[k + 1].next_id = id + 1
        /\ f[k + 1].handles = Append(f[k].handles, [channel |-> channel, id |-> id])
    <3> HIDE DEF C
    <3>1. QED BY <2>2, <2>3, CollectedNext
  <2>6. channel = s[k + 1].channel /\ id = s[k + 1].id
    <3>1. CASE k = 0
      <4>1. s[1].channel = 1 /\ s[1].id = 0
        BY <1>1, <1>3, <2>1, LoadedStepwise
      <4>2. QED BY <2>4, <3>1, <4>1 DEF ChannelAt
    <3>2. CASE k # 0
      <4>1. k \in 1..(n - 1) /\ k \in 1..n
        BY <1>3, <2>1, <3>2
      <4>2. \/ s[k + 1].channel = s[k].channel /\ s[k + 1].id = s[k].id + 1
            \/ s[k + 1].channel = s[k].channel + 1 /\ s[k + 1].id = 0
        BY <1>1, <4>1, LoadedStepwise
      <4>3. s[k].id \in Nat /\ f[k].next_id = s[k].id + 1 /\ C(k) = s[k].channel
        BY <1>3, <2>2, <3>2, <4>1 DEF ChannelAt
      <4>4. QED BY <2>4, <4>2, <4>3
    <3>3. QED BY <3>1, <3>2
  <2> HIDE DEF channel, id, first
  <2>7. f[k + 1].handles = [j \in 1..(k + 1) |-> Handle(j)]
    <3> DEFINE v == [j \in 1..k |-> Handle(j)]
               w == Append(v, Handle(k + 1))
    <3>1. List(v, k)
      <4>1. v = [j \in 1..k |-> v[j]]
        OBVIOUS
      <4> HIDE DEF v
      <4>2. QED BY <4>1, ListMade
    <3>2. \A j \in 1..k : v[j] = Handle(j)
      OBVIOUS
    <3>3. f[k + 1].handles = w
      BY <2>2, <2>5, <2>6
    <3> HIDE DEF v, Handle
    <3>4. List(w, k + 1) /\ (\A j \in 1..k : w[j] = v[j]) /\ w[k + 1] = Handle(k + 1)
      <4>1. PICK x : x = Handle(k + 1)
        OBVIOUS
      <4>2. PICK z : z = Append(v, x)
        OBVIOUS
      <4>3. List(z, k + 1) /\ (\A j \in 1..k : z[j] = v[j]) /\ z[k + 1] = x
        <5>1. /\ List(Append(v, x), k + 1)
              /\ \A j \in 1..k : Append(v, x)[j] = v[j]
              /\ Append(v, x)[k + 1] = x
              /\ ElementsOf(Append(v, x)) = ElementsOf(v) \cup {x}
          BY <3>1, ListAppended
        <5>2. QED BY <4>2, <5>1
      <4>4. z = w
        BY <4>1, <4>2
      <4>5. QED BY <4>1, <4>3, <4>4
    <3> HIDE DEF w
    <3>5. w = [j \in 1..(k + 1) |-> w[j]]
      BY <3>4 DEF List
    <3>6. \A j \in 1..(k + 1) : w[j] = Handle(j)
      BY <3>2, <3>4
    <3>7. QED BY <3>3, <3>5, <3>6
  <2>8. C(k + 1) = s[k + 1].channel
    BY <2>1 DEF ChannelAt
  <2>9. QED BY <2>1, <2>5, <2>6, <2>7, <2>8
<1> HIDE DEF Good
<1>9. Good = Nat
  <2>1. Good \subseteq Nat
    BY DEF Good
  <2>2. QED BY <1>7, <1>8, <2>1, Induction
<1>10. \A k \in 0..n : TakenUpTo(f[k], s, k)
  <2>1. \A k \in Nat : k <= n => Taken(k)
    BY <1>9 DEF Good
  <2>2. ASSUME NEW k \in 0..n PROVE TakenUpTo(f[k], s, k)
    <3>1. Taken(k)
      <4>1. k \in Nat /\ k <= n
        BY <1>3
      <4> HIDE DEF Taken
      <4>2. QED BY <2>1, <4>1
    <3>2. HandlesUpTo(s, k) = [j \in 1..k |-> Handle(j)]
      BY DEF HandlesUpTo
    <3>3. QED BY <3>1, <3>2 DEF TakenUpTo
  <2>3. QED BY <2>2
<1>11. Taking(f, s, custom_shifts)
  <2>1. \A i \in 1..n : headers[i] = s[i].header
    BY <1>2
  <2>2. \A i \in 1..n : f[i] = Collected(f[i - 1], s[i].header, custom_shifts)
    BY <1>6, <2>1
  <2>3. QED BY <1>1, <1>6, <1>10, <2>2 DEF Taking
<1>12. TakenFrom(f, s, custom_shifts)
  BY <1>1, <1>2, <1>5 DEF TakenFrom, collect_decompression_session_params
<1>13. QED BY <1>11, <1>12

\* Every file is taken for the segment that it is: the decoder counts channels and segments
\* by the headers' first flags only.
THEOREM CollectedAsWritten ==
  ASSUME NEW files, SessionFiles(files), Started(files), NEW custom_shifts
  PROVE  LET s == load_segments(files)
             n == Len(s)
             collected == collect_decompression_session_params([k \in 1..n |-> s[k].header],
                                                               custom_shifts)
         IN /\ collected.handles
                 = [k \in 1..n |-> [channel |-> s[k].channel, id |-> s[k].id]]
            /\ Len(collected.segment) = IF n = 0 THEN 0 ELSE s[n].channel
<1>1. PICK s, n : s = load_segments(files) /\ n = Len(s)
  OBVIOUS
<1>2. n \in Nat
  BY <1>1, LoadedInOrder
<1>3. PICK f : Taking(f, s, custom_shifts) /\ TakenFrom(f, s, custom_shifts)
  BY <1>1, TakenAsWritten
<1>4. TakenUpTo(f[n], s, n)
  <2>1. n \in 0..Len(s)
    BY <1>1, <1>2
  <2>2. QED BY <1>3, <2>1 DEF Taking
<1>5. PICK collected :
        collected = collect_decompression_session_params([k \in 1..n |-> s[k].header], custom_shifts)
  OBVIOUS
<1>6. collected = [f[n] EXCEPT !.session = [f[n].session[1] EXCEPT !.rows_pad_count = f[n].pads[1]]]
  BY <1>1, <1>3, <1>5 DEF TakenFrom
<1>7. collected.handles = f[n].handles /\ collected.segment = f[n].segment
  <2>1. "handles" \in DOMAIN f[n] /\ "segment" \in DOMAIN f[n]
    BY <1>4 DEF TakenUpTo, Channelled
  <2>2. QED BY <1>6, <2>1
<1>8. Len(f[n].segment) = IF n = 0 THEN 0 ELSE s[n].channel
  BY <1>4 DEF TakenUpTo, Channelled, List, ChannelAt
<1>9. f[n].handles = [k \in 1..n |-> [channel |-> s[k].channel, id |-> s[k].id]]
  BY <1>4 DEF TakenUpTo, HandlesUpTo
<1>10. QED BY <1>1, <1>5, <1>7, <1>8, <1>9

----------------------------------------------------------------------------
(* What is registered for the files' segments. *)

RegisteredFrom(f, channels, handles) ==
  f = [i \in 0..Len(handles) |->
         IF i = 0 THEN [channel \in 1..channels |-> <<>>]
         ELSE [f[i - 1] EXCEPT ![handles[i].channel] = Append(@, Pending(handles[i].id))]]

\* The function that is folded exists.
LEMMA RegisteringExists ==
  ASSUME NEW channels, NEW handles, Len(handles) \in Nat
  PROVE  \E f : RegisteredFrom(f, channels, handles)
<1> DEFINE Base == [channel \in 1..channels |-> <<>>]
           Next1(lists, i) == [lists EXCEPT ![handles[i].channel] = Append(@, Pending(handles[i].id))]
           Upto(f, n) == f = [i \in 0..n |-> IF i = 0 THEN Base ELSE Next1(f[i - 1], i)]
           Known == {n \in Nat : \E f : Upto(f, n)}
<1>0. \A f : RegisteredFrom(f, channels, handles) <=> Upto(f, Len(handles))
  BY DEF RegisteredFrom
<1> HIDE DEF Base, Next1
<1>1. 0 \in Known
  <2> DEFINE f == [i \in 0..0 |-> Base]
  <2>1. Upto(f, 0)
    OBVIOUS
  <2>2. QED BY <2>1
<1>2. ASSUME NEW n \in Nat, n \in Known PROVE n + 1 \in Known
  <2>1. PICK f : Upto(f, n)
    BY <1>2
  <2> DEFINE g == [i \in 0..(n + 1) |-> IF i = 0 THEN Base ELSE Next1(f[i - 1], i)]
  <2>2. \A i \in 0..n : f[i] = IF i = 0 THEN Base ELSE Next1(f[i - 1], i)
    BY <2>1
  <2>3. \A i \in 0..(n + 1) : g[i] = IF i = 0 THEN Base ELSE Next1(f[i - 1], i)
    OBVIOUS
  <2>4. g = [i \in 0..(n + 1) |-> g[i]]
    OBVIOUS
  <2> HIDE DEF g, Upto
  <2>5. \A i \in 0..n : g[i] = f[i]
    <3> SUFFICES ASSUME NEW i \in 0..n PROVE g[i] = f[i]
      OBVIOUS
    <3>1. i \in 0..(n + 1)
      OBVIOUS
    <3>2. QED BY <2>2, <2>3, <3>1
  <2>6. \A i \in 0..(n + 1) : g[i] = IF i = 0 THEN Base ELSE Next1(g[i - 1], i)
    <3> SUFFICES ASSUME NEW i \in 0..(n + 1) PROVE g[i] = IF i = 0 THEN Base ELSE Next1(g[i - 1], i)
      OBVIOUS
    <3>1. i # 0 => i - 1 \in 0..n
      OBVIOUS
    <3>2. QED BY <2>3, <2>5, <3>1
  <2>7. Upto(g, n + 1)
    BY <2>4, <2>6 DEF Upto
  <2>8. QED BY <2>7
<1>3. Known \subseteq Nat
  OBVIOUS
<1> HIDE DEF Known
<1>4. Known = Nat
  BY <1>1, <1>2, <1>3, Induction
<1>5. \E f : Upto(f, Len(handles))
  BY <1>4 DEF Known
<1>6. QED BY <1>0, <1>5

\* A channel's descriptors: the ids from 0 on, none of them done.
Counted(list) ==
  List(list, Len(list)) /\ \A k \in 1..Len(list) : list[k] = Pending(k - 1)

\* Files of channels that there are.
WithinChannels(files, channels) == \A file \in files : file.channel \in 1..channels

\* Every file's segment has the descriptor at its id, whose id it is.
LEMMA RegisteredOnce ==
  ASSUME NEW files, SessionFiles(files), NEW s, s = load_segments(files),
         NEW channels \in Nat, WithinChannels(files, channels),
         NEW d, d = Registered(channels, HandlesUpTo(s, Len(s)))
  PROVE  /\ DOMAIN d = 1..channels
         /\ \A c \in 1..channels : Counted(d[c])
         /\ \A file \in files : file.id \in 0..(Len(d[file.channel]) - 1)
<1>0. PICK handles : /\ handles = [k \in 1..Len(s) |-> [channel |-> s[k].channel, id |-> s[k].id]]
                     /\ d = Registered(channels, handles)
  BY DEF HandlesUpTo
<1>1. PICK n : n = Len(s)
  OBVIOUS
<1>2. /\ n \in Nat /\ \A k \in 1..n : s[k].channel \in 1..channels /\ s[k].id \in Nat
      /\ \A file \in files : file.id \in Nat /\ \E k \in 1..n : s[k] = file
  <2>1. s \in Seq(files) /\ n \in Nat /\ \A file \in files : \E k \in 1..n : s[k] = file
    BY <1>1, LoadedInOrder
  <2>2. \A k \in 1..n : s[k] \in files
    BY <1>1, <2>1
  <2>3. QED BY <2>1, <2>2 DEF SessionFiles, NumberedFile, WithinChannels
<1>3. /\ Len(handles) = n
      /\ \A k \in 1..n : handles[k].channel = s[k].channel /\ handles[k].id = s[k].id
  BY <1>0, <1>1, <1>2
<1>4. /\ n > 0 => s[1].channel = 1 /\ s[1].id = 0
      /\ \A k \in 1..(n - 1) :
           \/ s[k + 1].channel = s[k].channel /\ s[k + 1].id = s[k].id + 1
           \/ s[k + 1].channel = s[k].channel + 1 /\ s[k + 1].id = 0
  BY <1>1, LoadedStepwise
<1>5. PICK f : RegisteredFrom(f, channels, handles) /\ d = f[n]
  <2> DEFINE f == CHOOSE f : RegisteredFrom(f, channels, handles)
  <2>1. RegisteredFrom(f, channels, handles)
    BY <1>2, <1>3, RegisteringExists
  <2>2. d = f[n]
    BY <1>0, <1>3 DEF Registered, Folded, RegisteredFrom
  <2>3. QED BY <2>1, <2>2
<1>6. /\ f[0] = [channel \in 1..channels |-> <<>>]
      /\ \A i \in 1..n : f[i] = [f[i - 1] EXCEPT ![s[i].channel] = Append(@, Pending(s[i].id))]
  <2>1. \A i \in 0..n : f[i] = IF i = 0 THEN [channel \in 1..channels |-> <<>>]
                 ELSE [f[i - 1] EXCEPT ![handles[i].channel] = Append(@, Pending(handles[i].id))]
    BY <1>3, <1>5 DEF RegisteredFrom
  <2>2. 0 \in 0..n /\ \A i \in 1..n : i \in 0..n /\ i # 0
    BY <1>2
  <2>3. ASSUME NEW i \in 1..n
        PROVE  f[i] = [f[i - 1] EXCEPT ![s[i].channel] = Append(@, Pending(s[i].id))]
    <3>1. PICK g, handle : g = f[i - 1] /\ handle = handles[i]
      OBVIOUS
    <3>2. f[i] = [g EXCEPT ![handle.channel] = Append(@, Pending(handle.id))]
      <4>1. i \in 0..n /\ i # 0
        BY <2>2
      <4>2. f[i] = IF i = 0 THEN [channel \in 1..channels |-> <<>>]
                 ELSE [f[i - 1] EXCEPT ![handles[i].channel] = Append(@, Pending(handles[i].id))]
        BY <2>1, <4>1, Zenon
      <4>3. f[i] = [f[i - 1] EXCEPT ![handles[i].channel] = Append(@, Pending(handles[i].id))]
        BY <4>1, <4>2, Zenon
      <4>4. QED BY <3>1, <4>3, Zenon
    <3>3. handle.channel = s[i].channel /\ handle.id = s[i].id
      BY <1>3, <3>1
    <3>4. QED BY <3>1, <3>2, <3>3
  <2>4. QED BY <2>1, <2>2, <2>3
<1> DEFINE Listing(lists, k) ==
             /\ DOMAIN lists = 1..channels
             /\ \A c \in 1..channels : Counted(lists[c])
             /\ \A j \in 1..k : s[j].id < Len(lists[s[j].channel])
             /\ k = 0 => \A c \in 1..channels : Len(lists[c]) = 0
             /\ k # 0 => /\ Len(lists[s[k].channel]) = s[k].id + 1
                         /\ \A c \in 1..channels : c > s[k].channel => Len(lists[c]) = 0
           Good == {k \in Nat : k <= n => Listing(f[k], k)}
<1>7. 0 \in Good
  <2>1. List(<<>>, 0)
    BY DEF List, ElementsOf
  <2>2. Counted(<<>>) /\ Len(<<>>) = 0
    BY <2>1 DEF Counted
  <2>3. Listing(f[0], 0)
    BY <1>6, <2>2
  <2> HIDE DEF Listing
  <2>4. QED BY <2>3
<1>8. ASSUME NEW k \in Nat, k \in Good PROVE k + 1 \in Good
  <2> SUFFICES ASSUME k + 1 <= n PROVE Listing(f[k + 1], k + 1)
    OBVIOUS
  <2>1. k + 1 \in 1..n /\ k <= n /\ (k + 1) - 1 = k /\ k + 1 # 0
    BY <1>2
  <2>2. PICK old, new, c, id : old = f[k] /\ new = f[k + 1] /\ c = s[k + 1].channel /\ id = s[k + 1].id
    OBVIOUS
  <2>3. Listing(old, k)
    BY <1>8, <2>1, <2>2
  <2>4. new = [old EXCEPT ![c] = Append(@, Pending(id))] /\ c \in 1..channels /\ id \in Nat
    BY <1>2, <1>6, <2>1, <2>2
  <2>5. Len(old[c]) = id /\ \A b \in 1..channels : b > c => Len(old[b]) = 0
    <3>1. CASE k = 0
      <4>1. c = 1 /\ id = 0
        <5>1. k + 1 = 1 /\ n > 0
          BY <1>2, <2>1, <3>1
        <5>2. QED BY <1>4, <2>2, <5>1
      <4>2. QED BY <2>3, <2>4, <3>1, <4>1
    <3>2. CASE k # 0
      <4>1. k \in 1..(n - 1) /\ k \in 1..n
        BY <1>2, <2>1, <3>2
      <4>2. \/ c = s[k].channel /\ id = s[k].id + 1
            \/ c = s[k].channel + 1 /\ id = 0
        BY <1>4, <2>2, <4>1
      <4>3. PICK b, e : b = s[k].channel /\ e = s[k].id
        OBVIOUS
      <4>4. b \in 1..channels /\ e \in Nat
        BY <1>2, <4>1, <4>3
      <4>5. Len(old[b]) = e + 1 /\ \A a \in 1..channels : a > b => Len(old[a]) = 0
        BY <2>3, <3>2, <4>3
      <4>6. \/ c = b /\ id = e + 1
            \/ c = b + 1 /\ id = 0
        BY <4>2, <4>3
      <4> HIDE DEF Listing
      <4>7. QED BY <2>4, <4>4, <4>5, <4>6
    <3>3. QED BY <3>1, <3>2
  <2>6. PICK l, m : l = old[c] /\ m = Append(l, Pending(id))
    OBVIOUS
  <2>7. List(l, id) /\ \A j \in 1..id : l[j] = Pending(j - 1)
    BY <2>3, <2>4, <2>5, <2>6 DEF Counted
  <2>8. List(m, id + 1) /\ (\A j \in 1..id : m[j] = l[j]) /\ m[id + 1] = Pending(id)
    <3>1. PICK x : x = Pending(id)
      OBVIOUS
    <3>2. List(l, id)
      BY <2>7
    <3>3. /\ List(Append(l, x), id + 1)
          /\ \A j \in 1..id : Append(l, x)[j] = l[j]
          /\ Append(l, x)[id + 1] = x
          /\ ElementsOf(Append(l, x)) = ElementsOf(l) \cup {x}
      BY ONLY <3>2, ListAppended, Zenon
    <3>4. QED BY <2>6, <3>1, <3>3
  <2>9. Counted(m) /\ Len(m) = id + 1
    <3>1. Len(m) = id + 1
      BY <2>8 DEF List
    <3>2. \A j \in 1..(id + 1) : m[j] = Pending(j - 1)
      <4> SUFFICES ASSUME NEW j \in 1..(id + 1) PROVE m[j] = Pending(j - 1)
        OBVIOUS
      <4>1. CASE j = id + 1
        <5>1. j - 1 = id
          BY <2>4, <4>1
        <5>2. QED BY <2>8, <4>1, <5>1
      <4>2. CASE j # id + 1
        <5>1. j \in 1..id
          BY <2>4, <4>2
        <5>2. QED BY <2>7, <2>8, <5>1
      <4>3. QED BY <4>1, <4>2
    <3>3. QED BY <2>8, <3>1, <3>2 DEF Counted
  <2>10. /\ DOMAIN new = 1..channels /\ new[c] = m
         /\ \A b \in 1..channels : b # c => new[b] = old[b]
    BY <2>3, <2>4, <2>6
  <2>11. \A b \in 1..channels : Counted(new[b])
    BY <2>3, <2>9, <2>10
  <2>12. \A j \in 1..(k + 1) : s[j].id < Len(new[s[j].channel])
    <3> SUFFICES ASSUME NEW j \in 1..(k + 1) PROVE s[j].id < Len(new[s[j].channel])
      OBVIOUS
    <3>1. CASE j = k + 1
      <4>1. s[j].id = id /\ new[s[j].channel] = m
        BY <2>2, <2>10, <3>1
      <4>2. Len(m) = id + 1 /\ id \in Nat
        BY <2>4, <2>9
      <4> HIDE DEF Listing
      <4>3. QED BY <4>1, <4>2
    <3>2. CASE j # k + 1
      <4>1. j \in 1..k /\ j \in 1..n
        BY <1>2, <2>1, <3>2
      <4>2. s[j].id < Len(old[s[j].channel]) /\ s[j].channel \in 1..channels /\ s[j].id \in Nat
        BY <1>2, <2>3, <4>1
      <4>3. CASE s[j].channel = c
        BY <2>4, <2>5, <2>9, <2>10, <4>2, <4>3
      <4>4. CASE s[j].channel # c
        BY <2>10, <4>2, <4>4
      <4>5. QED BY <4>3, <4>4
    <3>3. QED BY <3>1, <3>2
  <2>13. \A b \in 1..channels : b > c => Len(new[b]) = 0
    BY <2>4, <2>5, <2>10
  <2>14. QED BY <2>1, <2>2, <2>9, <2>10, <2>11, <2>12, <2>13
<1> HIDE DEF Listing
<1>9. Listing(f[n], n)
  <2>1. Good \subseteq Nat
    OBVIOUS
  <2> HIDE DEF Good
  <2>2. Good = Nat
    BY <1>7, <1>8, <2>1, Induction
  <2>3. \A k \in Nat : k <= n => Listing(f[k], k)
    BY <2>2 DEF Good
  <2>4. QED BY <1>2, <2>3
<1>10. /\ DOMAIN d = 1..channels
       /\ \A c \in 1..channels : Counted(d[c])
       /\ \A j \in 1..n : s[j].id < Len(d[s[j].channel])
  BY <1>5, <1>9 DEF Listing
<1>11. ASSUME NEW file \in files PROVE file.id \in 0..(Len(d[file.channel]) - 1)
  <2>1. PICK k \in 1..n : s[k] = file
    BY <1>2
  <2>2. file.id < Len(d[file.channel]) /\ file.channel \in 1..channels /\ file.id \in Nat
    BY <1>2, <1>10, <2>1
  <2>3. Len(d[file.channel]) \in Nat
    BY <1>10, <2>2 DEF Counted, List
  <2>4. QED BY <2>2, <2>3
<1>12. QED BY <1>10, <1>11

----------------------------------------------------------------------------
(* What is prepared of a channel. *)

SourceWidth(request) ==
  IF request.params.img_transpose THEN Description(request).height ELSE Description(request).width
SourceHeight(request) ==
  IF request.params.img_transpose THEN Description(request).width ELSE Description(request).height

\* The images of all channels are of one size, and so are their frames.
LEMMA PreparedIs ==
  ASSUME NEW i \in DOMAIN Inputs, ValidRequest(Inputs[i]), NEW channel \in DOMAIN Inputs[i].images
  PROVE  LET request == Inputs[i]
             prepared == Prepared[i][channel]
             w == PaddedTo(SourceWidth(request))
             h == PaddedTo(SourceHeight(request))
         IN /\ SourceWidth(request) \in Nat \ {0} /\ SourceHeight(request) \in Nat \ {0}
            /\ ShapeOf(request, channel) = <<w, h>>
            /\ prepared.source.width = SourceWidth(request)
            /\ prepared.source.height = SourceHeight(request)
            /\ FrameList(i, channel)
                 = Frames(w, h, LargestSize(SegmentSettingsOf(request)))
            /\ prepared.fragments
                 = [f \in ElementsOf(FrameList(i, channel)) |->
                      TransformFragment(prepared.source, f, SessionOf(request).shifts)]
<1> DEFINE request == Inputs[i]
           header == request.file.header
           params == request.params
           shown == Description(request)
           image == request.images[channel]
<1>1. /\ header.ImageWidth \in Int /\ header.ImageHeight \in Int
      /\ shown.depth \in Nat /\ channel \in 1..shown.depth
      /\ image.width = shown.width /\ image.height = shown.height
  BY RequestAssumption
<1>2. shown.width = magnitude(header.ImageWidth) /\ shown.height = magnitude(header.ImageHeight)
  BY DEF Description, get_image_description
<1>3. shown.width \in Nat \ {0} /\ shown.height \in Nat \ {0}
  <2>1. shown.width \in Nat /\ shown.height \in Nat
    BY <1>1, <1>2 DEF magnitude
  <2>2. validate_parameters(params, shown)
    BY DEF ValidRequest
  <2> HIDE DEF shown, params
  <2>3. (IF params.img_transpose THEN shown.height ELSE shown.width) >= 17
        /\ (IF params.img_transpose THEN shown.width ELSE shown.height) >= 17
    BY <2>2 DEF validate_parameters, min_width, min_height
  <2>4. QED BY <2>1, <2>3
<1>4. /\ SourceWidth(request) = IF params.img_transpose THEN shown.height ELSE shown.width
      /\ SourceHeight(request) = IF params.img_transpose THEN shown.width ELSE shown.height
  BY DEF SourceWidth, SourceHeight
<1> DEFINE loaded == load_channels(request.file)
           source == Source(loaded[channel], params)
<1>5. loaded[channel].width = shown.width /\ loaded[channel].height = shown.height
      /\ Len(loaded) = shown.depth
  <2> DEFINE masks == get_channel_masks(header).channels
  <2>1. shown.depth = Len(masks)
    BY DEF Description, get_image_description
  <2>2. /\ DOMAIN loaded = 1..Len(masks)
        /\ \A z \in 1..Len(masks) : /\ loaded[z].width = get_image_scan_spec(header).width
                                    /\ loaded[z].height = get_image_scan_spec(header).height
    BY DEF load_channels, Bitmap
  <2>3. \E f : loaded = [z \in 1..Len(masks) |-> f[z]]
    <3>1. loaded = [z \in 1..Len(masks) |-> loaded[z]]
      BY DEF load_channels
    <3> HIDE DEF loaded
    <3>2. QED BY <3>1
  <2> HIDE DEF loaded, masks, shown
  <2>4. Len(loaded) = shown.depth
    BY <1>1, <2>1, <2>3
  <2>5. QED BY <1>1, <1>2, <2>1, <2>2, <2>4 DEF get_image_scan_spec
<1>6. PICK prepared : prepared = Prepared[i][channel]
  OBVIOUS
<1>7. prepared = Channel(loaded[channel], request)
  <2>1. Prepared[i] = ChannelsOf(request)
    BY EvaluatedIs DEF Prepared
  <2>2. ChannelsOf(request)
          = [c \in 1..Len(loaded) |-> Channel(loaded[c], request)]
    BY EvaluatedIs DEF ChannelsOf
  <2>3. channel \in 1..Len(loaded)
    BY <1>1, <1>5
  <2> HIDE DEF loaded, request
  <2>4. QED BY <1>6, <2>1, <2>2, <2>3
<1>8. /\ prepared.source = source /\ prepared.frames = FramesOf(source, request)
      /\ prepared.fragments = [f \in ElementsOf(prepared.frames) |->
           TransformFragment(source, f, SessionOf(request).shifts)]
  <2> HIDE DEF loaded, source
  <2>1. Evaluated(Source(loaded[channel], request.params)) = source
    BY EvaluatedIs DEF source
  <2>2. QED BY <1>7, <2>1 DEF Channel, ElementsOf
<1>9. source.width = SourceWidth(request) /\ source.height = SourceHeight(request)
  BY <1>4, <1>5 DEF Source, transpose, Bitmap
<1>10. ShapeOf(request, channel) = <<PaddedTo(SourceWidth(request)), PaddedTo(SourceHeight(request))>>
  BY <1>1, <1>4 DEF ShapeOf
<1>11. SourceWidth(request) \in Nat \ {0} /\ SourceHeight(request) \in Nat \ {0}
  BY <1>3, <1>4
<1> HIDE DEF source, loaded, request
<1>12. prepared.frames = Frames(PaddedTo(SourceWidth(request)), PaddedTo(SourceHeight(request)),
                           LargestSize(SegmentSettingsOf(request)))
  BY <1>8, <1>9 DEF FramesOf
<1>13. QED BY <1>6, <1>8, <1>9, <1>10, <1>11, <1>12 DEF FrameList, request

----------------------------------------------------------------------------
(* The fragments in raster order. *)

Chained(list, w) ==
  /\ list \in Seq(ElementsOf(list)) /\ Len(list) \in Nat \ {0}
  /\ \A k \in 1..Len(list) : /\ list[k].x \in Int /\ list[k].y \in Int
                             /\ list[k].width \in Int /\ list[k].height \in Int
  /\ list[1].x = 0 /\ list[1].y = 0
  /\ \A k \in 1..(Len(list) - 1) :
       /\ list[k + 1].x = NextFrame(list[k], w).x
       /\ list[k + 1].y = NextFrame(list[k], w).y
       /\ Before(list[k], list[k + 1])

\* The frames of a channel follow each other in raster order, each where the one in front
\* of it ends.
LEMMA FrameChain ==
  ASSUME NEW i \in DOMAIN Inputs, ValidRequest(Inputs[i]), NEW channel \in DOMAIN Inputs[i].images
  PROVE  Chained(FrameList(i, channel), ShapeOf(Inputs[i], channel)[1])
<1>0. PICK list, w : list = FrameList(i, channel) /\ w = ShapeOf(Inputs[i], channel)[1]
  OBVIOUS
<1> DEFINE h == ShapeOf(Inputs[i], channel)[2]
<1>1. w \in Nat \ {0} /\ h \in Nat \ {0}
  BY <1>0, FrameListIs
<1>2. PICK size \in Nat \ {0} : list = Frames(w, h, size)
  BY <1>0, FrameListIs
<1> DEFINE fh == FrameHeight(h)
           fw == Smaller(w, size)
<1> HIDE DEF h
<1>3. fh \in Nat \ {0}
  BY <1>1, FrameHeightPositive
<1>4. fw \in 1..w
  BY <1>1 DEF Smaller
<1>5. PICK s : /\ Raster(s, <<0, 0>>, w, h, fw, fh)
               /\ list = [k \in 1..Len(s) |-> Trim(s, k, w, h)]
  <2>1. \E s : /\ Raster(s, <<0, 0>>, w, h, fw, fh)
               /\ Frames(w, h, size) = [k \in 1..Len(s) |-> Trim(s, k, w, h)]
    BY <1>1, <1>3, FramesAre, ZenonT(30)
  <2> HIDE DEF fw, fh
  <2>2. QED BY <1>2, <2>1
<1> HIDE DEF fw, fh
<1>6. /\ Len(s) \in Nat \ {0} /\ s[1] = ImgPos(0, 0, fw, fh)
      /\ \A k \in 1..Len(s) : s[k] \in FrameSet(w, h, fw, fh)
      /\ \A k \in 1..(Len(s) - 1) : s[k + 1] = NextFrame(s[k], w)
  BY <1>1, <1>5 DEF Raster, Frame
<1>7. Len(list) = Len(s) /\ \A k \in 1..Len(s) : list[k] = Trim(s, k, w, h)
  BY <1>5, <1>6
<1>8. list \in Seq(ElementsOf(list))
  <2>1. list = [k \in 1..Len(s) |-> list[k]]
    BY <1>5, <1>7
  <2>2. List(list, Len(s))
    BY <1>6, <2>1, ListMade
  <2>3. QED BY <2>2 DEF List
<1>9. ASSUME NEW k \in 1..Len(s)
      PROVE  /\ s[k].x \in 0..(w - 1) /\ s[k].y \in 0..(h - 1)
             /\ s[k] = ImgPos(s[k].x, s[k].y, fw, fh)
             /\ list[k].x = s[k].x /\ list[k].y = s[k].y
             /\ list[k].width = (IF k = Len(s) THEN w - s[k].x ELSE fw)
             /\ list[k].height = Smaller(fh, h - s[k].y)
             /\ list[k] = ImgPos(s[k].x, s[k].y, list[k].width, list[k].height)
  <2>1. PICK f : f = s[k]
    OBVIOUS
  <2>2. f \in FrameSet(w, h, fw, fh)
    BY <1>6, <2>1
  <2>3. f = ImgPos(f.x, f.y, fw, fh) /\ f.x \in 0..(w - 1) /\ f.y \in 0..(h - 1)
    BY <2>2 DEF FrameSet, ImgPos
  <2>4. list[k] = [f EXCEPT !.width = IF k = Len(s) THEN w - f.x ELSE @, !.height = Smaller(@, h - f.y)]
    BY <1>7, <2>1 DEF Trim
  <2>5. PICK x, y : x = f.x /\ y = f.y
    OBVIOUS
  <2>6. f = [x |-> x, y |-> y, width |-> fw, height |-> fh]
    BY <2>3, <2>5 DEF ImgPos
  <2>7. list[k] = [x |-> x, y |-> y, width |-> IF k = Len(s) THEN w - x ELSE fw,
                   height |-> Smaller(fh, h - y)]
    BY <2>4, <2>6
  <2>8. QED BY <2>1, <2>3, <2>5, <2>7 DEF ImgPos
<1>10. ASSUME NEW k \in 1..(Len(s) - 1)
       PROVE  /\ list[k + 1].x = NextFrame(list[k], w).x
              /\ list[k + 1].y = NextFrame(list[k], w).y
              /\ Before(list[k], list[k + 1])
  <2>1. k \in 1..Len(s) /\ k + 1 \in 1..Len(s) /\ k # Len(s)
    BY <1>6
  <2>2. PICK x, y, x2, y2 : x = s[k].x /\ y = s[k].y /\ x2 = s[k + 1].x /\ y2 = s[k + 1].y
    OBVIOUS
  <2>3. x \in 0..(w - 1) /\ y \in 0..(h - 1) /\ x2 \in 0..(w - 1) /\ y2 \in 0..(h - 1)
    BY <1>9, <2>1, <2>2
  <2>4. s[k + 1] = ImgPos((x + fw) - zeropred(w, x + fw >= w), y + zeropred(fh, x + fw >= w), fw, fh)
    <3>1. s[k] = ImgPos(x, y, fw, fh)
      BY <1>9, <2>1, <2>2
    <3>2. QED BY <1>6, <3>1, NextFrameIs
  <2>5. x2 = (x + fw) - zeropred(w, x + fw >= w) /\ y2 = y + zeropred(fh, x + fw >= w)
    BY <2>2, <2>4 DEF ImgPos
  <2>6. PICK th : th = Smaller(fh, h - y)
    OBVIOUS
  <2>7. x + fw >= w => th = fh
    BY <1>1, <1>3, <1>4, <2>3, <2>5, <2>6 DEF Smaller, zeropred
  <2>8. list[k] = ImgPos(x, y, fw, th)
    <3>1. list[k].width = fw /\ list[k].height = th
      BY <1>9, <2>1, <2>2, <2>6
    <3>2. list[k] = ImgPos(s[k].x, s[k].y, list[k].width, list[k].height)
      BY <1>9, <2>1
    <3>3. QED BY <2>2, <3>1, <3>2
  <2>9. NextFrame(list[k], w)
          = ImgPos((x + fw) - zeropred(w, x + fw >= w), y + zeropred(th, x + fw >= w), fw, th)
    BY <2>8, NextFrameIs
  <2>10. NextFrame(list[k], w).x = x2 /\ NextFrame(list[k], w).y = y2
    BY <2>5, <2>7, <2>9 DEF ImgPos, zeropred
  <2>11. list[k + 1].x = x2 /\ list[k + 1].y = y2
    BY <1>9, <2>1, <2>2
  <2>12. y < y2 \/ (y = y2 /\ x < x2)
    BY <1>1, <1>3, <1>4, <2>3, <2>5 DEF zeropred
  <2>13. list[k].x = x /\ list[k].y = y
    BY <1>9, <2>1, <2>2
  <2>14. QED BY <2>10, <2>11, <2>12, <2>13 DEF Before
<1>11. list[1].x = 0 /\ list[1].y = 0
  <2>1. 1 \in 1..Len(s)
    BY <1>6
  <2>2. list[1].x = s[1].x /\ list[1].y = s[1].y
    BY <1>9, <2>1
  <2>3. QED BY <1>6, <2>2 DEF ImgPos
<1>12. \A k \in 1..Len(list) : /\ list[k].x \in Int /\ list[k].y \in Int
                               /\ list[k].width \in Int /\ list[k].height \in Int
  BY <1>1, <1>3, <1>4, <1>7, <1>9, SMTT(20) DEF Smaller
<1>13. Chained(list, w)
  BY <1>6, <1>7, <1>8, <1>10, <1>11, <1>12 DEF Chained
<1>14. QED BY <1>0, <1>13

\* The items of a sequence are finitely many.
LEMMA ElementsFinite == ASSUME NEW s, Len(s) \in Nat PROVE IsFiniteSet(ElementsOf(s))
<1> DEFINE T == 1..Len(s)
           f == [k \in T |-> s[k]]
<1>1. IsFiniteSet(T)
  BY FS_Interval
<1>2. f \in Surjection(T, ElementsOf(s))
  BY DEF Surjection, ElementsOf
<1>3. QED BY <1>1, <1>2, FS_Surjection

\* Frames later in the order are behind all those in front of them.
LEMMA FramesOrdered ==
  ASSUME NEW list, NEW n \in Nat,
         \A k \in 1..n : list[k].x \in Int /\ list[k].y \in Int,
         \A k \in 1..(n - 1) : Before(list[k], list[k + 1])
  PROVE  \A j \in 1..n, k \in 1..n : j < k => Before(list[j], list[k])
<1> DEFINE Good == {d \in Nat : \A j \in 1..n : j + d + 1 <= n => Before(list[j], list[j + d + 1])}
<1>1. 0 \in Good
  <2>1. \A j \in 1..n : j + 0 + 1 = j + 1 /\ (j + 1 <= n => j \in 1..(n - 1))
    OBVIOUS
  <2>2. QED BY <2>1
<1>2. ASSUME NEW d \in Nat, d \in Good PROVE d + 1 \in Good
  <2> SUFFICES ASSUME NEW j \in 1..n, j + (d + 1) + 1 <= n
               PROVE  Before(list[j], list[j + (d + 1) + 1])
    OBVIOUS
  <2>1. PICK k : k = j + d + 1
    OBVIOUS
  <2>2. k \in 1..(n - 1) /\ k \in 1..n /\ k + 1 \in 1..n /\ j + (d + 1) + 1 = k + 1
    BY <2>1
  <2>3. Before(list[j], list[k]) /\ Before(list[k], list[k + 1])
    BY <1>2, <2>1, <2>2
  <2>4. PICK f, g, h : f = list[j] /\ g = list[k] /\ h = list[k + 1]
    OBVIOUS
  <2>5. f.x \in Int /\ f.y \in Int /\ g.x \in Int /\ g.y \in Int /\ h.x \in Int /\ h.y \in Int
    BY <2>2, <2>4
  <2>6. Before(f, h)
    BY <2>3, <2>4, <2>5 DEF Before
  <2>7. QED BY <2>2, <2>4, <2>6
<1>3. Good \subseteq Nat
  OBVIOUS
<1> HIDE DEF Good
<1>4. Good = Nat
  BY <1>1, <1>2, <1>3, Induction
<1>5. ASSUME NEW j \in 1..n, NEW k \in 1..n, j < k PROVE Before(list[j], list[k])
  <2>1. PICK d \in Nat : k = j + d + 1
    <3>1. k - j - 1 \in Nat /\ k = j + (k - j - 1) + 1
      BY <1>5
    <3>2. QED BY <3>1
  <2>2. d \in Good
    BY <1>4
  <2>3. QED BY <2>1, <2>2 DEF Good
<1>6. QED BY <1>5

\* collect_contiguous_fragments, by the set of fragments.
CollectedOf(S, image_width) ==
  LET sorted == Evaluated(Sorted(S, Before))
      next[i \in 0..Len(sorted)] ==
        IF i = 0 THEN ImgPos(0, 0, 0, 0) ELSE NextFrame(sorted[i], image_width)
      Contiguous(i) == /\ sorted[i].x = next[i - 1].x
                       /\ sorted[i].y = next[i - 1].y
      count == CHOOSE n \in 0..Len(sorted) :
                 /\ \A i \in 1..n : Contiguous(i)
                 /\ n = Len(sorted) \/ ~Contiguous(n + 1)
  IN SubSeq(sorted, 1, count)

\* The fragments of a channel are collected all, in raster order, whatever the order in which
\* their transforms have ended: nothing is left of them for another round.
THEOREM CollectedInOrder ==
  ASSUME NEW i \in DOMAIN Inputs, ValidRequest(Inputs[i]), NEW channel \in DOMAIN Inputs[i].images,
         NEW done, ElementsOf(done) = ElementsOf(FrameList(i, channel))
  PROVE  collect_contiguous_fragments(done, ShapeOf(Inputs[i], channel)[1]) = FrameList(i, channel)
<1>1. PICK list, w, n, S : /\ list = FrameList(i, channel) /\ w = ShapeOf(Inputs[i], channel)[1]
                           /\ n = Len(list) /\ S = ElementsOf(list)
  OBVIOUS
<1>2. /\ list \in Seq(S) /\ n \in Nat \ {0}
      /\ \A k \in 1..n : /\ list[k].x \in Int /\ list[k].y \in Int
                         /\ list[k].width \in Int /\ list[k].height \in Int
      /\ list[1].x = 0 /\ list[1].y = 0
      /\ \A k \in 1..(n - 1) : /\ list[k + 1].x = NextFrame(list[k], w).x
                               /\ list[k + 1].y = NextFrame(list[k], w).y
                               /\ Before(list[k], list[k + 1])
  <2>1. Chained(FrameList(i, channel), ShapeOf(Inputs[i], channel)[1])
    BY FrameChain
  <2>2. QED BY <1>1, <2>1 DEF Chained
<1>3. \A j \in 1..n, k \in 1..n : j < k => Before(list[j], list[k])
  BY <1>2, FramesOrdered
<1>4. IsFiniteSet(S)
  BY <1>1, <1>2, ElementsFinite
<1>5. \A f \in S : \E k \in 1..n : f = list[k]
  BY <1>1 DEF ElementsOf
<1> DEFINE ahead == [f \in S |-> {g \in S \ {f} : Before(g, f)}]
           sorted == Sorted(S, Before)
<1>6. Orders(ahead, S)
  <2>1. \A f \in S : f.x \in Int /\ f.y \in Int
    BY <1>2, <1>5
  <2>2. \A f \in S, g \in S : f # g => Before(f, g) \/ Before(g, f)
    <3> SUFFICES ASSUME NEW f \in S, NEW g \in S, f # g PROVE Before(f, g) \/ Before(g, f)
      OBVIOUS
    <3>1. PICK j \in 1..n, k \in 1..n : f = list[j] /\ g = list[k]
      BY <1>5
    <3>2. j < k \/ k < j
      BY <1>2, <3>1
    <3>3. QED BY <1>3, <3>1, <3>2
  <2>3. \A f \in S, g \in S : ~(Before(f, g) /\ Before(g, f))
    BY <2>1 DEF Before
  <2>4. \A f \in S, g \in S, h \in S : Before(f, g) /\ Before(g, h) => Before(f, h)
    BY <2>1 DEF Before
  <2>5. QED BY <2>2, <2>3, <2>4 DEF Orders
<1>7. sorted = [k \in 1..Cardinality(S) |-> CHOOSE f \in S : Cardinality(ahead[f]) = k - 1]
  <2>1. \A f \in S : ahead[f] = {g \in S \ {f} : Before(g, f)}
    OBVIOUS
  <2> HIDE DEF ahead
  <2>2. sorted = [k \in 1..Cardinality(S) |->
               CHOOSE f \in S : Cardinality({g \in S \ {f} : Before(g, f)}) = k - 1]
    BY DEF Sorted
  <2>3. \A k : (CHOOSE f \in S : Cardinality({g \in S \ {f} : Before(g, f)}) = k - 1)
             = CHOOSE f \in S : Cardinality(ahead[f]) = k - 1
    BY <2>1
  <2>4. QED BY <2>2, <2>3
<1> HIDE DEF sorted
<1>8. Listed(sorted, S, ahead)
  <2> HIDE DEF ahead
  <2>1. QED BY <1>4, <1>6, <1>7, SortedIs
<1>9. sorted = list
  <2>1. \A j \in 1..n, k \in 1..n : j < k => list[j] \in ahead[list[k]]
    <3> SUFFICES ASSUME NEW j \in 1..n, NEW k \in 1..n, j < k PROVE list[j] \in ahead[list[k]]
      OBVIOUS
    <3>1. PICK f, g : f = list[j] /\ g = list[k]
      OBVIOUS
    <3>2. f \in S /\ g \in S
      BY <1>1, <3>1 DEF ElementsOf
    <3>5. Before(f, g)
      BY <1>3, <3>1
    <3>3. f # g
      BY <1>2, <3>1, <3>5 DEF Before
    <3>4. f \in ahead[g]
      BY <3>2, <3>3, <3>5
    <3>6. QED BY <3>1, <3>4
  <2> HIDE DEF ahead
  <2>2. \A f \in S : \E k \in 1..Len(list) : list[k] = f
    BY <1>1, <1>5
  <2>3. /\ sorted \in Seq(S) /\ \A f \in S : \E k \in 1..Len(sorted) : sorted[k] = f
        /\ \A j \in 1..Len(sorted), k \in 1..Len(sorted) : j < k => sorted[j] \in ahead[sorted[k]]
    BY <1>8 DEF Listed
  <2>4. /\ Orders(ahead, S) /\ list \in Seq(S)
        /\ \A j \in 1..Len(list), k \in 1..Len(list) : j < k => list[j] \in ahead[list[k]]
    BY <1>1, <1>2, <1>6, <2>1
  <2>5. InOrder(list, S, ahead) /\ InOrder(sorted, S, ahead)
    BY <2>2, <2>3, <2>4 DEF InOrder
  <2>6. QED BY <2>4, <2>5, ListedOnce
<1> DEFINE next == [k \in 0..n |-> IF k = 0 THEN ImgPos(0, 0, 0, 0) ELSE NextFrame(list[k], w)]
           Contiguous(k) == list[k].x = next[k - 1].x /\ list[k].y = next[k - 1].y
           Stops(m) == (\A k \in 1..m : Contiguous(k)) /\ (m = n \/ ~Contiguous(m + 1))
<1>10. CollectedOf(S, w) = SubSeq(list, 1, CHOOSE m \in 0..n : Stops(m))
  <2>1. Evaluated(Sorted(S, Before)) = list
    BY <1>9, EvaluatedIs DEF sorted
  <2>2. QED BY <1>1, <2>1 DEF CollectedOf
<1>11. \A k \in 1..n : Contiguous(k)
  <2> SUFFICES ASSUME NEW k \in 1..n PROVE Contiguous(k)
    OBVIOUS
  <2>1. CASE k = 1
    <3>1. 1 - 1 = 0 /\ 0 \in 0..n
      BY <1>2
    <3>0. next[0] = ImgPos(0, 0, 0, 0)
      BY <3>1, Zenon
    <3>2. ImgPos(0, 0, 0, 0).x = 0 /\ ImgPos(0, 0, 0, 0).y = 0
      BY DEF ImgPos
    <3>3. next[k - 1].x = 0 /\ next[k - 1].y = 0
      BY <2>1, <3>0, <3>1, <3>2, Zenon
    <3>4. QED BY <1>2, <2>1, <3>3, Zenon
  <2>2. CASE k # 1
    <3>1. PICK l \in 1..(n - 1) : k = l + 1
      <4>1. k - 1 \in 1..(n - 1) /\ k = (k - 1) + 1
        BY <1>2, <2>2
      <4>2. QED BY <4>1
    <3>2. k - 1 = l /\ l \in 0..n /\ l # 0
      BY <1>2, <3>1
    <3>3. next[k - 1] = NextFrame(list[l], w)
      BY <3>2
    <3>4. list[k].x = NextFrame(list[l], w).x /\ list[k].y = NextFrame(list[l], w).y
      BY <1>2, <3>1
    <3>5. QED BY <3>3, <3>4
  <2>3. QED BY <2>1, <2>2
<1> HIDE DEF Contiguous
<1>12. n \in 0..n /\ Stops(n) /\ \A m \in 0..n : Stops(m) => m = n
  <2>1. \A m \in 0..n : m = n \/ m + 1 \in 1..n
    BY <1>2
  <2>2. QED BY <1>2, <1>11, <2>1
<1> HIDE DEF Stops
<1>13. (CHOOSE m \in 0..n : Stops(m)) = n
  BY <1>12
<1>14. SubSeq(list, 1, n) = list
  BY <1>1, <1>2
<1>15. collect_contiguous_fragments(done, w) = CollectedOf(ElementsOf(done), w)
  BY DEF collect_contiguous_fragments, CollectedOf, ElementsOf
<1>16. QED BY <1>1, <1>10, <1>13, <1>14, <1>15
=============================================================================
