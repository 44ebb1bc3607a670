----------------------------- MODULE MCPipeline -----------------------------
EXTENDS Pipeline

Pixel(r, c, seed, depth) ==
  (r * r * 37 + c * 101 + r * c * 13 + seed * 59) % 2^depth
Picture(w, h, seed, depth) == Bitmap(w, h, LAMBDA r, c : Pixel(r, c, seed, depth))

----------------------------------------------------------------------------
(* Files of other programs: kinds of headers, and the content laid out row by
   row and bit by bit from them.  Bits of no channel are one. *)

Header(size, w, h, offset, bpp, masks, colours) ==
  [Signature |-> "BM", reserved |-> 0, ImageOffset |-> offset,
   Size |-> offset + 4 * ((w * bpp + 31) \div 32) * (IF h < 0 THEN -h ELSE h),
   HeaderSize |-> size, ImageWidth |-> w, ImageHeight |-> h, PlaneCount |-> 1,
   BitsPerPixel |-> bpp, Compression |-> "bitfields", ColorTableItemCount |-> colours,
   MaskChannel |-> masks]
NoMasks == <<{}, {}, {}, {}>>

FileOf(header, masks, pictures) ==
  LET w == pictures[1].width
      h == pictures[1].height
      bytes == 4 * ((w * header.BitsPerPixel + 31) \div 32)
      gap == header.ImageOffset - 14 - header.HeaderSize
      \* The channel of every bit of a pixel, and the bit of the channel.
      place == Evaluated([b \in 0..(header.BitsPerPixel - 1) |->
                 IF \E z \in 1..Len(masks) : b \in masks[z]
                   THEN LET z == CHOOSE z \in 1..Len(masks) : b \in masks[z]
                        IN <<z, Cardinality({m \in masks[z] : m < b})>>
                   ELSE <<>>])
      PixelBit(r, c, at) == IF at = <<>> THEN 1 ELSE Bit(pictures[at[1]].at[r][c], at[2])
      FileBit(k, p) ==
        LET r == IF header.ImageHeight < 0 THEN k ELSE h - 1 - k
            c == p \div header.BitsPerPixel
        IN IF c >= w THEN 0
           ELSE PixelBit(r, c, place[header.BitsPerPixel - 1 - (p % header.BitsPerPixel)])
      FileByte(i) == Number([n \in 1..8 |-> FileBit(i \div bytes, 8 * (i % bytes) + n - 1)])
  IN [header |-> header,
      content |-> Evaluated([i \in 1..(gap + bytes * h) |->
                               IF i <= gap THEN 255 ELSE FileByte(i - gap - 1)])]

\* One channel, the palette skipped.
Grey(image) == FileOf(Header(core_v1, image.width, image.height, 26 + 6, 8, NoMasks, 0),
                      <<0..7>>, <<image>>)
\* Two channels, from the top down, of 17 and of 12 bits, three bits unused.
Duo(pictures) ==
  FileOf(Header(info_v3, pictures[1].width, -pictures[1].height, 70, 32,
                <<{}, 15..31, 0..11, {}>>, 0), <<15..31, 0..11>>, pictures)
Coloured(image) == FileOf(Header(info_v1, image.width, image.height, 54 + 8, 8, NoMasks, 2),
                          <<0..7>>, <<image>>)

----------------------------------------------------------------------------

SegmentSet(id, size, dc, ac) ==
  [id |-> id, size |-> size, heuristic_DC |-> dc, heuristic_AC_bdepth |-> ac]
StreamSet(id, limit, fill, planes) ==
  [id |-> id, byte_limit |-> limit, DC_stop |-> FALSE, bplane_stop |-> planes,
   stage_stop |-> 4, fill |-> fill]
OneSize(size) == <<SegmentSet(0, size, FALSE, TRUE)>>
NoLimit == <<StreamSet(0, 2^27, FALSE, 0)>>

Params(transposed, segment, stream) ==
  [type |-> "idwt", shifts |-> default_shifts, frame |-> [width |-> 0, height |-> 0],
   img_transpose |-> transposed, img_signed |-> FALSE, segment |-> segment, stream |-> stream]
RequestOf(pictures, file, params, threads) ==
  [images |-> pictures, file |-> file, params |-> params, threads |-> threads]
GreyRequest(image, params, threads) == RequestOf(<<image>>, Grey(image), params, threads)

\* The frames of this image wrap around its right edge.
Wrapping == GreyRequest(Picture(24, 66, 1, 8), Params(FALSE, OneSize(16), NoLimit), 4)

Duet == <<Picture(24, 88, 5, 17), Picture(24, 88, 6, 12)>>
Small == Picture(20, 18, 11, 1)

Requests ==
  << Wrapping,
    \* Two columns of frames, the last segment shorter than told.
    GreyRequest(Picture(32, 66, 2, 8), Params(FALSE, OneSize(16), NoLimit), 4),
    GreyRequest(Picture(37, 29, 3, 8), Params(TRUE, OneSize(16), NoLimit), 4),
    \* Several parts to restore, settings that change.
    GreyRequest(Picture(30, 150, 4, 8),
                Params(FALSE, <<SegmentSet(0, 32, FALSE, FALSE), SegmentSet(2, 32, TRUE, TRUE)>>,
                       <<StreamSet(0, 2^27, FALSE, 3), StreamSet(1, 100000, TRUE, 0)>>), 4),
    RequestOf(Duet, Duo(Duet),
            Params(FALSE, OneSize(24),
                   <<StreamSet(0, 2^27, TRUE, 0), StreamSet(1, 4096, FALSE, 0)>>), 4),
    \* Segments shorter than a row of blocks, and more than ten of them.
    GreyRequest(Picture(184, 49, 7, 8),
                Params(FALSE, OneSize(16) \o <<SegmentSet(200, 184, FALSE, TRUE)>>, NoLimit), 1),
    \* Refused: a colour table, and settings for a segment told twice.
    RequestOf(<<Small>>, Coloured(Small), Params(FALSE, OneSize(16), NoLimit), 1),
    GreyRequest(Small, Params(FALSE, OneSize(16), NoLimit \o NoLimit), 1) >>

\* (By way of another definition, TLC works the requests out only once.)
MCInputs == LET requests == Requests IN requests
\* Six frames of 16 by 16 pixels that wrap: where the last one is put, it crosses the
\* right edge.
MergeInputs == <<GreyRequest(Picture(24, 50, 8, 8), Params(FALSE, OneSize(16), NoLimit), 1)>>
=============================================================================
