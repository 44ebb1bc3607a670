------------------------------ MODULE ImageFile ------------------------------
(***************************************************************************)
(* Bitmap image files (cli/io/bmp): what the program makes of one and the  *)
(* one it writes.                                                          *)
(*                                                                         *)
(* A file is a record of its header and its content.  The header has the   *)
(* fields of all the headers that the file begins with, those that nothing *)
(* depends on left out; the content is the sequence of the bytes that      *)
(* follow.  A mask is the set of the bits of a pixel, the lowest one 0.    *)
(* Pixels are read and written with their highest bit first, as the code   *)
(* does it on its own streams of bits.                                     *)
(***************************************************************************)
EXTENDS Bitmaps, BitWords, FiniteSetsExt

core_v1 == 12
info_v1 == 40
info_v2 == 52
info_v3 == 56
info_v4 == 108
info_v5 == 124
file_header_bytes == 14
channel_num == 4

\* The headers are as long as HeaderSize says: each kind includes the ones below.
bmp_header_size(header) == file_header_bytes + header.HeaderSize
if_contains_dib_header(header, type) == header.HeaderSize # core_v1 /\ type <= header.HeaderSize

\* The headers that can be read: what their constructors do not refuse
\* (header_invalid), and of those the files that hold plain pixels.
bitmap_file_header(header) ==
  header.Signature = "BM" /\ header.reserved = 0 /\ header.ImageOffset <= header.Size

bitmap_core_v1_header(header) == header.HeaderSize = core_v1 /\ header.BitsPerPixel <= 64

bitmap_core_v2_header(header) ==
  /\ header.HeaderSize \in {info_v1, info_v2, info_v3, info_v4, info_v5}
  /\ header.BitsPerPixel <= 32

bitmap_info_v1_header(header) ==
  /\ header.Compression \in {"rgb", "cmyk", "bitfields", "alpha_bitfields"}
  /\ header.ColorTableItemCount = 0

Accepted(header) ==
  /\ bitmap_file_header(header)
  /\ bitmap_core_v1_header(header) \/ bitmap_core_v2_header(header)
  /\ header.PlaneCount = 1
  /\ if_contains_dib_header(header, info_v1) => bitmap_info_v1_header(header)

\* The masks that the header tells.
ToldMasks(header) ==
  [z \in 1..channel_num |->
     IF if_contains_dib_header(header, IF z < channel_num THEN info_v2 ELSE info_v3)
       THEN header.MaskChannel[z] ELSE {}]

\* Without any: equal parts of the pixel, moved apart by a bit each.  (Without
\* masks a file of bit fields divides by zero; Accepted does not keep it out.)
DefaultMasks(header) ==
  LET num == IF header.Compression = "cmyk" THEN 4 ELSE 3
      bits == header.BitsPerPixel \div num
  IN [z \in 1..num |-> (num - z)..(num - z + bits - 1)]

\* The masks of the channels there are, and of the bits of none.
get_channel_masks(header) ==
  LET pixel == 0..(header.BitsPerPixel - 1)
      told == ToldMasks(header)
      masks == IF \A z \in 1..channel_num : told[z] = {} THEN DefaultMasks(header) ELSE told
      channels == SelectSeq(masks, LAMBDA mask : mask # {})
      used == UNION {channels[z] : z \in 1..Len(channels)}
  IN IF header.HeaderSize = core_v1
       THEN [channels |-> <<pixel>>, X |-> {}]
       ELSE [channels |-> channels, X |-> (used \ pixel) \cup (pixel \ used)]

get_image_description(header) ==
  LET masks == get_channel_masks(header).channels
  IN [width |-> magnitude(header.ImageWidth), height |-> magnitude(header.ImageHeight),
      depth |-> Len(masks),
      bdepth_static |-> Max({Cardinality(masks[z]) : z \in 1..Len(masks)})]

\* A file begins with the bottom row, unless its height is negative.
get_image_scan_spec(header) ==
  [width |-> magnitude(header.ImageWidth), height |-> magnitude(header.ImageHeight),
   x_step |-> IF header.ImageWidth < 0 THEN -1 ELSE 1,
   y_step |-> IF header.ImageHeight > 0 THEN -1 ELSE 1]

\* The place in the file of row or column i, of n, and the other way round.
ScanPlace(step, n, i) == IF step < 0 THEN n - 1 - i ELSE i

\* The bytes of a row: up to the next four, from the beginning of the pixels.
row_size(bits) == (((bits + 7) \div 8 + 3) \div 4) * 4

----------------------------------------------------------------------------
(* Reading. *)

\* load_channels: a channel is what its mask leaves of the pixels.
load_channels(file) ==
  LET header == file.header
      spec == get_image_scan_spec(header)
      masks == get_channel_masks(header).channels
      bpp == header.BitsPerPixel
      start == 8 * (header.ImageOffset - bmp_header_size(header))
      row == 8 * row_size(bpp * spec.width)
      ContentBit(p) == Bit(file.content[(p \div 8) + 1], 7 - (p % 8))
      PixelAt(r, c) == start + row * ScanPlace(spec.y_step, spec.height, r)
                             + bpp * ScanPlace(spec.x_step, spec.width, c)
      Masked(mask, low, high, pos) ==
        Number([i \in 1..(high - low + 1) |->
                  LET b == high + 1 - i
                  IN IF b \in mask THEN ContentBit(pos + bpp - 1 - b) ELSE 0])
      Channel(mask, low, high) ==
        Bitmap(spec.width, spec.height, LAMBDA r, c : Masked(mask, low, high, PixelAt(r, c)))
  IN [z \in 1..Len(masks) |-> Channel(masks[z], Min(masks[z]), Max(masks[z]))]

----------------------------------------------------------------------------
(* Writing. *)

bitmap_dynamic_bit_depth(image) ==
  bit_width(Max({image.at[r][c] : r \in 0..(image.height - 1), c \in 0..(image.width - 1)}))

\* Every channel gets as many bits as the deepest one, at least eight; if that
\* is more than 32 in all, the last one gets what it needs.
channel_bdepths(channels) ==
  LET n == Len(channels)
      dynamic == [z \in 1..n |-> bitmap_dynamic_bit_depth(channels[z])]
      balanced == Max({8} \cup {dynamic[z] : z \in 1..n})
  IN [z \in 1..n |-> IF z = n /\ balanced * n > 32 THEN dynamic[z] ELSE balanced]

Total(numbers) == Folded(LAMBDA m, n : m + n, 0, numbers)

\* The header for an image: the first channel has the highest bits of a pixel.
bmp_header_protocol(channels) ==
  LET n == Len(channels)
      depths == channel_bdepths(channels)
      pixel_depth == Total(depths)
      width == channels[1].width
      height == channels[1].height
      Shift(z) == Total([i \in 1..(n - z) |-> depths[z + i]])
      header_size == file_header_bytes + info_v5
  IN [Signature |-> "BM", reserved |-> 0,
      Size |-> header_size + row_size(pixel_depth * width) * height,
      ImageOffset |-> header_size,
      HeaderSize |-> info_v5, ImageWidth |-> width, ImageHeight |-> height,
      PlaneCount |-> 1, BitsPerPixel |-> pixel_depth,
      Compression |-> "bitfields", ColorTableItemCount |-> 0,
      MaskChannel |-> [z \in 1..channel_num |->
                         IF z <= n THEN Shift(z)..(Shift(z) + depths[z] - 1) ELSE {}]]

\* The rows of the file, one behind the other.
StoredContent(channels, header, spec, masks) ==
  LET bytes == row_size(header.BitsPerPixel * spec.width)
      PixelWord(r, c) ==
        Bits(0, Cardinality(masks.X))
          \o Concat([z \in 1..Len(channels) |->
                       Bits(channels[z].at[r][c], Cardinality(header.MaskChannel[z]))])
      RowWord(r) == Concat([c \in 1..spec.width |->
                              PixelWord(r, ScanPlace(spec.x_step, spec.width, c - 1))])
      rows == Evaluated([k \in 0..(spec.height - 1) |->
                           RowWord(ScanPlace(spec.y_step, spec.height, k))])
  IN Evaluated([i \in 1..(bytes * spec.height) |->
                  Number(extract(rows[(i - 1) \div bytes], 8 * ((i - 1) % bytes), 8))])

\* store_image, as far as the sink that it writes to: what of the content the sink
\* never hands on to the file is the subject of FileSink.
store_image(channels) ==
  LET header == bmp_header_protocol(channels)
  IN [header |-> header,
      content |-> StoredContent(channels, header, get_image_scan_spec(header),
                                get_channel_masks(header))]
=============================================================================
