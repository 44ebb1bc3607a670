------------------------------ MODULE Headers ------------------------------
(***************************************************************************)
(* The header of a coded segment (io/headers.hpp, io/ccsds_protocol.cpp    *)
(* and the file protocol around it): what the encoder puts in, field by    *)
(* field, and what the decoder gets out.  A field keeps only the bits it   *)
(* is wide.                                                                *)
(***************************************************************************)
EXTENDS Integers, Sequences

\* Mutation: a field takes what it is given.
FieldUnmasked(value, width) == value

Field(value, width) == value % 2^width

max_byte_limit == 2^27
default_shifts == <<3, 3, 3, 2, 2, 2, 1, 1, 1, 0>>
stage_4 == 3

\* A header nothing is set in.
HeaderPart_1A == [StartImgFlag |-> FALSE, EndImgFlag |-> FALSE, SegmentCount |-> 1,
                  BitDepthDC |-> 0, BitDepthAC |-> 0,
                  Part2Flag |-> FALSE, Part3Flag |-> FALSE, Part4Flag |-> FALSE]
HeaderPart_1B == [PadRows |-> 0]
HeaderPart_2 == [SegByteLimit |-> 0, DCStop |-> FALSE, BitPlaneStop |-> 0,
                 StageStop |-> stage_4, UseFill |-> FALSE]
HeaderPart_3 == [S |-> 0, OptDCSelect |-> TRUE, OptACSelect |-> TRUE]
HeaderPart_4 == [DWTtype |-> "fdwt", ExtendedPixelBitDepthFlag |-> FALSE,
                 SignedPixels |-> FALSE, PixelBitDepth |-> 1, ImageWidth |-> 0,
                 TransposeImg |-> FALSE, CustomWtFlag |-> FALSE,
                 CustomWt |-> [n \in 1..10 |-> 0]]
EmptyHeader == [p1a |-> HeaderPart_1A, p1b |-> HeaderPart_1B, p2 |-> HeaderPart_2,
                p3 |-> HeaderPart_3, p4 |-> HeaderPart_4]

----------------------------------------------------------------------------
(* What the encoder sets. *)

\* ccsds_protocol: the header of a segment.
ccsds_protocol(seg, index) ==
  [EmptyHeader EXCEPT !.p1a.SegmentCount = Field(index, 8),
                      !.p1a.BitDepthDC = Field(seg.bdepthDc, 5),
                      !.p1a.BitDepthAC = Field(seg.bdepthAc, 5)]

set_first(header, value) == [header EXCEPT !.p1a.StartImgFlag = value]

set_last(header, padding) ==
  [header EXCEPT !.p1a.EndImgFlag = TRUE, !.p1b.PadRows = Field(padding, 3)]

set_segment_params(header, params) ==
  [header EXCEPT !.p1a.Part3Flag = TRUE,
                 !.p3 = [S |-> Field(params.size, 20),
                         OptDCSelect |-> ~params.heuristic_quant_DC,
                         OptACSelect |-> ~params.heuristic_bdepth_AC]]

\* A stop is only told if there is one.
set_compression_params(header, params) ==
  [header EXCEPT !.p1a.Part2Flag = TRUE,
                 !.p2 = [SegByteLimit |-> Field(params.seg_byte_limit, 27),
                         UseFill |-> params.use_fill,
                         DCStop |-> params.early_termination /\ params.DC_stop,
                         BitPlaneStop |-> IF params.early_termination
                                            THEN Field(params.bplane_stop, 5) ELSE 0,
                         StageStop |-> IF params.early_termination
                                         THEN Field(params.stage_stop, 2) ELSE stage_4]]

\* set_PixelBitDepth: depths of more than four bits have a flag of their own,
\* 16 not among them.
PixelBitDepth(part, bdepth) ==
  [part EXCEPT !.ExtendedPixelBitDepthFlag = bdepth > 16, !.PixelBitDepth = bdepth % 16]

\* set_CustomWt: the weights are stored, and their flag is never raised.
set_CustomWt(part, shifts) ==
  [part EXCEPT !.CustomWtFlag = IF shifts = default_shifts THEN FALSE ELSE @,
               !.CustomWt = [n \in 1..10 |-> Field(shifts[n], 2)]]

init_session(header, session, segment, compression) ==
  LET part == [PixelBitDepth(header.p4, session.pixel_bdepth) EXCEPT
                 !.DWTtype = session.dwt_type,
                 !.SignedPixels = session.signed_pixel,
                 !.ImageWidth = Field(session.img_width, 20),
                 !.TransposeImg = session.transpose]
      weighted == IF session.dwt_type = "idwt" THEN set_CustomWt(part, session.shifts)
                                               ELSE [part EXCEPT !.CustomWtFlag = FALSE]
  IN set_compression_params(
       set_segment_params(
         [header EXCEPT !.p1a.StartImgFlag = TRUE, !.p1a.Part4Flag = TRUE, !.p4 = weighted],
         segment),
       compression)

\* header_size: 1A is three bytes, 1B one, 2 five, 3 three and 4 eight.
header_size(header) ==
  3 + (IF header.p1a.EndImgFlag THEN 1 ELSE 0) + (IF header.p1a.Part2Flag THEN 5 ELSE 0)
    + (IF header.p1a.Part3Flag THEN 3 ELSE 0) + (IF header.p1a.Part4Flag THEN 8 ELSE 0)

----------------------------------------------------------------------------
(* Writing and reading. *)

\* commit: part 1A and the parts it announces are written, the others are not.
commit(header) ==
  [p1a |-> header.p1a,
   p1b |-> IF header.p1a.EndImgFlag THEN header.p1b ELSE HeaderPart_1B,
   p2 |-> IF header.p1a.Part2Flag THEN header.p2 ELSE HeaderPart_2,
   p3 |-> IF header.p1a.Part3Flag THEN header.p3 ELSE HeaderPart_3,
   p4 |-> IF header.p1a.Part4Flag THEN header.p4 ELSE HeaderPart_4]

\* commit: the byte limit the segment is coded under.
byte_limit(params) ==
  IF params.early_termination THEN params.seg_byte_limit ELSE max_byte_limit

\* file_protocol_header: 32 bytes, the header of the segment at their end.
file_header_size == 32
file_headers_area == 19
headers_offset(header) == file_header_size - header_size(header)

get_segment_params(header) ==
  [size |-> header.p3.S, heuristic_quant_DC |-> ~header.p3.OptDCSelect,
   heuristic_bdepth_AC |-> ~header.p3.OptACSelect]

\* A limit of 2^27 does not fit its field and is zero there.
get_compression_params(header) ==
  LET stop == header.p2.DCStop \/ header.p2.BitPlaneStop # 0 \/ header.p2.StageStop # stage_4
  IN [seg_byte_limit |-> IF header.p2.SegByteLimit = 0 THEN max_byte_limit
                                                       ELSE header.p2.SegByteLimit,
      bplane_stop |-> header.p2.BitPlaneStop, stage_stop |-> header.p2.StageStop,
      DC_stop |-> header.p2.DCStop, use_fill |-> header.p2.UseFill,
      early_termination |-> stop]

get_PixelBitDepth(part) ==
  (IF part.ExtendedPixelBitDepthFlag THEN 16 ELSE 0) + part.PixelBitDepth

\* get_session_params: the rows of padding come from another segment.  The
\* code leaves custom_shifts uninitialised; it may be either.
get_session_params(header, custom_shifts) ==
  [dwt_type |-> header.p4.DWTtype, img_width |-> header.p4.ImageWidth,
   pixel_bdepth |-> get_PixelBitDepth(header.p4), signed_pixel |-> header.p4.SignedPixels,
   transpose |-> header.p4.TransposeImg, rows_pad_count |-> 0,
   custom_shifts |-> custom_shifts,
   shifts |-> IF header.p4.CustomWtFlag THEN header.p4.CustomWt
              ELSE IF header.p4.DWTtype = "idwt" THEN default_shifts
              ELSE [n \in 1..10 |-> 0]]
=============================================================================
