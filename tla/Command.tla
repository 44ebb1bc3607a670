------------------------------ MODULE Command ------------------------------
(***************************************************************************)
(* What the command line makes of the user's request (cli/parameters,      *)
(* cli/commands/compress.cpp): the parameters that are valid for an image, *)
(* the settings of the session and of its segments, and the order in which *)
(* the files of segments are taken.                                        *)
(*                                                                         *)
(* Parameters are a record: type, shifts (<<>> for none) and frame of the  *)
(* wavelet transform, img_transpose, img_signed, and segment and stream,   *)
(* the parameter sets of segments, the first one and the subsequent ones.  *)
(***************************************************************************)
EXTENDS ImageFile, Wavelet

min_width == 17
min_height == 17
max_width == 2^20
max_scale_shift == 3
min_blocks_per_segment == 16
max_blocks_per_segment == 2 * 2^20
out_byte_limit == 2^27

\* The first set is for segment 0 and the others follow by id.
AscendingIds(sets) ==
  /\ sets[1].id = 0
  /\ \A k \in 2..Len(sets) : sets[k - 1].id < sets[k].id

ValidFrame(frame, width) ==
  /\ frame.width = 0 \/ frame.width >= min_width
  /\ frame.height = 0 \/ frame.height >= min_height
  /\ frame.width % 8 = 0 /\ frame.height % 8 = 0
  /\ frame.width <= PaddedTo(width)

\* validate_parameters: no request for the floating point transform passes,
\* with shifts or without.
validate_parameters(params, description) ==
  LET width == IF params.img_transpose THEN description.height ELSE description.width
      height == IF params.img_transpose THEN description.width ELSE description.height
  IN /\ description.depth > 0
     /\ width \in min_width..max_width /\ height >= min_height
     /\ params.type # "fdwt" /\ params.shifts # <<>>
     /\ \A n \in 1..Len(params.shifts) : params.shifts[n] \in 0..max_scale_shift
     /\ ValidFrame(params.frame, width)
     /\ AscendingIds(params.segment) /\ AscendingIds(params.stream)
     /\ \A k \in 1..Len(params.segment) :
          params.segment[k].size \in min_blocks_per_segment..max_blocks_per_segment
     /\ params.stream[1].byte_limit >= 19
     /\ \A k \in 1..Len(params.stream) :
          /\ params.stream[k].byte_limit \in 8..out_byte_limit
          /\ params.stream[k].stage_stop \in 0..4

----------------------------------------------------------------------------
(* compress_command_handler. *)

parse_session_settings(params, description) ==
  [dwt_type |-> params.type, img_width |-> description.width,
   pixel_bdepth |-> description.bdepth_static, signed_pixel |-> params.img_signed,
   transpose |-> params.img_transpose,
   rows_pad_count |-> PaddedTo(description.height) - description.height,
   custom_shifts |-> params.shifts # <<>>,
   shifts |-> IF params.shifts # <<>> THEN params.shifts ELSE [n \in 1..10 |-> 0]]

parse_segment_settings(set) ==
  [id |-> set.id,
   value |-> [size |-> set.size, heuristic_quant_DC |-> set.heuristic_DC,
              heuristic_bdepth_AC |-> set.heuristic_AC_bdepth]]

parse_compression_settings(set) ==
  [id |-> set.id,
   value |-> [seg_byte_limit |-> set.byte_limit, use_fill |-> set.fill,
              early_termination |-> FALSE, DC_stop |-> set.DC_stop,
              bplane_stop |-> set.bplane_stop, stage_stop |-> set.stage_stop]]

Parsed(sets, Parse(_)) == [k \in 1..Len(sets) |-> Parse(sets[k])]

----------------------------------------------------------------------------
(* load_segments. *)

Digits(number) ==
  LET f[n \in 0..number] == IF n < 10 THEN <<n>> ELSE Append(f[n \div 10], n % 10)
  IN f[number]

\* What the names of a session's files differ in: the numbers of the channel
\* and of the segment.  (The sink's number is behind them.)
separator == 10
FileName(file) ==
  Digits(file.channel - 1) \o <<separator>> \o Digits(file.id) \o <<separator>>

\* The order of names: where they begin to differ, the one with fewer digits
\* ahead comes first, and if there are as many, the one with the smaller digit.
LessByNumber(name, other) ==
  LET first == CHOOSE i \in 1..Len(name) :
                 name[i] # other[i] /\ \A j \in 1..(i - 1) : name[j] = other[j]
      DigitsAhead(s) == (CHOOSE i \in first..Len(s) :
                           s[i] = separator /\ \A j \in first..(i - 1) : s[j] # separator) - first
  IN \/ DigitsAhead(name) < DigitsAhead(other)
     \/ /\ DigitsAhead(name) = DigitsAhead(other) /\ DigitsAhead(other) > 0
        /\ name[first] < other[first]
=============================================================================
