------------------------------ MODULE Session ------------------------------
(***************************************************************************)
(* What the two ends of a session know (io/session_context.hpp,            *)
(* core/samples/routines.tpp): the settings in force for a segment, the    *)
(* headers that tell them and the settings the decoder collects from the   *)
(* headers.                                                                *)
(*                                                                         *)
(* Settings are a sequence of records of an id and a value, by id: a value *)
(* is in force from the segment with that id on.                           *)
(***************************************************************************)
EXTENDS Headers, BitWords

LL3Width(img_width) == (img_width + 7) \div 8

\* get_segment_settings, get_compression_settings.
SettingsAt(settings, id) ==
  LET n == CHOOSE k \in 1..Len(settings) :
             /\ settings[k].id <= id
             /\ k = Len(settings) \/ settings[k + 1].id > id
  IN [value |-> settings[n].value, strict_match |-> settings[n].id = id]

----------------------------------------------------------------------------
(* The header of a segment (compress_segment).  cx is the context: the segment,
   its id and whether it begins or ends the channel or begins the image. *)

\* Mutation: only the first segment of the image tells the coding settings.
BegunHeaderOnce(cx, session, segment, compression) ==
  LET header == ccsds_protocol(cx.segment, cx.id)
      first == set_first(header, cx.channel_start)
  IN IF cx.image_start THEN init_session(header, session, segment.value, compression.value)
     ELSE IF segment.strict_match THEN set_segment_params(first, segment.value) ELSE first

\* The first segment of the image tells everything, a later one what changes.
BegunHeader(cx, session, segment, compression) ==
  LET header == ccsds_protocol(cx.segment, cx.id)
      first == set_first(header, cx.channel_start)
      sized == IF segment.strict_match THEN set_segment_params(first, segment.value)
                                       ELSE first
  IN IF cx.image_start THEN init_session(header, session, segment.value, compression.value)
     ELSE IF compression.strict_match THEN set_compression_params(sized, compression.value)
     ELSE sized

\* Mutation: the last segment does not tell its size.
EndedHeaderUnsized(header, cx, session, segment) == set_last(header, session.rows_pad_count)

\* The last segment of a channel tells the padding and, if the decoder could
\* not work it out, how long it is.
EndedHeader(header, cx, session, segment) ==
  LET ended == set_last(header, session.rows_pad_count)
  IN IF segment.value.size > LL3Width(session.img_width)
       THEN set_segment_params(ended, [segment.value EXCEPT !.size = cx.segment.size])
       ELSE ended

SegmentHeader(cx, session, seg_settings, compr_settings) ==
  LET segment == SettingsAt(seg_settings, cx.id)
      begun == BegunHeader(cx, session, segment, SettingsAt(compr_settings, cx.id))
  IN commit(IF cx.channel_end THEN EndedHeader(begun, cx, session, segment) ELSE begun)

----------------------------------------------------------------------------
(* The decoder. *)

\* decode_segment: the blocks in front of segment id.
BlocksBefore(seg_settings, id) ==
  LET Next(k) == IF k = Len(seg_settings) THEN id ELSE seg_settings[k + 1].id
      Add(sum, k) == sum + seg_settings[k].value.size * (Next(k) - seg_settings[k].id)
  IN Folded(Add, 0, [k \in 1..Len(seg_settings) |-> k])

\* decode_segment: the size of a segment.  The last one ends where a row does.
SegmentSize(header, seg_settings, id, img_width) ==
  LET size == SettingsAt(seg_settings, id).value.size
      before == BlocksBefore(seg_settings, id)
      width == LL3Width(img_width)
  IN IF header.p1a.EndImgFlag THEN ((before + size) \div width) * width - before ELSE size

\* collect_decompression_session_params: what is known after the headers of
\* some handles.  A header with the first flag begins the next channel.
Uncollected == [session |-> <<>>, pads |-> <<>>, compression |-> <<>>, segment |-> <<>>,
                next_id |-> 0, handles |-> <<>>]

Collected(known, header, custom_shifts) ==
  LET first == header.p1a.StartImgFlag
      id == IF first THEN 0 ELSE known.next_id
      Begun(params) == IF first THEN Append(params, <<>>) ELSE params
      channel == Len(Begun(known.compression))
      Noted(params, told, value) ==
        IF told THEN [Begun(params) EXCEPT ![channel] = Append(@, [id |-> id, value |-> value])]
                ELSE Begun(params)
  IN [session |-> IF first /\ header.p1a.Part4Flag
                    THEN <<get_session_params(header, custom_shifts)>> ELSE known.session,
      pads |-> IF header.p1a.EndImgFlag /\ known.pads = <<>>
                 THEN <<header.p1b.PadRows>> ELSE known.pads,
      compression |-> Noted(known.compression, header.p1a.Part2Flag,
                            get_compression_params(header)),
      segment |-> Noted(known.segment, header.p1a.Part3Flag, get_segment_params(header)),
      next_id |-> id + 1,
      handles |-> Append(known.handles, [channel |-> channel, id |-> id])]

collect_decompression_session_params(headers, custom_shifts) ==
  LET known == Folded(LAMBDA k, header : Collected(k, header, custom_shifts),
                      Uncollected, headers)
  IN [known EXCEPT !.session = [known.session[1] EXCEPT !.rows_pad_count = known.pads[1]]]
=============================================================================
