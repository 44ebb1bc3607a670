------------------------------ MODULE Pipeline ------------------------------
(***************************************************************************)
(* An image file through the program and back: the commands to compress    *)
(* and to restore (cli/commands/compress.cpp), the flows they consist of   *)
(* (cli/commands/core_environment.tpp), and the routines of                *)
(* core/samples/routines.tpp as the tasks of the flows.                    *)
(*                                                                         *)
(* A flow ends before the next one starts (TaskPool), and within a flow    *)
(* the tasks run in any order.  A task is one step: what tasks share are   *)
(* lists behind mutexes, to which a task has one access, and data that no  *)
(* task of the same flow writes.  The bits of a segment are not modelled   *)
(* here but in Codec: a coded segment is its coefficients.                 *)
(***************************************************************************)
EXTENDS Restoration, Session, Command, SequencesExt

CONSTANT Inputs
\* A sequence of requests: records of the image file, what it shows, one image per
\* channel, the parameters, and the number of threads: with one, tasks run in the
\* order in which they are handed in.

CONSTANT HeightsBehind   \* what may be found where there is no fragment (merge_subbands)

VARIABLES
  input,          \* the request's index
  flow,           \* the flow that runs
  queue,          \* its tasks that have not run
  registry,       \* the data that io_data_registry holds for the tasks
  session,        \* session_context::settings_session
  settings,       \* seg_settings and compr_settings of the channels
  fragments,      \* compression_data::subband_fragments, per channel
  merged,         \* the segmentation context made of them, per channel
  allocated,      \* allocated_segment_id, per channel
  descriptors,    \* compression_descriptors, per channel
  stored,         \* what is in the segment files
  decoded,        \* compression_data::tail, per channel
  contexts,       \* the segmentation contexts of the parts of the image, per channel
  restored,       \* compression_data::fragments, per channel
  images,         \* the result, per channel
  exported        \* the image file, as it is written to its sink

known == <<input, session, settings>>
transform_vars == <<fragments, merged>>
segment_vars == <<allocated, descriptors, stored, decoded>>
restore_vars == <<contexts, restored, images, exported>>
vars == <<flow, queue, registry, known, transform_vars, segment_vars, restore_vars>>

----------------------------------------------------------------------------
(* Requests. *)

Description(request) == get_image_description(request.file.header)
ValidRequest(request) ==
  /\ Accepted(request.file.header)
  /\ validate_parameters(request.params, Description(request))
SessionOf(request) == parse_session_settings(request.params, Description(request))
SegmentSettingsOf(request) == Parsed(request.params.segment, parse_segment_settings)
CompressionSettingsOf(request) == Parsed(request.params.stream, parse_compression_settings)

\* What an image file shows is of the size and has the channels that its header tells,
\* the first parameter set of segments is always there, and ids are not negative.
ASSUME RequestAssumption ==
  \A i \in DOMAIN Inputs :
    LET request == Inputs[i]
        shown == Description(request)
    IN /\ request.file.header.ImageWidth \in Int /\ request.file.header.ImageHeight \in Int
       /\ Len(request.params.segment) \in Nat \ {0}
       /\ \A k \in 1..Len(request.params.segment) : request.params.segment[k].id \in Nat
       /\ ValidRequest(request) =>
            /\ shown.depth \in Nat /\ DOMAIN request.images = 1..shown.depth
            /\ \A channel \in DOMAIN request.images :
                 /\ request.images[channel].width = shown.width
                 /\ request.images[channel].height = shown.height

----------------------------------------------------------------------------
(* The image of a channel, as preprocess_image leaves it, and its frames. *)

Source(image, params) == IF params.img_transpose THEN transpose(image) ELSE image

LargestSize(seg_settings) ==
  Largest({seg_settings[k].value.size : k \in 1..Len(seg_settings)})

FramesOf(source, request) ==
  Frames(PaddedTo(source.width), PaddedTo(source.height), LargestSize(SegmentSettingsOf(request)))

\* A channel's image, its frames, what transform_fragment makes of each of them,
\* and the transform of the image in one piece, which properties compare.
Channel(image, request) ==
  LET source == Evaluated(Source(image, request.params))
      frames == FramesOf(source, request)
      shifts == SessionOf(request).shifts
  IN [loaded |-> image, source |-> source, frames |-> frames,
      fragments |-> [f \in {frames[i] : i \in 1..Len(frames)} |->
                       TransformFragment(source, f, shifts)],
      whole |-> WholeTransform(source, shifts)]

ChannelsOf(request) ==
  IF ValidRequest(request)
    THEN LET loaded == Evaluated(load_channels(request.file))
         IN [channel \in 1..Len(loaded) |-> Channel(loaded[channel], request)]
    ELSE <<>>

\* The channels of all requests: a constant, so that the model checker works it
\* out once and not in every step.
Prepared ==
  LET requests == Evaluated(Inputs)
  IN Evaluated([i \in DOMAIN requests |-> ChannelsOf(requests[i])])

Request == Inputs[input]
Channels == DOMAIN Request.images
Nothing == <<>>
ForAll(value) == [channel \in Channels |-> value]

----------------------------------------------------------------------------
(* Tasks. *)

Task(op, channel, cx) == [op |-> op, channel |-> channel, cx |-> cx]
TaskOfAll(op) == [channel \in Channels |-> Task(op, channel, Nothing)]

\* Task i leaves the queue, and what it makes takes its place in the order.
Runs(i, op) ==
  /\ i \in 1..Len(queue)
  /\ Request.threads > 1 \/ i = 1
  /\ queue[i].op = op
Without(i) == RemoveAt(queue, i)

\* Mutation: data is not let go.
KeptData(held, data) == held

\* The registry's data: images, segments and restored parts of images, by
\* channel.  A handle finds its data wherever it is in the registry's list.
Image(channel) == [content |-> "image", channel |-> channel, object |-> 0]
Segment(channel, id) == [content |-> "segment", channel |-> channel, object |-> id]
Part(channel, frame) == [content |-> "part", channel |-> channel, object |-> frame.y]
free_descriptor(held, data) == held \ data

Init ==
  /\ input \in DOMAIN Inputs
  /\ flow = "validate"
  /\ queue = <<>>
  /\ registry = {}
  /\ session = Nothing
  /\ settings = Nothing
  /\ fragments = ForAll(<<>>)
  /\ merged = ForAll(Nothing)
  /\ allocated = ForAll([first |-> 0, second |-> 0])
  /\ descriptors = ForAll(<<>>)
  /\ stored = {}
  /\ decoded = ForAll(<<>>)
  /\ contexts = ForAll(<<>>)
  /\ restored = ForAll(<<>>)
  /\ images = ForAll(Nothing)
  /\ exported = Nothing

\* A flow follows when execute_flow has returned: all tasks have run.
NextFlow(from, to) == flow = from /\ queue = <<>> /\ flow' = to

\* The file or the parameters are not accepted.
Reject ==
  /\ NextFlow("validate", "rejected")
  /\ ~ValidRequest(Request)
  /\ UNCHANGED <<queue, registry, known, transform_vars, segment_vars, restore_vars>>

\* compress_command_handler, as far as the first flow.
Import ==
  /\ NextFlow("validate", "transform")
  /\ ValidRequest(Request)
  /\ registry' = {Image(channel) : channel \in Channels}
  /\ session' = SessionOf(Request)
  /\ settings' = ForAll([segment |-> SegmentSettingsOf(Request),
                                compression |-> CompressionSettingsOf(Request)])
  /\ queue' = TaskOfAll("preprocess_image")
  /\ UNCHANGED <<input, transform_vars, segment_vars, restore_vars>>

\* preprocess_image: every channel writes the width that all of them share.
PreprocessImage(i) ==
  /\ Runs(i, "preprocess_image")
  /\ LET channel == queue[i].channel
     IN \E prepared \in {Prepared[input][channel]} :
        /\ queue' = Without(i) \o [k \in 1..Len(prepared.frames) |->
                                     Task("transform_fragment", channel, prepared.frames[k])]
        /\ session' = IF session.transpose
                        THEN [session EXCEPT !.img_width = prepared.source.width]
                        ELSE session
  /\ UNCHANGED <<input, flow, registry, settings, transform_vars, segment_vars, restore_vars>>

TransformFragmentTask(i) ==
  /\ Runs(i, "transform_fragment")
  /\ LET channel == queue[i].channel
         frame == queue[i].cx
     IN fragments' = [fragments EXCEPT ![channel] =
                        Append(@, [frame |-> frame,
                                   subbands |-> Prepared[input][channel].fragments[frame]])]
  /\ queue' = Without(i)
  /\ UNCHANGED <<known, flow, registry, merged, segment_vars, restore_vars>>

\* preprocess_fragments: the fragments become one rectangle.  What is left of
\* them, the tail, would be the next one's; only its width is kept here.  (As
\* below, a result is bound by \E so that it is worked out only once.)
PreprocessFragments(i) ==
  /\ Runs(i, "preprocess_fragments")
  /\ LET channel == queue[i].channel
         width == PaddedTo(session.img_width)
         list == fragments[channel]
         SubbandsOf(frame) ==
           list[CHOOSE k \in 1..Len(list) : list[k].frame = frame].subbands
     IN \E frames \in {collect_contiguous_fragments([k \in 1..Len(list) |-> list[k].frame],
                                                    width)} :
        \E collected \in {Evaluated([k \in 1..Len(frames) |-> SubbandsOf(frames[k])])} :
          /\ \E behind \in IF ReadsBehind(collected, width) THEN HeightsBehind ELSE {0} :
               merged' = [merged EXCEPT ![channel] = merge_subbands(collected, width, behind)]
          /\ fragments' = [fragments EXCEPT ![channel] =
                             SelectSeq(list, LAMBDA f : f.frame \notin Range(frames))]
          /\ queue' = Append(Without(i), Task("assemble_segments", channel, Nothing))
          /\ registry' = free_descriptor(registry, {Image(channel)})
  /\ UNCHANGED <<known, flow, segment_vars, restore_vars>>

\* SegmentAssembler::apply for all blocks of the image.
Segments(subbands, shifts, segment_size) ==
  LET sizes == SegmentSizes(subbands[1].width * subbands[1].height, segment_size)
  IN [s \in 1..Len(sizes) |-> SegmentOf(subbands, shifts, (s - 1) * sizes[1], sizes[s])]

Pending(id) == [state |-> "pending", segment_id |-> id]

\* Mutation: ids are given from the lower bound of those allocated, as if the
\* bound were exclusive.
DispatchedLate(channel, segments, first_id) ==
  [k \in 1..Len(segments) |->
     [segment |-> segments[k], id |-> first_id + k,
      channel_start |-> k = 1, channel_end |-> k = Len(segments),
      image_start |-> k = 1 /\ channel = 1,
      image_end |-> k = Len(segments) /\ channel = Len(settings)]]

\* dispatch_segments: contexts for segments, with the ids behind the last ones.
Dispatched(channel, segments, first_id) ==
  [k \in 1..Len(segments) |->
     [segment |-> segments[k], id |-> first_id + k - 1,
      channel_start |-> k = 1, channel_end |-> k = Len(segments),
      image_start |-> k = 1 /\ channel = 1,
      image_end |-> k = Len(segments) /\ channel = Len(settings)]]

\* free_compressed_segment_data: the ids below the first one that is not done.
DoneLowerBound(list, bounds) ==
  CHOOSE id \in bounds.first..bounds.second :
    /\ \A k \in bounds.first..(id - 1) : list[k + 1].state = "done"
    /\ id = bounds.second \/ list[id + 1].state # "done"

\* assemble_segments: all segments get the size of the first one's settings.
\* Both it and dispatch_segments register the operations.
AssembleSegments(i) ==
  /\ Runs(i, "assemble_segments")
  /\ LET channel == queue[i].channel
         bounds == allocated[channel]
         size == SettingsAt(settings[channel].segment, 0).value.size
     IN \E segments \in {Evaluated(Segments(merged[channel].subbands, session.shifts, size))} :
        \E dispatched \in {Evaluated(Dispatched(channel, segments, bounds.second))} :
          LET registered == [k \in 1..Len(dispatched) |-> Pending(dispatched[k].id)]
          IN /\ allocated' = [allocated EXCEPT ![channel] =
                                [first |-> DoneLowerBound(descriptors[channel], bounds),
                                 second |-> bounds.second + Len(segments)]]
             /\ descriptors' = [descriptors EXCEPT ![channel] = @ \o registered \o registered]
             /\ queue' = Without(i) \o [k \in 1..Len(dispatched) |->
                                          Task("compress_segment", channel, dispatched[k])]
             /\ registry' = registry \cup
                  {Segment(channel, dispatched[k].id) : k \in 1..Len(dispatched)}
  /\ UNCHANGED <<known, flow, transform_vars, stored, decoded, restore_vars>>

\* start_operation and the end of its token's scope, in one step: the
\* descriptor at the segment's id.
Done(list, id) ==
  [list EXCEPT ![id + 1].state = IF @ = "pending" THEN "done" ELSE @]

CompressSegment(i) ==
  /\ Runs(i, "compress_segment")
  /\ LET channel == queue[i].channel
         cx == queue[i].cx
         header == SegmentHeader(cx, session, settings[channel].segment,
                                 settings[channel].compression)
     IN /\ stored' = stored \cup {[channel |-> channel, id |-> cx.id, header |-> header,
                                   body |-> cx.segment]}
        /\ descriptors' = [descriptors EXCEPT ![channel] = Done(@, cx.id)]
  /\ queue' = Without(i)
  /\ UNCHANGED <<known, flow, registry, transform_vars, allocated, decoded, restore_vars>>

----------------------------------------------------------------------------
(* Restoring.  It is a program of its own: all it has are the files. *)

\* load_segments: the files sorted by their names.
load_segments(files) ==
  Sorted(files, LAMBDA file, other : LessByNumber(FileName(file), FileName(other)))

\* What decoding makes of a segment's bits (Codec): the segment, its DC
\* coefficients unscaled, if size, depths and shifts are those it was coded with,
\* and otherwise something else.
DecodedSegment(file, size, shifts) ==
  LET body == file.body
      depths == file.header.p1a
      decodable == /\ size = body.size /\ shifts = body.bit_shifts
                   /\ depths.BitDepthDC = body.bdepthDc /\ depths.BitDepthAC = body.bdepthAc
      noise == [body EXCEPT !.size = size, !.plainDc = [j \in 1..size |-> 0],
                            !.data = [j \in 1..size |-> [c \in 1..63 |-> 0]],
                            !.quantizedDc = [j \in 1..(size - 1) |-> 0]]
  IN IF decodable
       THEN [body EXCEPT !.q = relu(@ - shifts[1]), !.bdepthDc = relu(@ - shifts[1]),
                         !.plainDc = [j \in 1..size |-> body.plainDc[j] \div 2^shifts[1]],
                         !.bit_shifts[1] = 0]
       ELSE noise

\* The division by the blocks of a row ends the program if there are none: the largest
\* width that is accepted does not fit its field, which holds zero then.
DecodeSegment(i) ==
  /\ Runs(i, "decode_segment")
  /\ queue[i].cx.file.header.p1a.EndImgFlag => LL3Width(session.img_width) > 0
  /\ LET channel == queue[i].channel
         cx == queue[i].cx
         size == SegmentSize(cx.file.header, settings[channel].segment, cx.id,
                             session.img_width)
     IN /\ decoded' = [decoded EXCEPT ![channel] =
                         Append(@, [id |-> cx.id,
                                    segment |-> DecodedSegment(cx.file, size, session.shifts)])]
        /\ descriptors' = [descriptors EXCEPT ![channel] = Done(@, cx.id)]
        /\ registry' = free_descriptor(registry, {Segment(channel, cx.id)})
  /\ queue' = Without(i)
  /\ UNCHANGED <<known, flow, transform_vars, allocated, stored, restore_vars>>

\* disassemble_segments: the segments, by id, become parts of the image.
DisassembleSegments(i) ==
  /\ Runs(i, "disassemble_segments")
  /\ LET channel == queue[i].channel
         sorted == Evaluated(Sorted(Range(decoded[channel]), LAMBDA s, t : s.id < t.id))
         width == PaddedTo(session.img_width) \div 8
     IN \E segments \in {[k \in 1..Len(sorted) |-> sorted[k].segment]} :
        \E values \in {BlockValues(segments)} :
        \E subbands \in {Evaluated(Unpacked(width, Cardinality(DOMAIN values), values))} :
        \E made \in {Evaluated(FragmentContexts(subbands))} :
          /\ contexts' = [contexts EXCEPT ![channel] = [k \in 1..Len(made) |-> made[k].frame]]
          /\ queue' = Without(i) \o [k \in 1..Len(made) |->
                                       Task("restore_image", channel, made[k])]
          /\ decoded' = [decoded EXCEPT ![channel] = <<>>]
  /\ UNCHANGED <<known, flow, registry, transform_vars, allocated, descriptors, stored,
                 restored, images, exported>>

\* The parts of a channel restored so far.
Parts(channel) == {Part(channel, restored[channel][k].frame) : k \in 1..Len(restored[channel])}

\* restore_image: the transformer has the default shifts unless it is told.
RestoreImage(i) ==
  /\ Runs(i, "restore_image")
  /\ LET channel == queue[i].channel
         shifts == IF session.custom_shifts THEN session.shifts ELSE default_shifts
         image == RestoredFragment(queue[i].cx, shifts, session.transpose)
     IN /\ restored' = [restored EXCEPT ![channel] =
                          Append(@, [frame |-> queue[i].cx.frame, image |-> image])]
        /\ registry' = registry \cup {Part(channel, queue[i].cx.frame)}
  /\ queue' = Without(i)
  /\ UNCHANGED <<known, flow, transform_vars, segment_vars, contexts, images, exported>>

PostprocessImage(i) ==
  /\ Runs(i, "postprocess_image")
  /\ LET channel == queue[i].channel
     IN /\ images' = [images EXCEPT ![channel] =
                        AssembledImage(restored[channel], session.img_width,
                                       session.rows_pad_count, session.transpose)]
        /\ restored' = [restored EXCEPT ![channel] = <<>>]
        /\ registry' = free_descriptor(registry, Parts(channel)) \cup {Image(channel)}
  /\ queue' = Without(i)
  /\ UNCHANGED <<known, flow, transform_vars, segment_vars, contexts, exported>>

----------------------------------------------------------------------------
(* The flows (flow_impl, restore_command_handler). *)

Compress ==
  /\ NextFlow("transform", "compress")
  /\ queue' = TaskOfAll("preprocess_fragments")
  /\ UNCHANGED <<registry, known, transform_vars, segment_vars, restore_vars>>

\* register_operation for the segments that handles stand for: every channel's descriptors.
Registered(channels, handles) ==
  LET Register(lists, handle) ==
        [lists EXCEPT ![handle.channel] = Append(@, Pending(handle.id))]
  IN Folded(Register, [channel \in 1..channels |-> <<>>], handles)

\* A new process: everything but the files is lost.  The settings are collected
\* from the headers and every segment is registered and handed to the pool.
\* Without a file there is no last header, and asking for its padding throws.
Restore ==
  /\ NextFlow("compress", "decompress")
  /\ stored # {}
  /\ \E custom_shifts \in BOOLEAN :
       LET files == load_segments(stored)
           headers == [k \in 1..Len(files) |-> files[k].header]
           collected == collect_decompression_session_params(headers, custom_shifts)
           At(k) == collected.handles[k]
       IN /\ session' = collected.session
          /\ settings' = [channel \in 1..Len(collected.segment) |->
                            [segment |-> collected.segment[channel],
                             compression |-> collected.compression[channel]]]
          /\ descriptors' = Registered(Len(collected.segment), collected.handles)
          /\ queue' = [k \in 1..Len(files) |->
                         Task("decode_segment", At(k).channel,
                              [id |-> At(k).id, file |-> files[k]])]
          /\ registry' = {Segment(At(k).channel, At(k).id) : k \in 1..Len(files)}
  /\ allocated' = ForAll([first |-> 0, second |-> 0])
  /\ UNCHANGED <<input, transform_vars, stored, decoded, restore_vars>>

Disassemble ==
  /\ NextFlow("decompress", "disassemble")
  /\ queue' = TaskOfAll("disassemble_segments")
  /\ UNCHANGED <<registry, known, transform_vars, segment_vars, restore_vars>>

Postprocess ==
  /\ NextFlow("disassemble", "postprocess")
  /\ queue' = TaskOfAll("postprocess_image")
  /\ UNCHANGED <<registry, known, transform_vars, segment_vars, restore_vars>>

\* export_image: the registry's data are the channels of the image.
Export ==
  /\ NextFlow("postprocess", "done")
  /\ exported' = store_image([channel \in 1..Cardinality(registry) |-> images[channel]])
  /\ registry' = {}
  /\ UNCHANGED <<queue, known, transform_vars, segment_vars, contexts, restored, images>>

Finished == flow \in {"done", "rejected"} /\ UNCHANGED vars

Next ==
  \/ \E i \in 1..Len(queue) :
       \/ PreprocessImage(i) \/ TransformFragmentTask(i)
       \/ PreprocessFragments(i) \/ AssembleSegments(i) \/ CompressSegment(i)
       \/ DecodeSegment(i) \/ DisassembleSegments(i) \/ RestoreImage(i) \/ PostprocessImage(i)
  \/ Reject \/ Import \/ Compress \/ Restore \/ Disassemble \/ Postprocess \/ Export
  \/ Finished

Spec == Init /\ [][Next]_vars

----------------------------------------------------------------------------
(* Properties. *)

OriginalSize(channel) ==
  LET image == Request.images[channel]
  IN IF Request.params.img_transpose THEN <<image.height, image.width>>
                                     ELSE <<image.width, image.height>>
OriginalShape(channel) ==
  LET size == OriginalSize(channel)
  IN <<PaddedTo(size[1]), PaddedTo(size[2])>>
Whole(channel) == Prepared[input][channel].whole

\* Frames of the transform do not wrap around.
FramesFit(channel) ==
  LET width == OriginalShape(channel)[1]
  IN width % Smaller(width, LargestSize(SegmentSettingsOf(Request))) = 0

FieldsFit(header) ==
  /\ header.p1a.SegmentCount \in 0..255
  /\ header.p1a.BitDepthDC \in 0..31 /\ header.p1a.BitDepthAC \in 0..31
  /\ header.p1b.PadRows \in 0..7
  /\ header.p2.SegByteLimit \in 0..(2^27 - 1)
  /\ header.p2.BitPlaneStop \in 0..31 /\ header.p2.StageStop \in 0..3
  /\ header.p3.S \in 0..(2^20 - 1)
  /\ header.p4.PixelBitDepth \in 0..15 /\ header.p4.ImageWidth \in 0..(2^20 - 1)
  /\ header_size(header) \in 3..file_headers_area

\* Types: flows, tasks and descriptors are what the code has, ids are allocated
\* upwards, and every field of a header keeps to its bits.
TypeOK ==
  /\ input \in DOMAIN Inputs
  /\ flow \in {"validate", "rejected", "transform", "compress", "decompress", "disassemble", "postprocess", "done"}
  /\ \A i \in 1..Len(queue) : queue[i].channel \in Channels
  /\ \A channel \in Channels :
       /\ allocated[channel].first \in 0..allocated[channel].second
       /\ \A k \in 1..Len(descriptors[channel]) :
            descriptors[channel][k].state \in {"pending", "done"}
  /\ \A file \in stored : FieldsFit(file.header)

Wrapped(channel, frame) ==
  LET shape == OriginalShape(channel)
      parts == decompose_frame(shape[1], shape[2], frame)
  IN {parts[k] : k \in 1..Len(parts)}
Inside(part, x, y) == /\ x \in part.x..(part.x + part.width - 1)
                      /\ y \in part.y..(part.y + part.height - 1)

\* The frames of a channel, wrapped and trimmed as preprocess_image leaves
\* them, take every block of the padded image exactly once.
FramesCover ==
  \A channel \in Channels :
    LET done == {fragments[channel][k].frame : k \in 1..Len(fragments[channel])}
        waiting == {queue[i].cx : i \in {i \in 1..Len(queue) :
                      queue[i].op = "transform_fragment" /\ queue[i].channel = channel}}
        parts == UNION {Wrapped(channel, frame) : frame \in done \cup waiting}
        shape == OriginalShape(channel)
    IN flow = "transform" /\ parts # {} =>
         \A x \in {8 * n : n \in 0..(shape[1] \div 8 - 1)},
            y \in {8 * n : n \in 0..(shape[2] \div 8 - 1)} :
           Cardinality({part \in parts : Inside(part, x, y)}) = 1

\* The fragment transformed last is, coefficient by coefficient, what the
\* transform of the whole image in one piece has there: frames, edges, overlaps
\* and the rows filled in at the bottom make no difference.
FragmentsExact ==
  \A channel \in Channels :
    fragments[channel] # <<>> =>
      LET fragment == fragments[channel][Len(fragments[channel])]
          shape == OriginalShape(channel)
          parts == decompose_frame(shape[1], shape[2], fragment.frame)
          Column(k) == IF k = 1 THEN 0 ELSE parts[1].width
      IN \A n \in 1..10, k \in 1..Len(parts) :
           LET scale == 2^Gen(n)
               part == parts[k]
           IN \A r \in 0..(part.height \div scale - 1), c \in 0..(part.width \div scale - 1) :
                fragment.subbands[n].at[r][Column(k) \div scale + c]
                  = Whole(channel)[n].at[part.y \div scale + r][part.x \div scale + c]

\* Where frames do not wrap around, the fragments of a channel are merged into
\* the subbands of the whole image, in whatever order their transforms ended,
\* and nothing is left of them.
MergedWhereFramesFit ==
  \A channel \in Channels :
    merged[channel] # Nothing /\ FramesFit(channel) =>
      /\ merged[channel] = [subbands |-> Whole(channel), tail_width |-> 0, past_end |-> FALSE]
      /\ fragments[channel] = <<>>

\* The comment in assemble_segments: what is segmented is a rectangular part of
\* the image as wide as the image, here all of it, whatever the frames.  It is made
\* of fragments that there are: the comment in merge_subbands on the height of what
\* crosses the right edge, "below works fine because dwt frame is no wider than the image".
MergedIsWhole ==
  \A channel \in Channels :
    merged[channel] # Nothing =>
      merged[channel].subbands = Whole(channel) /\ ~merged[channel].past_end

FilesOf(channel) == {file \in stored : file.channel = channel}
TasksOf(op, channel) ==
  {queue[i].cx : i \in {i \in 1..Len(queue) : queue[i].op = op /\ queue[i].channel = channel}}
DoneIds(channel) ==
  {id \in 0..(Len(descriptors[channel]) - 1) : descriptors[channel][id + 1].state = "done"}

\* A segment's operation is started once, under the descriptor at its own id,
\* and the ids of a channel are those allocated, each dispatched once: though
\* every operation is registered twice, the descriptors done are those of the
\* segments stored, and on restoring those of the segments decoded.
OperationOnce ==
  \A channel \in Channels :
    LET waiting == {cx.id : cx \in TasksOf("compress_segment", channel)}
        files == {file.id : file \in FilesOf(channel)}
    IN /\ flow = "compress" =>
            /\ waiting \cup files = 0..(allocated[channel].second - 1)
            /\ waiting \cap files = {}
            /\ DoneIds(channel) = files
       /\ flow = "decompress" =>
            DoneIds(channel) = {decoded[channel][k].id : k \in 1..Len(decoded[channel])}
       /\ \A k \in 1..Len(descriptors[channel]) :
            descriptors[channel][k].state = "done" => descriptors[channel][k].segment_id = k - 1

\* Where the coder stops, and what it may use.
Effective(params) ==
  <<params.seg_byte_limit, params.use_fill,
    IF params.early_termination THEN <<params.DC_stop, params.bplane_stop, params.stage_stop>>
                                ELSE <<FALSE, 0, 3>>>>

\* The decoder works with the encoder's settings, for every segment of every
\* channel: those of the session, known from its first header, the rows of
\* padding, known from a last one, and the settings in force for the segment,
\* whichever header told them.
SettingsTold ==
  flow \in {"decompress", "disassemble", "postprocess", "done"} =>
    /\ session = [SessionOf(Request) EXCEPT !.img_width = session.img_width,
                                       !.custom_shifts = session.custom_shifts]
    /\ \A channel \in Channels : session.img_width = OriginalSize(channel)[1]
    /\ \A file \in stored :
         LET told == settings[file.channel]
             segment == SettingsAt(told.segment, file.id).value
             original == SettingsAt(SegmentSettingsOf(Request), file.id).value
         IN /\ Effective(SettingsAt(told.compression, file.id).value)
                 = Effective(SettingsAt(CompressionSettingsOf(Request), file.id).value)
            /\ [segment EXCEPT !.size = original.size] = original

\* The decoder knows how many blocks each segment has, the last one's too, of
\* which only the whole number of rows in the image says how long it is.
SizesTold ==
  \A channel \in Channels : \A k \in 1..Len(decoded[channel]) :
    \E file \in FilesOf(channel) :
      /\ file.id = decoded[channel][k].id
      /\ file.body.size = decoded[channel][k].segment.size

\* The parts of an image that are restored on their own follow each other
\* without a gap or an overlap down to the last row of the padded image, and
\* each has the size of its frame.
RestoredFramesTile ==
  \A channel \in Channels :
    LET frames == contexts[channel]
    IN frames # <<>> =>
         /\ frames[1].y = 0
         /\ \A k \in 2..Len(frames) : frames[k].y = frames[k - 1].y + frames[k - 1].height
         /\ <<frames[1].width, frames[Len(frames)].y + frames[Len(frames)].height>>
              = OriginalShape(channel)
         /\ \A k \in 1..Len(restored[channel]) :
              LET part == restored[channel][k]
                  placed == Placed(part.frame, session.transpose)
              IN /\ part.image.width = placed.width
                 /\ part.image.height = placed.height

\* What tasks refer to is there when they run: an image until its fragments are
\* transformed, a segment until it is decoded, a part until the image is put
\* together.  And when a command ends nothing else is left: the segments
\* written, or the image to export, once for every channel.
RegistryExact ==
  /\ \A i \in 1..Len(queue) :
       LET channel == queue[i].channel
       IN /\ queue[i].op \in {"preprocess_image", "transform_fragment", "preprocess_fragments"}
               => Image(channel) \in registry
          /\ queue[i].op \in {"compress_segment", "decode_segment"}
               => Segment(channel, queue[i].cx.id) \in registry
  /\ \A channel \in Channels : Parts(channel) \subseteq registry
  /\ queue = <<>> =>
       /\ flow = "compress" => registry = {Segment(file.channel, file.id) : file \in stored}
       /\ flow = "postprocess" => registry = {Image(channel) : channel \in Channels}

\* A file's image is loaded as what the file shows, or is refused, and comes back
\* as it was, every pixel of every channel, in the file written in the end, in
\* whatever order the tasks of each flow ran (where frames do not wrap around,
\* and but for the tail that the sink keeps, FileSink).
ImageRestored ==
  /\ flow = "transform" => [channel \in DOMAIN Prepared[input] |-> Prepared[input][channel].loaded] = Request.images
  /\ flow = "done" /\ (\A channel \in Channels : FramesFit(channel)) =>
       images = Request.images /\ load_channels(exported) = images
=============================================================================
