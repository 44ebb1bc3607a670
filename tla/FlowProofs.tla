------------------------------- MODULE FlowProofs -------------------------------
(***************************************************************************)
(* What the flows of the two commands leave behind and find, for every     *)
(* image, all parameters that validation accepts and every order in which  *)
(* the tasks of a flow run (Pipeline).                                     *)
(*                                                                         *)
(* FlowInv has a part for each flow.  While an image is transformed, its   *)
(* channels' data and settings are what the request says, and the frames   *)
(* are FramesInv's.  While it is compressed, every channel is unmerged,    *)
(* merged or segmented (CompressInv): then the tasks that wait and the     *)
(* files written have the ids from 0 to one below the number of segments,  *)
(* which is the same for all channels (CountOf), each once; the headers    *)
(* mark the first and the last (FileMade).  While it is restored, the      *)
(* segments decoded and those that wait are those of the descriptors       *)
(* (DecodingOf), and the registry holds the data of those that wait.  At   *)
(* the end it holds the parts of images, and then the images.              *)
(*                                                                         *)
(* The steps between flows need that what the files tell is found again:   *)
(* that every channel has a setting for every segment and a size (Told,    *)
(* SessionTold), that the files name channels and segments without a gap   *)
(* (CompressEnds), and that sorting and registering them gives each        *)
(* segment its own descriptor (RegisteredOnce, TasksLoaded).  A width of   *)
(* 2^20, which validation accepts and the header cannot tell, is why the   *)
(* step that decodes the last segment has to have a row to divide by.      *)
(*                                                                         *)
(* OperationOnce and RegistryExact follow (OperationsOnce,                 *)
(* DataHeldExactly).                                                       *)
(***************************************************************************)
EXTENDS PipelineProofs

----------------------------------------------------------------------------
(* The flows. *)

Distinct(s) == \A j \in 1..Len(s), k \in 1..Len(s) : s[j] = s[k] => j = k
Tasks == ElementsOf(queue)
Alone(op, c) == Task(op, c, Nothing)
Fields == {"size"}

\* The session while an image is compressed: the width is set anew by those who transpose.
SessionWith(width) == [SessionOf(Request) EXCEPT !.img_width = width]
Settled == settings = ForAll([segment |-> SegmentSettingsOf(Request),
                              compression |-> CompressionSettingsOf(Request)])
Unwritten ==
  /\ allocated = ForAll([first |-> 0, second |-> 0])
  /\ descriptors = ForAll(<<>>) /\ stored = {}
Unread == decoded = ForAll(<<>>) /\ restored = ForAll(<<>>)

\* What the fragments of a channel are merged into, and the segments that makes.
SizeOf(i) == SettingsAt(SegmentSettingsOf(Inputs[i]), 0).value.size
RegionHeight(i) ==
  LET list == FrameList(i, 1)
  IN MergedRegion([k \in 1..Len(list) |-> Prepared[i][1].fragments[list[k]]],
                  PaddedTo(SourceWidth(Inputs[i]))).height
BlocksOf(i) == (PaddedTo(SourceWidth(Inputs[i])) \div 2^Gen(1)) * (RegionHeight(i) \div 2^Gen(1))
CountOf(i) == Len(SegmentSizes(BlocksOf(i), SizeOf(i)))

AsPrepared(c) ==
  /\ List(fragments[c], Len(fragments[c]))
  /\ \A f \in ElementsOf(fragments[c]) : f.subbands = Prepared[input][c].fragments[f.frame]

ValidateInv == queue = <<>> /\ registry = {} /\ Unwritten /\ Unread

TransformInv ==
  /\ Unwritten /\ Unread /\ Settled
  /\ registry = {Image(c) : c \in Channels}
  /\ \/ session = SessionWith(SourceWidth(Request))
     \/ /\ Request.params.img_transpose /\ session = SessionWith(Description(Request).width)
        /\ \A c \in Channels : Alone("preprocess_image", c) \in Tasks
  /\ \A c \in Channels :
       /\ AsPrepared(c)
       /\ Alone("preprocess_image", c) \in Tasks \/ Transformed(c) \cup Waiting(c) = FrameSetOf(c)

\* A channel's segments, by those that wait, those written and the descriptors.
CompressTasks(c) == {t \in Tasks : t.op = "compress_segment" /\ t.channel = c}
Ids(files) == {file.id : file \in files}
TaskIds(tasks) == {t.cx.id : t \in tasks}
Described(list, ids) ==
  /\ List(list, Len(list))
  /\ \A k \in 1..Len(list) :
       list[k] = [state |-> IF k - 1 \in ids THEN "done" ELSE "pending",
                  segment_id |-> list[k].segment_id]
TaskMade(t, c, n) ==
  /\ t.cx.channel_start <=> t.cx.id = 0
  /\ t.cx.channel_end <=> t.cx.id = n - 1
  /\ t.cx.image_start <=> t.cx.id = 0 /\ c = 1
  /\ Fields \subseteq DOMAIN t.cx.segment /\ t.cx.segment.size \in Int
FileMade(file, n, width) ==
  LET header == file.header
  IN /\ header.p1a.StartImgFlag <=> file.id = 0
     /\ header.p1a.EndImgFlag <=> file.id = n - 1
     /\ header.p1a.Part4Flag <=> file.id = 0 /\ file.channel = 1
     /\ header.p1a.Part4Flag => header.p4.ImageWidth = Field(width, 20)
     /\ file.id = 0 => header.p1a.Part3Flag
     /\ header.p1a.Part3Flag => header.p3.S \in Int
     /\ Fields \subseteq DOMAIN file.body
Coding(n, c, tasks, files, list) ==
  /\ Described(list, Ids(files)) /\ Len(list) = 2 * n
  /\ \A k \in 1..n : list[k].segment_id = k - 1
  /\ TaskIds(tasks) \cup Ids(files) = 0..(n - 1) /\ TaskIds(tasks) \cap Ids(files) = {}
  /\ \A t \in tasks, u \in tasks : t.cx.id = u.cx.id => t = u
  /\ \A f \in files, g \in files : f.id = g.id => f = g
  /\ \A t \in tasks : TaskMade(t, c, n)
  /\ \A f \in files : FileMade(f, n, SourceWidth(Request))

Fresh(c) ==
  /\ CompressTasks(c) = {} /\ FilesOf(c) = {}
  /\ allocated[c].second = 0 /\ descriptors[c] = <<>>
Unmerged(c) ==
  /\ Alone("preprocess_fragments", c) \in Tasks /\ Alone("assemble_segments", c) \notin Tasks
  /\ Fresh(c) /\ AsPrepared(c) /\ Transformed(c) = FrameSetOf(c)
Unassembled(c) ==
  /\ Alone("preprocess_fragments", c) \notin Tasks /\ Alone("assemble_segments", c) \in Tasks
  /\ Fresh(c) /\ merged[c].subbands[1].width * merged[c].subbands[1].height = BlocksOf(input)
Segmented(c) ==
  /\ Alone("preprocess_fragments", c) \notin Tasks /\ Alone("assemble_segments", c) \notin Tasks
  /\ allocated[c].second = CountOf(input)
  /\ Coding(CountOf(input), c, CompressTasks(c), FilesOf(c), descriptors[c])

CompressRegistry(tasks, files) ==
  {Image(t.channel) : t \in {t \in tasks : t.op = "preprocess_fragments"}}
    \cup {Segment(t.channel, t.cx.id) : t \in {t \in tasks : t.op = "compress_segment"}}
    \cup {Segment(file.channel, file.id) : file \in files}

CompressInv ==
  /\ Settled /\ Unread
  /\ session = SessionWith(SourceWidth(Request))
  /\ Distinct(queue)
  /\ \A t \in Tasks :
       /\ t.channel \in Channels
       /\ \/ t = Alone("preprocess_fragments", t.channel)
          \/ t = Alone("assemble_segments", t.channel)
          \/ t.op = "compress_segment"
  /\ IsFiniteSet(stored) /\ \A file \in stored : file.channel \in Channels
  /\ registry = CompressRegistry(Tasks, stored)
  /\ \A c \in Channels : Unmerged(c) \/ Unassembled(c) \/ Segmented(c)

\* Settings in which one is found for every segment, the size of which is a number.
Told(list) ==
  /\ List(list, Len(list)) /\ Len(list) > 0 /\ list[1].id = 0
  /\ \A k \in 1..Len(list) : list[k].id \in Nat /\ list[k].value.size \in Int

SegmentsDecoded(list) ==
  /\ List(list, Len(list))
  /\ \A s \in ElementsOf(list) : s.id \in Nat /\ s.segment.size \in Int
  /\ \A s \in ElementsOf(list), t \in ElementsOf(list) : s.id = t.id => s = t

DecodingOf(c) ==
  LET list == descriptors[c]
      ids == Ids(ElementsOf(decoded[c]))
  IN /\ Told(settings[c].segment)
     /\ SegmentsDecoded(decoded[c])
     /\ Described(list, ids) /\ \A k \in 1..Len(list) : list[k].segment_id = k - 1
     /\ ids \subseteq 0..(Len(list) - 1)
     /\ \A t \in Tasks : t.channel = c => t.cx.id \in 0..(Len(list) - 1) /\ t.cx.id \notin ids

DecompressInv ==
  /\ Distinct(queue) /\ restored = ForAll(<<>>) /\ session.img_width \in 0..(2^20 - 1)
  /\ \A t \in Tasks : /\ t.op = "decode_segment" /\ t.channel \in Channels
                      /\ Fields \subseteq DOMAIN t.cx.file.body
  /\ \A t \in Tasks, u \in Tasks : t.channel = u.channel /\ t.cx.id = u.cx.id => t = u
  /\ registry = {Segment(t.channel, t.cx.id) : t \in Tasks}
  /\ session.img_width = 0 => \E t \in Tasks : t.cx.file.header.p1a.EndImgFlag
  /\ \A c \in Channels : DecodingOf(c)

DoneNumbered(list) ==
  \A k \in 1..Len(list) : list[k].state = "done" => list[k].segment_id = k - 1
Numbers == \A c \in Channels : DoneNumbered(descriptors[c])
RestoredParts == UNION {Parts(c) : c \in Channels}

DisassembleInv ==
  /\ Numbers /\ registry = RestoredParts /\ session.img_width \in 1..(2^20 - 1)
  /\ \A t \in Tasks : t.op \in {"disassemble_segments", "restore_image"} /\ t.channel \in Channels
  /\ \A c \in Channels : SegmentsDecoded(decoded[c]) /\ List(restored[c], Len(restored[c]))

PostprocessInv ==
  /\ Numbers /\ Distinct(queue)
  /\ \A t \in Tasks : t.channel \in Channels /\ t = Alone("postprocess_image", t.channel)
  /\ \A c \in Channels : Alone("postprocess_image", c) \in Tasks \/ restored[c] = <<>>
  /\ registry = RestoredParts \cup
       {Image(c) : c \in {c \in Channels : Alone("postprocess_image", c) \notin Tasks}}

EndInv == queue = <<>> /\ Numbers /\ \A c \in Channels : restored[c] = <<>>

Flows ==
  {"validate", "rejected", "transform", "compress", "decompress", "disassemble", "postprocess",
   "done"}
Shapes ==
  /\ input \in DOMAIN Inputs /\ flow \in Flows
  /\ flow \notin {"validate", "rejected"} => ValidRequest(Request)
  /\ List(queue, Len(queue))
  /\ DOMAIN fragments = Channels /\ DOMAIN merged = Channels /\ DOMAIN allocated = Channels
  /\ DOMAIN descriptors = Channels /\ DOMAIN decoded = Channels /\ DOMAIN restored = Channels

FlowInv ==
  /\ Shapes
  /\ flow = "validate" => ValidateInv
  /\ flow = "transform" => TransformInv
  /\ flow = "compress" => CompressInv
  /\ flow = "decompress" => DecompressInv
  /\ flow = "disassemble" => DisassembleInv
  /\ flow = "postprocess" => PostprocessInv
  /\ flow \in {"rejected", "done"} => EndInv
----------------------------------------------------------------------------
(* Queues. *)

\* The task that runs leaves the queue, and the others stay.
LEMMA TasksLeft ==
  ASSUME NEW i, i \in 1..Len(queue), List(queue, Len(queue))
  PROVE  /\ List(Without(i), Len(queue) - 1)
         /\ ElementsOf(Without(i)) \subseteq Tasks
         /\ Tasks \subseteq ElementsOf(Without(i)) \cup {queue[i]}
         /\ queue[i] \in Tasks
         /\ Distinct(queue) => /\ Distinct(Without(i))
                               /\ ElementsOf(Without(i)) = Tasks \ {queue[i]}
<1>1. PICK S : S = ElementsOf(queue)
  OBVIOUS
<1>2. queue \in Seq(S) /\ Len(queue) \in Nat
  BY <1>1 DEF List
<1>3. PICK r : r = Without(i)
  OBVIOUS
<1>4. /\ r \in Seq(S) /\ Len(r) = Len(queue) - 1
      /\ \A k \in 1..(Len(queue) - 1) : r[k] = IF k < i THEN queue[k] ELSE queue[k + 1]
  BY <1>2, <1>3, WithoutIs
<1>5. ElementsOf(r) \subseteq Tasks /\ Tasks \subseteq ElementsOf(r) \cup {queue[i]}
  BY <1>1, <1>2, <1>3, WithoutElements DEF Tasks
<1>6. List(r, Len(queue) - 1)
  <2>1. List(r, Len(r))
    BY <1>4, ListIs
  <2>2. QED BY <1>4, <2>1
<1>7. queue[i] \in Tasks
  BY DEF Tasks, ElementsOf
<1>8. ASSUME Distinct(queue) PROVE Distinct(r) /\ ElementsOf(r) = Tasks \ {queue[i]}
  <2>1. \A j \in 1..Len(queue), k \in 1..Len(queue) : queue[j] = queue[k] => j = k
    BY <1>8 DEF Distinct
  <2>2. ASSUME NEW j \in 1..Len(r), NEW k \in 1..Len(r), r[j] = r[k] PROVE j = k
    <3>1. /\ j \in 1..(Len(queue) - 1) /\ k \in 1..(Len(queue) - 1)
          /\ j \in 1..Len(queue) /\ k \in 1..Len(queue)
          /\ j + 1 \in 1..Len(queue) /\ k + 1 \in 1..Len(queue)
      BY <1>2, <1>4
    <3>2. CASE j < i /\ k < i
      BY <1>4, <2>1, <2>2, <3>1, <3>2
    <3>3. CASE j < i /\ ~(k < i)
      BY <1>4, <2>1, <2>2, <3>1, <3>3
    <3>4. CASE ~(j < i) /\ k < i
      BY <1>4, <2>1, <2>2, <3>1, <3>4
    <3>5. CASE ~(j < i) /\ ~(k < i)
      BY <1>4, <2>1, <2>2, <3>1, <3>5
    <3>6. QED BY <3>2, <3>3, <3>4, <3>5
  <2>3. ASSUME NEW k \in 1..Len(r) PROVE r[k] # queue[i]
    <3>1. k \in 1..(Len(queue) - 1) /\ k \in 1..Len(queue) /\ k + 1 \in 1..Len(queue)
      BY <1>2, <1>4
    <3>2. CASE k < i
      BY <1>4, <2>1, <3>1, <3>2
    <3>3. CASE ~(k < i)
      <4>1. r[k] = queue[k + 1] /\ k + 1 # i
        BY <1>2, <1>4, <3>1, <3>3
      <4>2. QED BY <2>1, <3>1, <4>1
    <3>4. QED BY <3>2, <3>3
  <2>4. queue[i] \notin ElementsOf(r)
    BY <2>3 DEF ElementsOf
  <2>5. QED BY <1>5, <2>2, <2>4 DEF Distinct
<1>9. QED BY <1>3, <1>5, <1>6, <1>7, <1>8

\* Tasks that are made join those that are left.
LEMMA JoinedDistinct ==
  ASSUME NEW s, NEW t, NEW m, NEW n, List(s, m), List(t, n), Distinct(s), Distinct(t),
         ElementsOf(s) \cap ElementsOf(t) = {}
  PROVE  Distinct(s \o t)
<1>1. PICK r : r = s \o t
  OBVIOUS
<1>2. /\ List(r, m + n)
      /\ \A k \in 1..m : r[k] = s[k]
      /\ \A k \in 1..n : r[m + k] = t[k]
  <2>1. /\ List(s \o t, m + n)
        /\ \A k \in 1..m : (s \o t)[k] = s[k]
        /\ \A k \in 1..n : (s \o t)[m + k] = t[k]
        /\ ElementsOf(s \o t) = ElementsOf(s) \cup ElementsOf(t)
    BY ListJoined
  <2>2. QED BY <1>1, <2>1, Zenon
<1>3. /\ m \in Nat /\ n \in Nat /\ Len(r) = m + n /\ Len(s) = m /\ Len(t) = n
  BY <1>2 DEF List
<1>4. /\ \A j \in 1..m, k \in 1..m : s[j] = s[k] => j = k
      /\ \A j \in 1..n, k \in 1..n : t[j] = t[k] => j = k
      /\ \A j \in 1..m, k \in 1..n : s[j] # t[k]
  BY <1>3 DEF Distinct, ElementsOf
<1>5. ASSUME NEW j \in 1..(m + n), NEW k \in 1..(m + n), r[j] = r[k] PROVE j = k
  <2>1. \A l \in 1..(m + n) : l \in 1..m \/ \E p \in 1..n : l = m + p
    <3> SUFFICES ASSUME NEW l \in 1..(m + n), l \notin 1..m PROVE \E p \in 1..n : l = m + p
      OBVIOUS
    <3>1. l - m \in 1..n /\ l = m + (l - m)
      BY <1>3
    <3>2. QED BY <3>1
  <2>2. CASE j \in 1..m /\ k \in 1..m
    BY <1>2, <1>4, <1>5, <2>2
  <2>3. CASE j \in 1..m /\ k \notin 1..m
    BY <1>2, <1>4, <1>5, <2>1, <2>3
  <2>4. CASE j \notin 1..m /\ k \in 1..m
    BY <1>2, <1>4, <1>5, <2>1, <2>4
  <2>5. CASE j \notin 1..m /\ k \notin 1..m
    <3>1. PICK p \in 1..n, q \in 1..n : j = m + p /\ k = m + q
      BY <2>1, <2>5
    <3>2. r[m + p] = t[p] /\ r[m + q] = t[q]
      BY <1>2
    <3>3. t[p] = t[q]
      BY <1>5, <3>1, <3>2
    <3>4. QED BY <1>4, <3>1, <3>3
  <2>6. QED BY <2>2, <2>3, <2>4, <2>5
<1>6. QED BY <1>1, <1>3, <1>5 DEF Distinct

\* The tasks for all channels.
LEMMA TasksOfAll ==
  ASSUME NEW op, NEW n \in Nat, Channels = 1..n
  PROVE  /\ List(TaskOfAll(op), n) /\ Distinct(TaskOfAll(op))
         /\ ElementsOf(TaskOfAll(op)) = {Alone(op, c) : c \in Channels}
<1>1. PICK s : s = TaskOfAll(op)
  OBVIOUS
<1>2. s = [k \in 1..n |-> Alone(op, k)]
  BY <1>1 DEF TaskOfAll, Alone
<1>3. s = [k \in 1..n |-> s[k]] /\ \A k \in 1..n : s[k] = Alone(op, k)
  BY <1>2
<1>4. List(s, n)
  BY <1>3, ListMade
<1>5. Len(s) = n
  BY <1>4 DEF List
<1>6. \A k \in 1..n : Alone(op, k).channel = k
  BY DEF Alone, Task
<1>7. Distinct(s)
  <2>1. \A k \in 1..n : s[k].channel = k
    BY <1>3, <1>6
  <2>2. QED BY <1>5, <2>1 DEF Distinct
<1>8. ElementsOf(s) = {Alone(op, c) : c \in Channels}
  BY <1>3, <1>5 DEF ElementsOf
<1>9. QED BY <1>1, <1>4, <1>7, <1>8

----------------------------------------------------------------------------
(* The size of a fragment. *)

FragmentWidth(w, h, frame) ==
  LET parts == decompose_frame(w, h, frame)
  IN IF Len(parts) = 1 THEN parts[1].width \div 8
                       ELSE parts[1].width \div 8 + parts[2].width \div 8
FragmentHeight(w, h, frame) == decompose_frame(w, h, frame)[1].height \div 8

\* The DC subband of a rectangle has a coefficient for every block.
LEMMA RectangleSize ==
  ASSUME NEW image, NEW frame, NEW overlap, NEW shifts
  PROVE  LET subbands == TransformRectangle(image, frame, overlap, shifts)
         IN subbands[1].width = frame.width \div 8 /\ subbands[1].height = frame.height \div 8
<1>1. PICK quarters : TransformRectangle(image, frame, overlap, shifts)
                        = [n \in 1..10 |-> scaled(SubbandAt(quarters, frame, n), shifts[n])]
  BY DEF TransformRectangle
<1>2. PICK at : SubbandAt(quarters, frame, 1) = slice(at, 0, 0, frame.width \div 8, frame.height \div 8)
  <2>1. SubbandAt(quarters, frame, 1)
          = slice(quarters[3].ll, 0, 0, frame.width \div 8, frame.height \div 8)
    BY DEF SubbandAt
  <2>2. QED BY <2>1
<1>3. TransformRectangle(image, frame, overlap, shifts)[1]
        = scaled(SubbandAt(quarters, frame, 1), shifts[1])
  <2>1. 1 \in 1..10
    OBVIOUS
  <2>2. QED BY <1>1, <2>1, Zenon
<1>4. /\ SubbandAt(quarters, frame, 1).width = frame.width \div 8
      /\ SubbandAt(quarters, frame, 1).height = frame.height \div 8
  BY <1>2 DEF slice, Bitmap
<1>5. PICK s : s = SubbandAt(quarters, frame, 1)
  OBVIOUS
<1>6. /\ scaled(s, shifts[1]).width = s.width /\ scaled(s, shifts[1]).height = s.height
  BY DEF scaled, Bitmap
<1>7. QED BY <1>3, <1>4, <1>5, <1>6

\* A frame has one rectangle or two.
LEMMA RectanglesOf ==
  ASSUME NEW w \in Int, NEW h \in Int, NEW f, f.x \in Int, f.y \in Int, f.width \in Int,
         f.height \in Int
  PROVE  LET parts == decompose_frame(w, h, f)
         IN /\ Len(parts) \in {1, 2} /\ List(parts, Len(parts))
            /\ \A k \in 1..Len(parts) : parts[k].width \in Int /\ parts[k].height \in Int
<1> DEFINE first == ImgPos(f.x, f.y, Smaller(f.width, w - f.x), Smaller(f.height, h - f.y))
           second == ImgPos(0, first.y + first.height, f.width - first.width,
                            Smaller(f.height, h - (first.y + first.height)))
<1>1. \/ decompose_frame(w, h, f) = <<first>>
      \/ decompose_frame(w, h, f) = <<first, second>>
  BY DEF decompose_frame
<1>2. first.width \in Int /\ first.height \in Int /\ first.y \in Int
  BY DEF ImgPos, Smaller
<1>3. second.width \in Int /\ second.height \in Int
  <2>1. second.width = f.width - first.width
        /\ second.height = Smaller(f.height, h - (first.y + first.height))
    BY DEF ImgPos
  <2> HIDE DEF first, second
  <2>2. QED BY <1>2, <2>1 DEF Smaller
<1> HIDE DEF first, second
<1>4. CASE decompose_frame(w, h, f) = <<first>>
  <2>1. <<first>> \in Seq({first}) /\ Len(<<first>>) = 1 /\ <<first>>[1] = first
    OBVIOUS
  <2>2. List(<<first>>, 1)
    BY <2>1, ListIs
  <2>3. QED BY <1>2, <1>4, <2>1, <2>2
<1>5. CASE decompose_frame(w, h, f) = <<first, second>>
  <2>1. PICK t : t = <<first, second>>
    OBVIOUS
  <2>2. t \in Seq({first, second}) /\ Len(t) = 2 /\ t[1] = first /\ t[2] = second
    BY <2>1
  <2>3. List(t, 2)
    BY <2>2, ListIs
  <2>4. \A k \in 1..2 : k = 1 \/ k = 2
    OBVIOUS
  <2>5. QED BY <1>2, <1>3, <1>5, <2>1, <2>2, <2>3, <2>4
<1>6. QED BY <1>1, <1>4, <1>5

\* The size of a fragment depends on its frame and the image's size only.
LEMMA FragmentSize ==
  ASSUME NEW image, NEW f, NEW shifts, PaddedTo(image.width) \in Int, PaddedTo(image.height) \in Int,
         f.x \in Int, f.y \in Int, f.width \in Int, f.height \in Int
  PROVE  LET w == PaddedTo(image.width)
             h == PaddedTo(image.height)
             subbands == TransformFragment(image, f, shifts)
         IN /\ subbands[1].width = FragmentWidth(w, h, f) /\ FragmentWidth(w, h, f) \in Int
            /\ subbands[1].height = FragmentHeight(w, h, f) /\ FragmentHeight(w, h, f) \in Int
<1>1. PICK w, h : w = PaddedTo(image.width) /\ h = PaddedTo(image.height)
  OBVIOUS
<1>2. PICK parts : parts = decompose_frame(w, h, f)
  OBVIOUS
<1>3. /\ Len(parts) \in {1, 2}
      /\ \A k \in 1..Len(parts) : parts[k].width \in Int /\ parts[k].height \in Int
  BY <1>1, <1>2, RectanglesOf
<1> DEFINE Overlap(k) ==
             LET o == EdgeOverlap(w, h, parts[k])
             IN IF k = 1 THEN o ELSE [o EXCEPT !.left = 0]
           done == [k \in 1..Len(parts) |-> TransformRectangle(image, parts[k], Overlap(k), shifts)]
<1>4. TransformFragment(image, f, shifts) = JoinedParts(done)
  <2>1. TransformFragment(image, f, shifts) = JoinedParts(Evaluated(done))
    BY <1>1, <1>2 DEF TransformFragment
  <2>2. QED BY <2>1, EvaluatedIs
<1> HIDE DEF Overlap
<1>5. ASSUME NEW k \in 1..Len(parts)
      PROVE  /\ done[k][1].width = parts[k].width \div 8
             /\ done[k][1].height = parts[k].height \div 8
  BY RectangleSize
<1>6. Len(done) = Len(parts)
  BY <1>3
<1> HIDE DEF done
<1>7. CASE Len(parts) = 1
  BY <1>1, <1>2, <1>3, <1>4, <1>5, <1>6, <1>7 DEF JoinedParts, FragmentWidth, FragmentHeight
<1>8. CASE Len(parts) = 2
  <2>1. JoinedParts(done)[1] = Joined(done[1][1], done[2][1])
    BY <1>6, <1>8 DEF JoinedParts
  <2>2. PICK a, b : a = done[1][1] /\ b = done[2][1]
    OBVIOUS
  <2>3. Joined(a, b).width = a.width + b.width /\ Joined(a, b).height = a.height
    BY DEF Joined, Bitmap
  <2>4. 1 \in 1..Len(parts) /\ 2 \in 1..Len(parts)
    BY <1>8
  <2>5. QED BY <1>1, <1>2, <1>3, <1>4, <1>5, <1>8, <2>1, <2>2, <2>3, <2>4 DEF FragmentWidth, FragmentHeight
<1>9. QED BY <1>3, <1>7, <1>8

----------------------------------------------------------------------------
(* Folds. *)

FoldedBy(f, step, base, n) == f = [i \in 0..n |-> IF i = 0 THEN base ELSE step[<<f[i - 1], i>>]]

\* What is folded step by step exists.
LEMMA FoldExists ==
  ASSUME NEW n \in Nat, NEW S, NEW base \in S, NEW step \in [S \X (1..n) -> S]
  PROVE  \E f \in [0..n -> S] : FoldedBy(f, step, base, n)
<1> DEFINE Known == {m \in Nat : m <= n => \E f \in [0..m -> S] : FoldedBy(f, step, base, m)}
<1>1. 0 \in Known
  <2> DEFINE f == [i \in 0..0 |-> base]
  <2>1. f \in [0..0 -> S]
    OBVIOUS
  <2>2. \A i \in 0..0 : i = 0 /\ f[i] = base
    OBVIOUS
  <2>3. f = [i \in 0..0 |-> IF i = 0 THEN base ELSE step[<<f[i - 1], i>>]]
    BY <2>2
  <2> HIDE DEF f
  <2>4. QED BY <2>1, <2>3 DEF FoldedBy
<1>2. ASSUME NEW m \in Nat, m \in Known PROVE m + 1 \in Known
  <2> SUFFICES ASSUME m + 1 <= n
               PROVE  \E f \in [0..(m + 1) -> S] : FoldedBy(f, step, base, m + 1)
    OBVIOUS
  <2>1. PICK f \in [0..m -> S] : FoldedBy(f, step, base, m)
    BY <1>2
  <2>2. \A i \in 0..m : f[i] \in S /\ f[i] = IF i = 0 THEN base ELSE step[<<f[i - 1], i>>]
    <3>1. f = [i \in 0..m |-> IF i = 0 THEN base ELSE step[<<f[i - 1], i>>]]
      BY <2>1 DEF FoldedBy
    <3> DEFINE v == [i \in 0..m |-> IF i = 0 THEN base ELSE step[<<f[i - 1], i>>]]
    <3>2. \A i \in 0..m : v[i] = IF i = 0 THEN base ELSE step[<<f[i - 1], i>>]
      OBVIOUS
    <3>3. f = v
      BY <3>1
    <3> HIDE DEF v
    <3>4. QED BY <3>2, <3>3
  <2> DEFINE g == [i \in 0..(m + 1) |-> IF i = m + 1 THEN step[<<f[m], m + 1>>] ELSE f[i]]
  <2>3. /\ \A i \in 0..m : i \in 0..(m + 1) /\ i # m + 1 /\ g[i] = f[i]
        /\ m + 1 \in 0..(m + 1) /\ m \in 0..m /\ m + 1 # 0 /\ (m + 1) - 1 = m
        /\ g[m + 1] = step[<<f[m], m + 1>>]
        /\ m + 1 \in 1..n
    OBVIOUS
  <2>4. g[m + 1] \in S
    BY <2>2, <2>3
  <2>5. g \in [0..(m + 1) -> S]
    BY <2>2, <2>3, <2>4
  <2>6. g = [i \in 0..(m + 1) |-> g[i]]
    OBVIOUS
  <2> HIDE DEF g
  <2>7. ASSUME NEW i \in 0..(m + 1)
        PROVE  g[i] = IF i = 0 THEN base ELSE step[<<g[i - 1], i>>]
    <3>1. CASE i = m + 1
      <4>1. g[i - 1] = f[m]
        BY <2>3, <3>1
      <4>2. QED BY <2>3, <3>1, <4>1
    <3>2. CASE i # m + 1
      <4>1. i \in 0..m /\ (i # 0 => i - 1 \in 0..m)
        BY <3>2
      <4>2. QED BY <2>2, <2>3, <4>1
    <3>3. QED BY <3>1, <3>2
  <2>8. FoldedBy(g, step, base, m + 1)
    <3>1. g = [i \in 0..(m + 1) |-> IF i = 0 THEN base ELSE step[<<g[i - 1], i>>]]
      BY <2>6, <2>7
    <3>2. QED BY <3>1 DEF FoldedBy
  <2>9. QED BY <2>5, <2>8
<1>3. Known \subseteq Nat
  OBVIOUS
<1> HIDE DEF Known
<1>4. n \in Known
  <2>1. Known = Nat
    BY <1>1, <1>2, <1>3, Induction
  <2>2. QED BY <2>1
<1>5. QED BY <1>4 DEF Known

\* What starts in a set and stays in it from step to step ends there.
LEMMA FoldKept ==
  ASSUME NEW n \in Nat, NEW S, NEW f, f[0] \in S, \A i \in 1..n : f[i - 1] \in S => f[i] \in S
  PROVE  \A i \in 0..n : f[i] \in S
<1> DEFINE Known == {m \in Nat : m <= n => f[m] \in S}
<1>1. 0 \in Known
  OBVIOUS
<1>2. ASSUME NEW m \in Nat, m \in Known PROVE m + 1 \in Known
  <2>1. (m + 1) - 1 = m
    OBVIOUS
  <2>2. QED BY <1>2, <2>1
<1>3. Known \subseteq Nat
  OBVIOUS
<1> HIDE DEF Known
<1>4. Known = Nat
  BY <1>1, <1>2, <1>3, Induction
<1>5. QED BY <1>4 DEF Known

----------------------------------------------------------------------------
(* The part of the image that fragments fill. *)

RegionBehind(region, width, height, i, w) ==
  LET wide == region.width + 8 * width
      right_edge_reached == wide >= w
  IN [width |-> wide - zeropred(w, right_edge_reached),
      height |-> region.height + zeropred(8 * height, right_edge_reached),
      count |-> IF right_edge_reached THEN i ELSE region.count]
RegionStart == [width |-> 0, height |-> 0, count |-> 0]
RegionFold(f, F, n, w) ==
  f = [i \in 0..n |-> IF i = 0 THEN RegionStart
                      ELSE RegionBehind(f[i - 1], F[i][1].width, F[i][1].height, i, w)]

\* The fold, unfolded.
LEMMA RegionIs ==
  ASSUME NEW F, NEW w, Len(F) \in Nat
  PROVE  MergedRegion(F, w) = (CHOOSE f : RegionFold(f, F, Len(F), w))[Len(F)]
<1>1. PICK n : n = Len(F)
  OBVIOUS
<1>2. PICK s : s = [i \in 1..n |-> i]
  OBVIOUS
<1>3. Len(s) = n /\ \A i \in 1..n : s[i] = i
  BY <1>1, <1>2
<1> DEFINE Step(region, i) == RegionBehind(region, F[i][1].width, F[i][1].height, i, w)
           R(f) == f = [i \in 0..n |-> IF i = 0 THEN RegionStart ELSE Step(f[i - 1], s[i])]
<1>4. MergedRegion(F, w) = (CHOOSE f : R(f))[n]
  BY <1>1, <1>2, <1>3 DEF MergedRegion, Folded, RegionBehind, RegionStart
<1>5. ASSUME NEW f PROVE R(f) <=> RegionFold(f, F, n, w)
  <2> DEFINE a == [i \in 0..n |-> IF i = 0 THEN RegionStart ELSE Step(f[i - 1], s[i])]
             b == [i \in 0..n |-> IF i = 0 THEN RegionStart ELSE Step(f[i - 1], i)]
  <2>1. ASSUME NEW i \in 0..n, i # 0 PROVE s[i] = i
    BY <1>1, <1>3, <2>1
  <2> HIDE DEF Step
  <2>2. a = b
    BY <2>1
  <2>3. R(f) <=> f = a
    OBVIOUS
  <2>4. RegionFold(f, F, n, w) <=> f = b
    BY DEF RegionFold, Step
  <2>5. QED BY <2>2, <2>3, <2>4
<1> HIDE DEF R
<1>6. (CHOOSE f : R(f)) = CHOOSE f : RegionFold(f, F, n, w)
  BY <1>5
<1>7. QED BY <1>1, <1>4, <1>6

\* Fragments of the same sizes fill the same.
LEMMA RegionSame ==
  ASSUME NEW F, NEW G, NEW w, Len(F) \in Nat, Len(G) = Len(F),
         \A k \in 1..Len(F) : F[k][1].width = G[k][1].width /\ F[k][1].height = G[k][1].height
  PROVE  MergedRegion(F, w) = MergedRegion(G, w)
<1>1. PICK n : n = Len(F)
  OBVIOUS
<1>2. ASSUME NEW f PROVE RegionFold(f, F, n, w) <=> RegionFold(f, G, n, w)
  <2> DEFINE A(H, i) == IF i = 0 THEN RegionStart
                        ELSE RegionBehind(f[i - 1], H[i][1].width, H[i][1].height, i, w)
  <2>1. ASSUME NEW i \in 0..n PROVE A(F, i) = A(G, i)
    <3>1. CASE i = 0
      BY <3>1
    <3>2. CASE i # 0
      <4>1. i \in 1..n
        BY <1>1, <3>2
      <4>2. F[i][1].width = G[i][1].width /\ F[i][1].height = G[i][1].height
        BY <1>1, <4>1
      <4>3. QED BY <3>2, <4>2
    <3>3. QED BY <3>1, <3>2
  <2>2. RegionFold(f, F, n, w) <=> f = [i \in 0..n |-> A(F, i)]
    BY DEF RegionFold
  <2>3. RegionFold(f, G, n, w) <=> f = [i \in 0..n |-> A(G, i)]
    BY DEF RegionFold
  <2> HIDE DEF A
  <2>4. QED BY <2>1, <2>2, <2>3
<1>3. (CHOOSE f : RegionFold(f, F, n, w)) = CHOOSE f : RegionFold(f, G, n, w)
  BY <1>2
<1>4. QED BY <1>1, <1>3, RegionIs

\* It is so many rows high.
LEMMA RegionHigh ==
  ASSUME NEW F, NEW w \in Int, Len(F) \in Nat,
         \A k \in 1..Len(F) : F[k][1].width \in Int /\ F[k][1].height \in Int
  PROVE  MergedRegion(F, w).height \in Int
<1>1. PICK n \in Nat : n = Len(F)
  OBVIOUS
<1> DEFINE S == [width : Int, height : Int, count : Int]
           step == [p \in S \X (1..n) |->
                      RegionBehind(p[1], F[p[2]][1].width, F[p[2]][1].height, p[2], w)]
<1>2. ASSUME NEW r \in S, NEW i \in 1..n
      PROVE  RegionBehind(r, F[i][1].width, F[i][1].height, i, w) \in S
  <2>1. PICK wide \in Int, high \in Int : wide = F[i][1].width /\ high = F[i][1].height
    BY <1>1
  <2>2. PICK a \in Int, b \in Int, c \in Int : a = r.width /\ b = r.height /\ c = r.count
    OBVIOUS
  <2>3. i \in Int
    OBVIOUS
  <2>4. \A x \in Int, e \in BOOLEAN : zeropred(x, e) \in Int
    BY DEF zeropred
  <2> DEFINE reached == a + 8 * wide >= w
  <2>6. RegionBehind(r, wide, high, i, w)
          = [width |-> (a + 8 * wide) - zeropred(w, reached),
             height |-> b + zeropred(8 * high, reached),
             count |-> IF reached THEN i ELSE c]
    BY <2>2 DEF RegionBehind
  <2>5. reached \in BOOLEAN
    OBVIOUS
  <2> HIDE DEF reached
  <2>7. /\ (a + 8 * wide) - zeropred(w, reached) \in Int
        /\ b + zeropred(8 * high, reached) \in Int
        /\ (IF reached THEN i ELSE c) \in Int
    <3>1. zeropred(w, reached) \in Int /\ zeropred(8 * high, reached) \in Int
      BY <2>4, <2>5
    <3>2. QED BY <2>3, <3>1
  <2>8. QED BY <2>1, <2>6, <2>7
<1>3. step \in [S \X (1..n) -> S]
  BY <1>2
<1>4. RegionStart \in S
  BY DEF RegionStart
<1>5. \A r \in S, i \in 1..n :
        step[<<r, i>>] = RegionBehind(r, F[i][1].width, F[i][1].height, i, w)
  OBVIOUS
<1> HIDE DEF S, step
<1>6. PICK g \in [0..n -> S] : FoldedBy(g, step, RegionStart, n)
  BY <1>3, <1>4, FoldExists
<1>7. RegionFold(g, F, n, w)
  <2> DEFINE A(i) == IF i = 0 THEN RegionStart ELSE step[<<g[i - 1], i>>]
             B(i) == IF i = 0 THEN RegionStart
                     ELSE RegionBehind(g[i - 1], F[i][1].width, F[i][1].height, i, w)
  <2>1. ASSUME NEW i \in 0..n PROVE A(i) = B(i)
    <3>1. i # 0 => i \in 1..n /\ i - 1 \in 0..n
      OBVIOUS
    <3>2. i # 0 => g[i - 1] \in S
      BY <3>1
    <3>3. QED BY <1>5, <3>1, <3>2
  <2>2. g = [i \in 0..n |-> A(i)]
    BY <1>6 DEF FoldedBy
  <2>3. RegionFold(g, F, n, w) <=> g = [i \in 0..n |-> B(i)]
    BY DEF RegionFold
  <2> HIDE DEF A, B
  <2>4. QED BY <2>1, <2>2, <2>3
<1>8. PICK f : f = CHOOSE fold : RegionFold(fold, F, n, w)
  OBVIOUS
<1>9. RegionFold(f, F, n, w)
  BY <1>7, <1>8
<1>10. \A i \in 0..n : f[i] = IF i = 0 THEN RegionStart
                             ELSE RegionBehind(f[i - 1], F[i][1].width, F[i][1].height, i, w)
  <2> DEFINE v == [i \in 0..n |-> IF i = 0 THEN RegionStart
                     ELSE RegionBehind(f[i - 1], F[i][1].width, F[i][1].height, i, w)]
  <2>1. \A i \in 0..n : v[i] = IF i = 0 THEN RegionStart
                               ELSE RegionBehind(f[i - 1], F[i][1].width, F[i][1].height, i, w)
    OBVIOUS
  <2>2. f = v
    BY <1>9 DEF RegionFold
  <2> HIDE DEF v
  <2>3. QED BY <2>1, <2>2
<1>11. f[n] \in S
  <2>1. f[0] \in S
    <3>1. 0 \in 0..n
      OBVIOUS
    <3>2. f[0] = RegionStart
      BY <1>10, <3>1
    <3>3. QED BY <1>4, <3>2
  <2>2. ASSUME NEW i \in 1..n, f[i - 1] \in S PROVE f[i] \in S
    <3>1. i \in 0..n /\ i # 0
      OBVIOUS
    <3>2. f[i] = RegionBehind(f[i - 1], F[i][1].width, F[i][1].height, i, w)
      BY <1>10, <3>1
    <3>3. QED BY <1>2, <2>2, <3>2
  <2>3. \A i \in 0..n : f[i] \in S
    BY <2>1, <2>2, FoldKept
  <2>4. n \in 0..n
    OBVIOUS
  <2>5. QED BY <2>3, <2>4
<1>12. MergedRegion(F, w) = f[n]
  BY <1>1, <1>8, RegionIs
<1>13. QED BY <1>11, <1>12 DEF S

----------------------------------------------------------------------------
(* The segments of a channel. *)

\* A sequence of so many items, which may be a negative number.
LEMMA ListUpTo ==
  ASSUME NEW m \in Int, NEW s, s = [k \in 1..m |-> s[k]]
  PROVE  \E n \in Nat : 1..n = 1..m /\ List(s, n)
<1>1. PICK n \in Nat : 1..n = 1..m
  <2>1. CASE m \in Nat
    BY <2>1
  <2>2. CASE m < 0
    <3>1. 1..m = {} /\ 1..0 = {} /\ 0 \in Nat
      BY <2>2
    <3>2. QED BY <3>1
  <2>3. QED BY <2>1, <2>2
<1>2. s = [k \in 1..n |-> s[k]]
  BY <1>1
<1>3. List(s, n)
  BY <1>2, ListMade
<1>4. QED BY <1>1, <1>3

\* A power of two is positive: it is the number of subsets of a set.
LEMMA PowerPositive ==
  ASSUME NEW k \in Nat
  PROVE  2^k \in Nat \ {0}
<1>1. IsFiniteSet(1..k) /\ Cardinality(1..k) = k
  BY FS_Interval
<1>2. IsFiniteSet(SUBSET (1..k)) /\ Cardinality(SUBSET (1..k)) = 2^k
  BY <1>1, FS_SUBSET
<1>3. Cardinality(SUBSET (1..k)) \in Nat
  BY <1>2, FS_CardinalityType
<1>4. SUBSET (1..k) # {}
  OBVIOUS
<1>5. Cardinality(SUBSET (1..k)) # 0
  BY <1>2, <1>4, FS_EmptySet
<1>6. QED BY <1>2, <1>3, <1>5

\* The next power is twice as large: a set with one element more has the subsets
\* without it and, for each of them, one with it.
LEMMA PowerNext ==
  ASSUME NEW k \in Nat
  PROVE  2^(k + 1) = 2 * 2^k
<1> DEFINE A == SUBSET (1..k)
           With(T) == T \cup {k + 1}
           B == {With(T) : T \in A}
<1>1. /\ IsFiniteSet(1..k) /\ Cardinality(1..k) = k
      /\ IsFiniteSet(1..(k + 1)) /\ Cardinality(1..(k + 1)) = k + 1
  BY FS_Interval
<1>2. /\ IsFiniteSet(A) /\ Cardinality(A) = 2^k
      /\ Cardinality(SUBSET (1..(k + 1))) = 2^(k + 1)
  BY <1>1, FS_SUBSET
<1>3. SUBSET (1..(k + 1)) = A \cup B
  <2>1. ASSUME NEW T \in SUBSET (1..(k + 1)) PROVE T \in A \cup B
    <3>1. CASE k + 1 \in T
      <4>1. T \ {k + 1} \in A /\ T = With(T \ {k + 1})
        BY <3>1
      <4>2. QED BY <4>1
    <3>2. CASE ~(k + 1 \in T)
      BY <3>2
    <3>3. QED BY <3>1, <3>2
  <2>2. A \subseteq SUBSET (1..(k + 1))
    OBVIOUS
  <2>a. B \subseteq SUBSET (1..(k + 1))
    <3>1. ASSUME NEW T \in A PROVE With(T) \in SUBSET (1..(k + 1))
      OBVIOUS
    <3> HIDE DEF With, A
    <3>2. QED BY <3>1
  <2>3. A \cup B \subseteq SUBSET (1..(k + 1))
    <3> HIDE DEF A, B
    <3>1. QED BY <2>2, <2>a
  <2>4. SUBSET (1..(k + 1)) \subseteq A \cup B
    BY <2>1
  <2> HIDE DEF A, B
  <2>5. QED BY <2>3, <2>4
<1>4. A \cap B = {}
  OBVIOUS
<1>5. IsFiniteSet(B) /\ Cardinality(B) = Cardinality(A)
  <2> DEFINE f == [T \in A |-> With(T)]
  <2>1. f \in Bijection(A, B)
    <3>1. f \in [A -> B]
      OBVIOUS
    <3>2. \A S, T \in A : f[S] = f[T] => S = T
      <4>1. \A T \in A : T = With(T) \ {k + 1}
        OBVIOUS
      <4>2. QED BY <4>1
    <3>3. \A T \in B : \E S \in A : f[S] = T
      OBVIOUS
    <3> HIDE DEF A, B, f
    <3>4. QED BY <3>1, <3>2, <3>3 DEF Bijection, Injection, Surjection, IsInjective
  <2> HIDE DEF A, B, f
  <2>2. QED BY <1>2, <2>1, FS_Bijection DEF ExistsBijection
<1> HIDE DEF A, B
<1>6. Cardinality(A \cup B) = Cardinality(A) + Cardinality(B) - Cardinality(A \cap B)
  BY <1>2, <1>5, FS_Union
<1>7. Cardinality(A \cap B) = 0
  BY <1>4, FS_EmptySet
<1>8. 2^k \in Nat
  BY PowerPositive
<1>9. Cardinality(A \cup B) = 2^k + (2^k - 0)
  BY <1>2, <1>5, <1>6, <1>7
<1>10. 2^(k + 1) = 2^k + (2^k - 0)
  BY <1>2, <1>3, <1>9, Zenon
<1>11. QED BY <1>8, <1>10

FragmentsOf(i, channel) ==
  LET list == FrameList(i, channel)
  IN [k \in 1..Len(list) |-> Prepared[i][channel].fragments[list[k]]]

\* Of every channel the same frames have fragments of the same sizes.
LEMMA FragmentsAlike ==
  ASSUME NEW i \in DOMAIN Inputs, ValidRequest(Inputs[i]), NEW channel \in DOMAIN Inputs[i].images
  PROVE  /\ 1 \in DOMAIN Inputs[i].images
         /\ FrameList(i, channel) = FrameList(i, 1)
         /\ Len(FragmentsOf(i, channel)) \in Nat
         /\ Len(FragmentsOf(i, channel)) = Len(FragmentsOf(i, 1))
         /\ \A k \in 1..Len(FragmentsOf(i, channel)) :
              /\ FragmentsOf(i, channel)[k][1].width = FragmentsOf(i, 1)[k][1].width
              /\ FragmentsOf(i, channel)[k][1].height = FragmentsOf(i, 1)[k][1].height
              /\ FragmentsOf(i, channel)[k][1].width \in Int
              /\ FragmentsOf(i, channel)[k][1].height \in Int
<1> DEFINE request == Inputs[i]
           w == PaddedTo(SourceWidth(request))
           h == PaddedTo(SourceHeight(request))
<1>1. 1 \in DOMAIN request.images
  <2>1. Description(request).depth \in Nat /\ DOMAIN request.images = 1..Description(request).depth
    BY RequestAssumption
  <2>2. QED BY <2>1
<1>2. PICK list : list = FrameList(i, 1)
  OBVIOUS
<1>3. /\ list \in Seq(ElementsOf(list)) /\ Len(list) \in Nat
      /\ \A k \in 1..Len(list) : /\ list[k].x \in Int /\ list[k].y \in Int
                                 /\ list[k].width \in Int /\ list[k].height \in Int
  BY <1>1, <1>2, FrameChain DEF Chained
<1>4. w \in Int /\ h \in Int
  <2>1. SourceWidth(request) \in Nat \ {0} /\ SourceHeight(request) \in Nat \ {0}
    BY PreparedIs
  <2>2. QED BY <2>1, PaddedPositive
<1>5. ASSUME NEW c \in DOMAIN request.images
      PROVE  /\ FrameList(i, c) = list
             /\ Len(FragmentsOf(i, c)) = Len(list)
             /\ \A k \in 1..Len(list) :
                  /\ FragmentsOf(i, c)[k][1].width = FragmentWidth(w, h, list[k])
                  /\ FragmentsOf(i, c)[k][1].height = FragmentHeight(w, h, list[k])
                  /\ FragmentWidth(w, h, list[k]) \in Int /\ FragmentHeight(w, h, list[k]) \in Int
  <2>1. FrameList(i, c) = list
    <3>1. FrameList(i, c) = Frames(w, h, LargestSize(SegmentSettingsOf(request)))
      BY PreparedIs
    <3>2. FrameList(i, 1) = Frames(w, h, LargestSize(SegmentSettingsOf(request)))
      BY <1>1, PreparedIs
    <3>3. QED BY <1>2, <3>1, <3>2
  <2>2. PICK source, shifts : /\ source.width = SourceWidth(request)
                              /\ source.height = SourceHeight(request)
                              /\ Prepared[i][c].fragments
                                   = [f \in ElementsOf(list) |-> TransformFragment(source, f, shifts)]
    <3>1. /\ Prepared[i][c].source.width = SourceWidth(request)
          /\ Prepared[i][c].source.height = SourceHeight(request)
          /\ Prepared[i][c].fragments
               = [f \in ElementsOf(FrameList(i, c)) |->
                    TransformFragment(Prepared[i][c].source, f, SessionOf(request).shifts)]
      BY PreparedIs
    <3>2. QED BY <2>1, <3>1
  <2>3. FragmentsOf(i, c) = [k \in 1..Len(list) |-> Prepared[i][c].fragments[list[k]]]
    BY <2>1 DEF FragmentsOf
  <2>4. Len(FragmentsOf(i, c)) = Len(list)
    BY <1>3, <2>3
  <2>5. ASSUME NEW k \in 1..Len(list)
        PROVE  /\ FragmentsOf(i, c)[k][1].width = FragmentWidth(w, h, list[k])
               /\ FragmentsOf(i, c)[k][1].height = FragmentHeight(w, h, list[k])
               /\ FragmentWidth(w, h, list[k]) \in Int /\ FragmentHeight(w, h, list[k]) \in Int
    <3>1. list[k] \in ElementsOf(list)
      BY DEF ElementsOf
    <3>2. FragmentsOf(i, c)[k] = TransformFragment(source, list[k], shifts)
      BY <2>2, <2>3, <3>1
    <3>3. PaddedTo(source.width) = w /\ PaddedTo(source.height) = h
      BY <2>2
    <3>4. /\ list[k].x \in Int /\ list[k].y \in Int
          /\ list[k].width \in Int /\ list[k].height \in Int
      BY <1>3
    <3> HIDE DEF w, h
    <3>5. LET subbands == TransformFragment(source, list[k], shifts)
          IN /\ subbands[1].width = FragmentWidth(w, h, list[k])
             /\ FragmentWidth(w, h, list[k]) \in Int
             /\ subbands[1].height = FragmentHeight(w, h, list[k])
             /\ FragmentHeight(w, h, list[k]) \in Int
      BY <1>4, <3>3, <3>4, FragmentSize
    <3>6. QED BY <3>2, <3>5
  <2>6. QED BY <2>1, <2>4, <2>5
<1> HIDE DEF w, h
<1>6. QED BY <1>1, <1>2, <1>3, <1>5

\* What they are merged into, in blocks.
LEMMA MergedBlocks ==
  ASSUME NEW F, NEW w, NEW behind
  PROVE  LET subbands == merge_subbands(F, w, behind).subbands
         IN /\ subbands[1].width = w \div 2^Gen(1)
            /\ subbands[1].height = MergedRegion(F, w).height \div 2^Gen(1)
<1> DEFINE region == MergedRegion(F, w)
           frames == ImageFrames(F, w)
           Parts2(n, scale) ==
             Evaluated([k \in 1..region.count |->
               [x |-> frames[k].x \div scale, y |-> frames[k].y \div scale,
                subband |-> F[k][n],
                below |-> IF k = Len(F) THEN Smaller(behind, F[k][n].height)
                                        ELSE F[k + 1][n].height]])
           Merged(n, scale) ==
             MergedSubband(Parts2(n, scale), w \div scale, region.height \div scale)
<1>1. merge_subbands(F, w, behind).subbands = [n \in 1..10 |-> Merged(n, 2^Gen(n))]
  BY DEF merge_subbands
<1>2. merge_subbands(F, w, behind).subbands[1] = Merged(1, 2^Gen(1))
  <2> HIDE DEF Merged
  <2>1. QED BY <1>1
<1> HIDE DEF Parts2, region
<1>3. ASSUME NEW parts, NEW width, NEW height
      PROVE  /\ MergedSubband(parts, width, height).width = width
             /\ MergedSubband(parts, width, height).height = height
  BY DEF MergedSubband, Bitmap
<1>4. QED BY <1>2, <1>3 DEF region

\* All channels have as many blocks,
LEMMA BlocksCounted ==
  ASSUME NEW i \in DOMAIN Inputs, ValidRequest(Inputs[i]), NEW channel \in DOMAIN Inputs[i].images,
         NEW behind
  PROVE  LET subbands == merge_subbands(FragmentsOf(i, channel),
                                        PaddedTo(SourceWidth(Inputs[i])), behind).subbands
         IN /\ subbands[1].width * subbands[1].height = BlocksOf(i)
            /\ BlocksOf(i) \in Int
<1>1. PICK w \in Int : w = PaddedTo(SourceWidth(Inputs[i]))
  <2>1. SourceWidth(Inputs[i]) \in Nat \ {0}
    BY PreparedIs
  <2>2. QED BY <2>1, PaddedPositive
<1>2. PICK F, G : F = FragmentsOf(i, channel) /\ G = FragmentsOf(i, 1)
  OBVIOUS
<1>3. /\ Len(F) \in Nat /\ Len(G) = Len(F)
      /\ \A k \in 1..Len(F) : /\ F[k][1].width = G[k][1].width /\ F[k][1].height = G[k][1].height
                              /\ F[k][1].width \in Int /\ F[k][1].height \in Int
  BY <1>2, FragmentsAlike
<1>4. MergedRegion(F, w) = MergedRegion(G, w)
  BY <1>3, RegionSame
<1>5. MergedRegion(F, w).height \in Int
  BY <1>3, RegionHigh
<1>6. RegionHeight(i) = MergedRegion(G, w).height
  BY <1>1, <1>2 DEF RegionHeight, FragmentsOf
<1>7. PICK scale \in Nat \ {0} : scale = 2^Gen(1)
  <2>1. Gen(1) \in Nat
    BY DEF Gen
  <2>2. QED BY <2>1, PowerPositive
<1>8. PICK high \in Int : high = RegionHeight(i)
  BY <1>4, <1>5, <1>6
<1>9. BlocksOf(i) = (w \div scale) * (high \div scale)
  BY <1>1, <1>7, <1>8 DEF BlocksOf
<1>10. (w \div scale) * (high \div scale) \in Int
  OBVIOUS
<1>11. LET subbands == merge_subbands(F, w, behind).subbands
       IN subbands[1].width = w \div scale /\ subbands[1].height = high \div scale
  BY <1>4, <1>6, <1>7, <1>8, MergedBlocks
<1>12. QED BY <1>1, <1>2, <1>9, <1>10, <1>11

----------------------------------------------------------------------------
(* Settings. *)

\* Settings by segment, from the first one on.
ByIds(list) ==
  /\ List(list, Len(list)) /\ Len(list) > 0 /\ list[1].id = 0
  /\ \A k \in 1..Len(list) : list[k].id \in Nat

FoundAt(list, id, n) ==
  /\ SettingsAt(list, id).value = list[n].value
  /\ SettingsAt(list, id).strict_match <=> list[n].id = id
  /\ list[n].id <= id

\* For every segment there are some in force.
LEMMA SettingsFound ==
  ASSUME NEW list, ByIds(list), NEW id \in Nat
  PROVE  \E n \in 1..Len(list) : FoundAt(list, id, n)
<1>1. PICK m \in Nat : m = Len(list)
  BY DEF ByIds, List
<1>2. m > 0 /\ list[1].id = 0 /\ \A k \in 1..m : list[k].id \in Nat
  BY <1>1 DEF ByIds
<1> DEFINE Applies(k) == list[k].id <= id /\ (k = m \/ list[k + 1].id > id)
<1>3. \E k \in 1..m : Applies(k)
  <2>1. SUFFICES ASSUME \A k \in 1..m : ~Applies(k) PROVE FALSE
    OBVIOUS
  <2> DEFINE Known == {k \in Nat : k < m => list[k + 1].id <= id}
  <2>2. 0 \in Known
    <3>1. 0 + 1 = 1
      OBVIOUS
    <3>2. QED BY <1>2, <3>1
  <2>3. ASSUME NEW k \in Nat, k \in Known PROVE k + 1 \in Known
    <3> SUFFICES ASSUME k + 1 < m PROVE list[(k + 1) + 1].id <= id
      OBVIOUS
    <3>1. /\ list[k + 1].id <= id /\ k + 1 \in 1..m /\ k + 1 # m
          /\ (k + 1) + 1 \in 1..m
      BY <2>3, <1>1
    <3>2. ~(list[(k + 1) + 1].id > id)
      BY <2>1, <3>1
    <3>3. list[(k + 1) + 1].id \in Nat
      BY <1>2, <3>1
    <3>4. QED BY <3>2, <3>3
  <2>4. Known \subseteq Nat
    OBVIOUS
  <2> HIDE DEF Known
  <2>5. Known = Nat
    BY <2>2, <2>3, <2>4, Induction
  <2>6. m - 1 \in Nat /\ m - 1 < m /\ (m - 1) + 1 = m /\ m \in 1..m
    BY <1>2
  <2>7. list[(m - 1) + 1].id <= id
    BY <2>5, <2>6 DEF Known
  <2>8. Applies(m)
    BY <2>6, <2>7
  <2>9. QED BY <2>1, <2>6, <2>8
<1>4. PICK n : n = CHOOSE k \in 1..m : Applies(k)
  OBVIOUS
<1>5. n \in 1..m /\ Applies(n)
  BY <1>3, <1>4
<1>6. /\ SettingsAt(list, id).value = list[n].value
      /\ SettingsAt(list, id).strict_match <=> list[n].id = id
  BY <1>1, <1>4 DEF SettingsAt
<1>7. QED BY <1>1, <1>5, <1>6 DEF FoundAt

\* Settings with the sizes of segments, each of them a number.
LEMMA SizesFound ==
  ASSUME NEW list, Told(list), NEW id \in Nat
  PROVE  /\ SettingsAt(list, id).value.size \in Int
         /\ id = 0 => SettingsAt(list, id).strict_match
<1>1. ByIds(list)
  BY DEF Told, ByIds
<1>2. PICK n \in 1..Len(list) : FoundAt(list, id, n)
  BY <1>1, SettingsFound
<1>3. list[n].id \in Nat /\ list[n].value.size \in Int
  BY DEF Told
<1>4. QED BY <1>2, <1>3 DEF FoundAt

\* Those that are asked for have a size that is a positive number.
LEMMA SettingsAsked ==
  ASSUME NEW i \in DOMAIN Inputs, ValidRequest(Inputs[i])
  PROVE  /\ Told(SegmentSettingsOf(Inputs[i]))
         /\ SizeOf(i) \in Nat \ {0}
<1> DEFINE sets == Inputs[i].params.segment
           list == SegmentSettingsOf(Inputs[i])
<1>1. PICK m \in Nat \ {0} : m = Len(sets)
  BY RequestAssumption
<1>2. \A k \in 1..m : sets[k].id \in Nat
  BY <1>1, RequestAssumption
<1>3. validate_parameters(Inputs[i].params, Description(Inputs[i]))
  BY DEF ValidRequest
<1>4. /\ sets[1].id = 0
      /\ \A k \in 1..m : sets[k].size \in 16..(2 * 2^20)
  BY <1>1, <1>3 DEF validate_parameters, AscendingIds, min_blocks_per_segment,
                    max_blocks_per_segment
<1>5. 2 * 2^20 \in Nat
  BY PowerPositive
<1>6. list = [k \in 1..m |-> parse_segment_settings(sets[k])]
  BY <1>1 DEF SegmentSettingsOf, Parsed
<1>7. /\ List(list, m) /\ Len(list) = m
      /\ \A k \in 1..m : list[k].id = sets[k].id /\ list[k].value.size = sets[k].size
  <2>1. PICK s : s = [k \in 1..m |-> parse_segment_settings(sets[k])]
    OBVIOUS
  <2>2. s = [k \in 1..m |-> s[k]] /\ \A k \in 1..m : s[k] = parse_segment_settings(sets[k])
    BY <2>1
  <2>3. List(s, m)
    BY <2>2, ListMade
  <2>4. \A set : /\ parse_segment_settings(set).id = set.id
                 /\ parse_segment_settings(set).value.size = set.size
    BY DEF parse_segment_settings
  <2>5. list = s
    BY <1>6, <2>1
  <2>6. Len(s) = m
    BY <2>3 DEF List
  <2> HIDE DEF list, sets
  <2>7. QED BY <2>2, <2>3, <2>4, <2>5, <2>6
<1> DEFINE bound == 2 * 2^20
<1>8. \A k \in 1..m : list[k].value.size \in 16..bound
  BY <1>4, <1>7
<1>9. list[1].id = 0 /\ \A k \in 1..m : list[k].id \in Nat
  <2>1. 1 \in 1..m
    OBVIOUS
  <2>2. QED BY <1>2, <1>4, <1>7, <2>1
<1> HIDE DEF bound, list, sets
<1>10. \A k \in 1..m : list[k].value.size \in Nat \ {0}
  BY <1>5, <1>8 DEF bound
<1>11. Told(list)
  BY <1>7, <1>9, <1>10 DEF Told
<1>12. PICK n \in 1..m : FoundAt(list, 0, n)
  <2>1. ByIds(list)
    BY <1>11 DEF Told, ByIds
  <2>2. QED BY <1>7, <2>1, SettingsFound
<1>13. SizeOf(i) = list[n].value.size
  BY <1>12 DEF SizeOf, FoundAt, list
<1>14. QED BY <1>10, <1>11, <1>12, <1>13 DEF list

----------------------------------------------------------------------------
(* Segments. *)

\* The blocks are divided into so many segments, the first ones of the size asked for.
LEMMA SizesListed ==
  ASSUME NEW blocks \in Int, NEW size \in Nat \ {0}
  PROVE  /\ List(SegmentSizes(blocks, size), Len(SegmentSizes(blocks, size)))
         /\ \A k \in 1..Len(SegmentSizes(blocks, size)) : SegmentSizes(blocks, size)[k] \in Int
<1> DEFINE count == (blocks + size - 1) \div size
           last == blocks - (count - 1) * size
<1>1. count \in Int
  <2>1. blocks + size - 1 \in Int
    OBVIOUS
  <2>2. QED BY <2>1
<1> HIDE DEF count
<1>2. last \in Int
  BY <1>1
<1> HIDE DEF last
<1>3. PICK s : s = SegmentSizes(blocks, size)
  OBVIOUS
<1>4. s = [k \in 1..count |-> IF k < count THEN size ELSE last]
  BY <1>3 DEF SegmentSizes, count, last
<1>5. s = [k \in 1..count |-> s[k]] /\ \A k \in 1..count : s[k] \in Int
  BY <1>2, <1>4
<1>6. PICK n \in Nat : 1..n = 1..count /\ List(s, n)
  BY <1>1, <1>5, ListUpTo
<1>7. Len(s) = n
  BY <1>6 DEF List
<1>8. QED BY <1>3, <1>5, <1>6, <1>7

\* A segment knows its size.
LEMMA SegmentSized ==
  ASSUME NEW subbands, NEW shifts, NEW first, NEW size \in Int
  PROVE  LET segment == SegmentOf(subbands, shifts, first, size)
         IN Fields \subseteq DOMAIN segment /\ segment.size \in Int
<1> DEFINE Block(j) == Packed(subbands, first + j - 1)
           DC(j) == LET n == first + j - 1
                    IN subbands[1].at[n \div subbands[1].width][n % subbands[1].width]
<1>1. PICK blocks, dc : /\ blocks = [j \in 1..size |-> Block(j)]
                        /\ dc = [j \in 1..size |-> DC(j)]
  OBVIOUS
<1>2. SegmentOf(subbands, shifts, first, size) = Assembled(blocks, dc, shifts)
  BY <1>1 DEF SegmentOf
<1> HIDE DEF Block
<1>3. blocks = [j \in 1..size |-> blocks[j]]
  BY <1>1
<1>4. PICK n \in Nat : List(blocks, n)
  BY <1>3, ListUpTo
<1>5. Len(blocks) \in Int
  BY <1>4 DEF List
<1>6. /\ Fields \subseteq DOMAIN Assembled(blocks, dc, shifts)
      /\ Assembled(blocks, dc, shifts).size = Len(blocks)
  BY DEF Assembled, Fields
<1>7. QED BY <1>2, <1>5, <1>6

CutInto(segments, n) ==
  /\ List(segments, n)
  /\ \A k \in 1..n : Fields \subseteq DOMAIN segments[k] /\ segments[k].size \in Int

\* The segments of a channel.
LEMMA SegmentsCut ==
  ASSUME NEW subbands, NEW shifts, NEW size \in Nat \ {0},
         subbands[1].width * subbands[1].height \in Int
  PROVE  LET blocks == subbands[1].width * subbands[1].height
         IN CutInto(Segments(subbands, shifts, size), Len(SegmentSizes(blocks, size)))
<1>1. PICK blocks \in Int : blocks = subbands[1].width * subbands[1].height
  OBVIOUS
<1>2. PICK sizes : sizes = SegmentSizes(blocks, size)
  OBVIOUS
<1>3. PICK n \in Nat : n = Len(sizes)
  BY <1>2, SizesListed DEF List
<1>4. \A k \in 1..n : sizes[k] \in Int
  BY <1>2, <1>3, SizesListed
<1>5. PICK s : s = Segments(subbands, shifts, size)
  OBVIOUS
<1>6. s = [k \in 1..n |-> SegmentOf(subbands, shifts, (k - 1) * sizes[1], sizes[k])]
  BY <1>1, <1>2, <1>3, <1>5 DEF Segments
<1>7. s = [k \in 1..n |-> s[k]]
  BY <1>6
<1>8. List(s, n)
  BY <1>7, ListMade
<1>9. ASSUME NEW k \in 1..n PROVE Fields \subseteq DOMAIN s[k] /\ s[k].size \in Int
  <2>1. s[k] = SegmentOf(subbands, shifts, (k - 1) * sizes[1], sizes[k])
    BY <1>6
  <2>2. sizes[k] \in Int
    BY <1>4
  <2>3. QED BY <2>1, <2>2, SegmentSized
<1>10. CutInto(s, n)
  BY <1>8, <1>9 DEF CutInto
<1>11. QED BY <1>1, <1>2, <1>3, <1>5, <1>10

----------------------------------------------------------------------------
(* Headers. *)

HeaderLike(h) ==
  /\ DOMAIN h = {"p1a", "p1b", "p2", "p3", "p4"}
  /\ {"StartImgFlag", "EndImgFlag", "Part2Flag", "Part3Flag", "Part4Flag"} \subseteq DOMAIN h.p1a
  /\ "ImageWidth" \in DOMAIN h.p4

\* The header of a segment that nothing is told of yet.
LEMMA HeaderBegins ==
  ASSUME NEW seg, NEW index, NEW h, h = ccsds_protocol(seg, index)
  PROVE  /\ HeaderLike(h)
         /\ h.p1a.StartImgFlag = FALSE /\ h.p1a.EndImgFlag = FALSE
         /\ h.p1a.Part3Flag = FALSE /\ h.p1a.Part4Flag = FALSE
<1>1. /\ h.p1a = [HeaderPart_1A EXCEPT !.SegmentCount = Field(index, 8),
                                       !.BitDepthDC = Field(seg.bdepthDc, 5),
                                       !.BitDepthAC = Field(seg.bdepthAc, 5)]
      /\ h.p4 = HeaderPart_4
      /\ DOMAIN h = {"p1a", "p1b", "p2", "p3", "p4"}
  BY DEF ccsds_protocol, EmptyHeader
<1>2. "ImageWidth" \in DOMAIN HeaderPart_4
  BY DEF HeaderPart_4
<1>3. /\ h.p1a.StartImgFlag = FALSE /\ h.p1a.EndImgFlag = FALSE
      /\ h.p1a.Part3Flag = FALSE /\ h.p1a.Part4Flag = FALSE
      /\ DOMAIN h.p1a = DOMAIN HeaderPart_1A
  BY <1>1 DEF HeaderPart_1A
<1>4. {"StartImgFlag", "EndImgFlag", "Part2Flag", "Part3Flag", "Part4Flag"}
        \subseteq DOMAIN HeaderPart_1A
  BY DEF HeaderPart_1A
<1>5. QED BY <1>1, <1>2, <1>3, <1>4 DEF HeaderLike

\* A first segment's header is marked, and the rest of it stays,
LEMMA FirstSet ==
  ASSUME NEW h, HeaderLike(h), NEW v, NEW g, g = set_first(h, v)
  PROVE  /\ HeaderLike(g) /\ g.p1a.StartImgFlag = v /\ g.p1a.EndImgFlag = h.p1a.EndImgFlag
         /\ g.p1a.Part3Flag = h.p1a.Part3Flag /\ g.p1a.Part4Flag = h.p1a.Part4Flag
         /\ g.p3 = h.p3 /\ g.p4 = h.p4
<1>1. /\ DOMAIN g = DOMAIN h /\ g.p1a = [h.p1a EXCEPT !.StartImgFlag = v]
      /\ g.p3 = h.p3 /\ g.p4 = h.p4
  BY DEF HeaderLike, set_first
<1>2. /\ DOMAIN g.p1a = DOMAIN h.p1a
      /\ g.p1a.StartImgFlag = v /\ g.p1a.EndImgFlag = h.p1a.EndImgFlag
      /\ g.p1a.Part3Flag = h.p1a.Part3Flag /\ g.p1a.Part4Flag = h.p1a.Part4Flag
  BY <1>1 DEF HeaderLike
<1>3. QED BY <1>1, <1>2 DEF HeaderLike

\* so is a last one's,
LEMMA LastSet ==
  ASSUME NEW h, HeaderLike(h), NEW padding, NEW g, g = set_last(h, padding)
  PROVE  /\ HeaderLike(g) /\ g.p1a.StartImgFlag = h.p1a.StartImgFlag /\ g.p1a.EndImgFlag = TRUE
         /\ g.p1a.Part3Flag = h.p1a.Part3Flag /\ g.p1a.Part4Flag = h.p1a.Part4Flag
         /\ g.p3 = h.p3 /\ g.p4 = h.p4
<1>1. /\ DOMAIN g = DOMAIN h /\ g.p1a = [h.p1a EXCEPT !.EndImgFlag = TRUE]
      /\ g.p3 = h.p3 /\ g.p4 = h.p4
  BY DEF HeaderLike, set_last
<1>2. /\ DOMAIN g.p1a = DOMAIN h.p1a
      /\ g.p1a.StartImgFlag = h.p1a.StartImgFlag /\ g.p1a.EndImgFlag = TRUE
      /\ g.p1a.Part3Flag = h.p1a.Part3Flag /\ g.p1a.Part4Flag = h.p1a.Part4Flag
  BY <1>1 DEF HeaderLike
<1>3. QED BY <1>1, <1>2 DEF HeaderLike

\* settings of segments give the third part its size,
LEMMA SegmentParamsSet ==
  ASSUME NEW h, HeaderLike(h), NEW params, NEW g, g = set_segment_params(h, params)
  PROVE  /\ HeaderLike(g) /\ g.p1a.StartImgFlag = h.p1a.StartImgFlag
         /\ g.p1a.EndImgFlag = h.p1a.EndImgFlag
         /\ g.p1a.Part3Flag = TRUE /\ g.p1a.Part4Flag = h.p1a.Part4Flag
         /\ g.p3.S = Field(params.size, 20) /\ g.p4 = h.p4
<1>1. /\ DOMAIN g = DOMAIN h /\ g.p1a = [h.p1a EXCEPT !.Part3Flag = TRUE]
      /\ g.p3 = [S |-> Field(params.size, 20), OptDCSelect |-> ~params.heuristic_quant_DC,
                 OptACSelect |-> ~params.heuristic_bdepth_AC]
      /\ g.p4 = h.p4
  BY DEF HeaderLike, set_segment_params
<1>2. /\ DOMAIN g.p1a = DOMAIN h.p1a
      /\ g.p1a.StartImgFlag = h.p1a.StartImgFlag /\ g.p1a.EndImgFlag = h.p1a.EndImgFlag
      /\ g.p1a.Part3Flag = TRUE /\ g.p1a.Part4Flag = h.p1a.Part4Flag
  BY <1>1 DEF HeaderLike
<1>3. g.p3.S = Field(params.size, 20)
  BY <1>1
<1>4. QED BY <1>1, <1>2, <1>3 DEF HeaderLike

\* and those of the compression touch neither it nor the fourth.
LEMMA CompressionParamsSet ==
  ASSUME NEW h, HeaderLike(h), NEW params, NEW g, g = set_compression_params(h, params)
  PROVE  /\ HeaderLike(g) /\ g.p1a.StartImgFlag = h.p1a.StartImgFlag
         /\ g.p1a.EndImgFlag = h.p1a.EndImgFlag
         /\ g.p1a.Part3Flag = h.p1a.Part3Flag /\ g.p1a.Part4Flag = h.p1a.Part4Flag
         /\ g.p3 = h.p3 /\ g.p4 = h.p4
<1>1. /\ DOMAIN g = DOMAIN h /\ g.p1a = [h.p1a EXCEPT !.Part2Flag = TRUE]
      /\ g.p3 = h.p3 /\ g.p4 = h.p4
  BY DEF HeaderLike, set_compression_params
<1>2. /\ DOMAIN g.p1a = DOMAIN h.p1a
      /\ g.p1a.StartImgFlag = h.p1a.StartImgFlag /\ g.p1a.EndImgFlag = h.p1a.EndImgFlag
      /\ g.p1a.Part3Flag = h.p1a.Part3Flag /\ g.p1a.Part4Flag = h.p1a.Part4Flag
  BY <1>1 DEF HeaderLike
<1>3. QED BY <1>1, <1>2 DEF HeaderLike

\* The first header of an image tells the session,
SessionIn(g, h, of, segment) ==
  /\ HeaderLike(g) /\ g.p1a.StartImgFlag = TRUE /\ g.p1a.EndImgFlag = h.p1a.EndImgFlag
  /\ g.p1a.Part3Flag = TRUE /\ g.p1a.Part4Flag = TRUE
  /\ g.p3.S = Field(segment.size, 20) /\ g.p4.ImageWidth = Field(of.img_width, 20)

\* its width and the size of its segments among the rest.
LEMMA SessionInitialised ==
  ASSUME NEW h, HeaderLike(h), NEW of, NEW segment, NEW compression,
         NEW g, g = init_session(h, of, segment, compression)
  PROVE  SessionIn(g, h, of, segment)
<1> DEFINE part == [PixelBitDepth(h.p4, of.pixel_bdepth) EXCEPT
                      !.DWTtype = of.dwt_type,
                      !.SignedPixels = of.signed_pixel,
                      !.ImageWidth = Field(of.img_width, 20),
                      !.TransposeImg = of.transpose]
           weighted == IF of.dwt_type = "idwt" THEN set_CustomWt(part, of.shifts)
                                               ELSE [part EXCEPT !.CustomWtFlag = FALSE]
           begun == [h EXCEPT !.p1a.StartImgFlag = TRUE, !.p1a.Part4Flag = TRUE, !.p4 = weighted]
<1>1. "ImageWidth" \in DOMAIN part /\ part.ImageWidth = Field(of.img_width, 20)
  BY DEF HeaderLike, PixelBitDepth
<1>2. PICK w : w = part
  OBVIOUS
<1> HIDE DEF part
<1>3. "ImageWidth" \in DOMAIN weighted /\ weighted.ImageWidth = Field(of.img_width, 20)
  BY <1>1, <1>2 DEF set_CustomWt
<1> HIDE DEF weighted
<1>4. /\ DOMAIN begun = DOMAIN h /\ begun.p4 = weighted
      /\ begun.p1a = [[h.p1a EXCEPT !.StartImgFlag = TRUE] EXCEPT !.Part4Flag = TRUE]
  BY DEF HeaderLike
<1>5. /\ DOMAIN begun.p1a = DOMAIN h.p1a
      /\ begun.p1a.StartImgFlag = TRUE /\ begun.p1a.EndImgFlag = h.p1a.EndImgFlag
      /\ begun.p1a.Part4Flag = TRUE
  BY <1>4 DEF HeaderLike
<1>6. HeaderLike(begun)
  BY <1>3, <1>4, <1>5 DEF HeaderLike
<1>7. PICK b : b = begun
  OBVIOUS
<1>8. PICK sized : sized = set_segment_params(b, segment)
  OBVIOUS
<1>9. g = set_compression_params(sized, compression)
  BY <1>7, <1>8 DEF init_session, begun, weighted, part
<1> HIDE DEF begun
<1>10. /\ HeaderLike(sized) /\ sized.p1a.StartImgFlag = b.p1a.StartImgFlag
       /\ sized.p1a.EndImgFlag = b.p1a.EndImgFlag
       /\ sized.p1a.Part3Flag = TRUE /\ sized.p1a.Part4Flag = b.p1a.Part4Flag
       /\ sized.p3.S = Field(segment.size, 20) /\ sized.p4 = b.p4
  <2>1. HeaderLike(b)
    BY <1>6, <1>7
  <2> HIDE DEF begun
  <2>2. QED BY <1>8, <2>1, SegmentParamsSet, ZenonT(30)
<1>11. /\ HeaderLike(g) /\ g.p1a.StartImgFlag = sized.p1a.StartImgFlag
       /\ g.p1a.EndImgFlag = sized.p1a.EndImgFlag
       /\ g.p1a.Part3Flag = sized.p1a.Part3Flag /\ g.p1a.Part4Flag = sized.p1a.Part4Flag
       /\ g.p3 = sized.p3 /\ g.p4 = sized.p4
  BY <1>9, <1>10, CompressionParamsSet
<1>12. QED BY <1>3, <1>4, <1>5, <1>7, <1>10, <1>11 DEF SessionIn

\* A number in a field is a number.
LEMMA FieldIs == ASSUME NEW n \in Int PROVE Field(n, 20) \in Nat
<1>1. PICK m \in Nat \ {0} : m = 2^20
  BY PowerPositive
<1>2. n % m \in Nat
  OBVIOUS
<1>3. QED BY <1>1, <1>2 DEF Field

HeaderMade(header, cx, width) ==
  /\ header.p1a.StartImgFlag <=> cx.channel_start \/ cx.image_start
  /\ header.p1a.EndImgFlag <=> cx.channel_end
  /\ header.p1a.Part4Flag <=> cx.image_start
  /\ header.p1a.Part4Flag => header.p4.ImageWidth = Field(width, 20)
  /\ cx.id = 0 => header.p1a.Part3Flag
  /\ header.p1a.Part3Flag => header.p3.S \in Int

\* What the header of a segment tells the decoder: where a channel begins and ends, and at
\* the beginning the size of segments and, of the image, its width.
LEMMA SegmentTold ==
  ASSUME NEW cx, NEW of, NEW seg_settings, NEW compr_settings, cx.id \in Nat,
         Told(seg_settings), cx.channel_end => cx.segment.size \in Int
  PROVE  HeaderMade(SegmentHeader(cx, of, seg_settings, compr_settings), cx, of.img_width)
<1>1. PICK segment, compression : /\ segment = SettingsAt(seg_settings, cx.id)
                                  /\ compression = SettingsAt(compr_settings, cx.id)
  OBVIOUS
<1>2. segment.value.size \in Int /\ (cx.id = 0 => segment.strict_match)
  BY <1>1, SizesFound
<1>3. PICK h : h = ccsds_protocol(cx.segment, cx.id)
  OBVIOUS
<1>4. PICK first : first = set_first(h, cx.channel_start)
  OBVIOUS
<1>5. PICK sized : sized = IF segment.strict_match THEN set_segment_params(first, segment.value)
                                                   ELSE first
  OBVIOUS
<1>6. PICK begun : begun = BegunHeader(cx, of, segment, compression)
  OBVIOUS
<1>7. begun = IF cx.image_start THEN init_session(h, of, segment.value, compression.value)
              ELSE IF compression.strict_match THEN set_compression_params(sized, compression.value)
              ELSE sized
  BY <1>3, <1>4, <1>5, <1>6 DEF BegunHeader
<1>8. /\ HeaderLike(h)
      /\ h.p1a.StartImgFlag = FALSE /\ h.p1a.EndImgFlag = FALSE
      /\ h.p1a.Part3Flag = FALSE /\ h.p1a.Part4Flag = FALSE
  <2>1. PICK seg, index : seg = cx.segment /\ index = cx.id
    OBVIOUS
  <2>2. h = ccsds_protocol(seg, index)
    BY <1>3, <2>1
  <2>3. QED BY <2>2, HeaderBegins
<1>9. /\ HeaderLike(first) /\ first.p1a.StartImgFlag = cx.channel_start
      /\ first.p1a.EndImgFlag = FALSE /\ first.p1a.Part3Flag = FALSE
      /\ first.p1a.Part4Flag = FALSE
  BY <1>4, <1>8, FirstSet
<1>10. /\ HeaderLike(sized) /\ sized.p1a.StartImgFlag = cx.channel_start
       /\ sized.p1a.EndImgFlag = FALSE /\ sized.p1a.Part4Flag = FALSE
       /\ sized.p1a.Part3Flag <=> segment.strict_match
       /\ sized.p1a.Part3Flag => sized.p3.S = Field(segment.value.size, 20)
  <2>1. CASE segment.strict_match
    <3>1. PICK g : g = set_segment_params(first, segment.value)
      OBVIOUS
    <3>2. /\ HeaderLike(g) /\ g.p1a.StartImgFlag = first.p1a.StartImgFlag
          /\ g.p1a.EndImgFlag = first.p1a.EndImgFlag
          /\ g.p1a.Part3Flag = TRUE /\ g.p1a.Part4Flag = first.p1a.Part4Flag
          /\ g.p3.S = Field(segment.value.size, 20)
      <4>1. PICK value : value = segment.value
        OBVIOUS
      <4>2. g = set_segment_params(first, value)
        BY <3>1, <4>1
      <4>3. /\ HeaderLike(g) /\ g.p1a.StartImgFlag = first.p1a.StartImgFlag
            /\ g.p1a.EndImgFlag = first.p1a.EndImgFlag
            /\ g.p1a.Part3Flag = TRUE /\ g.p1a.Part4Flag = first.p1a.Part4Flag
            /\ g.p3.S = Field(value.size, 20)
        <5>1. HeaderLike(first)
          BY <1>9
        <5>2. QED BY <4>2, <5>1, SegmentParamsSet, ZenonT(30)
      <4>4. QED BY <4>1, <4>3
    <3>3. sized = g
      BY <1>5, <2>1, <3>1
    <3>4. QED BY <1>9, <2>1, <3>2, <3>3
  <2>2. CASE ~segment.strict_match
    BY <1>5, <1>9, <2>2
  <2>3. QED BY <2>1, <2>2
<1>11. /\ HeaderLike(begun)
       /\ begun.p1a.StartImgFlag <=> cx.channel_start \/ cx.image_start
       /\ begun.p1a.EndImgFlag = FALSE
       /\ begun.p1a.Part4Flag <=> cx.image_start
       /\ begun.p1a.Part4Flag => begun.p4.ImageWidth = Field(of.img_width, 20)
       /\ cx.id = 0 => begun.p1a.Part3Flag
       /\ begun.p1a.Part3Flag => begun.p3.S \in Int
  <2>1. Field(segment.value.size, 20) \in Int
    BY <1>2, FieldIs
  <2>2. CASE cx.image_start
    <3>1. begun = init_session(h, of, segment.value, compression.value)
      BY <1>7, <2>2
    <3>2. /\ HeaderLike(begun) /\ begun.p1a.StartImgFlag = TRUE
          /\ begun.p1a.EndImgFlag = h.p1a.EndImgFlag
          /\ begun.p1a.Part3Flag = TRUE /\ begun.p1a.Part4Flag = TRUE
          /\ begun.p3.S = Field(segment.value.size, 20)
          /\ begun.p4.ImageWidth = Field(of.img_width, 20)
      <4>1. PICK value, other : value = segment.value /\ other = compression.value
        OBVIOUS
      <4>2. begun = init_session(h, of, value, other)
        BY <3>1, <4>1
      <4>3. SessionIn(begun, h, of, value)
        <5>1. HeaderLike(h)
          BY <1>8
        <5>2. QED BY <4>2, <5>1, SessionInitialised
      <4>4. QED BY <4>1, <4>3 DEF SessionIn
    <3>3. QED BY <1>8, <2>1, <2>2, <3>2
  <2>3. CASE ~cx.image_start /\ compression.strict_match
    <3>1. begun = set_compression_params(sized, compression.value)
      BY <1>7, <2>3
    <3>2. /\ HeaderLike(begun) /\ begun.p1a.StartImgFlag = sized.p1a.StartImgFlag
          /\ begun.p1a.EndImgFlag = sized.p1a.EndImgFlag
          /\ begun.p1a.Part3Flag = sized.p1a.Part3Flag
          /\ begun.p1a.Part4Flag = sized.p1a.Part4Flag
          /\ begun.p3 = sized.p3
      BY <1>10, <3>1, CompressionParamsSet
    <3>3. QED BY <1>2, <1>10, <2>1, <2>3, <3>2
  <2>4. CASE ~cx.image_start /\ ~compression.strict_match
    BY <1>2, <1>7, <1>10, <2>1, <2>4
  <2>5. QED BY <2>2, <2>3, <2>4
<1>12. PICK ended : ended = IF cx.channel_end THEN EndedHeader(begun, cx, of, segment) ELSE begun
  OBVIOUS
<1>13. /\ ended.p1a.StartImgFlag <=> cx.channel_start \/ cx.image_start
       /\ ended.p1a.EndImgFlag <=> cx.channel_end
       /\ ended.p1a.Part4Flag <=> cx.image_start
       /\ ended.p1a.Part4Flag => ended.p4.ImageWidth = Field(of.img_width, 20)
       /\ cx.id = 0 => ended.p1a.Part3Flag
       /\ ended.p1a.Part3Flag => ended.p3.S \in Int
  <2>1. CASE ~cx.channel_end
    BY <1>11, <1>12, <2>1
  <2>2. CASE cx.channel_end
    <3>1. PICK last : last = set_last(begun, of.rows_pad_count)
      OBVIOUS
    <3>2. /\ HeaderLike(last) /\ last.p1a.StartImgFlag = begun.p1a.StartImgFlag
          /\ last.p1a.EndImgFlag = TRUE
          /\ last.p1a.Part3Flag = begun.p1a.Part3Flag /\ last.p1a.Part4Flag = begun.p1a.Part4Flag
          /\ last.p3 = begun.p3 /\ last.p4 = begun.p4
      BY <1>11, <3>1, LastSet, ZenonT(30)
    <3>3. PICK params : params = [segment.value EXCEPT !.size = cx.segment.size]
      OBVIOUS
    <3>4. ended = IF segment.value.size > LL3Width(of.img_width)
                    THEN set_segment_params(last, params) ELSE last
      BY <1>12, <2>2, <3>1, <3>3 DEF EndedHeader
    <3>5. CASE ended = last
      BY <1>11, <2>2, <3>2, <3>5
    <3>6. CASE ended = set_segment_params(last, params)
      <4>1. /\ ended.p1a.StartImgFlag = last.p1a.StartImgFlag
            /\ ended.p1a.EndImgFlag = last.p1a.EndImgFlag
            /\ ended.p1a.Part3Flag = TRUE /\ ended.p1a.Part4Flag = last.p1a.Part4Flag
            /\ ended.p3.S = Field(params.size, 20) /\ ended.p4 = last.p4
        BY <3>2, <3>6, SegmentParamsSet
      <4>2. params.size \in Int
        BY <1>2, <2>2, <3>3
      <4>3. ended.p3.S \in Int
        BY <4>1, <4>2, FieldIs
      <4>4. QED BY <1>11, <2>2, <3>2, <4>1, <4>3
    <3>7. QED BY <3>4, <3>5, <3>6
  <2>3. QED BY <2>1, <2>2
<1>14. SegmentHeader(cx, of, seg_settings, compr_settings) = commit(ended)
  BY <1>1, <1>6, <1>12 DEF SegmentHeader
<1>15. /\ commit(ended).p1a = ended.p1a
       /\ ended.p1a.Part3Flag => commit(ended).p3 = ended.p3
       /\ ended.p1a.Part4Flag => commit(ended).p4 = ended.p4
  BY DEF commit
<1>16. QED BY <1>13, <1>14, <1>15 DEF HeaderMade

----------------------------------------------------------------------------
(* What the decoder is told. *)

ToldOfAll(lists, c) == \A k \in 1..c : Told(lists[k])

\* Settings that begin with the first segment, or go on with the next ones.
LEMMA ToldNext ==
  ASSUME NEW list, List(list, Len(list)), NEW id \in Nat, NEW value, value.size \in Int,
         Told(list) \/ (list = <<>> /\ id = 0), NEW new, new = Append(list, [id |-> id, value |-> value])
  PROVE  Told(new)
<1>1. PICK n \in Nat : n = Len(list)
  BY DEF List
<1>2. PICK x : x = [id |-> id, value |-> value]
  OBVIOUS
<1>3. x.id = id /\ x.value.size \in Int
  BY <1>2
<1>4. /\ List(Append(list, x), n + 1)
      /\ \A k \in 1..n : Append(list, x)[k] = list[k]
      /\ Append(list, x)[n + 1] = x
      /\ ElementsOf(Append(list, x)) = ElementsOf(list) \cup {x}
  BY <1>1, ListAppended
<1>5. /\ List(new, n + 1) /\ Len(new) = n + 1
      /\ \A k \in 1..n : new[k] = list[k]
      /\ new[n + 1] = x
  BY <1>2, <1>4 DEF List
<1>6. \A k \in 1..n : list[k].id \in Nat /\ list[k].value.size \in Int
  <2>1. CASE Told(list)
    BY <1>1, <2>1 DEF Told
  <2>2. CASE list = <<>>
    <3>1. n = 0
      BY <1>1, <2>2
    <3>2. QED BY <3>1
  <2>3. QED BY <2>1, <2>2
<1>7. new[1].id = 0
  <2>1. CASE Told(list)
    <3>1. n > 0 /\ list[1].id = 0
      BY <1>1, <2>1 DEF Told
    <3>2. 1 \in 1..n
      BY <3>1
    <3>3. QED BY <1>5, <3>1, <3>2
  <2>2. CASE list = <<>> /\ id = 0
    <3>1. n = 0 /\ n + 1 = 1
      BY <1>1, <2>2
    <3>2. QED BY <1>3, <1>5, <2>2, <3>1
  <2>3. QED BY <2>1, <2>2
<1>8. ASSUME NEW k \in 1..(n + 1) PROVE new[k].id \in Nat /\ new[k].value.size \in Int
  <2>1. CASE k = n + 1
    BY <1>3, <1>5, <2>1
  <2>2. CASE k # n + 1
    <3>1. k \in 1..n
      BY <2>2
    <3>2. QED BY <1>5, <1>6, <3>1
  <2>3. QED BY <2>1, <2>2
<1>9. QED BY <1>5, <1>7, <1>8 DEF Told

\* Of every channel that has begun the decoder knows the settings in force.
LEMMA TellingNext ==
  ASSUME NEW taken, NEW header, NEW custom_shifts, NEW c, Channelled(taken, c),
         ToldOfAll(taken.segment, c), taken.next_id \in Nat,
         header.p1a.StartImgFlag => header.p1a.Part3Flag,
         header.p1a.Part3Flag => header.p3.S \in Int,
         c = 0 => header.p1a.StartImgFlag
  PROVE  LET new == Collected(taken, header, custom_shifts)
         IN ToldOfAll(new.segment, IF header.p1a.StartImgFlag THEN c + 1 ELSE c)
<1>1. PICK new : new = Collected(taken, header, custom_shifts)
  OBVIOUS
<1>2. PICK first \in BOOLEAN : first <=> header.p1a.StartImgFlag
  OBVIOUS
<1>3. PICK told \in BOOLEAN : told <=> header.p1a.Part3Flag
  OBVIOUS
<1>4. PICK id : id = IF first THEN 0 ELSE taken.next_id
  OBVIOUS
<1>5. id \in Nat /\ (first => id = 0)
  BY <1>4
<1>6. PICK d : d = IF first THEN c + 1 ELSE c
  OBVIOUS
<1>7. List(taken.compression, c) /\ List(taken.segment, c) /\ c \in Nat
  BY DEF Channelled, List
<1>8. d \in Nat /\ d # 0 /\ (first => d = c + 1) /\ (~first => d = c)
  BY <1>2, <1>6, <1>7
<1> DEFINE Begun(params) == IF first THEN Append(params, <<>>) ELSE params
<1>9. ASSUME NEW params, List(params, c)
      PROVE  /\ List(Begun(params), d)
             /\ \A k \in 1..c : Begun(params)[k] = params[k]
             /\ first => Begun(params)[d] = <<>>
  <2>1. CASE first
    <3>1. PICK e : e = <<>>
      OBVIOUS
    <3>2. /\ List(Append(params, e), c + 1)
          /\ \A k \in 1..c : Append(params, e)[k] = params[k]
          /\ Append(params, e)[c + 1] = e
          /\ ElementsOf(Append(params, e)) = ElementsOf(params) \cup {e}
      BY <1>9, ListAppended
    <3>3. QED BY <1>8, <2>1, <3>1, <3>2
  <2>2. CASE ~first
    BY <1>8, <1>9, <2>2
  <2>3. QED BY <2>1, <2>2
<1>10. Len(Begun(taken.compression)) = d
  <2>1. List(Begun(taken.compression), d)
    BY <1>7, <1>9
  <2> HIDE DEF Begun
  <2>2. QED BY <2>1 DEF List
<1>11. PICK b : b = Begun(taken.segment)
  OBVIOUS
<1>12. /\ List(b, d) /\ \A k \in 1..c : b[k] = taken.segment[k]
       /\ first => b[d] = <<>>
  BY <1>7, <1>9, <1>11
<1>13. PICK value : value = get_segment_params(header)
  OBVIOUS
<1>14. told => value.size \in Int
  BY <1>3, <1>13 DEF get_segment_params
<1>15. new.segment = IF told THEN [b EXCEPT ![d] = Append(@, [id |-> id, value |-> value])] ELSE b
  <2> DEFINE channel == Len(Begun(taken.compression))
             Noted(params, t, v) ==
               IF t THEN [Begun(params) EXCEPT ![channel] = Append(@, [id |-> id, value |-> v])]
                    ELSE Begun(params)
  <2>1. new.segment = Noted(taken.segment, header.p1a.Part3Flag, get_segment_params(header))
    BY <1>1, <1>2, <1>4 DEF Collected
  <2> HIDE DEF Begun, channel
  <2>2. channel = d
    BY <1>10 DEF channel
  <2>3. QED BY <1>3, <1>11, <1>13, <2>1, <2>2
<1> HIDE DEF Begun
<1>16. PICK x : x = Append(b[d], [id |-> id, value |-> value])
  OBVIOUS
<1>17. ASSUME NEW k \in 1..d, first => k # d PROVE Told(b[k])
  <2>1. k \in 1..c
    BY <1>7, <1>8, <1>17
  <2>2. Told(taken.segment[k])
    BY <2>1 DEF ToldOfAll
  <2>3. QED BY <1>12, <2>1, <2>2
<1>18. ASSUME told PROVE Told(x)
  <2>1. PICK list : list = b[d]
    OBVIOUS
  <2>2. Told(list) \/ (list = <<>> /\ id = 0)
    <3>1. d \in 1..d
      BY <1>8
    <3>2. QED BY <1>5, <1>12, <1>17, <2>1, <3>1
  <2>3. List(list, Len(list))
    <3>1. List(<<>>, 0)
      BY DEF List, ElementsOf
    <3>2. QED BY <2>2, <3>1 DEF Told
  <2>4. value.size \in Int
    BY <1>14, <1>18
  <2>5. x = Append(list, [id |-> id, value |-> value])
    BY <1>16, <2>1
  <2>6. QED BY <1>5, <2>2, <2>3, <2>4, <2>5, ToldNext
<1>19. ASSUME NEW k \in 1..d PROVE Told(new.segment[k])
  <2>1. CASE told
    <3>1. List([b EXCEPT ![d] = x], d)
          /\ \A l \in 1..d : [b EXCEPT ![d] = x][l] = IF l = d THEN x ELSE b[l]
      <4>1. List(b, d)
        BY <1>12
      <4>2. List([b EXCEPT ![d] = x], d)
        BY <4>1, ListChanged
      <4>3. DOMAIN b = 1..d
        <5>1. PICK S : S = ElementsOf(b)
          OBVIOUS
        <5>2. b \in Seq(S) /\ Len(b) = d
          BY <4>1, <5>1 DEF List
        <5>3. QED BY <5>2
      <4>4. QED BY <4>2, <4>3
    <3>2. new.segment = [b EXCEPT ![d] = x]
      BY <1>15, <1>16, <2>1
    <3>3. new.segment[k] = IF k = d THEN x ELSE b[k]
      BY <3>1, <3>2
    <3>4. QED BY <1>17, <1>18, <2>1, <3>3
  <2>2. CASE ~told
    <3>1. ~first
      BY <1>2, <1>3, <2>2
    <3>2. QED BY <1>15, <1>17, <2>2, <3>1
  <2>3. QED BY <2>1, <2>2
<1>20. ToldOfAll(new.segment, d)
  BY <1>19 DEF ToldOfAll
<1>21. QED BY <1>1, <1>2, <1>6, <1>20

Telling(file) ==
  LET header == file.header
  IN /\ header.p1a.Part4Flag <=> file.id = 0 /\ file.channel = 1
     /\ file.id = 0 => header.p1a.Part3Flag
     /\ header.p1a.Part3Flag => header.p3.S \in Int

\* The decoder knows the width, as the first header tells it, and settings of every channel.
LEMMA SessionTold ==
  ASSUME NEW files, SessionFiles(files), Started(files), \A file \in files : Telling(file),
         NEW custom_shifts, NEW s, s = load_segments(files), Len(s) > 0,
         NEW collected, collected = collect_decompression_session_params(
                                      [k \in 1..Len(s) |-> s[k].header], custom_shifts)
  PROVE  /\ ToldOfAll(collected.segment, s[Len(s)].channel)
         /\ collected.session.img_width = s[1].header.p4.ImageWidth
<1>1. PICK n : n = Len(s)
  OBVIOUS
<1>2. /\ n \in Nat /\ n > 0 /\ \A k \in 1..n : s[k] \in files
      /\ \A k \in 1..n : s[k].channel \in Nat \ {0} /\ s[k].id \in Nat
  <2>1. s \in Seq(files) /\ n \in Nat /\ n > 0
    BY <1>1, LoadedInOrder
  <2>2. \A k \in 1..n : s[k] \in files
    BY <1>1, <2>1
  <2>3. QED BY <2>1, <2>2 DEF SessionFiles, NumberedFile
<1>3. \A j \in 1..n, k \in 1..n : j < k => Numbered(s[j], s[k])
  BY <1>1, LoadedInOrder
<1>4. s[1].channel = 1 /\ s[1].id = 0
  BY <1>1, <1>2, LoadedStepwise
<1>5. PICK f : Taking(f, s, custom_shifts) /\ TakenFrom(f, s, custom_shifts)
  BY TakenAsWritten
<1>6. /\ f[0] = Uncollected
      /\ \A i \in 1..n : f[i] = Collected(f[i - 1], s[i].header, custom_shifts)
      /\ \A i \in 0..n : TakenUpTo(f[i], s, i)
  BY <1>1, <1>5 DEF Taking
<1>7. PICK p : p = get_session_params(s[1].header, custom_shifts)
  OBVIOUS
<1> DEFINE Known(k) == /\ ToldOfAll(f[k].segment, ChannelAt(s, k))
                       /\ k # 0 => f[k].session = <<p>>
           Good == {k \in Nat : k <= n => Known(k)}
<1>8. 0 \in Good
  <2>1. ToldOfAll(f[0].segment, 0)
    BY DEF ToldOfAll
  <2>2. QED BY <2>1 DEF ChannelAt
<1>9. ASSUME NEW k \in Nat, k \in Good PROVE k + 1 \in Good
  <2> SUFFICES ASSUME k + 1 <= n PROVE Known(k + 1)
    OBVIOUS
  <2>1. /\ k + 1 \in 1..n /\ k \in 0..n /\ k + 1 \in 0..n /\ k <= n /\ (k + 1) - 1 = k
        /\ k + 1 # 0 /\ 1 \in 1..n
    BY <1>2
  <2>2. Known(k)
    BY <1>9, <2>1
  <2>3. PICK header : header = s[k + 1].header
    OBVIOUS
  <2>4. f[k + 1] = Collected(f[k], header, custom_shifts)
    BY <1>6, <2>1, <2>3
  <2>5. s[k + 1] \in files /\ s[k + 1].id \in Nat /\ s[k + 1].channel \in Nat
    BY <1>2, <2>1
  <2>6. header.p1a.StartImgFlag <=> s[k + 1].id = 0
    BY <2>3, <2>5 DEF Started
  <2>7. /\ header.p1a.Part4Flag <=> s[k + 1].id = 0 /\ s[k + 1].channel = 1
        /\ s[k + 1].id = 0 => header.p1a.Part3Flag
        /\ header.p1a.Part3Flag => header.p3.S \in Int
    BY <2>3, <2>5 DEF Telling
  <2>8. PICK c : c = ChannelAt(s, k)
    OBVIOUS
  <2>9. Channelled(f[k], c) /\ f[k].next_id \in Nat
    <3>1. TakenUpTo(f[k], s, k)
      BY <1>6, <2>1
    <3>2. CASE k = 0
      BY <1>6, <2>8, <3>1, <3>2 DEF TakenUpTo, Uncollected
    <3>3. CASE k # 0
      <4>1. k \in 1..n
        BY <2>1, <3>3
      <4>2. s[k].id \in Nat
        BY <1>2, <4>1
      <4>3. QED BY <2>8, <3>1, <3>3, <4>2 DEF TakenUpTo
    <3>4. QED BY <3>2, <3>3
  <2>10. c = 0 => header.p1a.StartImgFlag
    <3>1. CASE k = 0
      BY <1>4, <2>6, <3>1
    <3>2. CASE k # 0
      <4>1. k \in 1..n
        BY <2>1, <3>2
      <4>2. s[k].channel # 0
        BY <1>2, <4>1
      <4>3. QED BY <2>8, <3>2, <4>2 DEF ChannelAt
    <3>3. QED BY <3>1, <3>2
  <2>11. ToldOfAll(f[k].segment, c)
    BY <2>2, <2>8
  <2>12. PICK taken : taken = f[k]
    OBVIOUS
  <2>13. PICK new : new = Collected(taken, header, custom_shifts)
    OBVIOUS
  <2>14. PICK d : d = IF header.p1a.StartImgFlag THEN c + 1 ELSE c
    OBVIOUS
  <2>15. ToldOfAll(new.segment, d)
    <3>1. Channelled(taken, c) /\ taken.next_id \in Nat /\ ToldOfAll(taken.segment, c)
      BY <2>9, <2>11, <2>12
    <3>2. header.p1a.StartImgFlag => header.p1a.Part3Flag
      BY <2>6, <2>7
    <3>3. header.p1a.Part3Flag => header.p3.S \in Int
      BY <2>7
    <3>4. LET result == Collected(taken, header, custom_shifts)
          IN ToldOfAll(result.segment, IF header.p1a.StartImgFlag THEN c + 1 ELSE c)
      BY <2>10, <3>1, <3>2, <3>3, TellingNext
    <3>5. QED BY <2>13, <2>14, <3>4
  <2>16. d = ChannelAt(s, k + 1)
    <3>1. Channelled(new, d)
      <4>1. Channelled(taken, c)
        BY <2>9, <2>12
      <4>2. LET first == header.p1a.StartImgFlag
                result == Collected(taken, header, custom_shifts)
                channel == IF first THEN c + 1 ELSE c
                id == IF first THEN 0 ELSE taken.next_id
            IN /\ Channelled(result, channel) /\ result.next_id = id + 1
               /\ result.handles = Append(taken.handles, [channel |-> channel, id |-> id])
        BY <4>1, CollectedNext
      <4>3. QED BY <2>13, <2>14, <4>2
    <3>2. Channelled(f[k + 1], ChannelAt(s, k + 1))
      BY <1>6, <2>1 DEF TakenUpTo
    <3>3. new = f[k + 1]
      BY <2>4, <2>12, <2>13
    <3>4. QED BY <3>1, <3>2, <3>3 DEF Channelled, List
  <2>17. f[k + 1].session = <<p>>
    <3>1. new.session = IF header.p1a.StartImgFlag /\ header.p1a.Part4Flag
                          THEN <<get_session_params(header, custom_shifts)>> ELSE taken.session
      BY <2>13 DEF Collected
    <3>2. new = f[k + 1]
      BY <2>4, <2>12, <2>13
    <3>3. CASE k = 0
      <4>1. header = s[1].header
        BY <2>3, <3>3
      <4>2. header.p1a.StartImgFlag /\ header.p1a.Part4Flag
        BY <1>4, <2>6, <2>7, <3>3
      <4>3. QED BY <1>7, <3>1, <3>2, <4>1, <4>2
    <3>4. CASE k # 0
      <4>1. Numbered(s[1], s[k + 1])
        <5>1. 1 < k + 1
          BY <3>4
        <5>2. QED BY <1>3, <2>1, <5>1
      <4>2. ~(s[k + 1].id = 0 /\ s[k + 1].channel = 1)
        BY <1>4, <2>5, <4>1 DEF Numbered
      <4>3. new.session = taken.session
        BY <2>7, <3>1, <4>2
      <4>4. f[k].session = <<p>>
        BY <2>2, <3>4
      <4>5. QED BY <2>12, <3>2, <4>3, <4>4
    <3>5. QED BY <3>3, <3>4
  <2>18. QED BY <2>4, <2>12, <2>13, <2>15, <2>16, <2>17
<1> HIDE DEF Good
<1>10. Good = Nat
  <2>1. Good \subseteq Nat
    BY DEF Good
  <2>2. QED BY <1>8, <1>9, <2>1, Induction
<1>11. Known(n)
  <2> HIDE DEF Known
  <2>1. \A k \in Nat : k <= n => Known(k)
    BY <1>10 DEF Good
  <2>2. n <= n
    BY <1>2
  <2>3. QED BY <1>2, <2>1, <2>2
<1>12. n # 0 /\ n \in 1..n /\ n \in 0..n
  BY <1>2
<1>13. f[n].session = <<p>> /\ ToldOfAll(f[n].segment, s[n].channel)
  BY <1>11, <1>12 DEF ChannelAt
<1>14. collected = [f[n] EXCEPT !.session = [f[n].session[1] EXCEPT !.rows_pad_count = f[n].pads[1]]]
  BY <1>1, <1>5 DEF TakenFrom
<1>15. {"session", "segment"} \subseteq DOMAIN f[n]
  <2>1. f[n] = Collected(f[n - 1], s[n].header, custom_shifts)
    BY <1>6, <1>12
  <2>2. QED BY <2>1 DEF Collected
<1>16. collected.segment = f[n].segment
  BY <1>14, <1>15
<1>17. PICK told : told = [p EXCEPT !.rows_pad_count = f[n].pads[1]]
  OBVIOUS
<1>18. collected.session = told
  <2>1. collected.session = [f[n].session[1] EXCEPT !.rows_pad_count = f[n].pads[1]]
    BY <1>14, <1>15
  <2>2. f[n].session[1] = p
    BY <1>13
  <2>3. QED BY <1>17, <2>1, <2>2
<1>19. told.img_width = s[1].header.p4.ImageWidth
  BY <1>7, <1>17 DEF get_session_params
<1>20. QED BY <1>1, <1>13, <1>16, <1>18, <1>19

----------------------------------------------------------------------------
(* Decoding. *)

\* Settings with numbers add up to a number of blocks.
LEMMA BlocksBeforeIs ==
  ASSUME NEW list, Told(list), NEW id \in Nat
  PROVE  BlocksBefore(list, id) \in Int
<1>1. PICK n \in Nat : n = Len(list)
  BY DEF Told, List
<1>2. \A k \in 1..n : list[k].id \in Nat /\ list[k].value.size \in Int
  BY <1>1 DEF Told
<1> DEFINE Next2(k) == IF k = n THEN id ELSE list[k + 1].id
           Amount(k) == list[k].value.size * (Next2(k) - list[k].id)
<1>3. ASSUME NEW k \in 1..n PROVE Amount(k) \in Int
  <2>1. k # n => k + 1 \in 1..n
    OBVIOUS
  <2>2. PICK a \in Int, b \in Int, c \in Int :
          a = list[k].value.size /\ b = Next2(k) /\ c = list[k].id
    BY <1>2, <2>1
  <2>3. a * (b - c) \in Int
    OBVIOUS
  <2>4. QED BY <2>2, <2>3
<1> DEFINE step == [p \in Int \X (1..n) |-> p[1] + Amount(p[2])]
<1>4. step \in [Int \X (1..n) -> Int]
  <2> HIDE DEF Amount
  <2>1. \A p \in Int \X (1..n) : p[1] \in Int /\ Amount(p[2]) \in Int
    BY <1>3
  <2>2. QED BY <2>1
<1>5. \A sum \in Int, k \in 1..n : step[<<sum, k>>] = sum + Amount(k)
  OBVIOUS
<1> HIDE DEF step
<1>6. PICK g \in [0..n -> Int] : FoldedBy(g, step, 0, n)
  <2>1. PICK S, base : S = Int /\ base = 0
    OBVIOUS
  <2>2. step \in [S \X (1..n) -> S] /\ base \in S
    BY <1>4, <2>1
  <2>3. \E g \in [0..n -> S] : FoldedBy(g, step, base, n)
    BY <2>2, FoldExists
  <2>4. QED BY <2>1, <2>3
<1> DEFINE R(f) == f = [i \in 0..n |-> IF i = 0 THEN 0 ELSE f[i - 1] + Amount(i)]
<1>7. R(g)
  <2> DEFINE A(i) == IF i = 0 THEN 0 ELSE step[<<g[i - 1], i>>]
             B(i) == IF i = 0 THEN 0 ELSE g[i - 1] + Amount(i)
  <2>1. ASSUME NEW i \in 0..n PROVE A(i) = B(i)
    <3> HIDE DEF Amount
    <3>1. i # 0 => i \in 1..n /\ i - 1 \in 0..n
      OBVIOUS
    <3>2. i # 0 => g[i - 1] \in Int
      BY <3>1
    <3>3. QED BY <1>5, <3>1, <3>2
  <2>2. g = [i \in 0..n |-> A(i)]
    BY <1>6 DEF FoldedBy
  <2>3. R(g) <=> g = [i \in 0..n |-> B(i)]
    OBVIOUS
  <2> HIDE DEF A, B, R
  <2>4. QED BY <2>1, <2>2, <2>3
<1>8. PICK s : s = [k \in 1..n |-> k]
  OBVIOUS
<1>9. Len(s) = n /\ \A k \in 1..n : s[k] = k
  BY <1>8
<1> DEFINE Q(f) == f = [i \in 0..n |-> IF i = 0 THEN 0 ELSE f[i - 1] + Amount(s[i])]
<1>10. BlocksBefore(list, id) = (CHOOSE f : Q(f))[n]
  BY <1>1, <1>8, <1>9 DEF BlocksBefore, Folded
<1>11. ASSUME NEW f PROVE Q(f) <=> R(f)
  <2> DEFINE A(i) == IF i = 0 THEN 0 ELSE f[i - 1] + Amount(s[i])
             B(i) == IF i = 0 THEN 0 ELSE f[i - 1] + Amount(i)
  <2>1. ASSUME NEW i \in 0..n PROVE A(i) = B(i)
    <3>1. i # 0 => s[i] = i
      BY <1>9
    <3> HIDE DEF Amount
    <3>2. QED BY <3>1
  <2>2. (Q(f) <=> f = [i \in 0..n |-> A(i)]) /\ (R(f) <=> f = [i \in 0..n |-> B(i)])
    OBVIOUS
  <2> HIDE DEF A, B, Q, R
  <2>3. QED BY <2>1, <2>2
<1> HIDE DEF Q
<1>12. PICK f : f = CHOOSE fold : Q(fold)
  OBVIOUS
<1>13. R(f)
  <2> HIDE DEF R
  <2>1. Q(g)
    BY <1>7, <1>11
  <2>2. Q(f)
    BY <1>12, <2>1
  <2>3. QED BY <1>11, <2>2
<1>14. \A i \in 0..n : f[i] = IF i = 0 THEN 0 ELSE f[i - 1] + Amount(i)
  <2> DEFINE v == [i \in 0..n |-> IF i = 0 THEN 0 ELSE f[i - 1] + Amount(i)]
  <2> HIDE DEF Amount
  <2>1. \A i \in 0..n : v[i] = IF i = 0 THEN 0 ELSE f[i - 1] + Amount(i)
    OBVIOUS
  <2>2. f = v
    BY <1>13
  <2> HIDE DEF v
  <2>3. QED BY <2>1, <2>2
<1>15. f[n] \in Int
  <2>1. f[0] \in Int
    <3>1. 0 \in 0..n
      OBVIOUS
    <3> HIDE DEF Amount
    <3>2. f[0] = 0
      BY <1>14, <3>1
    <3>3. QED BY <3>2
  <2>2. ASSUME NEW i \in 1..n, f[i - 1] \in Int PROVE f[i] \in Int
    <3>1. i \in 0..n /\ i # 0
      OBVIOUS
    <3> HIDE DEF Amount
    <3>2. f[i] = f[i - 1] + Amount(i)
      BY <1>14, <3>1
    <3>3. QED BY <1>3, <2>2, <3>2
  <2>3. \A i \in 0..n : f[i] \in Int
    BY <2>1, <2>2, FoldKept
  <2>4. n \in 0..n
    OBVIOUS
  <2>5. QED BY <2>3, <2>4
<1>16. QED BY <1>10, <1>12, <1>15

\* So the decoder works with a size that is a number.
LEMMA SegmentSizeIs ==
  ASSUME NEW header, NEW list, Told(list), NEW id \in Nat, NEW width \in Nat,
         header.p1a.EndImgFlag => LL3Width(width) > 0
  PROVE  SegmentSize(header, list, id, width) \in Int
<1>1. PICK size \in Int : size = SettingsAt(list, id).value.size
  BY SizesFound
<1>2. PICK before \in Int : before = BlocksBefore(list, id)
  BY BlocksBeforeIs
<1>3. PICK row \in Int : row = LL3Width(width)
  BY DEF LL3Width
<1>4. SegmentSize(header, list, id, width)
        = IF header.p1a.EndImgFlag THEN ((before + size) \div row) * row - before ELSE size
  BY <1>1, <1>2, <1>3 DEF SegmentSize
<1>5. CASE header.p1a.EndImgFlag
  <2>1. row \in Nat \ {0}
    BY <1>3, <1>5
  <2>2. (before + size) \div row \in Int
    BY <2>1
  <2>3. ((before + size) \div row) * row - before \in Int
    BY <2>2
  <2>4. QED BY <1>4, <1>5, <2>3
<1>6. CASE ~header.p1a.EndImgFlag
  BY <1>4, <1>6
<1>7. QED BY <1>5, <1>6

\* And what it makes of the segment has that size.
LEMMA DecodedSized ==
  ASSUME NEW file, NEW size, NEW shifts, Fields \subseteq DOMAIN file.body
  PROVE  DecodedSegment(file, size, shifts).size = size
<1>1. PICK body : body = file.body
  OBVIOUS
<1>2. "size" \in DOMAIN body
  BY <1>1 DEF Fields
<1> DEFINE Kept(q, dc, plain) == [body EXCEPT !.q = q, !.bdepthDc = dc, !.plainDc = plain,
                                              !.bit_shifts[1] = 0]
           Noise(plain, data, dc) == [body EXCEPT !.size = size, !.plainDc = plain, !.data = data,
                                                  !.quantizedDc = dc]
<1>3. \A q, dc, plain : Kept(q, dc, plain).size = body.size
  OBVIOUS
<1>4. \A plain, data, dc : Noise(plain, data, dc).size = size
  BY <1>2
<1> HIDE DEF Noise
<1> DEFINE decodable == /\ size = body.size /\ shifts = body.bit_shifts
                        /\ file.header.p1a.BitDepthDC = body.bdepthDc
                        /\ file.header.p1a.BitDepthAC = body.bdepthAc
           decoded2 == Kept(relu(body.q - shifts[1]), relu(body.bdepthDc - shifts[1]),
                            [j \in 1..size |-> body.plainDc[j] \div 2^shifts[1]])
           noise == Noise([j \in 1..size |-> 0],
                          [j \in 1..size |-> [c \in 1..63 |-> 0]],
                          [j \in 1..(size - 1) |-> 0])
<1>5. DecodedSegment(file, size, shifts) = IF decodable THEN decoded2 ELSE noise
  <2>1. decoded2 = [body EXCEPT !.q = relu(@ - shifts[1]), !.bdepthDc = relu(@ - shifts[1]),
                         !.plainDc = [j \in 1..size |-> body.plainDc[j] \div 2^shifts[1]],
                         !.bit_shifts[1] = 0]
    OBVIOUS
  <2> HIDE DEF decoded2
  <2>2. QED BY <1>1, <2>1 DEF DecodedSegment, Noise
<1> HIDE DEF Kept
<1>6. QED BY <1>3, <1>4, <1>5

\* A segment's operation is done, and the others are as they were.
LEMMA DoneIs ==
  ASSUME NEW list, NEW ids, Described(list, ids), NEW id \in 0..(Len(list) - 1),
         NEW d, d = Done(list, id)
  PROVE  /\ Described(d, ids \cup {id}) /\ Len(d) = Len(list)
         /\ \A k \in 1..Len(list) : d[k].segment_id = list[k].segment_id
<1>1. PICK n \in Nat : n = Len(list)
  BY DEF Described, List
<1>2. /\ List(list, n)
      /\ \A k \in 1..n : list[k] = [state |-> IF k - 1 \in ids THEN "done" ELSE "pending",
                                    segment_id |-> list[k].segment_id]
  BY <1>1 DEF Described
<1>3. id \in Nat /\ id + 1 \in 1..n /\ (id + 1) - 1 = id
  BY <1>1
<1>4. PICK was : was = list[id + 1]
  OBVIOUS
<1>5. PICK state : state = IF was.state = "pending" THEN "done" ELSE was.state
  OBVIOUS
<1>6. PICK x : x = [was EXCEPT !.state = state]
  OBVIOUS
<1>7. d = [list EXCEPT ![id + 1] = x]
  BY <1>4, <1>5, <1>6 DEF Done
<1>8. DOMAIN list = 1..n
  <2>1. PICK S : S = ElementsOf(list)
    OBVIOUS
  <2>2. list \in Seq(S) /\ Len(list) = n
    BY <1>2, <2>1 DEF List
  <2>3. QED BY <2>2
<1>9. List([list EXCEPT ![id + 1] = x], n)
  <2>1. PICK j : j = id + 1
    OBVIOUS
  <2>2. List([list EXCEPT ![j] = x], n)
    BY <1>2, ListChanged
  <2>3. QED BY <2>1, <2>2
<1>10. \A k \in 1..n : d[k] = IF k = id + 1 THEN x ELSE list[k]
  BY <1>7, <1>8
<1>11. was = [state |-> IF id \in ids THEN "done" ELSE "pending",
              segment_id |-> was.segment_id]
  BY <1>2, <1>3, <1>4
<1>12. x = [state |-> "done", segment_id |-> was.segment_id]
  BY <1>5, <1>6, <1>11
<1>13. ASSUME NEW k \in 1..n
       PROVE  /\ d[k].segment_id = list[k].segment_id
              /\ d[k] = [state |-> IF k - 1 \in ids \cup {id} THEN "done" ELSE "pending",
                         segment_id |-> d[k].segment_id]
  <2>1. CASE k = id + 1
    <3>1. d[k] = x /\ k - 1 = id
      BY <1>3, <1>10, <2>1
    <3>2. d[k].segment_id = was.segment_id /\ was = list[k]
      BY <1>4, <1>12, <2>1, <3>1
    <3>3. QED BY <1>12, <3>1, <3>2
  <2>2. CASE k # id + 1
    <3>1. d[k] = list[k] /\ k - 1 # id
      BY <1>3, <1>10, <2>2
    <3>2. k - 1 \in ids \cup {id} <=> k - 1 \in ids
      BY <3>1
    <3>3. list[k] = [state |-> IF k - 1 \in ids THEN "done" ELSE "pending",
                     segment_id |-> list[k].segment_id]
      BY <1>2
    <3>4. QED BY <3>1, <3>2, <3>3
  <2>3. QED BY <2>1, <2>2
<1>14. List(d, n) /\ Len(d) = n
  BY <1>7, <1>9 DEF List
<1>15. QED BY <1>1, <1>13, <1>14 DEF Described

----------------------------------------------------------------------------
(* Disassembling. *)

JoinedFold(f, V, n) == f = [i \in 0..n |-> IF i = 0 THEN <<>> ELSE f[i - 1] \o V[i]]

\* Sequences that are joined one behind the other are one sequence.
LEMMA AllJoined ==
  ASSUME NEW n \in Nat, NEW V, \A i \in 1..n : List(V[i], Len(V[i]))
  PROVE  Len((CHOOSE f : JoinedFold(f, V, n))[n]) \in Nat
<1> DEFINE S == UNION {ElementsOf(V[i]) : i \in 1..n}
<1>1. ASSUME NEW i \in 1..n PROVE V[i] \in Seq(S)
  <2>1. PICK T : T = ElementsOf(V[i])
    OBVIOUS
  <2>2. V[i] \in Seq(T)
    BY <2>1 DEF List
  <2>3. T \subseteq S
    BY <2>1
  <2> HIDE DEF S
  <2>4. PICK v : v = V[i]
    OBVIOUS
  <2>5. v \in Seq(T) /\ Len(v) \in Nat /\ DOMAIN v = 1..Len(v)
    BY <2>2, <2>4
  <2>6. \A k \in 1..Len(v) : v[k] \in S
    BY <2>3, <2>5
  <2>7. v \in Seq(S)
    <3>1. PICK m \in Nat : m = Len(v)
      BY <2>5
    <3>2. v = [k \in 1..m |-> v[k]]
      BY <2>5, <3>1
    <3>3. [k \in 1..m |-> v[k]] \in Seq(S)
      BY <2>6, <3>1
    <3>4. QED BY <3>2, <3>3
  <2>8. QED BY <2>4, <2>7
<1> HIDE DEF S
<1> DEFINE step == [p \in Seq(S) \X (1..n) |-> p[1] \o V[p[2]]]
<1>2. step \in [Seq(S) \X (1..n) -> Seq(S)]
  <2>1. \A p \in Seq(S) \X (1..n) : p[1] \o V[p[2]] \in Seq(S)
    <3>1. \A p \in Seq(S) \X (1..n) : p[1] \in Seq(S) /\ V[p[2]] \in Seq(S)
      BY <1>1
    <3>2. QED BY <3>1
  <2>2. QED BY <2>1
<1>3. \A s \in Seq(S), i \in 1..n : step[<<s, i>>] = s \o V[i]
  OBVIOUS
<1> HIDE DEF step
<1>4. PICK base : base = <<>>
  OBVIOUS
<1>5. base \in Seq(S)
  BY <1>4
<1>6. PICK T : T = Seq(S)
  OBVIOUS
<1>7. PICK g \in [0..n -> T] : FoldedBy(g, step, base, n)
  BY <1>2, <1>5, <1>6, FoldExists
<1>8. JoinedFold(g, V, n)
  <2> DEFINE A(i) == IF i = 0 THEN base ELSE step[<<g[i - 1], i>>]
             B(i) == IF i = 0 THEN <<>> ELSE g[i - 1] \o V[i]
  <2>1. ASSUME NEW i \in 0..n PROVE A(i) = B(i)
    <3>1. i # 0 => i \in 1..n /\ i - 1 \in 0..n
      OBVIOUS
    <3>2. i # 0 => g[i - 1] \in Seq(S)
      BY <1>6, <3>1
    <3>3. QED BY <1>3, <1>4, <3>1, <3>2
  <2>2. g = [i \in 0..n |-> A(i)]
    BY <1>7 DEF FoldedBy
  <2>3. JoinedFold(g, V, n) <=> g = [i \in 0..n |-> B(i)]
    BY DEF JoinedFold
  <2> HIDE DEF A, B
  <2>4. QED BY <2>1, <2>2, <2>3
<1>9. PICK f : f = CHOOSE fold : JoinedFold(fold, V, n)
  OBVIOUS
<1>10. JoinedFold(f, V, n)
  BY <1>8, <1>9
<1>11. \A i \in 0..n : f[i] = IF i = 0 THEN <<>> ELSE f[i - 1] \o V[i]
  <2> DEFINE v == [i \in 0..n |-> IF i = 0 THEN <<>> ELSE f[i - 1] \o V[i]]
  <2>1. \A i \in 0..n : v[i] = IF i = 0 THEN <<>> ELSE f[i - 1] \o V[i]
    OBVIOUS
  <2>2. f = v
    BY <1>10 DEF JoinedFold
  <2> HIDE DEF v
  <2>3. QED BY <2>1, <2>2
<1>12. f[n] \in T
  <2>1. f[0] \in T
    <3>1. 0 \in 0..n
      OBVIOUS
    <3>2. f[0] = base
      BY <1>4, <1>11, <3>1
    <3>3. QED BY <1>5, <1>6, <3>2
  <2>2. ASSUME NEW i \in 1..n, f[i - 1] \in T PROVE f[i] \in T
    <3>1. i \in 0..n /\ i # 0
      OBVIOUS
    <3>2. f[i] = f[i - 1] \o V[i]
      BY <1>11, <3>1
    <3>3. QED BY <1>1, <1>6, <2>2, <3>2
  <2>3. \A i \in 0..n : f[i] \in T
    BY <2>1, <2>2, FoldKept
  <2>4. n \in 0..n
    OBVIOUS
  <2>5. QED BY <2>3, <2>4
<1>13. QED BY <1>6, <1>9, <1>12

\* The blocks of decoded segments are counted.
LEMMA BlocksOfSegments ==
  ASSUME NEW segments, NEW n, List(segments, n), \A k \in 1..n : segments[k].size \in Int
  PROVE  Cardinality(DOMAIN BlockValues(segments)) \in Nat
<1>1. n \in Nat /\ Len(segments) = n
  BY DEF List
<1> DEFINE Value(seg, dc, j) == [c \in 0..63 |-> IF c = 0 THEN dc[j] ELSE seg.data[j][c]]
           Values(seg) == LET dc == DisassembledDC(seg)
                          IN [j \in 1..seg.size |-> Value(seg, dc, j)]
<1>2. PICK V : V = [i \in 1..n |-> Values(segments[i])]
  OBVIOUS
<1>3. ASSUME NEW i \in 1..n PROVE List(V[i], Len(V[i]))
  <2>1. PICK m \in Int : m = segments[i].size
    OBVIOUS
  <2>2. PICK dc : dc = DisassembledDC(segments[i])
    OBVIOUS
  <2>3. PICK v : v = [j \in 1..m |-> Value(segments[i], dc, j)]
    OBVIOUS
  <2>4. V[i] = v
    BY <1>2, <2>1, <2>2, <2>3
  <2> HIDE DEF Value
  <2>5. v = [j \in 1..m |-> v[j]]
    BY <2>3
  <2>6. PICK l \in Nat : List(v, l)
    BY <2>5, ListUpTo
  <2>7. QED BY <2>4, <2>6 DEF List
<1> HIDE DEF Values
<1> DEFINE R(f) == f = [i \in 0..n |-> IF i = 0 THEN <<>> ELSE f[i - 1] \o Evaluated(Values(segments[i]))]
<1>4. PICK all : all = (CHOOSE f : R(f))[n]
  OBVIOUS
<1>5. BlockValues(segments) = [k \in 0..(Len(all) - 1) |-> all[k + 1]]
  <2>1. Folded(LAMBDA s, seg : s \o Evaluated(Values(seg)), <<>>, segments) = all
    BY <1>1, <1>4 DEF Folded
  <2>2. Evaluated(all) = all
    BY EvaluatedIs
  <2>3. BlockValues(segments) = Evaluated([k \in 0..(Len(all) - 1) |-> all[k + 1]])
    BY <2>1, <2>2 DEF BlockValues, Values
  <2>4. QED BY <2>3, EvaluatedIs
<1>6. ASSUME NEW f PROVE R(f) <=> JoinedFold(f, V, n)
  <2> DEFINE A(i) == IF i = 0 THEN <<>> ELSE f[i - 1] \o Evaluated(Values(segments[i]))
             B(i) == IF i = 0 THEN <<>> ELSE f[i - 1] \o V[i]
  <2>1. ASSUME NEW i \in 0..n PROVE A(i) = B(i)
    <3>1. i # 0 => i \in 1..n
      OBVIOUS
    <3>2. i # 0 => V[i] = Values(segments[i])
      BY <1>2, <3>1
    <3>3. i # 0 => Evaluated(Values(segments[i])) = V[i]
      BY <3>2, EvaluatedIs
    <3>4. QED BY <3>3
  <2>2. (R(f) <=> f = [i \in 0..n |-> A(i)]) /\ (JoinedFold(f, V, n) <=> f = [i \in 0..n |-> B(i)])
    BY DEF JoinedFold
  <2> HIDE DEF A, B, R
  <2>3. QED BY <2>1, <2>2
<1> HIDE DEF R
<1>7. (CHOOSE f : R(f)) = CHOOSE f : JoinedFold(f, V, n)
  BY <1>6
<1>8. Len(all) \in Nat
  BY <1>1, <1>3, <1>4, <1>7, AllJoined
<1>9. DOMAIN BlockValues(segments) = 0..(Len(all) - 1)
  BY <1>5
<1>10. PICK a, b : a = 0 /\ b = Len(all) - 1 /\ a \in Int /\ b \in Int
  BY <1>8
<1>11. IsFiniteSet(a..b)
  BY <1>10, FS_Interval
<1>12. Cardinality(a..b) \in Nat
  BY <1>11, FS_CardinalityType
<1>13. QED BY <1>9, <1>10, <1>12

\* A width that fits its field is one of blocks enough and not too many.
LEMMA BlockRow ==
  ASSUME NEW width \in Nat \ {0}, width < 2^20
  PROVE  PaddedTo(width) \div 8 \in Nat \ {0} /\ 8 * (PaddedTo(width) \div 8) <= 2 * 2^20
<1>1. PICK m \in Nat : m = 2^20
  BY PowerPositive
<1>2. PaddedTo(width) \in Nat /\ PaddedTo(width) >= 8 /\ PaddedTo(width) <= width + 7
  BY DEF PaddedTo, padding_length
<1>3. PICK p \in Nat : p = PaddedTo(width)
  BY <1>2
<1>4. p \div 8 \in Nat \ {0} /\ 8 * (p \div 8) <= p
  BY <1>2, <1>3
<1>5. QED BY <1>1, <1>2, <1>3, <1>4

\* The parts have more rows than they share.
LEMMA BufferHigh ==
  ASSUME NEW width \in Nat \ {0}, 8 * width <= 2 * 2^20
  PROVE  BufferRows(width) \in Int /\ BufferRows(width) > overlap_rows
<1>1. PICK m \in Nat \ {0} : m = 2^20
  BY PowerPositive
<1>2. PICK k \in Nat \ {0} : k = 2^28
  BY PowerPositive
<1>3. k = 256 * m
  <2>1. /\ 2^(20 + 1) = 2 * 2^20 /\ 2^(21 + 1) = 2 * 2^21 /\ 2^(22 + 1) = 2 * 2^22
        /\ 2^(23 + 1) = 2 * 2^23 /\ 2^(24 + 1) = 2 * 2^24 /\ 2^(25 + 1) = 2 * 2^25
        /\ 2^(26 + 1) = 2 * 2^26 /\ 2^(27 + 1) = 2 * 2^27
    BY PowerNext
  <2>2. /\ 20 + 1 = 21 /\ 21 + 1 = 22 /\ 22 + 1 = 23 /\ 23 + 1 = 24 /\ 24 + 1 = 25
        /\ 25 + 1 = 26 /\ 26 + 1 = 27 /\ 27 + 1 = 28
    OBVIOUS
  <2>3. /\ 2^21 = 2 * 2^20 /\ 2^22 = 2 * 2^21 /\ 2^23 = 2 * 2^22
        /\ 2^24 = 2 * 2^23 /\ 2^25 = 2 * 2^24 /\ 2^26 = 2 * 2^25
        /\ 2^27 = 2 * 2^26 /\ 2^28 = 2 * 2^27
    BY <2>1, <2>2, Zenon
  <2>4. 2^21 \in Nat /\ 2^22 \in Nat /\ 2^23 \in Nat /\ 2^24 \in Nat /\ 2^25 \in Nat
        /\ 2^26 \in Nat /\ 2^27 \in Nat
    BY PowerPositive
  <2>5. QED BY <1>1, <1>2, <2>3, <2>4
<1>4. PICK d \in Nat \ {0} : d = 8 * width
  OBVIOUS
<1>5. d <= 2 * m
  BY <1>1, <1>4
<1>6. PICK q \in Int : q = k \div d
  OBVIOUS
<1>7. q >= 64
  <2>1. k < d * q + d /\ q >= 0
    BY <1>6
  <2>2. SUFFICES ASSUME q <= 63 PROVE FALSE
    OBVIOUS
  <2>3. d * q <= d * 63
    BY <2>1, <2>2
  <2>4. QED BY <1>3, <1>5, <2>1, <2>3
<1>8. 2 * ((q + 15) \div 16) \in Int /\ 2 * ((q + 15) \div 16) > 7
  BY <1>7
<1>9. 2^14 \in Int
  BY PowerPositive
<1>10. QED BY <1>1, <1>2, <1>4, <1>6, <1>8 DEF BufferRows, overlap_rows

\* They become so many parts.
LEMMA PartsListed ==
  ASSUME NEW width \in Nat \ {0}, 8 * width <= 2 * 2^20, NEW blocks \in Nat, NEW values
  PROVE  LET made == FragmentContexts(Evaluated(Unpacked(width, blocks, values)))
         IN List(made, Len(made))
<1> DEFINE rows == (blocks + width - 1) \div width
           full == BufferRows(width)
           step == full - overlap_rows
           count == IF rows <= full THEN 1 ELSE (rows - overlap_rows + step - 1) \div step
           Scale(n) == 2^(IF n = 0 THEN 0 ELSE (n - 1) \div 3)
           Coefficient(n, offset) ==
             CHOOSE c \in 0..63 : Subband(c) = n /\ Offset(c) = offset
           At(first, n, r, c) ==
             LET block == (first + r \div Scale(n)) * width + c \div Scale(n)
             IN IF block >= blocks THEN 0
                ELSE values[block][Coefficient(n, <<r % Scale(n), c % Scale(n)>>)]
           Fragment(first, height) ==
             [n \in 1..10 |-> Bitmap(width * Scale(n - 1), height * Scale(n - 1),
                                     LAMBDA r, c : At(first, n - 1, r, c))]
           Cut(k) == Fragment((k - 1) * step, IF k < count THEN full ELSE rows - (k - 1) * step)
<1>1. Unpacked(width, blocks, values) = [k \in 1..count |-> Cut(k)]
  BY Zenon DEF Unpacked
<1> HIDE DEF Cut
<1>2. full \in Int /\ step \in Nat \ {0}
  BY BufferHigh DEF overlap_rows
<1> HIDE DEF step, full
<1>3. rows \in Int
  OBVIOUS
<1> HIDE DEF rows
<1>4. count \in Int
  BY <1>2, <1>3 DEF overlap_rows
<1> HIDE DEF count
<1>5. PICK u : u = [k \in 1..count |-> Cut(k)]
  OBVIOUS
<1>6. Unpacked(width, blocks, values) = u
  BY <1>1, <1>5, Zenon
<1>7. u = [k \in 1..count |-> u[k]]
  BY <1>5
<1>8. PICK n \in Nat : List(u, n)
  BY <1>4, <1>7, ListUpTo
<1>9. Len(u) = n
  BY <1>8 DEF List
<1>10. PICK made : made = FragmentContexts(u)
  OBVIOUS
<1>11. \E v : made = [k \in 1..Len(u) |-> v[k]]
  <2> DEFINE Top(k) == IF k = 1 THEN 0 ELSE top_overlap
             Bottom(k) == IF k = Len(u) THEN 0 ELSE bottom_overlap
             Height(k) == 8 * (u[k][1].height - Top(k) - Bottom(k))
             y[k \in 1..Len(u)] == IF k = 1 THEN 0 ELSE y[k - 1] + Height(k - 1)
             Made(k) == [subbands |-> u[k], top_overlap |-> Top(k), bottom_overlap |-> Bottom(k),
                         frame |-> ImgPos(0, y[k], 8 * u[k][1].width, Height(k))]
  <2>1. made = [k \in 1..Len(u) |-> Made(k)]
    BY <1>10 DEF FragmentContexts
  <2> HIDE DEF Made
  <2>2. PICK v : v = [k \in 1..Len(u) |-> Made(k)]
    OBVIOUS
  <2>3. made = [k \in 1..Len(u) |-> v[k]]
    BY <2>1, <2>2
  <2>4. QED BY <2>3
<1>12. made = [k \in 1..n |-> made[k]]
  BY <1>9, <1>11
<1>13. List(made, n)
  BY <1>12, ListMade
<1>14. List(made, Len(made))
  BY <1>13 DEF List
<1>15. Evaluated(Unpacked(width, blocks, values)) = u
  BY <1>6, EvaluatedIs
<1>16. QED BY <1>10, <1>14, <1>15

----------------------------------------------------------------------------
(* The flows begin and end. *)

\* A request that is accepted has channels, one at least, that are numbered.
LEMMA ChannelsAre ==
  ASSUME NEW i \in DOMAIN Inputs, ValidRequest(Inputs[i])
  PROVE  \E n \in Nat \ {0} : DOMAIN Inputs[i].images = 1..n
<1>1. /\ Description(Inputs[i]).depth \in Nat
      /\ DOMAIN Inputs[i].images = 1..Description(Inputs[i]).depth
  BY RequestAssumption
<1>2. Description(Inputs[i]).depth > 0
  BY DEF ValidRequest, validate_parameters
<1>3. QED BY <1>1, <1>2

\* The tasks of a flow.
FlowTasks ==
  [validate |-> {}, rejected |-> {}, done |-> {},
   transform |-> {"preprocess_image", "transform_fragment"},
   compress |-> {"preprocess_fragments", "assemble_segments", "compress_segment"},
   decompress |-> {"decode_segment"},
   disassemble |-> {"disassemble_segments", "restore_image"},
   postprocess |-> {"postprocess_image"}]

\* Those that wait are of the flow that runs.
LEMMA TaskOfFlow ==
  ASSUME FramesInv, FlowInv, NEW i, i \in 1..Len(queue)
  PROVE  /\ queue[i].op \in FlowTasks[flow]
         /\ queue[i] \in Tasks /\ queue[i].channel \in Channels
<1>1. queue[i] \in Tasks
  BY DEF Tasks, ElementsOf
<1>2. CASE flow \in {"validate", "rejected", "done"}
  <2>1. queue = <<>>
    BY <1>2 DEF FlowInv, ValidateInv, EndInv
  <2>2. QED BY <2>1
<1>3. CASE flow = "transform"
  <2>1. queue[i] \in TransformTasks
    BY <1>3 DEF FramesInv
  <2>2. QED BY <1>1, <1>3, <2>1 DEF TransformTasks, FlowTasks
<1>4. CASE flow = "compress"
  <2>1. /\ queue[i].channel \in Channels
        /\ \/ queue[i] = Alone("preprocess_fragments", queue[i].channel)
           \/ queue[i] = Alone("assemble_segments", queue[i].channel)
           \/ queue[i].op = "compress_segment"
    BY <1>1, <1>4 DEF FlowInv, CompressInv
  <2>2. QED BY <1>1, <1>4, <2>1 DEF FlowTasks, Alone, Task
<1>5. CASE flow = "decompress"
  BY <1>1, <1>5 DEF FlowInv, DecompressInv, FlowTasks
<1>6. CASE flow = "disassemble"
  BY <1>1, <1>6 DEF FlowInv, DisassembleInv, FlowTasks
<1>7. CASE flow = "postprocess"
  <2>1. /\ queue[i].channel \in Channels
        /\ queue[i] = Alone("postprocess_image", queue[i].channel)
    BY <1>1, <1>7 DEF FlowInv, PostprocessInv
  <2>2. QED BY <1>1, <1>7, <2>1 DEF FlowTasks, Alone, Task
<1>8. QED BY <1>2, <1>3, <1>4, <1>5, <1>6, <1>7 DEF FlowInv, Shapes, Flows

\* So a task runs in its own flow.
LEMMA OwnFlow ==
  ASSUME FramesInv, FlowInv, NEW i, NEW op, Runs(i, op)
  PROVE  /\ op \in FlowTasks[flow] /\ i \in 1..Len(queue) /\ queue[i].op = op
         /\ queue[i] \in Tasks /\ queue[i].channel \in Channels
<1>1. i \in 1..Len(queue) /\ queue[i].op = op
  BY DEF Runs
<1>2. QED BY <1>1, TaskOfFlow

\* What the request says stays as it is.
LEMMA RequestStays ==
  ASSUME input' = input
  PROVE  /\ Request' = Request /\ Channels' = Channels
         /\ CountOf(input)' = CountOf(input) /\ BlocksOf(input)' = BlocksOf(input)
         /\ \A c : FrameSetOf(c)' = FrameSetOf(c)
         /\ \A v : SessionWith(v)' = SessionWith(v)
BY DEF Request, Channels, CountOf, BlocksOf, FrameSetOf, SessionWith

\* The tasks with which a flow starts.
LEMMA FlowStarts ==
  ASSUME Shapes, ValidRequest(Request), NEW op, input' = input, queue' = TaskOfAll(op)
  PROVE  /\ List(queue', Len(queue')) /\ Distinct(queue)'
         /\ Tasks' = {Alone(op, c) : c \in Channels}
<1>1. PICK n \in Nat : Channels = 1..n
  BY ChannelsAre DEF Shapes, Request, Channels
<1>2. /\ List(TaskOfAll(op), n) /\ Distinct(TaskOfAll(op))
      /\ ElementsOf(TaskOfAll(op)) = {Alone(op, c) : c \in Channels}
  BY <1>1, TasksOfAll
<1>3. PICK s : s = TaskOfAll(op)
  OBVIOUS
<1>4. List(s, Len(s)) /\ Distinct(s) /\ queue' = s
  BY <1>2, <1>3 DEF List
<1>5. Distinct(queue)'
  BY <1>4 DEF Distinct
<1>6. Tasks' = {Alone(op, c) : c \in Channels}
  BY <1>2, <1>3, <1>4 DEF Tasks
<1>7. QED BY <1>4, <1>5, <1>6

\* No task, no element.
LEMMA NoTasks == queue = <<>> => Tasks = {}
BY DEF Tasks, ElementsOf

\* Nothing has happened at first.
LEMMA FlowInit == ASSUME Init PROVE FlowInv
<1>1. \A v : DOMAIN ForAll(v) = Channels
  BY DEF ForAll
<1>2. /\ input \in DOMAIN Inputs /\ flow = "validate" /\ queue = <<>> /\ registry = {}
      /\ fragments = ForAll(<<>>) /\ merged = ForAll(Nothing)
      /\ allocated = ForAll([first |-> 0, second |-> 0])
      /\ descriptors = ForAll(<<>>) /\ stored = {}
      /\ decoded = ForAll(<<>>) /\ restored = ForAll(<<>>)
  BY DEF Init
<1>3. List(<<>>, Len(<<>>))
  BY DEF List, ElementsOf
<1>4. Shapes
  BY <1>1, <1>2, <1>3 DEF Shapes, Flows
<1>5. ValidateInv
  BY <1>2 DEF ValidateInv, Unwritten, Unread
<1>6. QED BY <1>2, <1>4, <1>5 DEF FlowInv

\* A request that is refused leaves nothing.
LEMMA Flow_Reject == ASSUME FlowInv, Reject PROVE FlowInv'
<1>1. /\ flow = "validate" /\ queue = <<>> /\ flow' = "rejected"
      /\ UNCHANGED <<input, queue, fragments, merged, allocated, descriptors, decoded, restored>>
  BY DEF Reject, NextFlow, known, transform_vars, segment_vars, restore_vars
<1>2. Shapes /\ ValidateInv
  BY <1>1 DEF FlowInv
<1>3. Channels' = Channels
  BY <1>1, RequestStays
<1>4. Shapes'
  BY <1>1, <1>2, <1>3 DEF Shapes, Flows
<1>5. \A c \in Channels : descriptors[c] = <<>> /\ restored[c] = <<>>
  BY <1>2 DEF ValidateInv, Unwritten, Unread, ForAll
<1>6. EndInv'
  BY <1>1, <1>3, <1>5 DEF EndInv, Numbers, DoneNumbered
<1>7. QED BY <1>1, <1>4, <1>6 DEF FlowInv

\* The image's channels are in the registry, and their tasks wait.
LEMMA Flow_Import == ASSUME FramesInv, FlowInv, Import PROVE FlowInv'
<1>1. /\ flow = "validate" /\ queue = <<>> /\ flow' = "transform" /\ ValidRequest(Request)
      /\ registry' = {Image(channel) : channel \in Channels}
      /\ session' = SessionOf(Request)
      /\ settings' = ForAll([segment |-> SegmentSettingsOf(Request),
                             compression |-> CompressionSettingsOf(Request)])
      /\ queue' = TaskOfAll("preprocess_image")
      /\ UNCHANGED <<input, fragments, merged, allocated, descriptors, stored, decoded, restored>>
  BY DEF Import, NextFlow, transform_vars, segment_vars, restore_vars
<1>2. Shapes /\ ValidateInv
  BY <1>1 DEF FlowInv
<1>3. Request' = Request /\ Channels' = Channels
  BY <1>1, RequestStays
<1>4. /\ List(queue', Len(queue'))
      /\ Tasks' = {Alone("preprocess_image", c) : c \in Channels}
  BY <1>1, <1>2, FlowStarts
<1>5. Shapes'
  BY <1>1, <1>2, <1>3, <1>4 DEF Shapes, Flows
<1>6. Unwritten' /\ Unread' /\ Settled'
  BY <1>1, <1>2, <1>3 DEF ValidateInv, Unwritten, Unread, Settled, ForAll
<1>7. registry' = {Image(c) : c \in Channels'}
  BY <1>1, <1>3
<1>8. SessionOf(Request) = SessionWith(Description(Request).width)
  BY DEF SessionWith, SessionOf, parse_session_settings
<1>9. \/ session' = SessionWith(SourceWidth(Request))'
      \/ /\ Request'.params.img_transpose /\ session' = SessionWith(Description(Request).width)'
         /\ \A c \in Channels' : Alone("preprocess_image", c) \in Tasks'
  <2>1. /\ SessionWith(SourceWidth(Request))' = SessionWith(SourceWidth(Request))
        /\ SessionWith(Description(Request).width)' = SessionWith(Description(Request).width)
    BY <1>3 DEF SessionWith
  <2>2. CASE Request.params.img_transpose
    BY <1>1, <1>3, <1>4, <1>8, <2>1, <2>2
  <2>3. CASE ~Request.params.img_transpose
    <3>1. SourceWidth(Request) = Description(Request).width
      BY <2>3 DEF SourceWidth
    <3>2. QED BY <1>1, <1>8, <2>1, <3>1
  <2>4. QED BY <2>2, <2>3
<1>10. ASSUME NEW c \in Channels'
       PROVE  /\ AsPrepared(c)'
              /\ \/ Alone("preprocess_image", c) \in Tasks'
                 \/ Transformed(c)' \cup Waiting(c)' = FrameSetOf(c)'
  <2>1. fragments'[c] = <<>>
    BY <1>1, <1>3 DEF FramesInv, ForAll
  <2>2. List(fragments'[c], Len(fragments'[c])) /\ ElementsOf(fragments'[c]) = {}
    BY <2>1 DEF List, ElementsOf
  <2>3. QED BY <1>3, <1>4, <2>2 DEF AsPrepared
<1>11. TransformInv'
  BY <1>6, <1>7, <1>9, <1>10 DEF TransformInv
<1>12. QED BY <1>1, <1>5, <1>11 DEF FlowInv

----------------------------------------------------------------------------
(* The flow that transforms. *)

\* An image has frames.
LEMMA SomeFrames ==
  ASSUME FramesInv, flow = "transform", NEW c \in Channels
  PROVE  FrameSetOf(c) # {}
<1>1. input \in DOMAIN Inputs /\ ValidRequest(Inputs[input]) /\ c \in DOMAIN Inputs[input].images
  BY DEF FramesInv, Request, Channels
<1>2. Chained(FrameList(input, c), ShapeOf(Inputs[input], c)[1])
  BY <1>1, FrameChain
<1>3. Len(FrameList(input, c)) \in Nat /\ Len(FrameList(input, c)) > 0
  BY <1>2 DEF Chained
<1>4. FrameList(input, c)[1] \in ElementsOf(FrameList(input, c))
  BY <1>3 DEF ElementsOf
<1>5. QED BY <1>4 DEF FrameSetOf

\* The image is cut: its frames wait, and the width is set.
LEMMA Flow_PreprocessImage ==
  ASSUME FramesInv, FramesInv', FlowInv, NEW i, PreprocessImage(i)
  PROVE  FlowInv'
<1>0. PICK c : c = queue[i].channel
  OBVIOUS
<1> DEFINE list == FrameList(input, c)
           new == [k \in 1..Len(list) |-> Task("transform_fragment", c, list[k])]
<1>1. /\ Runs(i, "preprocess_image")
      /\ queue' = Without(i) \o new
      /\ session' = IF session.transpose
                      THEN [session EXCEPT !.img_width = Prepared[input][c].source.width]
                      ELSE session
      /\ UNCHANGED <<input, flow, registry, settings, fragments, merged, allocated, descriptors,
                     stored, decoded, restored>>
  BY <1>0 DEF PreprocessImage, FrameList, transform_vars, segment_vars, restore_vars
<1>2. /\ flow = "transform" /\ i \in 1..Len(queue) /\ queue[i].op = "preprocess_image"
      /\ c \in Channels
  <2>1. "preprocess_image" \in FlowTasks[flow]
    BY <1>1, OwnFlow
  <2>2. flow \in Flows
    BY DEF FlowInv, Shapes
  <2>3. flow = "transform"
    BY <2>1, <2>2 DEF Flows, FlowTasks
  <2>4. QED BY <1>0, <1>1, <2>3, OwnFlow
<1>3. Shapes /\ TransformInv
  BY <1>2 DEF FlowInv
<1>4. /\ Request' = Request /\ Channels' = Channels
      /\ \A d : FrameSetOf(d)' = FrameSetOf(d)
      /\ \A v : SessionWith(v)' = SessionWith(v)
  BY <1>1, RequestStays
<1>5. input \in DOMAIN Inputs /\ ValidRequest(Inputs[input]) /\ c \in DOMAIN Inputs[input].images
  BY <1>2, <1>3 DEF Shapes, Request, Channels
<1>6. Len(list) \in Nat /\ Len(list) > 0
  <2>1. Chained(FrameList(input, c), ShapeOf(Inputs[input], c)[1])
    BY <1>5, FrameChain
  <2>2. QED BY <2>1 DEF Chained
<1>7. Prepared[input][c].source.width = SourceWidth(Request)
  BY <1>5, PreparedIs DEF Request
<1> HIDE DEF list
<1>8. List(new, Len(list))
  <2>1. new = [k \in 1..Len(list) |-> new[k]]
    OBVIOUS
  <2> HIDE DEF new
  <2>2. QED BY <1>6, <2>1, ListMade
<1>9. Task("transform_fragment", c, list[1]) \in ElementsOf(new)
  BY <1>6, <1>8 DEF List, ElementsOf
<1> HIDE DEF new
<1>10. /\ List(Without(i), Len(queue) - 1)
       /\ ElementsOf(Without(i)) \subseteq Tasks
       /\ Tasks \subseteq ElementsOf(Without(i)) \cup {queue[i]}
  BY <1>2, <1>3, TasksLeft DEF Shapes
<1>11. List(queue', Len(queue')) /\ Tasks' = ElementsOf(Without(i)) \cup ElementsOf(new)
  <2>1. /\ List(Without(i) \o new, (Len(queue) - 1) + Len(list))
        /\ ElementsOf(Without(i) \o new) = ElementsOf(Without(i)) \cup ElementsOf(new)
    BY <1>8, <1>10, ListJoined
  <2>2. QED BY <1>1, <2>1 DEF List, Tasks
<1>12. Shapes'
  BY <1>1, <1>3, <1>4, <1>11 DEF Shapes
<1>13. Unwritten' /\ Unread' /\ Settled' /\ registry' = {Image(d) : d \in Channels'}
  BY <1>1, <1>3, <1>4 DEF TransformInv, Unwritten, Unread, Settled, ForAll
<1>14. \/ session' = SessionWith(SourceWidth(Request))'
       \/ /\ Request'.params.img_transpose /\ session' = SessionWith(Description(Request).width)'
          /\ \A d \in Channels' : Alone("preprocess_image", d) \in Tasks'
  <2>1. \/ session = SessionWith(SourceWidth(Request))
        \/ /\ Request.params.img_transpose /\ session = SessionWith(Description(Request).width)
    BY <1>3 DEF TransformInv
  <2>2. PICK v : session = SessionWith(v)
    BY <2>1
  <2>3. session.transpose = Request.params.img_transpose
    BY <2>2 DEF SessionWith, SessionOf, parse_session_settings
  <2>4. SessionWith(SourceWidth(Request))' = SessionWith(SourceWidth(Request))
    BY <1>4 DEF SessionWith
  <2>5. CASE Request.params.img_transpose
    <3>1. session' = [SessionWith(v) EXCEPT !.img_width = SourceWidth(Request)]
      BY <1>1, <1>7, <2>2, <2>3, <2>5
    <3>2. session' = SessionWith(SourceWidth(Request))
      BY <3>1 DEF SessionWith, SessionOf, parse_session_settings
    <3>3. QED BY <2>4, <3>2
  <2>6. CASE ~Request.params.img_transpose
    BY <1>1, <2>1, <2>3, <2>4, <2>6
  <2>7. QED BY <2>5, <2>6
<1>15. ASSUME NEW d \in Channels'
       PROVE  /\ AsPrepared(d)'
              /\ \/ Alone("preprocess_image", d) \in Tasks'
                 \/ Transformed(d)' \cup Waiting(d)' = FrameSetOf(d)'
  <2>1. d \in Channels
    BY <1>4
  <2>2. AsPrepared(d)'
    BY <1>1, <1>3, <2>1 DEF TransformInv, AsPrepared
  <2>3. Transformed(d)' = Transformed(d)
    BY <1>1 DEF Transformed
  <2>4. Waiting(d) \subseteq Waiting(d)'
    <3>1. ~(queue[i].op = "transform_fragment" /\ queue[i].channel = d)
      BY <1>2
    <3>2. FramesOfTasks(Tasks, d) = FramesOfTasks(ElementsOf(Without(i)), d)
      BY <1>10, <3>1, OtherTaskLeaves
    <3>3. FramesOfTasks(Tasks', d)
            = FramesOfTasks(ElementsOf(Without(i)), d) \cup FramesOfTasks(ElementsOf(new), d)
      BY <1>11, TasksJoin
    <3>4. Waiting(d) = FramesOfTasks(Tasks, d) /\ Waiting(d)' = FramesOfTasks(Tasks', d)
      BY WaitingIs DEF Tasks
    <3>5. QED BY <3>2, <3>3, <3>4
  <2>5. d = c => Waiting(d)' # {}
    <3>1. PICK t : t = Task("transform_fragment", c, list[1])
      OBVIOUS
    <3>2. t \in Tasks' /\ t.op = "transform_fragment" /\ t.channel = c
      BY <1>9, <1>11, <3>1 DEF Task
    <3>3. t.cx \in FramesOfTasks(Tasks', c)
      BY <3>2 DEF FramesOfTasks
    <3>4. FramesOfTasks(Tasks', c) = Waiting(c)'
      BY WaitingIs DEF Tasks
    <3>5. QED BY <3>3, <3>4
  <2>6. Transformed(d)' \cup Waiting(d)' \in {{}, FrameSetOf(d)'}
    BY <1>1, <1>2, <1>4, <2>1 DEF FramesInv
  <2>7. FrameSetOf(d) # {}
    BY <1>2, <2>1, SomeFrames
  <2>8. CASE Alone("preprocess_image", d) \in Tasks
    <3>1. CASE d = c
      BY <2>2, <2>5, <2>6, <3>1
    <3>2. CASE d # c
      <4>1. queue[i] # Alone("preprocess_image", d)
        BY <1>0, <3>2 DEF Alone, Task
      <4>2. QED BY <1>10, <1>11, <2>2, <2>8, <4>1
    <3>3. QED BY <3>1, <3>2
  <2>9. CASE Transformed(d) \cup Waiting(d) = FrameSetOf(d)
    BY <1>4, <2>2, <2>3, <2>4, <2>6, <2>7, <2>9
  <2>10. QED BY <1>3, <2>1, <2>2, <2>8, <2>9 DEF TransformInv
<1>16. TransformInv'
  BY <1>13, <1>14, <1>15 DEF TransformInv
<1>17. QED BY <1>1, <1>2, <1>12, <1>16 DEF FlowInv

\* A frame is transformed into what the channel's image has there.
LEMMA Flow_TransformFragment ==
  ASSUME FramesInv, FramesInv', FlowInv, NEW i, TransformFragmentTask(i)
  PROVE  FlowInv'
<1>0. PICK c, new : /\ c = queue[i].channel
                    /\ new = [frame |-> queue[i].cx,
                              subbands |-> Prepared[input][c].fragments[queue[i].cx]]
  OBVIOUS
<1>1. /\ Runs(i, "transform_fragment")
      /\ queue' = Without(i)
      /\ fragments' = [fragments EXCEPT ![c] = Append(@, new)]
      /\ UNCHANGED <<input, session, settings, flow, registry, merged, allocated, descriptors,
                     stored, decoded, restored>>
  BY <1>0 DEF TransformFragmentTask, known, segment_vars, restore_vars
<1>2. /\ flow = "transform" /\ i \in 1..Len(queue) /\ queue[i].op = "transform_fragment"
      /\ c \in Channels
  <2>1. "transform_fragment" \in FlowTasks[flow]
    BY <1>1, OwnFlow
  <2>2. flow \in Flows
    BY DEF FlowInv, Shapes
  <2>3. flow = "transform"
    BY <2>1, <2>2 DEF Flows, FlowTasks
  <2>4. QED BY <1>0, <1>1, <2>3, OwnFlow
<1>3. Shapes /\ TransformInv
  BY <1>2 DEF FlowInv
<1>4. /\ Request' = Request /\ Channels' = Channels
      /\ \A d : FrameSetOf(d)' = FrameSetOf(d)
      /\ \A v : SessionWith(v)' = SessionWith(v)
  BY <1>1, RequestStays
<1>5. /\ List(Without(i), Len(queue) - 1)
      /\ ElementsOf(Without(i)) \subseteq Tasks
      /\ Tasks \subseteq ElementsOf(Without(i)) \cup {queue[i]}
  BY <1>2, <1>3, TasksLeft DEF Shapes
<1>6. List(queue', Len(queue')) /\ Tasks' = ElementsOf(Without(i))
  BY <1>1, <1>5 DEF List, Tasks
<1>7. DOMAIN fragments' = Channels
  BY <1>1, <1>3 DEF Shapes
<1>8. Shapes'
  BY <1>1, <1>3, <1>4, <1>6, <1>7 DEF Shapes
<1>9. Unwritten' /\ Unread' /\ Settled' /\ registry' = {Image(d) : d \in Channels'}
  BY <1>1, <1>3, <1>4 DEF TransformInv, Unwritten, Unread, Settled, ForAll
<1>10. ASSUME NEW d, Alone("preprocess_image", d) \in Tasks
       PROVE  Alone("preprocess_image", d) \in Tasks'
  <2>1. queue[i] # Alone("preprocess_image", d)
    BY <1>2 DEF Alone, Task
  <2>2. QED BY <1>5, <1>6, <1>10, <2>1
<1>11. \/ session' = SessionWith(SourceWidth(Request))'
       \/ /\ Request'.params.img_transpose /\ session' = SessionWith(Description(Request).width)'
          /\ \A d \in Channels' : Alone("preprocess_image", d) \in Tasks'
  <2>1. /\ SessionWith(SourceWidth(Request))' = SessionWith(SourceWidth(Request))
        /\ SessionWith(Description(Request).width)' = SessionWith(Description(Request).width)
    BY <1>4 DEF SessionWith
  <2>2. QED BY <1>1, <1>3, <1>4, <1>10, <2>1 DEF TransformInv
<1>12. ASSUME NEW d \in Channels', d # c
       PROVE  fragments'[d] = fragments[d]
  BY <1>1, <1>3, <1>4, <1>12 DEF Shapes
<1>13. PICK s, t : s = fragments[c] /\ t = fragments'[c]
  OBVIOUS
<1>14. t = Append(s, new)
  BY <1>1, <1>2, <1>3, <1>13 DEF Shapes
<1>15. /\ List(s, Len(s))
       /\ \A f \in ElementsOf(s) : f.subbands = Prepared[input][c].fragments[f.frame]
  BY <1>2, <1>3, <1>13 DEF TransformInv, AsPrepared
<1>16. List(t, Len(s) + 1) /\ ElementsOf(t) = ElementsOf(s) \cup {new}
  BY <1>14, <1>15, ListAppended
<1>17. new.subbands = Prepared[input][c].fragments[new.frame] /\ new.frame = queue[i].cx
  BY <1>0
<1>18. AsPrepared(c)'
  <2>1. List(t, Len(t))
    BY <1>16 DEF List
  <2>2. \A f \in ElementsOf(t) : f.subbands = Prepared[input][c].fragments[f.frame]
    BY <1>15, <1>16, <1>17
  <2>3. QED BY <1>1, <1>13, <2>1, <2>2 DEF AsPrepared
<1>19. queue[i].cx \in Transformed(c)'
  <2>1. Transformed(c)' = {f.frame : f \in ElementsOf(t)}
    BY <1>13, TransformedIs
  <2>2. QED BY <1>16, <1>17, <2>1
<1>20. ASSUME NEW d \in Channels'
       PROVE  /\ AsPrepared(d)'
              /\ \/ Alone("preprocess_image", d) \in Tasks'
                 \/ Transformed(d)' \cup Waiting(d)' = FrameSetOf(d)'
  <2>1. d \in Channels
    BY <1>4
  <2>2. Transformed(d)' \cup Waiting(d)' \in {{}, FrameSetOf(d)'}
    BY <1>1, <1>2, <1>4, <2>1 DEF FramesInv
  <2>3. CASE d = c
    BY <1>18, <1>19, <2>2, <2>3
  <2>4. CASE d # c
    <3>1. AsPrepared(d)'
      BY <1>1, <1>3, <1>12, <2>1, <2>4 DEF TransformInv, AsPrepared
    <3>2. Transformed(d)' = Transformed(d)
      BY <1>12, <2>4 DEF Transformed
    <3>3. Waiting(d)' = Waiting(d)
      <4>1. ~(queue[i].op = "transform_fragment" /\ queue[i].channel = d)
        BY <1>0, <2>4
      <4>2. FramesOfTasks(Tasks, d) = FramesOfTasks(ElementsOf(Without(i)), d)
        BY <1>5, <4>1, OtherTaskLeaves
      <4>3. QED BY <1>6, <4>2, WaitingIs DEF Tasks
    <3>4. QED BY <1>3, <1>4, <1>10, <2>1, <3>1, <3>2, <3>3 DEF TransformInv
  <2>5. QED BY <2>3, <2>4
<1>21. TransformInv'
  BY <1>9, <1>11, <1>20 DEF TransformInv
<1>22. QED BY <1>1, <1>2, <1>8, <1>21 DEF FlowInv

\* When all frames are transformed, the channels' fragments wait for the next flow.
LEMMA Flow_Compress == ASSUME FramesInv, FlowInv, Compress PROVE FlowInv'
<1>1. /\ flow = "transform" /\ queue = <<>> /\ flow' = "compress"
      /\ queue' = TaskOfAll("preprocess_fragments")
      /\ UNCHANGED <<registry, input, session, settings, fragments, merged, allocated,
                     descriptors, stored, decoded, restored>>
  BY DEF Compress, NextFlow, known, transform_vars, segment_vars, restore_vars
<1>2. Shapes /\ TransformInv /\ ValidRequest(Request)
  BY <1>1 DEF FlowInv, Shapes
<1>3. /\ Request' = Request /\ Channels' = Channels
      /\ \A d : FrameSetOf(d)' = FrameSetOf(d)
  BY <1>1, RequestStays
<1>4. /\ List(queue', Len(queue')) /\ Distinct(queue)'
      /\ Tasks' = {Alone("preprocess_fragments", c) : c \in Channels}
  BY <1>1, <1>2, FlowStarts
<1>5. Shapes'
  BY <1>1, <1>2, <1>3, <1>4 DEF Shapes, Flows
<1>6. Tasks = {}
  BY <1>1, NoTasks
<1>7. Settled' /\ Unread'
  BY <1>1, <1>2, <1>3 DEF TransformInv, Unread, Settled, ForAll
<1>8. Unwritten
  BY <1>2 DEF TransformInv
<1>9. session' = SessionWith(SourceWidth(Request))'
  <2>1. PICK n \in Nat \ {0} : Channels = 1..n
    BY <1>2, ChannelsAre DEF Shapes, Request, Channels
  <2>2. 1 \in Channels
    BY <2>1
  <2>3. session = SessionWith(SourceWidth(Request))
    BY <1>2, <1>6, <2>2 DEF TransformInv
  <2>4. QED BY <1>1, <1>3, <2>3 DEF SessionWith
<1>10. ASSUME NEW t \in Tasks'
       PROVE  t.channel \in Channels' /\ t = Alone("preprocess_fragments", t.channel)
  <2>1. PICK c \in Channels : t = Alone("preprocess_fragments", c)
    BY <1>4
  <2>2. QED BY <1>3, <2>1 DEF Alone, Task
<1>11. \A t \in Tasks' : t.op = "preprocess_fragments"
  BY <1>10 DEF Alone, Task
<1>12. IsFiniteSet(stored') /\ \A file \in stored' : file.channel \in Channels'
  BY <1>1, <1>8, FS_EmptySet DEF Unwritten
<1>13. registry' = CompressRegistry(Tasks', stored')
  <2>1. {t.channel : t \in {t \in Tasks' : t.op = "preprocess_fragments"}} = Channels
    <3>1. \A c \in Channels : LET t == Alone("preprocess_fragments", c)
                              IN t \in Tasks' /\ t.op = "preprocess_fragments" /\ t.channel = c
      BY <1>4 DEF Alone, Task
    <3>2. QED BY <1>3, <1>10, <3>1
  <2>2. {t \in Tasks' : t.op = "compress_segment"} = {}
    BY <1>11
  <2>3. stored' = {}
    BY <1>1, <1>8 DEF Unwritten
  <2>4. registry' = {Image(c) : c \in Channels}
    BY <1>1, <1>2 DEF TransformInv
  <2>5. {Image(t.channel) : t \in {t \in Tasks' : t.op = "preprocess_fragments"}}
          = {Image(c) : c \in Channels}
    BY <2>1
  <2>6. QED BY <2>2, <2>3, <2>4, <2>5 DEF CompressRegistry
<1>14. ASSUME NEW c \in Channels'
       PROVE  Unmerged(c)'
  <2>1. c \in Channels
    BY <1>3
  <2>2. Fresh(c)'
    <3>1. CompressTasks(c)' = {}
      BY <1>11 DEF CompressTasks
    <3>2. FilesOf(c)' = {} /\ allocated'[c].second = 0 /\ descriptors'[c] = <<>>
      BY <1>1, <1>8, <2>1 DEF FilesOf, Unwritten, ForAll
    <3>3. QED BY <3>1, <3>2 DEF Fresh
  <2>3. AsPrepared(c)'
    BY <1>1, <1>2, <2>1 DEF TransformInv, AsPrepared
  <2>4. Transformed(c)' = FrameSetOf(c)'
    <3>1. Transformed(c) \cup Waiting(c) = FrameSetOf(c)
      BY <1>2, <1>6, <2>1 DEF TransformInv
    <3>2. Waiting(c) = {}
      BY <1>1 DEF Waiting
    <3>3. QED BY <1>1, <1>3, <3>1, <3>2 DEF Transformed
  <2>5. Alone("preprocess_fragments", c) \in Tasks' /\ Alone("assemble_segments", c) \notin Tasks'
    BY <1>4, <1>11, <2>1 DEF Alone, Task
  <2>6. QED BY <2>2, <2>3, <2>4, <2>5 DEF Unmerged
<1>15. CompressInv'
  BY <1>4, <1>7, <1>9, <1>10, <1>12, <1>13, <1>14 DEF CompressInv
<1>16. QED BY <1>1, <1>5, <1>15 DEF FlowInv

----------------------------------------------------------------------------
(* The flow that compresses: its tasks. *)

\* What a task makes takes its place.
LEMMA TaskReplaced ==
  ASSUME NEW i, i \in 1..Len(queue), List(queue, Len(queue)), Distinct(queue),
         NEW s, NEW n, List(s, n), Distinct(s), ElementsOf(s) \cap Tasks = {},
         queue' = Without(i) \o s
  PROVE  /\ List(queue', Len(queue')) /\ Distinct(queue)'
         /\ Tasks' = (Tasks \ {queue[i]}) \cup ElementsOf(s)
<1>1. /\ List(Without(i), Len(queue) - 1) /\ Distinct(Without(i))
      /\ ElementsOf(Without(i)) = Tasks \ {queue[i]}
  BY TasksLeft
<1>2. ElementsOf(Without(i)) \cap ElementsOf(s) = {}
  BY <1>1
<1>3. /\ List(Without(i) \o s, (Len(queue) - 1) + n)
      /\ ElementsOf(Without(i) \o s) = ElementsOf(Without(i)) \cup ElementsOf(s)
  BY <1>1, ListJoined
<1>4. Distinct(Without(i) \o s)
  BY <1>1, <1>2, JoinedDistinct
<1>5. PICK q : q = Without(i) \o s
  OBVIOUS
<1>6. Distinct(q) /\ List(q, Len(q)) /\ ElementsOf(q) = (Tasks \ {queue[i]}) \cup ElementsOf(s)
  BY <1>1, <1>3, <1>4, <1>5 DEF List
<1>7. queue' = q
  BY <1>5
<1>8. QED BY <1>6, <1>7 DEF Distinct, Tasks

\* A task that makes none leaves the others.
LEMMA TaskGone ==
  ASSUME NEW i, i \in 1..Len(queue), List(queue, Len(queue)), Distinct(queue),
         queue' = Without(i)
  PROVE  /\ List(queue', Len(queue')) /\ Distinct(queue)'
         /\ Tasks' = Tasks \ {queue[i]} /\ queue[i] \in Tasks
<1>1. /\ List(Without(i), Len(queue) - 1) /\ Distinct(Without(i)) /\ queue[i] \in Tasks
      /\ ElementsOf(Without(i)) = Tasks \ {queue[i]}
  BY TasksLeft
<1>2. PICK q : q = Without(i)
  OBVIOUS
<1>3. Distinct(q) /\ List(q, Len(q)) /\ ElementsOf(q) = Tasks \ {queue[i]}
  BY <1>1, <1>2 DEF List
<1>4. queue' = q
  BY <1>2
<1>5. QED BY <1>1, <1>3, <1>4 DEF Distinct, Tasks

\* One task alone.
LEMMA OneTask ==
  ASSUME NEW s, NEW t
  PROVE  List(<<t>>, 1) /\ Distinct(<<t>>) /\ ElementsOf(<<t>>) = {t} /\ Append(s, t) = s \o <<t>>
<1>1. ElementsOf(<<t>>) = {t}
  BY DEF ElementsOf
<1>2. List(<<t>>, 1)
  BY <1>1 DEF List
<1>3. Distinct(<<t>>)
  BY DEF Distinct
<1>4. QED BY <1>1, <1>2, <1>3

\* How far a channel is.
Advanced(c) == Unmerged(c) \/ Unassembled(c) \/ Segmented(c)

\* A step for one channel leaves the others where they are.
LEMMA OthersStay ==
  ASSUME NEW d, Advanced(d), input' = input,
         \A t \in Tasks : t.channel = d => t \in Tasks',
         \A t \in Tasks' : t.channel = d => t \in Tasks,
         fragments'[d] = fragments[d], merged'[d] = merged[d], allocated'[d] = allocated[d],
         descriptors'[d] = descriptors[d], FilesOf(d)' = FilesOf(d)
  PROVE  Advanced(d)'
<1>1. CompressTasks(d)' = CompressTasks(d)
  BY DEF CompressTasks
<1>2. \A op : Alone(op, d) \in Tasks' <=> Alone(op, d) \in Tasks
  <2>1. \A op : Alone(op, d).channel = d
    BY DEF Alone, Task
  <2>2. QED BY <2>1
<1>3. /\ Request' = Request /\ CountOf(input)' = CountOf(input)
      /\ BlocksOf(input)' = BlocksOf(input) /\ FrameSetOf(d)' = FrameSetOf(d)
  BY RequestStays
<1>4. Fresh(d) => Fresh(d)'
  BY <1>1 DEF Fresh
<1>5. Transformed(d)' = Transformed(d) /\ (AsPrepared(d) => AsPrepared(d)')
  BY DEF Transformed, AsPrepared
<1>6. Unmerged(d) => Unmerged(d)'
  BY <1>2, <1>3, <1>4, <1>5 DEF Unmerged
<1>7. Unassembled(d) => Unassembled(d)'
  BY <1>2, <1>3, <1>4 DEF Unassembled
<1>8. Segmented(d) => Segmented(d)'
  <2>1. Coding(CountOf(input), d, CompressTasks(d), FilesOf(d), descriptors[d])
          => Coding(CountOf(input), d, CompressTasks(d), FilesOf(d), descriptors[d])'
    BY <1>1, <1>3 DEF Coding, FileMade
  <2>2. QED BY <1>2, <1>3, <2>1 DEF Segmented
<1>9. QED BY <1>6, <1>7, <1>8 DEF Advanced

\* What is collected is what the channel's image has at its frames, in their order.
HasAt(list, F) ==
  /\ List(list, Len(list))
  /\ \A f \in ElementsOf(list) : f.subbands = F[f.frame]
AllAt(frames, list) ==
  \A f \in ElementsOf(frames) : \E j \in 1..Len(list) : list[j].frame = f
AsHad(collected, F, frames) == collected = [k \in 1..Len(frames) |-> F[frames[k]]]
CollectedAt(collected, list, frames) ==
  collected = [k \in 1..Len(frames) |->
                 list[CHOOSE j \in 1..Len(list) : list[j].frame = frames[k]].subbands]

\* Looked up by their frames, the fragments are those of the channel's image.
LEMMA SubbandsCollected ==
  ASSUME NEW list, NEW F, HasAt(list, F),
         NEW frames, AllAt(frames, list),
         NEW collected, CollectedAt(collected, list, frames)
  PROVE  AsHad(collected, F, frames)
<1>1. ASSUME NEW k \in 1..Len(frames)
      PROVE  list[CHOOSE j \in 1..Len(list) : list[j].frame = frames[k]].subbands = F[frames[k]]
  <2>1. frames[k] \in ElementsOf(frames)
    BY DEF ElementsOf
  <2>2. \E j \in 1..Len(list) : list[j].frame = frames[k]
    BY <2>1 DEF AllAt
  <2>3. PICK j : j = CHOOSE l \in 1..Len(list) : list[l].frame = frames[k]
    OBVIOUS
  <2>4. j \in 1..Len(list) /\ list[j].frame = frames[k]
    BY <2>2, <2>3
  <2>5. list[j] \in ElementsOf(list)
    BY <2>4 DEF ElementsOf
  <2>6. list[j].subbands = F[list[j].frame]
    BY <2>5 DEF HasAt
  <2>7. QED BY <2>3, <2>4, <2>6
<1>2. QED BY <1>1 DEF CollectedAt, AsHad

\* Fragments are merged, and their image is let go.
LEMMA Flow_PreprocessFragments ==
  ASSUME FramesInv, FlowInv, NEW i, PreprocessFragments(i)
  PROVE  FlowInv'
<1> DEFINE at == queue[i].channel
           ours == fragments[at]
           wide == PaddedTo(session.img_width)
           Found(frame) == ours[CHOOSE k \in 1..Len(ours) : ours[k].frame = frame].subbands
<1>c. PICK frames \in {collect_contiguous_fragments([k \in 1..Len(ours) |-> ours[k].frame], wide)} :
        \E collected \in {Evaluated([k \in 1..Len(frames) |-> Found(frames[k])])} :
          /\ \E behind : merged' = [merged EXCEPT ![at] = merge_subbands(collected, wide, behind)]
          /\ fragments' = [fragments EXCEPT ![at] =
                              SelectSeq(ours, LAMBDA f : f.frame \notin Range(frames))]
  BY DEF PreprocessFragments
<1>a. PICK collected \in {Evaluated([k \in 1..Len(frames) |-> Found(frames[k])])} :
        /\ \E behind : merged' = [merged EXCEPT ![at] = merge_subbands(collected, wide, behind)]
        /\ fragments' = [fragments EXCEPT ![at] =
                            SelectSeq(ours, LAMBDA f : f.frame \notin Range(frames))]
  BY <1>c
<1>d. PICK behind : merged' = [merged EXCEPT ![at] = merge_subbands(collected, wide, behind)]
  BY <1>a
<1>b. PICK c, list, tail :
        /\ c = at /\ list = ours
        /\ tail = SelectSeq(ours, LAMBDA f : f.frame \notin Range(frames))
  OBVIOUS
<1> DEFINE width == PaddedTo(session.img_width)
           taken == [k \in 1..Len(list) |-> list[k].frame]
<1>0. c = queue[i].channel
  BY <1>b
<1>1. list = fragments[c]
  BY <1>b
<1>2. /\ frames = collect_contiguous_fragments(taken, width)
      /\ CollectedAt(collected, list, frames)
      /\ merged' = [merged EXCEPT ![c] = merge_subbands(collected, width, behind)]
      /\ fragments' = [fragments EXCEPT ![c] = tail]
  <2>1. collected = [k \in 1..Len(frames) |-> Found(frames[k])]
    BY <1>a, EvaluatedIs
  <2>2. CollectedAt(collected, ours, frames)
    BY <2>1 DEF CollectedAt
  <2>3. fragments' = [fragments EXCEPT ![c] = tail]
    BY <1>a, <1>b
  <2>4. merged' = [merged EXCEPT ![c] = merge_subbands(collected, wide, behind)]
    BY <1>b, <1>d
  <2>5. [k \in 1..Len(ours) |-> ours[k].frame] = taken
    BY <1>b
  <2> HIDE DEF ours, taken
  <2>6. frames = collect_contiguous_fragments(taken, wide)
    BY <1>c, <2>5
  <2>7. QED BY <1>b, <2>2, <2>3, <2>4, <2>6
<1> HIDE DEF at, ours, wide, Found
<1>3. /\ Runs(i, "preprocess_fragments")
      /\ queue' = Append(Without(i), Alone("assemble_segments", c))
      /\ registry' = registry \ {Image(c)}
      /\ UNCHANGED <<input, session, settings, flow, allocated, descriptors, stored, decoded,
                     restored>>
  BY <1>0 DEF PreprocessFragments, Alone, free_descriptor, known, segment_vars, restore_vars
<1>4. /\ flow = "compress" /\ i \in 1..Len(queue) /\ queue[i].op = "preprocess_fragments"
      /\ c \in Channels /\ queue[i] \in Tasks
  <2>1. "preprocess_fragments" \in FlowTasks[flow]
    BY <1>3, OwnFlow
  <2>2. flow \in Flows
    BY DEF FlowInv, Shapes
  <2>3. flow = "compress"
    BY <2>1, <2>2 DEF Flows, FlowTasks
  <2>4. QED BY <1>0, <1>3, <2>3, OwnFlow
<1>5. Shapes /\ CompressInv /\ ValidRequest(Request)
  BY <1>4 DEF FlowInv, Shapes
<1>6. Request' = Request /\ Channels' = Channels
  BY <1>3, RequestStays
<1>7. queue[i] = Alone("preprocess_fragments", c)
  BY <1>0, <1>4, <1>5 DEF CompressInv, Alone, Task
<1>8. Unmerged(c)
  BY <1>4, <1>5, <1>7 DEF CompressInv, Unassembled, Segmented
<1>9. PICK next : next = Alone("assemble_segments", c)
  OBVIOUS
<1>10. next.op = "assemble_segments" /\ next.channel = c /\ next \notin Tasks
  BY <1>8, <1>9 DEF Unmerged, Alone, Task
<1>11. /\ List(queue', Len(queue')) /\ Distinct(queue)'
       /\ Tasks' = (Tasks \ {queue[i]}) \cup {next}
  <2>1. /\ List(<<next>>, 1) /\ Distinct(<<next>>) /\ ElementsOf(<<next>>) = {next}
        /\ Append(Without(i), next) = Without(i) \o <<next>>
    BY OneTask
  <2>2. PICK s : s = <<next>>
    OBVIOUS
  <2>3. List(s, 1) /\ Distinct(s) /\ ElementsOf(s) = {next} /\ queue' = Without(i) \o s
    BY <1>3, <1>9, <2>1, <2>2
  <2>4. ElementsOf(s) \cap Tasks = {}
    BY <1>10, <2>3
  <2>5. List(queue, Len(queue)) /\ Distinct(queue)
    BY <1>5 DEF Shapes, CompressInv
  <2>6. QED BY <1>4, <2>3, <2>4, <2>5, TaskReplaced
<1>12. DOMAIN merged' = Channels /\ DOMAIN fragments' = Channels
  BY <1>2, <1>5 DEF Shapes
<1>13. Shapes'
  BY <1>3, <1>5, <1>6, <1>11, <1>12 DEF Shapes
<1>14. Settled' /\ Unread' /\ session' = SessionWith(SourceWidth(Request))'
  BY <1>3, <1>5, <1>6 DEF CompressInv, Settled, Unread, ForAll, SessionWith
<1>15. ASSUME NEW t \in Tasks'
       PROVE  /\ t.channel \in Channels'
              /\ \/ t = Alone("preprocess_fragments", t.channel)
                 \/ t = Alone("assemble_segments", t.channel)
                 \/ t.op = "compress_segment"
  <2>1. CASE t = next
    BY <1>4, <1>6, <1>9, <1>10, <2>1
  <2>2. CASE t \in Tasks
    BY <1>5, <1>6, <2>2 DEF CompressInv
  <2>3. QED BY <1>11, <2>1, <2>2
<1>16. IsFiniteSet(stored') /\ \A file \in stored' : file.channel \in Channels'
  BY <1>3, <1>5, <1>6 DEF CompressInv
<1>17. registry' = CompressRegistry(Tasks', stored')
  <2>1. {t \in Tasks' : t.op = "compress_segment"} = {t \in Tasks : t.op = "compress_segment"}
    BY <1>4, <1>10, <1>11
  <2>2. \A t \in Tasks : t.op = "preprocess_fragments" /\ t.channel = c => t = queue[i]
    BY <1>5, <1>7 DEF CompressInv, Alone, Task
  <2>3. {t.channel : t \in {t \in Tasks' : t.op = "preprocess_fragments"}}
          = {t.channel : t \in {t \in Tasks : t.op = "preprocess_fragments"}} \ {c}
    BY <1>0, <1>4, <1>10, <1>11, <2>2
  <2>4. PICK X, Y : /\ X = {t.channel : t \in {t \in Tasks : t.op = "preprocess_fragments"}}
                    /\ Y = {Segment(t.channel, t.cx.id) :
                              t \in {t \in Tasks : t.op = "compress_segment"}}
                             \cup {Segment(file.channel, file.id) : file \in stored}
    OBVIOUS
  <2>5. CompressRegistry(Tasks, stored) = {Image(d) : d \in X} \cup Y
    BY <2>4 DEF CompressRegistry
  <2>6. CompressRegistry(Tasks', stored') = {Image(d) : d \in X \ {c}} \cup Y
    <3>1. {Image(t.channel) : t \in {t \in Tasks' : t.op = "preprocess_fragments"}}
            = {Image(d) : d \in X \ {c}}
      <4>1. PICK R, Z : R = {t \in Tasks' : t.op = "preprocess_fragments"} /\ Z = X \ {c}
        OBVIOUS
      <4>2. {t.channel : t \in R} = Z
        BY <2>3, <2>4, <4>1
      <4>3. {Image(t.channel) : t \in R} = {Image(d) : d \in Z}
        BY <4>2
      <4>4. QED BY <4>1, <4>3
    <3>2. {Segment(t.channel, t.cx.id) : t \in {t \in Tasks' : t.op = "compress_segment"}}
            \cup {Segment(file.channel, file.id) : file \in stored'} = Y
      BY <1>3, <2>1, <2>4
    <3>3. QED BY <3>1, <3>2 DEF CompressRegistry
  <2>7. /\ \A d : Image(d).channel = d /\ Image(d).content = "image"
        /\ \A y \in Y : y.content = "segment"
    BY <2>4 DEF Image, Segment
  <2>8. Image(c) \notin Y
    BY <2>7
  <2>9. {Image(d) : d \in X \ {c}} = {Image(d) : d \in X} \ {Image(c)}
    BY <2>7
  <2>10. registry' = CompressRegistry(Tasks, stored) \ {Image(c)}
    BY <1>3, <1>5 DEF CompressInv
  <2>11. QED BY <2>5, <2>6, <2>8, <2>9, <2>10
<1>18. collected = FragmentsOf(input, c) /\ width = PaddedTo(SourceWidth(Inputs[input]))
  <2>1. input \in DOMAIN Inputs /\ ValidRequest(Inputs[input]) /\ c \in DOMAIN Inputs[input].images
    BY <1>4, <1>5 DEF Shapes, Request, Channels
  <2>2. session = SessionWith(SourceWidth(Request))
    BY <1>5 DEF CompressInv
  <2>3. session.img_width = SourceWidth(Inputs[input])
    BY <2>2 DEF SessionWith, SessionOf, parse_session_settings, Request
  <2>4. width = PaddedTo(SourceWidth(Inputs[input]))
    BY <2>3
  <2>5. ShapeOf(Inputs[input], c)[1] = width
    <3>1. ShapeOf(Inputs[input], c)
            = <<PaddedTo(SourceWidth(Inputs[input])), PaddedTo(SourceHeight(Inputs[input]))>>
      BY <2>1, PreparedIs
    <3>2. QED BY <2>4, <3>1
  <2>6. /\ List(list, Len(list)) /\ Transformed(c) = FrameSetOf(c)
        /\ \A f \in ElementsOf(list) : f.subbands = Prepared[input][c].fragments[f.frame]
    BY <1>1, <1>8 DEF Unmerged, AsPrepared
  <2>7. {list[k].frame : k \in 1..Len(list)} = ElementsOf(FrameList(input, c))
    BY <1>1, <2>6 DEF Transformed, FrameSetOf
  <2>8. ElementsOf(taken) = ElementsOf(FrameList(input, c))
    <3>1. Len(taken) = Len(list)
      BY <2>6 DEF List
    <3>2. ElementsOf(taken) = {list[k].frame : k \in 1..Len(list)}
      BY <3>1 DEF ElementsOf
    <3>3. QED BY <2>7, <3>2
  <2> HIDE DEF taken, width
  <2>9. frames = FrameList(input, c)
    BY <1>2, <2>1, <2>5, <2>8, CollectedInOrder
  <2>10. PICK F : F = Prepared[input][c].fragments
    OBVIOUS
  <2>11. HasAt(list, F)
    BY <2>6, <2>10 DEF HasAt
  <2>12. AllAt(frames, list)
    BY <2>7, <2>9 DEF AllAt
  <2>13. AsHad(collected, F, frames)
    BY <1>2, <2>11, <2>12, SubbandsCollected
  <2>14. QED BY <2>4, <2>9, <2>10, <2>13 DEF FragmentsOf, AsHad
<1> HIDE DEF width
<1>19. merged'[c].subbands[1].width * merged'[c].subbands[1].height = BlocksOf(input)
  <2>1. merged'[c] = merge_subbands(FragmentsOf(input, c), PaddedTo(SourceWidth(Inputs[input])),
                                    behind)
    BY <1>2, <1>4, <1>5, <1>18 DEF Shapes
  <2>2. input \in DOMAIN Inputs /\ ValidRequest(Inputs[input]) /\ c \in DOMAIN Inputs[input].images
    BY <1>4, <1>5 DEF Shapes, Request, Channels
  <2>3. LET subbands == merge_subbands(FragmentsOf(input, c),
                                       PaddedTo(SourceWidth(Inputs[input])), behind).subbands
        IN subbands[1].width * subbands[1].height = BlocksOf(input)
    BY <2>2, BlocksCounted
  <2>4. QED BY <2>1, <2>3
<1>20. Unassembled(c)'
  <2>1. CompressTasks(c)' = CompressTasks(c)
    BY <1>4, <1>10, <1>11 DEF CompressTasks
  <2>2. Fresh(c)'
    BY <1>3, <1>8, <2>1 DEF Unmerged, Fresh, FilesOf
  <2>3. Alone("preprocess_fragments", c)' \notin Tasks' /\ Alone("assemble_segments", c)' \in Tasks'
    BY <1>7, <1>9, <1>10, <1>11 DEF Alone, Task
  <2>4. BlocksOf(input)' = BlocksOf(input)
    BY <1>3, RequestStays
  <2>5. QED BY <1>19, <2>2, <2>3, <2>4 DEF Unassembled
<1>21. ASSUME NEW d \in Channels', d # c
       PROVE  Advanced(d)'
  <2>1. d \in Channels /\ Advanced(d)
    BY <1>5, <1>6 DEF CompressInv, Advanced
  <2>2. fragments'[d] = fragments[d] /\ merged'[d] = merged[d]
    BY <1>2, <1>5, <1>21, <2>1 DEF Shapes
  <2>3. /\ \A t \in Tasks : t.channel = d => t \in Tasks'
        /\ \A t \in Tasks' : t.channel = d => t \in Tasks
    BY <1>0, <1>10, <1>11, <1>21
  <2>4. FilesOf(d)' = FilesOf(d)
    BY <1>3 DEF FilesOf
  <2>5. QED BY <1>3, <2>1, <2>2, <2>3, <2>4, OthersStay
<1>22. \A d \in Channels' : (Unmerged(d) \/ Unassembled(d) \/ Segmented(d))'
  BY <1>20, <1>21 DEF Advanced
<1>23. CompressInv'
  BY <1>11, <1>14, <1>15, <1>16, <1>17, <1>22 DEF CompressInv
<1>24. QED BY <1>3, <1>4, <1>13, <1>23 DEF FlowInv

----------------------------------------------------------------------------
(* Segments are dispatched and coded. *)

\* The contexts of n segments of a channel without any.
Dispatch(ds, n, c) ==
  /\ Len(ds) = n
  /\ \A k \in 1..n :
       /\ ds[k].id = k - 1
       /\ ds[k].channel_start <=> k = 1
       /\ ds[k].channel_end <=> k = n
       /\ ds[k].image_start <=> k = 1 /\ c = 1
       /\ Fields \subseteq DOMAIN ds[k].segment /\ ds[k].segment.size \in Int

\* The contexts for a channel's segments number them from 0 on and mark the first and the last.
LEMMA SegmentsDispatched ==
  ASSUME NEW n \in Nat, NEW segments, CutInto(segments, n), NEW c,
         NEW ds, ds = Dispatched(c, segments, 0)
  PROVE  Dispatch(ds, n, c)
<1>1. Len(segments) = n
  BY DEF CutInto, List
<1>2. Len(ds) = n
  BY <1>1 DEF Dispatched
<1>3. ASSUME NEW k \in 1..n
      PROVE  /\ ds[k].id = k - 1
             /\ ds[k].channel_start <=> k = 1
             /\ ds[k].channel_end <=> k = n
             /\ ds[k].image_start <=> k = 1 /\ c = 1
             /\ ds[k].segment = segments[k]
  <2>1. PICK begins, ends, starts, stops :
          /\ begins = (k = 1) /\ ends = (k = n)
          /\ starts = (k = 1 /\ c = 1) /\ stops = (k = n /\ c = Len(settings))
    OBVIOUS
  <2>2. k \in 1..Len(segments)
    BY <1>1
  <2>3. ds[k] = [segment |-> segments[k], id |-> 0 + k - 1,
                 channel_start |-> k = 1, channel_end |-> k = Len(segments),
                 image_start |-> k = 1 /\ c = 1,
                 image_end |-> k = Len(segments) /\ c = Len(settings)]
    BY <2>2, Zenon DEF Dispatched
  <2>4. ds[k] = [segment |-> segments[k], id |-> 0 + k - 1,
                 channel_start |-> begins, channel_end |-> ends,
                 image_start |-> starts, image_end |-> stops]
    BY <1>1, <2>1, <2>3, Zenon
  <2>5. /\ ds[k].id = 0 + k - 1 /\ ds[k].segment = segments[k]
        /\ ds[k].channel_start = begins /\ ds[k].channel_end = ends /\ ds[k].image_start = starts
    BY <2>4
  <2>6. 0 + k - 1 = k - 1
    OBVIOUS
  <2>7. QED BY <2>1, <2>5, <2>6
<1>4. QED BY <1>2, <1>3 DEF Dispatch, CutInto

\* Their tasks,
TasksFor(ds, c) == [k \in 1..Len(ds) |-> Task("compress_segment", c, ds[k])]
PendingFor(ds) == [k \in 1..Len(ds) |-> Pending(ds[k].id)]
DataFor(ds, c) == {Segment(c, ds[k].id) : k \in 1..Len(ds)}
DataOf(tasks) == {Segment(t.channel, t.cx.id) : t \in tasks}

\* Each of them is one task, and no two tasks are of the same segment.
LEMMA TasksDispatched ==
  ASSUME NEW n \in Nat, NEW c, NEW ds, Dispatch(ds, n, c), NEW s, s = TasksFor(ds, c)
  PROVE  /\ List(s, n) /\ Distinct(s)
         /\ \A t \in ElementsOf(s) :
              t.op = "compress_segment" /\ t.channel = c /\ TaskMade(t, c, n)
         /\ TaskIds(ElementsOf(s)) = 0..(n - 1)
         /\ \A t \in ElementsOf(s), u \in ElementsOf(s) : t.cx.id = u.cx.id => t = u
         /\ DataFor(ds, c) = DataOf(ElementsOf(s))
<1>1. Len(ds) = n /\ s = [k \in 1..n |-> Task("compress_segment", c, ds[k])]
  BY DEF Dispatch, TasksFor
<1>2. s = [k \in 1..n |-> s[k]]
  BY <1>1
<1>3. List(s, n) /\ Len(s) = n
  BY <1>2, ListMade DEF List
<1>4. ASSUME NEW k \in 1..n
      PROVE  /\ s[k].op = "compress_segment" /\ s[k].channel = c
             /\ s[k].cx = ds[k] /\ s[k].cx.id = k - 1
  <2>1. s[k] = Task("compress_segment", c, ds[k])
    BY <1>1
  <2>2. ds[k].id = k - 1
    BY DEF Dispatch
  <2>3. QED BY <2>1, <2>2 DEF Task
<1>5. ASSUME NEW k \in 1..n
      PROVE  TaskMade(s[k], c, n)
  <2>1. k - 1 = 0 <=> k = 1
    OBVIOUS
  <2>2. k - 1 = n - 1 <=> k = n
    OBVIOUS
  <2>3. QED BY <1>4, <2>1, <2>2 DEF TaskMade, Dispatch
<1>6. Distinct(s)
  <2>1. ASSUME NEW j \in 1..n, NEW k \in 1..n, s[j] = s[k] PROVE j = k
    <3>1. j - 1 = k - 1
      BY <1>4, <2>1
    <3>2. QED BY <3>1
  <2>2. QED BY <1>3, <2>1 DEF Distinct
<1>7. ElementsOf(s) = {s[k] : k \in 1..n}
  BY <1>3 DEF ElementsOf
<1>8. TaskIds(ElementsOf(s)) = 0..(n - 1)
  <2>1. ASSUME NEW m \in 0..(n - 1) PROVE \E k \in 1..n : s[k].cx.id = m
    <3>1. m + 1 \in 1..n /\ (m + 1) - 1 = m
      OBVIOUS
    <3>2. s[m + 1].cx.id = m
      BY <1>4, <3>1
    <3>3. QED BY <3>1, <3>2
  <2>2. \A k \in 1..n : s[k].cx.id \in 0..(n - 1)
    <3>1. \A k \in 1..n : k - 1 \in 0..(n - 1)
      OBVIOUS
    <3>2. QED BY <1>4, <3>1
  <2>3. \A m : m \in TaskIds(ElementsOf(s)) <=> \E k \in 1..n : s[k].cx.id = m
    BY <1>7 DEF TaskIds
  <2>4. QED BY <2>1, <2>2, <2>3
<1>9. \A t \in ElementsOf(s), u \in ElementsOf(s) : t.cx.id = u.cx.id => t = u
  <2>1. ASSUME NEW j \in 1..n, NEW k \in 1..n, s[j].cx.id = s[k].cx.id PROVE s[j] = s[k]
    <3>1. j - 1 = k - 1
      BY <1>4, <2>1
    <3>2. QED BY <3>1
  <2>2. QED BY <1>7, <2>1
<1>10. {Segment(c, ds[k].id) : k \in 1..Len(ds)}
              = {Segment(t.channel, t.cx.id) : t \in ElementsOf(s)}
  <2>1. \A k \in 1..n : Segment(s[k].channel, s[k].cx.id) = Segment(c, ds[k].id)
    BY <1>4
  <2>2. \A x : x \in {Segment(c, ds[k].id) : k \in 1..Len(ds)}
                <=> \E k \in 1..n : x = Segment(c, ds[k].id)
    BY <1>1
  <2>3. \A x : x \in {Segment(t.channel, t.cx.id) : t \in ElementsOf(s)}
                <=> \E k \in 1..n : x = Segment(s[k].channel, s[k].cx.id)
    BY <1>7
  <2>4. PICK X, Y : /\ X = {Segment(c, ds[k].id) : k \in 1..Len(ds)}
                    /\ Y = {Segment(t.channel, t.cx.id) : t \in ElementsOf(s)}
    OBVIOUS
  <2>5. ASSUME NEW x PROVE x \in X <=> x \in Y
    <3>1. x \in X <=> \E k \in 1..n : x = Segment(c, ds[k].id)
      BY <2>2, <2>4
    <3>2. x \in Y <=> \E k \in 1..n : x = Segment(s[k].channel, s[k].cx.id)
      BY <2>3, <2>4
    <3>3. QED BY <2>1, <3>1, <3>2
  <2>6. X = Y
    BY <2>5
  <2>7. QED BY <2>4, <2>6
<1>11. \A t \in ElementsOf(s) :
         t.op = "compress_segment" /\ t.channel = c /\ TaskMade(t, c, n)
  <2> SUFFICES ASSUME NEW t \in ElementsOf(s)
               PROVE  t.op = "compress_segment" /\ t.channel = c /\ TaskMade(t, c, n)
    OBVIOUS
  <2>1. PICK k \in 1..n : t = s[k]
    BY <1>7
  <2>2. QED BY <1>4, <1>5, <2>1
<1>12. QED BY <1>3, <1>6, <1>8, <1>9, <1>10, <1>11 DEF DataFor, DataOf

\* A list behind itself.
LEMMA ListTwice ==
  ASSUME NEW n, NEW r, List(r, n), NEW d, d = r \o r
  PROVE  /\ List(d, n + n)
         /\ \A k \in 1..n : d[k] = r[k] /\ d[n + k] = r[k]
<1>1. /\ List(r \o r, n + n)
      /\ \A k \in 1..n : (r \o r)[k] = r[k]
      /\ \A k \in 1..n : (r \o r)[n + k] = r[k]
      /\ ElementsOf(r \o r) = ElementsOf(r) \cup ElementsOf(r)
  BY ListJoined
<1>2. QED BY <1>1

\* and their descriptors: every operation is registered twice.
RegisteredTwice(d, ds) ==
  \E list, r : list = <<>> /\ r = PendingFor(ds) /\ d = list \o r \o r

\* The segments are registered twice: those registered first have the descriptors at their ids.
LEMMA DescriptorsDispatched ==
  ASSUME NEW n \in Nat, NEW c, NEW ds, Dispatch(ds, n, c), NEW d, RegisteredTwice(d, ds)
  PROVE  Described(d, {}) /\ Len(d) = 2 * n /\ \A k \in 1..n : d[k].segment_id = k - 1
<1>0. PICK list, r : list = <<>> /\ r = PendingFor(ds) /\ d = list \o r \o r
  BY DEF RegisteredTwice
<1>1. Len(ds) = n /\ r = [k \in 1..n |-> Pending(ds[k].id)]
  BY <1>0 DEF Dispatch, PendingFor
<1>2. r = [k \in 1..n |-> r[k]]
  BY <1>1
<1>3. List(r, n)
  BY <1>2, ListMade
<1>4. list \o r = r
  <2>1. r \in Seq(ElementsOf(r))
    BY <1>3 DEF List
  <2>2. QED BY <1>0, <2>1
<1>5. PICK q : q = r
  OBVIOUS
<1>6. List(q, n) /\ d = q \o q
  BY <1>0, <1>3, <1>4, <1>5
<1>8. /\ List(d, n + n)
      /\ \A k \in 1..n : d[k] = q[k] /\ d[n + k] = q[k]
  BY <1>6, ListTwice, ZenonT(30)
<1>10. List(d, n + n) /\ Len(d) = n + n
  BY <1>8 DEF List
<1>11. ASSUME NEW k \in 1..n
       PROVE  d[k] = Pending(k - 1) /\ d[n + k] = Pending(k - 1)
  <2>1. d[k] = r[k] /\ d[n + k] = r[k]
    BY <1>5, <1>8
  <2>2. r[k] = Pending(ds[k].id) /\ ds[k].id = k - 1
    BY <1>1 DEF Dispatch
  <2>3. QED BY <2>1, <2>2
<1>12. ASSUME NEW k \in 1..(n + n)
       PROVE  d[k] = [state |-> "pending", segment_id |-> d[k].segment_id]
  <2>1. \E m : d[k] = Pending(m)
    <3>1. CASE k \in 1..n
      BY <1>11, <3>1
    <3>2. CASE k \notin 1..n
      <4>1. k - n \in 1..n /\ n + (k - n) = k
        BY <3>2
      <4>2. QED BY <1>11, <4>1
    <3>3. QED BY <3>1, <3>2
  <2>2. PICK m : d[k] = Pending(m)
    BY <2>1
  <2>3. Pending(m) = [state |-> "pending", segment_id |-> m] /\ Pending(m).segment_id = m
    BY DEF Pending
  <2>4. QED BY <2>2, <2>3
<1>13. \A k \in 1..n : d[k].segment_id = k - 1
  <2>1. \A m : Pending(m).segment_id = m
    BY DEF Pending
  <2>2. QED BY <1>11, <2>1
<1>14. n + n = 2 * n
  OBVIOUS
<1>15. List(d, Len(d))
  BY <1>10
<1>16. Described(d, {})
  BY <1>10, <1>12, <1>15 DEF Described
<1>17. QED BY <1>10, <1>13, <1>14, <1>16

\* So nothing is coded at first,
LEMMA CodingStarts ==
  ASSUME NEW n \in Nat, NEW c, NEW tasks, NEW list,
         Described(list, {}), Len(list) = 2 * n, \A k \in 1..n : list[k].segment_id = k - 1,
         TaskIds(tasks) = 0..(n - 1), \A t \in tasks : TaskMade(t, c, n),
         \A t \in tasks, u \in tasks : t.cx.id = u.cx.id => t = u
  PROVE  Coding(n, c, tasks, {}, list)
<1>1. Ids({}) = {}
  BY DEF Ids
<1>2. QED BY <1>1 DEF Coding

\* and then a segment with every task.
LEMMA CodingNext ==
  ASSUME NEW n \in Nat, NEW c, NEW tasks, NEW files, NEW list, Coding(n, c, tasks, files, list),
         NEW t \in tasks, NEW file, file.id = t.cx.id, FileMade(file, n, SourceWidth(Request)),
         NEW d, d = Done(list, t.cx.id)
  PROVE  Coding(n, c, tasks \ {t}, files \cup {file}, d)
<1>1. PICK id : id = t.cx.id
  OBVIOUS
<1>2. id \in 0..(n - 1) /\ id \notin Ids(files) /\ Len(list) = 2 * n /\ Described(list, Ids(files))
  BY <1>1 DEF Coding, TaskIds
<1>3. id \in 0..(Len(list) - 1)
  BY <1>2
<1>4. /\ Described(d, Ids(files) \cup {id}) /\ Len(d) = Len(list)
      /\ \A k \in 1..Len(list) : d[k].segment_id = list[k].segment_id
  <2>1. Described(list, Ids(files)) /\ d = Done(list, id)
    BY <1>1, <1>2
  <2>2. QED BY <1>3, <2>1, DoneIs
<1>5. Ids(files \cup {file}) = Ids(files) \cup {id}
  BY <1>1 DEF Ids
<1>6. TaskIds(tasks \ {t}) = TaskIds(tasks) \ {id}
  <2>1. \A u \in tasks : u.cx.id = id => u = t
    BY <1>1 DEF Coding
  <2>2. QED BY <1>1, <2>1 DEF TaskIds
<1>7. \A k \in 1..n : k \in 1..Len(list)
  BY <1>2
<1>8. /\ \A k \in 1..n : list[k].segment_id = k - 1
      /\ TaskIds(tasks) \cup Ids(files) = 0..(n - 1) /\ TaskIds(tasks) \cap Ids(files) = {}
      /\ \A u \in tasks, v \in tasks : u.cx.id = v.cx.id => u = v
      /\ \A f \in files, g \in files : f.id = g.id => f = g
      /\ \A u \in tasks : TaskMade(u, c, n)
      /\ \A f \in files : FileMade(f, n, SourceWidth(Request))
  BY DEF Coding
<1>9. \A k \in 1..n : d[k].segment_id = k - 1
  BY <1>4, <1>7, <1>8
<1>10. \A f \in files : f.id # id
  BY <1>2 DEF Ids
<1>11. \A f \in files \cup {file}, g \in files \cup {file} : f.id = g.id => f = g
  BY <1>1, <1>8, <1>10
<1>12. /\ TaskIds(tasks \ {t}) \cup Ids(files \cup {file}) = 0..(n - 1)
       /\ TaskIds(tasks \ {t}) \cap Ids(files \cup {file}) = {}
  <2>1. PICK X, Y, Z : X = TaskIds(tasks) /\ Y = Ids(files) /\ Z = 0..(n - 1)
    OBVIOUS
  <2>2. id \in Z /\ id \notin Y /\ X \cup Y = Z /\ X \cap Y = {}
    BY <1>2, <1>8, <2>1
  <2>3. (X \ {id}) \cup (Y \cup {id}) = Z /\ (X \ {id}) \cap (Y \cup {id}) = {}
    BY <2>2
  <2>4. QED BY <1>5, <1>6, <2>1, <2>3
<1>13. /\ \A u \in tasks \ {t} : TaskMade(u, c, n)
       /\ \A f \in files \cup {file} : FileMade(f, n, SourceWidth(Request))
       /\ \A u \in tasks \ {t}, v \in tasks \ {t} : u.cx.id = v.cx.id => u = v
  BY <1>8
<1>14. Described(d, Ids(files \cup {file})) /\ Len(d) = 2 * n
  BY <1>2, <1>4, <1>5
<1>15. QED BY <1>9, <1>11, <1>12, <1>13, <1>14 DEF Coding

\* How many segments a channel has.
LEMMA CountIs ==
  ASSUME NEW i \in DOMAIN Inputs, ValidRequest(Inputs[i])
  PROVE  CountOf(i) \in Nat
<1>1. PICK n \in Nat \ {0} : DOMAIN Inputs[i].images = 1..n
  BY ChannelsAre
<1>2. BlocksOf(i) \in Int
  <2>1. 1 \in DOMAIN Inputs[i].images
    BY <1>1
  <2>2. LET subbands == merge_subbands(FragmentsOf(i, 1),
                                       PaddedTo(SourceWidth(Inputs[i])), 0).subbands
        IN BlocksOf(i) \in Int
    BY <2>1, BlocksCounted
  <2>3. QED BY <2>2
<1>3. SizeOf(i) \in Nat \ {0}
  BY SettingsAsked
<1>4. List(SegmentSizes(BlocksOf(i), SizeOf(i)), Len(SegmentSizes(BlocksOf(i), SizeOf(i))))
  BY <1>2, <1>3, SizesListed
<1>5. QED BY <1>4 DEF CountOf, List

----------------------------------------------------------------------------
(* The flow that compresses: its steps. *)

\* A channel's segments are dispatched: their tasks wait, and the registry holds them.
LEMMA Flow_AssembleSegments ==
  ASSUME FramesInv, FlowInv, NEW i, AssembleSegments(i)
  PROVE  FlowInv'
<1> DEFINE at == queue[i].channel
           cut == Segments(merged[at].subbands, session.shifts,
                           SettingsAt(settings[at].segment, 0).value.size)
           Ready(ds) == [k \in 1..Len(ds) |-> Pending(ds[k].id)]
           New(ds) == [k \in 1..Len(ds) |-> Task("compress_segment", at, ds[k])]
<1>1. PICK segments \in {Evaluated(cut)} :
        \E ds \in {Evaluated(Dispatched(at, segments, allocated[at].second))} :
          /\ allocated' = [allocated EXCEPT ![at] =
                             [first |-> DoneLowerBound(descriptors[at], allocated[at]),
                              second |-> allocated[at].second + Len(segments)]]
          /\ descriptors' = [descriptors EXCEPT ![at] = @ \o Ready(ds) \o Ready(ds)]
          /\ queue' = Without(i) \o New(ds)
          /\ registry' = registry \cup {Segment(at, ds[k].id) : k \in 1..Len(ds)}
  BY DEF AssembleSegments
<1>2. PICK ds \in {Evaluated(Dispatched(at, segments, allocated[at].second))} :
        /\ allocated' = [allocated EXCEPT ![at] =
                           [first |-> DoneLowerBound(descriptors[at], allocated[at]),
                            second |-> allocated[at].second + Len(segments)]]
        /\ descriptors' = [descriptors EXCEPT ![at] = @ \o Ready(ds) \o Ready(ds)]
        /\ queue' = Without(i) \o New(ds)
        /\ registry' = registry \cup {Segment(at, ds[k].id) : k \in 1..Len(ds)}
  BY <1>1
<1>3. PICK c, s, r :
        c = at /\ s = New(ds) /\ r = Ready(ds)
  OBVIOUS
<1>4. /\ c = queue[i].channel /\ segments = cut
      /\ ds = Dispatched(c, segments, allocated[c].second)
      /\ s = [k \in 1..Len(ds) |-> Task("compress_segment", c, ds[k])]
      /\ r = [k \in 1..Len(ds) |-> Pending(ds[k].id)]
  BY <1>1, <1>2, <1>3, EvaluatedIs
<1>5. /\ Runs(i, "assemble_segments")
      /\ UNCHANGED <<input, session, settings, flow, fragments, merged, stored, decoded, restored>>
  BY DEF AssembleSegments, known, transform_vars, restore_vars
<1>6. PICK first, list :
        /\ first = DoneLowerBound(descriptors[at], allocated[at])
        /\ list = descriptors[c]
  OBVIOUS
<1>7. /\ allocated' = [allocated EXCEPT ![c] =
                         [first |-> first, second |-> allocated[c].second + Len(segments)]]
      /\ descriptors' = [descriptors EXCEPT ![c] = @ \o r \o r]
      /\ queue' = Without(i) \o s
      /\ registry' = registry \cup {Segment(c, ds[k].id) : k \in 1..Len(ds)}
  <2> HIDE DEF Ready, New
  <2>1. descriptors' = [descriptors EXCEPT ![at] = @ \o r \o r] /\ queue' = Without(i) \o s
    BY <1>2, <1>3
  <2> HIDE DEF at
  <2>2. QED BY <1>2, <1>3, <1>6, <2>1
<1>8. cut = Segments(merged[c].subbands, session.shifts,
                     SettingsAt(settings[c].segment, 0).value.size)
  BY <1>4
<1> HIDE DEF at, cut, Ready, New
<1>9. /\ flow = "compress" /\ i \in 1..Len(queue) /\ queue[i].op = "assemble_segments"
      /\ c \in Channels /\ queue[i] \in Tasks
  <2>1. "assemble_segments" \in FlowTasks[flow]
    BY <1>5, OwnFlow
  <2>2. flow \in Flows
    BY DEF FlowInv, Shapes
  <2>3. flow = "compress"
    BY <2>1, <2>2 DEF Flows, FlowTasks
  <2>4. QED BY <1>4, <1>5, <2>3, OwnFlow
<1>10. Shapes /\ CompressInv /\ ValidRequest(Request)
  BY <1>9 DEF FlowInv, Shapes
<1>11. Request' = Request /\ Channels' = Channels /\ CountOf(input)' = CountOf(input)
  BY <1>5, RequestStays
<1>12. queue[i] = Alone("assemble_segments", c)
  BY <1>4, <1>9, <1>10 DEF CompressInv, Alone, Task
<1>13. Unassembled(c)
  BY <1>9, <1>10, <1>12 DEF CompressInv, Unmerged, Segmented
<1>14. /\ CompressTasks(c) = {} /\ FilesOf(c) = {} /\ allocated[c].second = 0 /\ list = <<>>
       /\ merged[c].subbands[1].width * merged[c].subbands[1].height = BlocksOf(input)
  BY <1>6, <1>13 DEF Unassembled, Fresh
<1>15. input \in DOMAIN Inputs /\ ValidRequest(Inputs[input]) /\ c \in DOMAIN Inputs[input].images
  BY <1>9, <1>10 DEF Shapes, Request, Channels
<1>16. PICK n \in Nat : n = CountOf(input)
  BY <1>15, CountIs
<1>17. CutInto(segments, n)
  <2>1. SettingsAt(settings[c].segment, 0).value.size = SizeOf(input)
    <3>1. settings[c].segment = SegmentSettingsOf(Inputs[input])
      BY <1>9, <1>10 DEF CompressInv, Settled, ForAll, Request
    <3>2. QED BY <3>1 DEF SizeOf
  <2>2. PICK subbands : subbands = merged[c].subbands
    OBVIOUS
  <2>3. segments = Segments(subbands, session.shifts, SizeOf(input))
    BY <1>4, <1>8, <2>1, <2>2
  <2>4. SizeOf(input) \in Nat \ {0} /\ BlocksOf(input) \in Int
    <3>1. LET subbands1 == merge_subbands(FragmentsOf(input, c),
                                         PaddedTo(SourceWidth(Inputs[input])), 0).subbands
          IN /\ subbands1[1].width * subbands1[1].height = BlocksOf(input)
             /\ BlocksOf(input) \in Int
      BY <1>15, BlocksCounted
    <3>2. QED BY <1>15, <3>1, SettingsAsked
  <2>5. subbands[1].width * subbands[1].height = BlocksOf(input)
    BY <1>14, <2>2
  <2>6. CutInto(segments, Len(SegmentSizes(subbands[1].width * subbands[1].height, SizeOf(input))))
    BY <2>3, <2>4, <2>5, SegmentsCut
  <2>7. QED BY <1>16, <2>5, <2>6 DEF CountOf
<1>18. ds = Dispatched(c, segments, 0)
  BY <1>4, <1>14
<1>19. Dispatch(ds, n, c)
  BY <1>17, <1>18, SegmentsDispatched
<1>20. /\ List(s, n) /\ Distinct(s)
       /\ \A t \in ElementsOf(s) :
            t.op = "compress_segment" /\ t.channel = c /\ TaskMade(t, c, n)
       /\ TaskIds(ElementsOf(s)) = 0..(n - 1)
       /\ \A t \in ElementsOf(s), u \in ElementsOf(s) : t.cx.id = u.cx.id => t = u
       /\ {Segment(c, ds[k].id) : k \in 1..Len(ds)}
            = {Segment(t.channel, t.cx.id) : t \in ElementsOf(s)}
  <2>1. s = TasksFor(ds, c)
    BY <1>4 DEF TasksFor
  <2>2. /\ List(s, n) /\ Distinct(s)
        /\ \A t \in ElementsOf(s) :
             t.op = "compress_segment" /\ t.channel = c /\ TaskMade(t, c, n)
        /\ TaskIds(ElementsOf(s)) = 0..(n - 1)
        /\ \A t \in ElementsOf(s), u \in ElementsOf(s) : t.cx.id = u.cx.id => t = u
        /\ DataFor(ds, c) = DataOf(ElementsOf(s))
    BY <1>19, <2>1, TasksDispatched
  <2>3. QED BY <2>2 DEF DataFor, DataOf
<1>21. PICK d : d = list \o r \o r
  OBVIOUS
<1>22. Described(d, {}) /\ Len(d) = 2 * n /\ \A k \in 1..n : d[k].segment_id = k - 1
  <2>1. r = PendingFor(ds) /\ list = <<>>
    BY <1>4, <1>14 DEF PendingFor
  <2>2. RegisteredTwice(d, ds)
    BY <1>21, <2>1 DEF RegisteredTwice
  <2>3. QED BY <1>19, <2>2, DescriptorsDispatched
<1>23. descriptors'[c] = d /\ allocated'[c].second = n
  <2>1. Len(segments) = n
    BY <1>17 DEF CutInto, List
  <2>2. DOMAIN descriptors = Channels /\ DOMAIN allocated = Channels
    BY <1>10 DEF Shapes
  <2>3. descriptors'[c] = d
    BY <1>6, <1>7, <1>9, <1>21, <2>2
  <2>4. allocated'[c].second = 0 + n
    BY <1>7, <1>9, <1>14, <2>1, <2>2
  <2>5. QED BY <2>3, <2>4
<1>24. /\ List(queue', Len(queue')) /\ Distinct(queue)'
       /\ Tasks' = (Tasks \ {queue[i]}) \cup ElementsOf(s)
  <2>1. ElementsOf(s) \cap Tasks = {}
    <3> SUFFICES ASSUME NEW t \in ElementsOf(s), t \in Tasks PROVE FALSE
      OBVIOUS
    <3>1. t.op = "compress_segment" /\ t.channel = c
      BY <1>20
    <3>2. t \in CompressTasks(c)
      BY <3>1 DEF CompressTasks
    <3>3. QED BY <1>14, <3>2
  <2>2. List(queue, Len(queue)) /\ Distinct(queue)
    BY <1>10 DEF Shapes, CompressInv
  <2>3. List(s, n) /\ Distinct(s) /\ queue' = Without(i) \o s
    BY <1>7, <1>20
  <2>4. QED BY <1>9, <2>1, <2>2, <2>3, TaskReplaced
<1>25. DOMAIN allocated' = Channels /\ DOMAIN descriptors' = Channels
  BY <1>7, <1>10 DEF Shapes
<1>26. Shapes'
  BY <1>5, <1>10, <1>11, <1>24, <1>25 DEF Shapes
<1>27. Settled' /\ Unread' /\ session' = SessionWith(SourceWidth(Request))'
  BY <1>5, <1>10, <1>11 DEF CompressInv, Settled, Unread, ForAll, SessionWith
<1>28. ASSUME NEW t \in Tasks'
       PROVE  /\ t.channel \in Channels'
              /\ \/ t = Alone("preprocess_fragments", t.channel)
                 \/ t = Alone("assemble_segments", t.channel)
                 \/ t.op = "compress_segment"
  <2>1. CASE t \in ElementsOf(s)
    BY <1>9, <1>11, <1>20, <2>1
  <2>2. CASE t \in Tasks
    BY <1>10, <1>11, <2>2 DEF CompressInv
  <2>3. QED BY <1>24, <2>1, <2>2
<1>29. IsFiniteSet(stored') /\ \A file \in stored' : file.channel \in Channels'
  BY <1>5, <1>10, <1>11 DEF CompressInv
<1>30. registry' = CompressRegistry(Tasks', stored')
  <2>1. {t \in Tasks' : t.op = "preprocess_fragments"}
          = {t \in Tasks : t.op = "preprocess_fragments"}
    BY <1>9, <1>20, <1>24
  <2>2. {t \in Tasks' : t.op = "compress_segment"}
          = {t \in Tasks : t.op = "compress_segment"} \cup ElementsOf(s)
    BY <1>9, <1>20, <1>24
  <2>3. PICK S, E : S = {t \in Tasks : t.op = "compress_segment"} /\ E = ElementsOf(s)
    OBVIOUS
  <2>4. {Segment(t.channel, t.cx.id) : t \in S \cup E}
          = {Segment(t.channel, t.cx.id) : t \in S} \cup {Segment(t.channel, t.cx.id) : t \in E}
    OBVIOUS
  <2>5. PICK X, Y, Z, W :
          /\ X = {Image(t.channel) : t \in {t \in Tasks : t.op = "preprocess_fragments"}}
          /\ Y = {Segment(t.channel, t.cx.id) : t \in S}
          /\ Z = {Segment(file.channel, file.id) : file \in stored}
          /\ W = {Segment(t.channel, t.cx.id) : t \in E}
    OBVIOUS
  <2>6. registry = X \cup Y \cup Z
    BY <1>10, <2>3, <2>5 DEF CompressInv, CompressRegistry
  <2>7. CompressRegistry(Tasks', stored') = X \cup (Y \cup W) \cup Z
    <3>1. {Image(t.channel) : t \in {t \in Tasks' : t.op = "preprocess_fragments"}} = X
      BY <2>1, <2>5
    <3>2. {Segment(t.channel, t.cx.id) : t \in {t \in Tasks' : t.op = "compress_segment"}} = Y \cup W
      BY <2>2, <2>3, <2>4, <2>5
    <3>3. {Segment(file.channel, file.id) : file \in stored'} = Z
      BY <1>5, <2>5
    <3>4. QED BY <3>1, <3>2, <3>3 DEF CompressRegistry
  <2>8. registry' = registry \cup W
    BY <1>7, <1>20, <2>3, <2>5
  <2>9. QED BY <2>6, <2>7, <2>8
<1>31. Segmented(c)'
  <2>1. CompressTasks(c)' = ElementsOf(s)
    <3>1. \A t \in Tasks : ~(t.op = "compress_segment" /\ t.channel = c)
      BY <1>14 DEF CompressTasks
    <3>2. QED BY <1>20, <1>24, <3>1 DEF CompressTasks
  <2>2. FilesOf(c)' = {}
    BY <1>5, <1>14 DEF FilesOf
  <2>3. \A t \in ElementsOf(s) : TaskMade(t, c, n)
    BY <1>20
  <2>4. Coding(n, c, ElementsOf(s), {}, d)
    BY <1>20, <1>22, <2>3, CodingStarts
  <2>5. Alone("preprocess_fragments", c) \notin Tasks' /\ Alone("assemble_segments", c) \notin Tasks'
    <3>1. Alone("preprocess_fragments", c) \notin Tasks
      BY <1>13 DEF Unassembled
    <3>2. /\ Alone("preprocess_fragments", c).op = "preprocess_fragments"
          /\ Alone("assemble_segments", c).op = "assemble_segments"
      BY DEF Alone, Task
    <3>3. QED BY <1>12, <1>20, <1>24, <3>1, <3>2
  <2>6. Coding(n, c, ElementsOf(s), {}, d)
          => Coding(CountOf(input)', c, CompressTasks(c)', FilesOf(c)', descriptors'[c])
    BY <1>11, <1>16, <1>23, <2>1, <2>2
  <2>7. Coding(CountOf(input), c, CompressTasks(c), FilesOf(c), descriptors[c])'
    BY <1>11, <2>4, <2>6 DEF Coding, FileMade
  <2>8. QED BY <1>11, <1>16, <1>23, <2>5, <2>7 DEF Segmented, Alone
<1>32. ASSUME NEW e \in Channels', e # c
       PROVE  Advanced(e)'
  <2>1. e \in Channels /\ Advanced(e)
    BY <1>10, <1>11 DEF CompressInv, Advanced
  <2>2. /\ fragments'[e] = fragments[e] /\ merged'[e] = merged[e]
        /\ allocated'[e] = allocated[e] /\ descriptors'[e] = descriptors[e]
    BY <1>5, <1>7, <1>10, <1>32, <2>1 DEF Shapes
  <2>3. /\ \A t \in Tasks : t.channel = e => t \in Tasks'
        /\ \A t \in Tasks' : t.channel = e => t \in Tasks
    BY <1>4, <1>20, <1>24, <1>32
  <2>4. FilesOf(e)' = FilesOf(e)
    BY <1>5 DEF FilesOf
  <2>5. QED BY <1>5, <2>1, <2>2, <2>3, <2>4, OthersStay
<1>33. \A e \in Channels' : (Unmerged(e) \/ Unassembled(e) \/ Segmented(e))'
  BY <1>31, <1>32 DEF Advanced
<1>34. CompressInv'
  BY <1>24, <1>27, <1>28, <1>29, <1>30, <1>33 DEF CompressInv
<1>35. QED BY <1>5, <1>9, <1>26, <1>34 DEF FlowInv

\* A segment is coded: its file takes the place of its task.
LEMMA Flow_CompressSegment ==
  ASSUME FramesInv, FlowInv, NEW i, CompressSegment(i)
  PROVE  FlowInv'
<1>1. PICK c, cx, header, file :
        /\ c = queue[i].channel /\ cx = queue[i].cx
        /\ header = SegmentHeader(cx, session, settings[c].segment, settings[c].compression)
        /\ file = [channel |-> c, id |-> cx.id, header |-> header, body |-> cx.segment]
  OBVIOUS
<1>2. /\ Runs(i, "compress_segment")
      /\ stored' = stored \cup {file}
      /\ descriptors' = [descriptors EXCEPT ![c] = Done(@, cx.id)]
      /\ queue' = Without(i)
      /\ UNCHANGED <<input, session, settings, flow, registry, fragments, merged, allocated,
                     decoded, restored>>
  BY <1>1 DEF CompressSegment, known, transform_vars, restore_vars
<1>3. /\ flow = "compress" /\ i \in 1..Len(queue) /\ queue[i].op = "compress_segment"
      /\ c \in Channels /\ queue[i] \in Tasks
  <2>1. "compress_segment" \in FlowTasks[flow]
    BY <1>2, OwnFlow
  <2>2. flow \in Flows
    BY DEF FlowInv, Shapes
  <2>3. flow = "compress"
    BY <2>1, <2>2 DEF Flows, FlowTasks
  <2>4. QED BY <1>1, <1>2, <2>3, OwnFlow
<1>4. Shapes /\ CompressInv /\ ValidRequest(Request)
  BY <1>3 DEF FlowInv, Shapes
<1>5. Request' = Request /\ Channels' = Channels /\ CountOf(input)' = CountOf(input)
  BY <1>2, RequestStays
<1>6. queue[i] \in CompressTasks(c)
  BY <1>1, <1>3 DEF CompressTasks
<1>7. Segmented(c)
  BY <1>3, <1>4, <1>6 DEF CompressInv, Unmerged, Unassembled, Fresh
<1>8. input \in DOMAIN Inputs /\ ValidRequest(Inputs[input]) /\ c \in DOMAIN Inputs[input].images
  BY <1>3, <1>4 DEF Shapes, Request, Channels
<1>9. PICK n \in Nat : n = CountOf(input)
  BY <1>8, CountIs
<1>10. Coding(n, c, CompressTasks(c), FilesOf(c), descriptors[c])
  BY <1>7, <1>9 DEF Segmented
<1>11. TaskMade(queue[i], c, n) /\ cx.id \in 0..(n - 1)
  <2>1. cx.id \in TaskIds(CompressTasks(c))
    BY <1>1, <1>6 DEF TaskIds
  <2>2. QED BY <1>6, <1>10, <2>1 DEF Coding
<1>12. HeaderMade(header, cx, SourceWidth(Request))
  <2>1. settings[c].segment = SegmentSettingsOf(Inputs[input])
    BY <1>3, <1>4 DEF CompressInv, Settled, ForAll, Request
  <2>2. Told(settings[c].segment)
    BY <1>8, <2>1, SettingsAsked
  <2>3. session.img_width = SourceWidth(Request)
    <3>1. session = SessionWith(SourceWidth(Request))
      BY <1>4 DEF CompressInv
    <3>2. QED BY <3>1 DEF SessionWith, SessionOf, parse_session_settings
  <2>4. cx.id \in Nat /\ cx.segment.size \in Int
    BY <1>1, <1>11 DEF TaskMade
  <2>5. PICK s, t : s = settings[c].segment /\ t = settings[c].compression
    OBVIOUS
  <2>6. HeaderMade(SegmentHeader(cx, session, s, t), cx, session.img_width)
    BY <2>2, <2>4, <2>5, SegmentTold
  <2>7. QED BY <1>1, <2>3, <2>5, <2>6
<1>13. file.channel = c /\ file.id = cx.id /\ file.header = header /\ file.body = cx.segment
  BY <1>1
<1>14. FileMade(file, n, SourceWidth(Request))
  <2>1. /\ cx.channel_start <=> cx.id = 0
        /\ cx.channel_end <=> cx.id = n - 1
        /\ cx.image_start <=> cx.id = 0 /\ c = 1
        /\ Fields \subseteq DOMAIN cx.segment
    BY <1>1, <1>11 DEF TaskMade
  <2>2. /\ header.p1a.StartImgFlag <=> cx.channel_start \/ cx.image_start
        /\ header.p1a.EndImgFlag <=> cx.channel_end
        /\ header.p1a.Part4Flag <=> cx.image_start
        /\ header.p1a.Part4Flag => header.p4.ImageWidth = Field(SourceWidth(Request), 20)
        /\ cx.id = 0 => header.p1a.Part3Flag
        /\ header.p1a.Part3Flag => header.p3.S \in Int
    BY <1>12 DEF HeaderMade
  <2>3. QED BY <1>13, <2>1, <2>2 DEF FileMade
<1>15. PICK d : d = Done(descriptors[c], cx.id)
  OBVIOUS
<1>16. Coding(n, c, CompressTasks(c) \ {queue[i]}, FilesOf(c) \cup {file}, d)
  <2>1. file.id = queue[i].cx.id /\ d = Done(descriptors[c], queue[i].cx.id)
    BY <1>1, <1>13, <1>15
  <2>2. QED BY <1>6, <1>10, <1>14, <2>1, CodingNext
<1>17. /\ List(queue', Len(queue')) /\ Distinct(queue)'
       /\ Tasks' = Tasks \ {queue[i]}
  <2>1. List(queue, Len(queue)) /\ Distinct(queue)
    BY <1>4 DEF Shapes, CompressInv
  <2>2. QED BY <1>2, <1>3, <2>1, TaskGone
<1>18. DOMAIN descriptors' = Channels /\ descriptors'[c] = d
  BY <1>2, <1>3, <1>4, <1>15 DEF Shapes
<1>19. Shapes'
  BY <1>2, <1>4, <1>5, <1>17, <1>18 DEF Shapes
<1>20. Settled' /\ Unread' /\ session' = SessionWith(SourceWidth(Request))'
  BY <1>2, <1>4, <1>5 DEF CompressInv, Settled, Unread, ForAll, SessionWith
<1>21. \A t \in Tasks' :
         /\ t.channel \in Channels'
         /\ \/ t = Alone("preprocess_fragments", t.channel)
            \/ t = Alone("assemble_segments", t.channel)
            \/ t.op = "compress_segment"
  BY <1>4, <1>5, <1>17 DEF CompressInv
<1>22. IsFiniteSet(stored') /\ \A f \in stored' : f.channel \in Channels'
  <2>1. IsFiniteSet(stored) /\ \A f \in stored : f.channel \in Channels
    BY <1>4 DEF CompressInv
  <2>2. IsFiniteSet(stored \cup {file})
    BY <2>1, FS_AddElement
  <2>3. QED BY <1>2, <1>3, <1>5, <1>13, <2>1, <2>2
<1>23. registry' = CompressRegistry(Tasks', stored')
  <2>1. {t \in Tasks' : t.op = "preprocess_fragments"}
          = {t \in Tasks : t.op = "preprocess_fragments"}
    BY <1>3, <1>17
  <2>2. {t \in Tasks' : t.op = "compress_segment"}
          = {t \in Tasks : t.op = "compress_segment"} \ {queue[i]}
    BY <1>17
  <2>3. PICK S, q : S = {t \in Tasks : t.op = "compress_segment"} /\ q = queue[i]
    OBVIOUS
  <2>4. q \in S /\ Segment(q.channel, q.cx.id) = Segment(file.channel, file.id)
    BY <1>1, <1>3, <1>13, <2>3
  <2>5. {Segment(t.channel, t.cx.id) : t \in S \ {q}}
             \cup {Segment(f.channel, f.id) : f \in stored \cup {file}}
          = {Segment(t.channel, t.cx.id) : t \in S} \cup {Segment(f.channel, f.id) : f \in stored}
    <3>1. PICK X, Y, Z, W :
            /\ X = {Segment(t.channel, t.cx.id) : t \in S \ {q}}
            /\ Y = {Segment(f.channel, f.id) : f \in stored \cup {file}}
            /\ Z = {Segment(t.channel, t.cx.id) : t \in S}
            /\ W = {Segment(f.channel, f.id) : f \in stored}
      OBVIOUS
    <3>2. Y = W \cup {Segment(file.channel, file.id)}
      BY <3>1
    <3>3. Z = X \cup {Segment(q.channel, q.cx.id)}
      BY <2>4, <3>1
    <3>4. X \cup Y = Z \cup W
      BY <2>4, <3>2, <3>3
    <3>5. QED BY <3>1, <3>4
  <2>6. CompressRegistry(Tasks', stored') = CompressRegistry(Tasks, stored)
    <3>1. PICK V : V = {Image(t.channel) : t \in {t \in Tasks : t.op = "preprocess_fragments"}}
      OBVIOUS
    <3>2. CompressRegistry(Tasks', stored')
            = V \cup {Segment(t.channel, t.cx.id) : t \in S \ {q}}
                \cup {Segment(f.channel, f.id) : f \in stored \cup {file}}
      <4>1. {Image(t.channel) : t \in {t \in Tasks' : t.op = "preprocess_fragments"}} = V
        BY <2>1, <3>1
      <4>2. {t \in Tasks' : t.op = "compress_segment"} = S \ {q}
        BY <2>2, <2>3
      <4>3. QED BY <1>2, <4>1, <4>2 DEF CompressRegistry
    <3>3. CompressRegistry(Tasks, stored)
            = V \cup {Segment(t.channel, t.cx.id) : t \in S}
                \cup {Segment(f.channel, f.id) : f \in stored}
      BY <2>3, <3>1 DEF CompressRegistry
    <3>4. QED BY <2>5, <3>2, <3>3
  <2>7. QED BY <1>2, <1>4, <2>6 DEF CompressInv
<1>24. Segmented(c)'
  <2>1. CompressTasks(c)' = CompressTasks(c) \ {queue[i]}
    BY <1>17 DEF CompressTasks
  <2>2. FilesOf(c)' = FilesOf(c) \cup {file}
    BY <1>2, <1>13 DEF FilesOf
  <2>3. Coding(CountOf(input), c, CompressTasks(c), FilesOf(c), descriptors[c])'
    BY <1>5, <1>9, <1>16, <1>18, <2>1, <2>2 DEF Coding, FileMade
  <2>4. Alone("preprocess_fragments", c) \notin Tasks' /\ Alone("assemble_segments", c) \notin Tasks'
    BY <1>7, <1>17 DEF Segmented
  <2>5. allocated'[c].second = CountOf(input)'
    BY <1>2, <1>5, <1>7 DEF Segmented
  <2>6. QED BY <2>3, <2>4, <2>5 DEF Segmented, Alone
<1>25. ASSUME NEW e \in Channels', e # c
       PROVE  Advanced(e)'
  <2>1. e \in Channels /\ Advanced(e)
    BY <1>4, <1>5 DEF CompressInv, Advanced
  <2>2. /\ fragments'[e] = fragments[e] /\ merged'[e] = merged[e]
        /\ allocated'[e] = allocated[e] /\ descriptors'[e] = descriptors[e]
    BY <1>2, <1>4, <1>25, <2>1 DEF Shapes
  <2>3. /\ \A t \in Tasks : t.channel = e => t \in Tasks'
        /\ \A t \in Tasks' : t.channel = e => t \in Tasks
    BY <1>1, <1>17, <1>25
  <2>4. FilesOf(e)' = FilesOf(e)
    BY <1>2, <1>13, <1>25 DEF FilesOf
  <2>5. QED BY <1>2, <2>1, <2>2, <2>3, <2>4, OthersStay
<1>26. \A e \in Channels' : (Unmerged(e) \/ Unassembled(e) \/ Segmented(e))'
  BY <1>24, <1>25 DEF Advanced
<1>27. CompressInv'
  BY <1>17, <1>20, <1>21, <1>22, <1>23, <1>26 DEF CompressInv
<1>28. QED BY <1>2, <1>3, <1>19, <1>27 DEF FlowInv

----------------------------------------------------------------------------
(* Restoring begins. *)

\* The files of all segments of all channels.
StoredAll(files, depth, n) ==
  /\ IsFiniteSet(files)
  /\ \A file \in files :
       file.channel \in 1..depth /\ file.id \in 0..(n - 1) /\ FileMade(file, n, SourceWidth(Request))
  /\ \A file \in files, other \in files :
       file.channel = other.channel /\ file.id = other.id => file = other
  /\ \A c \in 1..depth : \A id \in 0..(n - 1) :
       \E file \in files : file.channel = c /\ file.id = id

\* When all tasks have run, every channel has all its segments in files.
LEMMA CompressEnds ==
  ASSUME FlowInv, flow = "compress", queue = <<>>, stored # {},
         NEW depth \in Nat, Channels = 1..depth
  PROVE  \E n \in Nat \ {0} : StoredAll(stored, depth, n)
<1>1. Shapes /\ CompressInv /\ ValidRequest(Request)
  BY DEF FlowInv, Shapes
<1>2. Tasks = {}
  BY NoTasks
<1>3. PICK file \in stored : file.channel \in Channels
  BY <1>1 DEF CompressInv
<1>4. input \in DOMAIN Inputs /\ ValidRequest(Inputs[input])
  BY <1>1 DEF Shapes, Request
<1>5. PICK n \in Nat : n = CountOf(input)
  BY <1>4, CountIs
<1>6. ASSUME NEW c \in Channels
      PROVE  Coding(n, c, {}, FilesOf(c), descriptors[c])
  <2>1. Segmented(c)
    BY <1>1, <1>2 DEF CompressInv, Unmerged, Unassembled
  <2>2. CompressTasks(c) = {}
    BY <1>2 DEF CompressTasks
  <2>3. QED BY <1>5, <2>1, <2>2 DEF Segmented
<1>7. ASSUME NEW c \in Channels
      PROVE  /\ Ids(FilesOf(c)) = 0..(n - 1)
             /\ \A f \in FilesOf(c), g \in FilesOf(c) : f.id = g.id => f = g
             /\ \A f \in FilesOf(c) : FileMade(f, n, SourceWidth(Request))
  <2>1. TaskIds({}) = {}
    BY DEF TaskIds
  <2>2. QED BY <1>6, <2>1 DEF Coding
<1>8. \A f \in stored : f.channel \in Channels /\ f \in FilesOf(f.channel)
  BY <1>1 DEF CompressInv, FilesOf
<1>9. \A f \in stored : f.id \in 0..(n - 1)
  <2>1. \A f \in stored : f.id \in Ids(FilesOf(f.channel))
    BY <1>8 DEF Ids
  <2>2. QED BY <1>7, <1>8, <2>1
<1>10. n \in Nat \ {0}
  BY <1>9
<1>11. ASSUME NEW f \in stored, NEW g \in stored, f.channel = g.channel, f.id = g.id
       PROVE  f = g
  BY <1>7, <1>8, <1>11
<1>12. ASSUME NEW c \in 1..depth, NEW id \in 0..(n - 1)
       PROVE  \E f \in stored : f.channel = c /\ f.id = id
  <2>1. id \in Ids(FilesOf(c))
    BY <1>7
  <2>2. QED BY <2>1 DEF Ids, FilesOf
<1>13. IsFiniteSet(stored)
  BY <1>1 DEF CompressInv
<1>14. \A f \in stored : f.channel \in 1..depth /\ FileMade(f, n, SourceWidth(Request))
  BY <1>7, <1>8
<1>15. StoredAll(stored, depth, n)
  BY <1>9, <1>11, <1>12, <1>13, <1>14 DEF StoredAll
<1>16. QED BY <1>10, <1>15

\* They are the files of a session.
LEMMA FilesOfSession ==
  ASSUME NEW files, NEW depth \in Nat, NEW n \in Nat \ {0}, StoredAll(files, depth, n)
  PROVE  SessionFiles(files) /\ Started(files) /\ \A file \in files : Telling(file)
<1>1. \A file \in files : NumberedFile(file)
  BY DEF StoredAll, NumberedFile
<1>2. ASSUME NEW file \in files, file.id > 0
      PROVE  \E other \in files : other.channel = file.channel /\ other.id = file.id - 1
  <2>1. file.channel \in 1..depth /\ file.id - 1 \in 0..(n - 1)
    BY <1>2 DEF StoredAll
  <2>2. QED BY <2>1 DEF StoredAll
<1>3. ASSUME NEW file \in files, file.channel > 1
      PROVE  \E other \in files : other.channel = file.channel - 1 /\ other.id = 0
  <2>1. file.channel - 1 \in 1..depth /\ 0 \in 0..(n - 1)
    BY <1>3 DEF StoredAll
  <2>2. QED BY <2>1 DEF StoredAll
<1>4. SessionFiles(files)
  BY <1>1, <1>2, <1>3 DEF SessionFiles, StoredAll
<1>5. ASSUME NEW file \in files
      PROVE  Telling(file) /\ (file.header.p1a.StartImgFlag <=> file.id = 0)
  BY DEF StoredAll, FileMade, Telling
<1>6. QED BY <1>4, <1>5 DEF Started

\* The first file loaded is that of the first segment, and the last one the last channel's.
LEMMA LoadedAll ==
  ASSUME NEW files, NEW depth \in Nat \ {0}, NEW n \in Nat \ {0}, StoredAll(files, depth, n),
         NEW s, s = load_segments(files)
  PROVE  /\ Len(s) \in Nat \ {0} /\ s[1].channel = 1 /\ s[1].id = 0 /\ s[Len(s)].channel = depth
         /\ s \in Seq(files)
         /\ \A file \in files : \E k \in 1..Len(s) : s[k] = file
         /\ \A j \in 1..Len(s), k \in 1..Len(s) : s[j] = s[k] => j = k
<1>1. SessionFiles(files)
  BY FilesOfSession
<1>2. /\ s \in Seq(files) /\ Len(s) \in Nat
      /\ \A file \in files : \E k \in 1..Len(s) : s[k] = file
      /\ \A j \in 1..Len(s), k \in 1..Len(s) : j < k <=> Numbered(s[j], s[k])
  BY <1>1, LoadedInOrder
<1>3. PICK file \in files : file.channel = depth /\ file.id = 0
  <2>1. depth \in 1..depth /\ 0 \in 0..(n - 1)
    OBVIOUS
  <2>2. QED BY <2>1 DEF StoredAll
<1>4. PICK k \in 1..Len(s) : s[k] = file
  BY <1>2, <1>3
<1>5. Len(s) \in Nat \ {0} /\ Len(s) \in 1..Len(s)
  BY <1>2, <1>4
<1>6. s[1].channel = 1 /\ s[1].id = 0
  BY <1>1, <1>5, LoadedStepwise
<1>7. s[Len(s)] \in files
  BY <1>2, <1>5
<1>8. s[Len(s)].channel \in 1..depth
  BY <1>7 DEF StoredAll
<1>9. s[Len(s)].channel = depth
  <2>1. CASE k = Len(s)
    BY <1>3, <1>4, <2>1
  <2>2. CASE k # Len(s)
    <3>1. k < Len(s)
      BY <1>5, <2>2
    <3>2. Numbered(s[k], s[Len(s)])
      BY <1>2, <1>5, <3>1
    <3>3. QED BY <1>3, <1>4, <1>8, <3>2 DEF Numbered
  <2>3. QED BY <2>1, <2>2
<1>10. ASSUME NEW j \in 1..Len(s), NEW l \in 1..Len(s), s[j] = s[l] PROVE j = l
  <2>1. s[j] \in files
    BY <1>2
  <2>2. s[j].channel \in Int /\ s[j].id \in Int
    BY <2>1 DEF StoredAll
  <2>3. ~Numbered(s[j], s[l]) /\ ~Numbered(s[l], s[j])
    BY <1>10, <2>2 DEF Numbered
  <2>4. ~(j < l) /\ ~(l < j)
    BY <1>2, <2>3
  <2>5. QED BY <1>2, <2>4
<1>11. QED BY <1>2, <1>5, <1>6, <1>9, <1>10

\* Every segment is handed to the pool, for the channel and under the id that it was stored with.
LoadedTask(file) == Task("decode_segment", file.channel, [id |-> file.id, file |-> file])
LoadedTasks(s) == [k \in 1..Len(s) |-> LoadedTask(s[k])]

\* The tasks are those of the files, each of them once.
LEMMA TasksLoaded ==
  ASSUME NEW files, NEW depth \in Nat \ {0}, NEW n \in Nat \ {0}, StoredAll(files, depth, n),
         NEW s, s = load_segments(files), NEW q, q = LoadedTasks(s)
  PROVE  /\ List(q, Len(q)) /\ Distinct(q)
         /\ ElementsOf(q) = {LoadedTask(file) : file \in files}
<1>1. /\ Len(s) \in Nat /\ s \in Seq(files)
      /\ \A file \in files : \E k \in 1..Len(s) : s[k] = file
      /\ \A j \in 1..Len(s), k \in 1..Len(s) : s[j] = s[k] => j = k
  BY LoadedAll
<1>2. q = [k \in 1..Len(s) |-> q[k]] /\ \A k \in 1..Len(s) : q[k] = LoadedTask(s[k])
  BY DEF LoadedTasks
<1>3. List(q, Len(s)) /\ Len(q) = Len(s)
  BY <1>1, <1>2, ListMade DEF List
<1>4. \A file, other : LoadedTask(file) = LoadedTask(other) => file = other
  <2>1. \A file : LoadedTask(file).cx.file = file
    BY DEF LoadedTask, Task
  <2>2. QED BY <2>1
<1>5. Distinct(q)
  <2>1. ASSUME NEW j \in 1..Len(s), NEW k \in 1..Len(s), q[j] = q[k] PROVE j = k
    BY <1>1, <1>2, <1>4, <2>1
  <2>2. QED BY <1>3, <2>1 DEF Distinct
<1>6. \A k \in 1..Len(s) : s[k] \in files
  BY <1>1
<1>7. ElementsOf(q) = {LoadedTask(file) : file \in files}
  <2>1. ElementsOf(q) = {q[k] : k \in 1..Len(s)}
    BY <1>3 DEF ElementsOf
  <2>2. QED BY <1>1, <1>2, <1>6, <2>1, SMTT(20)
<1>8. QED BY <1>3, <1>5, <1>7

\* A field of the header holds a number below a power of two.
LEMMA FieldBelow == ASSUME NEW n \in Int PROVE Field(n, 20) \in 0..(2^20 - 1)
<1>1. PICK m \in Nat \ {0} : m = 2^20
  BY PowerPositive
<1>2. n % m \in 0..(m - 1)
  BY <1>1
<1>3. QED BY <1>1, <1>2 DEF Field

\* Nothing is decoded at first: everything is as the headers tell, and every segment waits.
LEMMA DecodingStarts ==
  ASSUME NEW list, Counted(list)
  PROVE  Described(list, {}) /\ \A k \in 1..Len(list) : list[k].segment_id = k - 1
<1>1. ASSUME NEW k \in 1..Len(list)
      PROVE  /\ list[k].segment_id = k - 1
             /\ list[k] = [state |-> "pending", segment_id |-> list[k].segment_id]
  <2>1. PICK m : m = k - 1
    OBVIOUS
  <2>2. list[k] = [state |-> "pending", segment_id |-> m]
    BY <2>1 DEF Counted, Pending
  <2>3. QED BY <2>1, <2>2
<1>2. QED BY <1>1 DEF Counted, Described

\* The session, its settings and its tasks are those of the files.
LEMMA Flow_Restore == ASSUME FlowInv, Restore PROVE FlowInv'
<1>1. /\ flow = "compress" /\ queue = <<>> /\ stored # {} /\ flow' = "decompress"
      /\ allocated' = ForAll([first |-> 0, second |-> 0])
      /\ UNCHANGED <<input, fragments, merged, decoded, restored>>
  BY DEF Restore, NextFlow, transform_vars, restore_vars
<1>2. Shapes /\ CompressInv /\ ValidRequest(Request)
  BY <1>1 DEF FlowInv, Shapes
<1>3. Request' = Request /\ Channels' = Channels
  BY <1>1, RequestStays
<1>4. PICK depth \in Nat \ {0} : Channels = 1..depth
  BY <1>2, ChannelsAre DEF Shapes, Request, Channels
<1>5. PICK n \in Nat \ {0} : StoredAll(stored, depth, n)
  BY <1>1, <1>4, CompressEnds
<1> DEFINE files == load_segments(stored)
           headers == [k \in 1..Len(files) |-> files[k].header]
           From(custom_shifts) == collect_decompression_session_params(headers, custom_shifts)
<1>6. PICK custom_shifts \in BOOLEAN :
        /\ session' = From(custom_shifts).session
        /\ settings' = [channel \in 1..Len(From(custom_shifts).segment) |->
                          [segment |-> From(custom_shifts).segment[channel],
                           compression |-> From(custom_shifts).compression[channel]]]
        /\ descriptors' = Registered(Len(From(custom_shifts).segment),
                                     From(custom_shifts).handles)
        /\ queue' = [k \in 1..Len(files) |->
                       Task("decode_segment", From(custom_shifts).handles[k].channel,
                            [id |-> From(custom_shifts).handles[k].id, file |-> files[k]])]
        /\ registry' = {Segment(From(custom_shifts).handles[k].channel,
                                From(custom_shifts).handles[k].id) : k \in 1..Len(files)}
  BY DEF Restore
<1>7. PICK s, taken : s = files /\ taken = From(custom_shifts)
  OBVIOUS
<1>8. /\ s = load_segments(stored)
      /\ taken = collect_decompression_session_params([k \in 1..Len(s) |-> s[k].header],
                                                      custom_shifts)
  BY <1>7
<1> HIDE DEF files, headers, From
<1>9. /\ session' = taken.session
      /\ settings' = [channel \in 1..Len(taken.segment) |->
                        [segment |-> taken.segment[channel],
                         compression |-> taken.compression[channel]]]
      /\ descriptors' = Registered(Len(taken.segment), taken.handles)
      /\ queue' = [k \in 1..Len(s) |->
                     Task("decode_segment", taken.handles[k].channel,
                          [id |-> taken.handles[k].id, file |-> s[k]])]
      /\ registry' = {Segment(taken.handles[k].channel, taken.handles[k].id) : k \in 1..Len(s)}
  BY <1>6, <1>7, Zenon
<1>10. SessionFiles(stored) /\ Started(stored) /\ \A file \in stored : Telling(file)
  BY <1>5, FilesOfSession
<1>11. /\ Len(s) \in Nat \ {0} /\ s[1].channel = 1 /\ s[1].id = 0 /\ s[Len(s)].channel = depth
       /\ s \in Seq(stored)
       /\ \A file \in stored : \E k \in 1..Len(s) : s[k] = file
  BY <1>5, <1>8, LoadedAll
<1>12. ToldOfAll(taken.segment, depth) /\ taken.session.img_width = s[1].header.p4.ImageWidth
  <2>1. Len(s) > 0
    BY <1>11
  <2>2. ToldOfAll(taken.segment, s[Len(s)].channel)
    BY <1>8, <1>10, <2>1, SessionTold
  <2>3. taken.session.img_width = s[1].header.p4.ImageWidth
    BY <1>8, <1>10, <2>1, SessionTold
  <2>4. QED BY <1>11, <2>2, <2>3
<1>13. /\ taken.handles = [k \in 1..Len(s) |-> [channel |-> s[k].channel, id |-> s[k].id]]
       /\ Len(taken.segment) = depth
  <2>1. LET t == load_segments(stored)
            m == Len(t)
            collected == collect_decompression_session_params([k \in 1..m |-> t[k].header],
                                                              custom_shifts)
        IN /\ collected.handles = [k \in 1..m |-> [channel |-> t[k].channel, id |-> t[k].id]]
           /\ Len(collected.segment) = IF m = 0 THEN 0 ELSE t[m].channel
    BY <1>10, CollectedAsWritten
  <2>2. /\ taken.handles = [k \in 1..Len(s) |-> [channel |-> s[k].channel, id |-> s[k].id]]
        /\ Len(taken.segment) = IF Len(s) = 0 THEN 0 ELSE s[Len(s)].channel
    BY <1>8, <2>1
  <2>3. QED BY <1>11, <2>2
<1>14. \A k \in 1..Len(s) : /\ taken.handles[k].channel = s[k].channel
                            /\ taken.handles[k].id = s[k].id /\ s[k] \in stored
  BY <1>11, <1>13
<1>15. queue' = LoadedTasks(s)
  BY <1>9, <1>14 DEF LoadedTasks, LoadedTask
<1>16. /\ List(queue', Len(queue')) /\ Distinct(queue')
       /\ ElementsOf(queue') = {LoadedTask(file) : file \in stored}
  <2>1. PICK q : q = LoadedTasks(s)
    OBVIOUS
  <2>2. List(q, Len(q)) /\ Distinct(q) /\ ElementsOf(q) = {LoadedTask(file) : file \in stored}
    BY <1>5, <1>8, <2>1, TasksLoaded
  <2>3. QED BY <1>15, <2>1, <2>2
<1>17. Tasks' = {LoadedTask(file) : file \in stored}
  BY <1>16 DEF Tasks
<1>18. /\ DOMAIN descriptors' = 1..depth
       /\ \A c \in 1..depth : Counted(descriptors'[c])
       /\ \A file \in stored : file.id \in 0..(Len(descriptors'[file.channel]) - 1)
  <2>1. WithinChannels(stored, depth)
    BY <1>5 DEF StoredAll, WithinChannels
  <2>2. taken.handles = HandlesUpTo(s, Len(s))
    BY <1>13 DEF HandlesUpTo
  <2>3. PICK d : d = Registered(depth, HandlesUpTo(s, Len(s)))
    OBVIOUS
  <2>4. depth \in Nat /\ SessionFiles(stored)
    BY <1>10
  <2>5. /\ DOMAIN d = 1..depth
        /\ \A c \in 1..depth : Counted(d[c])
        /\ \A file \in stored : file.id \in 0..(Len(d[file.channel]) - 1)
    BY ONLY <1>8, <2>1, <2>3, <2>4, RegisteredOnce
  <2>6. descriptors' = d
    BY <1>9, <1>13, <2>2, <2>3
  <2>7. QED BY <2>5, <2>6
<1>19. Shapes'
  <2>1. DOMAIN allocated' = Channels
    BY <1>1 DEF ForAll
  <2>2. QED BY <1>1, <1>2, <1>3, <1>4, <1>16, <1>18, <2>1 DEF Shapes, Flows
<1>20. \A file : /\ LoadedTask(file).op = "decode_segment" /\ LoadedTask(file).channel = file.channel
                 /\ LoadedTask(file).cx.id = file.id /\ LoadedTask(file).cx.file = file
  BY DEF LoadedTask, Task
<1>21. \A file \in stored : FileMade(file, n, SourceWidth(Request)) /\ file.channel \in 1..depth
  BY <1>5 DEF StoredAll
<1>22. restored' = ForAll(<<>>)' /\ \A c \in Channels : decoded'[c] = <<>>
  BY <1>1, <1>2, <1>3 DEF CompressInv, Unread, ForAll
<1>23. session'.img_width \in 0..(2^20 - 1)
  <2>1. s[1] \in stored
    BY <1>11
  <2>2. s[1].header.p1a.Part4Flag
    BY <1>11, <1>21, <2>1 DEF FileMade
  <2>3. s[1].header.p4.ImageWidth = Field(SourceWidth(Request), 20)
    BY <1>21, <2>1, <2>2 DEF FileMade
  <2>4. SourceWidth(Request) \in Int
    <3>1. input \in DOMAIN Inputs /\ ValidRequest(Inputs[input]) /\ 1 \in DOMAIN Inputs[input].images
      BY <1>2, <1>4 DEF Shapes, Request, Channels
    <3>2. \A i \in DOMAIN Inputs : \A c \in DOMAIN Inputs[i].images :
            ValidRequest(Inputs[i]) => SourceWidth(Inputs[i]) \in Nat \ {0}
      BY PreparedIs
    <3>3. SourceWidth(Inputs[input]) \in Nat \ {0}
      BY <3>1, <3>2
    <3>4. QED BY <3>3 DEF Request
  <2>5. QED BY <1>9, <1>12, <2>3, <2>4, FieldBelow
<1>24. ASSUME NEW t \in Tasks'
       PROVE  /\ t.op = "decode_segment" /\ t.channel \in Channels'
              /\ Fields \subseteq DOMAIN t.cx.file.body
  <2>1. PICK file \in stored : t = LoadedTask(file)
    BY <1>17
  <2>2. Fields \subseteq DOMAIN file.body
    BY <1>21 DEF FileMade
  <2>3. QED BY <1>3, <1>4, <1>20, <1>21, <2>1, <2>2
<1>25. \A t \in Tasks', u \in Tasks' : t.channel = u.channel /\ t.cx.id = u.cx.id => t = u
  <2>1. \A f \in stored, g \in stored : f.channel = g.channel /\ f.id = g.id => f = g
    BY <1>5 DEF StoredAll
  <2>2. QED BY <1>17, <1>20, <2>1
<1>26. registry' = {Segment(t.channel, t.cx.id) : t \in Tasks'}
  <2>1. PICK X, Y, Z : /\ X = {Segment(taken.handles[k].channel, taken.handles[k].id) : k \in 1..Len(s)}
                       /\ Y = {Segment(f.channel, f.id) : f \in stored}
                       /\ Z = {Segment(t.channel, t.cx.id) : t \in Tasks'}
    OBVIOUS
  <2>2. \A k \in 1..Len(s) : Segment(taken.handles[k].channel, taken.handles[k].id)
                               = Segment(s[k].channel, s[k].id)
    BY <1>14
  <2>3. \A x \in X : x \in Y
    BY <1>14, <2>1, <2>2
  <2>4. \A x \in Y : x \in X
    BY <1>11, <2>1, <2>2, SMTT(20)
  <2>5. \A f : Segment(LoadedTask(f).channel, LoadedTask(f).cx.id) = Segment(f.channel, f.id)
    BY <1>20
  <2>6. \A x : x \in Y <=> x \in Z
    BY <1>17, <2>1, <2>5, ZenonT(30)
  <2>7. X = Z
    BY <2>3, <2>4, <2>6
  <2>8. QED BY <1>9, <2>1, <2>7
<1>27. \E t \in Tasks' : t.cx.file.header.p1a.EndImgFlag
  <2>1. 1 \in 1..depth /\ n - 1 \in 0..(n - 1)
    OBVIOUS
  <2>2. PICK file \in stored : file.channel = 1 /\ file.id = n - 1
    BY <1>5, <2>1 DEF StoredAll
  <2>3. file.header.p1a.EndImgFlag
    BY <1>21, <2>2 DEF FileMade
  <2>4. LoadedTask(file) \in Tasks' /\ LoadedTask(file).cx.file.header.p1a.EndImgFlag
    BY <1>17, <1>20, <2>3
  <2>5. QED BY <2>4
<1>28. ASSUME NEW c \in Channels'
       PROVE  DecodingOf(c)'
  <2>1. c \in 1..depth /\ c \in Channels
    BY <1>3, <1>4
  <2>2. Told(settings'[c].segment)
    BY <1>9, <1>12, <1>13, <2>1 DEF ToldOfAll
  <2>3. decoded'[c] = <<>> /\ ElementsOf(decoded'[c]) = {} /\ Ids(ElementsOf(decoded'[c])) = {}
    BY <1>22, <2>1 DEF ElementsOf, Ids
  <2>4. SegmentsDecoded(decoded'[c])
    BY <2>3 DEF SegmentsDecoded, List
  <2>5. Counted(descriptors'[c])
    BY <1>18, <2>1
  <2>6. /\ Described(descriptors'[c], {})
        /\ \A k \in 1..Len(descriptors'[c]) : descriptors'[c][k].segment_id = k - 1
    BY <2>5, DecodingStarts
  <2>7. \A t \in Tasks' : t.channel = c => t.cx.id \in 0..(Len(descriptors'[c]) - 1)
    BY <1>17, <1>18, <1>20
  <2>8. QED BY <2>2, <2>3, <2>4, <2>6, <2>7 DEF DecodingOf, SegmentsDecoded, Described
<1>29. DecompressInv'
  BY <1>16, <1>22, <1>23, <1>24, <1>25, <1>26, <1>27, <1>28 DEF DecompressInv, Distinct
<1>30. QED BY <1>1, <1>19, <1>29 DEF FlowInv

\* A segment that was not decoded yet joins those that were.
LEMMA DecodedNext ==
  ASSUME NEW list, SegmentsDecoded(list), NEW s, s.id \in Nat, s.segment.size \in Int,
         s.id \notin Ids(ElementsOf(list)), NEW longer, longer = Append(list, s)
  PROVE  SegmentsDecoded(longer) /\ Ids(ElementsOf(longer)) = Ids(ElementsOf(list)) \cup {s.id}
<1>1. List(list, Len(list))
  BY DEF SegmentsDecoded
<1>2. List(Append(list, s), Len(list) + 1) /\ ElementsOf(Append(list, s)) = ElementsOf(list) \cup {s}
  BY <1>1, ListAppended
<1>3. List(longer, Len(longer)) /\ ElementsOf(longer) = ElementsOf(list) \cup {s}
  BY <1>2 DEF List
<1>4. Ids(ElementsOf(longer)) = Ids(ElementsOf(list)) \cup {s.id}
  BY <1>3 DEF Ids
<1>5. \A t \in ElementsOf(list) : t.id # s.id
  BY DEF Ids
<1>6. \A t \in ElementsOf(longer), u \in ElementsOf(longer) : t.id = u.id => t = u
  BY <1>3, <1>5 DEF SegmentsDecoded
<1>7. \A t \in ElementsOf(longer) : t.id \in Nat /\ t.segment.size \in Int
  BY <1>3 DEF SegmentsDecoded
<1>8. QED BY <1>3, <1>4, <1>6, <1>7 DEF SegmentsDecoded

\* A segment is decoded: its data is let go, and its operation is done.
LEMMA Flow_DecodeSegment ==
  ASSUME FramesInv, FlowInv, NEW i, DecodeSegment(i)
  PROVE  FlowInv'
<1>1. PICK c, cx, size, segment :
        /\ c = queue[i].channel /\ cx = queue[i].cx
        /\ size = SegmentSize(cx.file.header, settings[c].segment, cx.id, session.img_width)
        /\ segment = DecodedSegment(cx.file, size, session.shifts)
  OBVIOUS
<1>2. PICK s : s = [id |-> cx.id, segment |-> segment]
  OBVIOUS
<1>3. /\ Runs(i, "decode_segment")
      /\ cx.file.header.p1a.EndImgFlag => LL3Width(session.img_width) > 0
      /\ decoded' = [decoded EXCEPT ![c] = Append(@, s)]
      /\ descriptors' = [descriptors EXCEPT ![c] = Done(@, cx.id)]
      /\ registry' = registry \ {Segment(c, cx.id)}
      /\ queue' = Without(i)
      /\ UNCHANGED <<input, session, settings, flow, fragments, merged, allocated, restored>>
  BY <1>1, <1>2 DEF DecodeSegment, known, transform_vars, restore_vars, free_descriptor
<1>4. /\ flow = "decompress" /\ i \in 1..Len(queue) /\ c \in Channels /\ queue[i] \in Tasks
  <2>1. "decode_segment" \in FlowTasks[flow]
    BY <1>3, OwnFlow
  <2>2. flow \in Flows
    BY DEF FlowInv, Shapes
  <2>3. flow = "decompress"
    BY <2>1, <2>2 DEF Flows, FlowTasks
  <2>4. QED BY <1>1, <1>3, <2>3, OwnFlow
<1>5. Shapes /\ DecompressInv
  BY <1>4 DEF FlowInv
<1>6. Request' = Request /\ Channels' = Channels
  BY <1>3, RequestStays
<1>7. PICK list, done, ids, n :
        /\ list = descriptors[c] /\ done = decoded[c] /\ ids = Ids(ElementsOf(done))
        /\ n = Len(list)
  OBVIOUS
<1>8. /\ Told(settings[c].segment) /\ SegmentsDecoded(done) /\ Described(list, ids)
      /\ \A k \in 1..n : list[k].segment_id = k - 1
      /\ ids \subseteq 0..(n - 1)
      /\ \A t \in Tasks : t.channel = c => t.cx.id \in 0..(n - 1) /\ t.cx.id \notin ids
  BY <1>4, <1>5, <1>7 DEF DecompressInv, DecodingOf
<1>9. cx.id \in 0..(n - 1) /\ cx.id \notin ids /\ cx.id \in Nat
  BY <1>1, <1>4, <1>8
<1>10. session.img_width \in Nat
  <2>1. PICK m \in Nat : m = 2^20
    BY PowerPositive
  <2>2. QED BY <1>5, <2>1 DEF DecompressInv
<1>11. size \in Int
  <2>1. PICK told, header, width :
          told = settings[c].segment /\ header = cx.file.header /\ width = session.img_width
    OBVIOUS
  <2>2. SegmentSize(header, told, cx.id, width) \in Int
    BY <1>3, <1>8, <1>9, <1>10, <2>1, SegmentSizeIs
  <2>3. QED BY <1>1, <2>1, <2>2
<1>12. segment.size = size
  <2>1. Fields \subseteq DOMAIN cx.file.body
    BY <1>1, <1>4, <1>5 DEF DecompressInv
  <2>2. QED BY <1>1, <2>1, DecodedSized
<1>13. s.id = cx.id /\ s.segment.size \in Int
  BY <1>2, <1>11, <1>12
<1>14. PICK longer, d : longer = Append(done, s) /\ d = Done(list, cx.id)
  OBVIOUS
<1>15. SegmentsDecoded(longer) /\ Ids(ElementsOf(longer)) = ids \cup {cx.id}
  <2>1. s.id \in Nat /\ s.id \notin Ids(ElementsOf(done)) /\ SegmentsDecoded(done)
    BY <1>7, <1>8, <1>9, <1>13
  <2>2. SegmentsDecoded(longer) /\ Ids(ElementsOf(longer)) = Ids(ElementsOf(done)) \cup {s.id}
    BY <1>13, <1>14, <2>1, DecodedNext
  <2>3. QED BY <1>7, <1>13, <2>2
<1>16. /\ Described(d, ids \cup {cx.id}) /\ Len(d) = n
       /\ \A k \in 1..n : d[k].segment_id = k - 1
  <2>1. PICK id : id = cx.id
    OBVIOUS
  <2>2. id \in 0..(Len(list) - 1) /\ d = Done(list, id)
    BY <1>7, <1>9, <1>14, <2>1
  <2>3. Described(list, ids)
    BY <1>8
  <2>4. /\ Described(d, ids \cup {id}) /\ Len(d) = Len(list)
        /\ \A k \in 1..Len(list) : d[k].segment_id = list[k].segment_id
    BY ONLY <2>2, <2>3, DoneIs
  <2>5. QED BY <1>7, <1>8, <2>1, <2>4
<1>17. /\ List(queue', Len(queue')) /\ Distinct(queue)'
       /\ Tasks' = Tasks \ {queue[i]}
  <2>1. List(queue, Len(queue)) /\ Distinct(queue)
    BY <1>5 DEF Shapes, DecompressInv
  <2>2. QED BY <1>3, <1>4, <2>1, TaskGone
<1>18. /\ DOMAIN descriptors' = Channels /\ descriptors'[c] = d
       /\ DOMAIN decoded' = Channels /\ decoded'[c] = longer
  BY <1>3, <1>4, <1>5, <1>7, <1>14 DEF Shapes
<1>19. Shapes'
  BY <1>3, <1>5, <1>6, <1>17, <1>18 DEF Shapes
<1>20. \A t \in Tasks, u \in Tasks : t.channel = u.channel /\ t.cx.id = u.cx.id => t = u
  BY <1>5 DEF DecompressInv
<1>21. registry' = {Segment(t.channel, t.cx.id) : t \in Tasks'}
  <2>1. PICK q : q = queue[i]
    OBVIOUS
  <2>2. q \in Tasks /\ registry' = registry \ {Segment(q.channel, q.cx.id)}
    BY <1>1, <1>3, <1>4, <2>1
  <2>3. registry = {Segment(t.channel, t.cx.id) : t \in Tasks}
    BY <1>5 DEF DecompressInv
  <2>4. \A t \in Tasks : Segment(t.channel, t.cx.id) = Segment(q.channel, q.cx.id) => t = q
    BY <1>20, <2>2 DEF Segment
  <2>5. Tasks' = Tasks \ {q}
    BY <1>17, <2>1
  <2>6. PICK R, T : R = {Segment(t.channel, t.cx.id) : t \in Tasks'} /\ T = Tasks'
    OBVIOUS
  <2>7. \A x : x \in registry' <=> x \in R
    BY <2>2, <2>3, <2>4, <2>5, <2>6
  <2>8. registry' = R
    BY <2>2, <2>6, <2>7
  <2>9. QED BY <2>6, <2>8
<1>22. session'.img_width = 0 => \E t \in Tasks' : t.cx.file.header.p1a.EndImgFlag
  <2>1. ASSUME session.img_width = 0 PROVE \E t \in Tasks' : t.cx.file.header.p1a.EndImgFlag
    <3>1. PICK t \in Tasks : t.cx.file.header.p1a.EndImgFlag
      BY <1>5, <2>1 DEF DecompressInv
    <3>2. ~(LL3Width(session.img_width) > 0)
      BY <2>1 DEF LL3Width, PaddedTo, padding_length
    <3>3. t # queue[i]
      BY <1>1, <1>3, <3>1, <3>2
    <3>4. QED BY <1>17, <3>1, <3>3
  <2>2. QED BY <1>3, <2>1
<1>23. ASSUME NEW e \in Channels'
       PROVE  DecodingOf(e)'
  <2>1. e \in Channels
    BY <1>6
  <2>2. CASE e = c
    <3>1. Told(settings'[e].segment)
      BY <1>3, <1>8, <2>2
    <3>2. PICK ids2 : ids2 = ids \cup {cx.id}
      OBVIOUS
    <3>3. /\ descriptors'[e] = d /\ decoded'[e] = longer /\ Ids(ElementsOf(longer)) = ids2
          /\ SegmentsDecoded(longer) /\ Described(d, ids2)
          /\ \A k \in 1..Len(d) : d[k].segment_id = k - 1
      BY <1>15, <1>16, <1>18, <2>2, <3>2
    <3>4. ids2 \subseteq 0..(Len(d) - 1)
      BY <1>8, <1>9, <1>16, <3>2
    <3>5. ASSUME NEW t \in Tasks', t.channel = e
          PROVE  t.cx.id \in 0..(Len(d) - 1) /\ t.cx.id \notin ids2
      <4>1. t \in Tasks /\ t # queue[i]
        BY <1>17
      <4>2. t.cx.id \in 0..(n - 1) /\ t.cx.id \notin ids
        BY <1>8, <2>2, <3>5, <4>1
      <4>3. t.cx.id # cx.id
        BY <1>1, <1>4, <1>20, <2>2, <3>5, <4>1
      <4>4. QED BY <1>16, <3>2, <4>2, <4>3
    <3>6. QED BY <3>1, <3>3, <3>4, <3>5 DEF DecodingOf, SegmentsDecoded, Described
  <2>3. CASE e # c
    <3>1. DecodingOf(e)
      BY <1>5, <2>1 DEF DecompressInv
    <3>2. descriptors'[e] = descriptors[e] /\ decoded'[e] = decoded[e] /\ settings' = settings
      BY <1>3, <1>5, <2>1, <2>3 DEF Shapes
    <3>3. Tasks' \subseteq Tasks
      BY <1>17
    <3>4. QED BY <3>1, <3>2, <3>3 DEF DecodingOf, SegmentsDecoded, Described
  <2>4. QED BY <2>2, <2>3
<1>24. DecompressInv'
  <2>1. /\ \A t \in Tasks' : /\ t.op = "decode_segment" /\ t.channel \in Channels'
                             /\ Fields \subseteq DOMAIN t.cx.file.body
        /\ \A t \in Tasks', u \in Tasks' : t.channel = u.channel /\ t.cx.id = u.cx.id => t = u
    BY <1>5, <1>6, <1>17, <1>20 DEF DecompressInv
  <2>2. restored' = ForAll(<<>>)' /\ session'.img_width \in 0..(2^20 - 1)
    BY <1>3, <1>5, <1>6 DEF DecompressInv, ForAll
  <2>3. QED BY <1>17, <1>21, <1>22, <1>23, <2>1, <2>2 DEF DecompressInv
<1>25. QED BY <1>3, <1>4, <1>19, <1>24 DEF FlowInv

----------------------------------------------------------------------------
(* The flows that put the image together. *)

\* A channel of which nothing is restored has no parts.
LEMMA NoParts == ASSUME NEW c, restored[c] = <<>> PROVE Parts(c) = {}
BY DEF Parts

\* Every segment is decoded, and its data gone.
LEMMA Flow_Disassemble == ASSUME FlowInv, Disassemble PROVE FlowInv'
<1>1. /\ flow = "decompress" /\ queue = <<>> /\ flow' = "disassemble"
      /\ queue' = TaskOfAll("disassemble_segments")
      /\ UNCHANGED <<input, session, registry, fragments, merged, allocated, descriptors, decoded,
                     restored>>
  BY DEF Disassemble, NextFlow, known, transform_vars, segment_vars, restore_vars
<1>2. Shapes /\ DecompressInv /\ ValidRequest(Request) /\ Tasks = {}
  BY <1>1, NoTasks DEF FlowInv, Shapes
<1>3. Channels' = Channels /\ Request' = Request
  BY <1>1, RequestStays
<1>4. /\ List(queue', Len(queue'))
      /\ Tasks' = {Alone("disassemble_segments", c) : c \in Channels}
  BY <1>1, <1>2, FlowStarts
<1>5. Shapes'
  BY <1>1, <1>2, <1>3, <1>4 DEF Shapes, Flows
<1>6. \A c \in Channels : restored[c] = <<>>
  BY <1>2 DEF DecompressInv, ForAll
<1>7. ASSUME NEW c \in Channels
      PROVE  DoneNumbered(descriptors[c]) /\ SegmentsDecoded(decoded[c])
  <2>1. DecodingOf(c)
    BY <1>2 DEF DecompressInv
  <2>2. QED BY <2>1 DEF DecodingOf, DoneNumbered
<1>8. Numbers'
  BY <1>1, <1>3, <1>7 DEF Numbers, DoneNumbered
<1>9. registry' = RestoredParts'
  <2>1. registry = {}
    BY <1>2 DEF DecompressInv
  <2>2. \A c \in Channels : Parts(c)' = {}
    BY <1>1, <1>6, NoParts DEF Parts
  <2>3. RestoredParts' = {}
    BY <1>3, <2>2 DEF RestoredParts
  <2>4. QED BY <1>1, <2>1, <2>3
<1>10. session'.img_width \in 1..(2^20 - 1)
  <2>1. PICK m \in Nat : m = 2^20
    BY PowerPositive
  <2>2. session.img_width \in 0..(m - 1) /\ session.img_width # 0
    BY <1>2, <2>1 DEF DecompressInv
  <2>3. QED BY <1>1, <2>1, <2>2
<1>11. \A t \in Tasks' : /\ t.op \in {"disassemble_segments", "restore_image"}
                         /\ t.channel \in Channels'
  BY <1>3, <1>4 DEF Alone, Task
<1>12. List(<<>>, Len(<<>>))
  BY DEF List, ElementsOf
<1>13. \A c \in Channels' : /\ SegmentsDecoded(decoded'[c])
                            /\ List(restored'[c], Len(restored'[c]))
  BY <1>1, <1>3, <1>6, <1>7, <1>12
<1>14. DisassembleInv'
  BY <1>8, <1>9, <1>10, <1>11, <1>13 DEF DisassembleInv, SegmentsDecoded
<1>15. QED BY <1>1, <1>5, <1>14 DEF FlowInv

\* How the decoded segments are put in order.
ByTheirIds(S) ==
  [k \in 1..Cardinality(S) |->
     CHOOSE s \in S : Cardinality({t \in S \ {s} : t.id < s.id}) = k - 1]

\* The segments are ordered by their ids, and none is lost.
LEMMA IdsSorted ==
  ASSUME NEW list, SegmentsDecoded(list), NEW sorted, sorted = ByTheirIds(Range(list))
  PROVE  /\ sorted \in Seq(ElementsOf(list))
         /\ \A s \in ElementsOf(list) : \E k \in 1..Len(sorted) : sorted[k] = s
         /\ \A j \in 1..Len(sorted), k \in 1..Len(sorted) : j < k <=> sorted[j].id < sorted[k].id
<1>1. PICK S : S = ElementsOf(list)
  OBVIOUS
<1>2. /\ List(list, Len(list)) /\ \A s \in S : s.id \in Nat
      /\ \A s \in S, t \in S : s.id = t.id => s = t
  BY <1>1 DEF SegmentsDecoded
<1>3. Range(list) = S
  <2>1. list \in Seq(S)
    BY <1>1, <1>2 DEF List
  <2>2. DOMAIN list = 1..Len(list)
    BY <2>1
  <2>3. QED BY <1>1, <2>2 DEF Range, ElementsOf
<1>4. IsFiniteSet(S)
  BY <1>1, <1>2, ElementsFinite DEF List
<1> DEFINE ahead == [s \in S |-> {t \in S \ {s} : t.id < s.id}]
<1>5. Orders(ahead, S)
  <2>1. \A s \in S : ahead[s] \subseteq S /\ s \notin ahead[s]
    BY <1>2
  <2>2. \A s \in S, t \in S : s # t => s \in ahead[t] \/ t \in ahead[s]
    BY <1>2
  <2>3. \A s \in S, t \in S : s \in ahead[t] => ahead[s] \subseteq ahead[t]
    <3> SUFFICES ASSUME NEW s \in S, NEW t \in S, s \in ahead[t], NEW r \in ahead[s]
                 PROVE  r \in ahead[t]
      OBVIOUS
    <3>1. r \in S /\ r.id < s.id /\ s.id < t.id /\ r.id \in Nat /\ s.id \in Nat /\ t.id \in Nat
      BY <1>2
    <3>2. QED BY <3>1
  <2> HIDE DEF ahead
  <2>4. QED BY <2>1, <2>2, <2>3 DEF Orders
<1>6. sorted = [k \in 1..Cardinality(S) |-> CHOOSE s \in S : Cardinality(ahead[s]) = k - 1]
  <2>1. \A s \in S : ahead[s] = {t \in S \ {s} : t.id < s.id}
    OBVIOUS
  <2> HIDE DEF ahead
  <2>2. sorted = [k \in 1..Cardinality(S) |->
                    CHOOSE s \in S : Cardinality({t \in S \ {s} : t.id < s.id}) = k - 1]
    BY <1>3 DEF ByTheirIds
  <2>3. \A k : (CHOOSE s \in S : Cardinality({t \in S \ {s} : t.id < s.id}) = k - 1)
             = CHOOSE s \in S : Cardinality(ahead[s]) = k - 1
    BY <2>1
  <2>4. QED BY <2>2, <2>3
<1>7. Listed(sorted, S, ahead)
  <2> HIDE DEF ahead
  <2>1. QED BY <1>4, <1>5, <1>6, SortedIs
<1>8. /\ sorted \in Seq(S) /\ Len(sorted) \in Nat
      /\ \A s \in S : \E k \in 1..Len(sorted) : sorted[k] = s
      /\ \A j \in 1..Len(sorted), k \in 1..Len(sorted) : j < k <=> sorted[j] \in ahead[sorted[k]]
  <2> HIDE DEF ahead
  <2>1. sorted \in Seq(S)
    BY <1>7 DEF Listed
  <2>2. Len(sorted) \in Nat
    BY <2>1
  <2>3. QED BY <1>7, <2>1, <2>2 DEF Listed
<1>9. ASSUME NEW j \in 1..Len(sorted), NEW k \in 1..Len(sorted)
      PROVE  j < k <=> sorted[j].id < sorted[k].id
  <2>1. PICK s, t : s = sorted[j] /\ t = sorted[k]
    OBVIOUS
  <2>2. s \in S /\ t \in S
    BY <1>8, <2>1
  <2>3. s.id \in Nat /\ t.id \in Nat
    BY <1>2, <2>2
  <2>4. s.id < t.id <=> s \in ahead[t]
    BY <2>2, <2>3
  <2>5. QED BY <1>8, <2>1, <2>4
<1>10. QED BY <1>1, <1>8, <1>9

\* The tasks that restore the parts which a channel's segments have become.
PartTasks(c, made) == [k \in 1..Len(made) |-> Task("restore_image", c, made[k])]

\* They form a sequence of tasks of that channel.
LEMMA PartsDispatched ==
  ASSUME NEW c, NEW made, List(made, Len(made)), NEW s, s = PartTasks(c, made)
  PROVE  /\ List(s, Len(s))
         /\ \A t \in ElementsOf(s) : t.op = "restore_image" /\ t.channel = c
<1>1. Len(made) \in Nat
  BY DEF List
<1>2. s = [k \in 1..Len(made) |-> s[k]]
  BY DEF PartTasks
<1>3. List(s, Len(made))
  BY <1>1, <1>2, ListMade
<1>4. Len(s) = Len(made)
  BY <1>3 DEF List
<1>5. \A k \in 1..Len(made) : s[k].op = "restore_image" /\ s[k].channel = c
  BY DEF PartTasks, Task
<1>6. QED BY <1>3, <1>4, <1>5 DEF ElementsOf

\* The segments of a channel, by id, become parts of the image.
LEMMA Flow_DisassembleSegments ==
  ASSUME FramesInv, FlowInv, NEW i, DisassembleSegments(i)
  PROVE  FlowInv'
<1> DEFINE channel == queue[i].channel
           order == Evaluated(Sorted(Range(decoded[channel]), LAMBDA s, t : s.id < t.id))
           width == PaddedTo(session.img_width) \div 8
           Made(of, made) ==
             /\ contexts' = [contexts EXCEPT ![of] = [k \in 1..Len(made) |-> made[k].frame]]
             /\ queue' = Without(i) \o [k \in 1..Len(made) |-> Task("restore_image", of, made[k])]
             /\ decoded' = [decoded EXCEPT ![of] = <<>>]
           Outcome(of, list, w) ==
             \E segments \in {[k \in 1..Len(list) |-> list[k].segment]} :
             \E values \in {BlockValues(segments)} :
             \E subbands \in {Evaluated(Unpacked(w, Cardinality(DOMAIN values), values))} :
             \E made \in {Evaluated(FragmentContexts(subbands))} :
               Made(of, made)
<1>1. PICK c : c = channel
  OBVIOUS
<1>2. PICK sorted : sorted = ByTheirIds(Range(decoded[c]))
  OBVIOUS
<1>3. order = sorted
  <2>1. Sorted(Range(decoded[channel]), LAMBDA s, t : s.id < t.id)
          = ByTheirIds(Range(decoded[channel]))
    BY Zenon DEF Sorted, ByTheirIds
  <2>2. order = ByTheirIds(Range(decoded[channel]))
    BY <2>1, EvaluatedIs, Zenon
  <2> HIDE DEF order
  <2>3. QED BY <1>1, <1>2, <2>2
<1>4. Outcome(channel, order, width)
  BY Zenon DEF DisassembleSegments
<1>5. PICK w : w = width
  OBVIOUS
<1> HIDE DEF width, order
<1>6. Outcome(c, sorted, w)
  <2> HIDE DEF Outcome
  <2>1. QED BY <1>1, <1>3, <1>4, <1>5
<1> HIDE DEF Made
<1>7. PICK segments, values :
        /\ segments = [k \in 1..Len(sorted) |-> sorted[k].segment]
        /\ values = BlockValues(segments)
        /\ \E subbands \in {Evaluated(Unpacked(w, Cardinality(DOMAIN values), values))} :
           \E made \in {Evaluated(FragmentContexts(subbands))} :
             Made(c, made)
  BY <1>6
<1>8. PICK made :
        /\ made = Evaluated(FragmentContexts(Evaluated(Unpacked(w, Cardinality(DOMAIN values),
                                                                values))))
        /\ queue' = Without(i) \o [k \in 1..Len(made) |-> Task("restore_image", c, made[k])]
        /\ decoded' = [decoded EXCEPT ![c] = <<>>]
  <2>1. PICK subbands, made :
          /\ subbands = Evaluated(Unpacked(w, Cardinality(DOMAIN values), values))
          /\ made = Evaluated(FragmentContexts(subbands))
          /\ Made(c, made)
    BY <1>7
  <2>2. made = Evaluated(FragmentContexts(Evaluated(Unpacked(w, Cardinality(DOMAIN values),
                                                             values))))
    BY <2>1
  <2>3. /\ queue' = Without(i) \o [k \in 1..Len(made) |-> Task("restore_image", c, made[k])]
        /\ decoded' = [decoded EXCEPT ![c] = <<>>]
    BY <2>1 DEF Made
  <2>4. QED BY <2>2, <2>3
<1>9. /\ Runs(i, "disassemble_segments")
      /\ UNCHANGED <<input, session, settings, flow, registry, fragments, merged, allocated,
                     descriptors, stored, restored>>
  BY DEF DisassembleSegments, known, transform_vars
<1>10. /\ flow = "disassemble" /\ i \in 1..Len(queue) /\ c \in Channels /\ queue[i] \in Tasks
  <2>1. "disassemble_segments" \in FlowTasks[flow]
    BY <1>9, OwnFlow
  <2>2. flow \in Flows
    BY DEF FlowInv, Shapes
  <2>3. flow = "disassemble"
    BY <2>1, <2>2 DEF Flows, FlowTasks
  <2>4. QED BY <1>1, <1>9, <2>3, OwnFlow
<1>11. Shapes /\ DisassembleInv
  BY <1>10 DEF FlowInv
<1>12. Request' = Request /\ Channels' = Channels
  BY <1>9, RequestStays
<1>13. SegmentsDecoded(decoded[c])
  BY <1>10, <1>11 DEF DisassembleInv
<1>14. /\ sorted \in Seq(ElementsOf(decoded[c]))
  <2>1. PICK list : list = decoded[c]
    OBVIOUS
  <2>2. sorted \in Seq(ElementsOf(list))
    BY <1>2, <1>13, <2>1, IdsSorted
  <2>3. QED BY <2>1, <2>2
<1>15. \A k \in 1..Len(sorted) : sorted[k].segment.size \in Int
  BY <1>13, <1>14 DEF SegmentsDecoded
<1>16. List(segments, Len(sorted)) /\ \A k \in 1..Len(sorted) : segments[k].size \in Int
  <2>1. segments = [k \in 1..Len(sorted) |-> segments[k]] /\ Len(sorted) \in Nat
    BY <1>7, <1>14
  <2>2. List(segments, Len(sorted))
    BY <2>1, ListMade
  <2>3. QED BY <1>7, <1>15, <2>2
<1>17. PICK blocks \in Nat : blocks = Cardinality(DOMAIN values)
  BY <1>7, <1>16, BlocksOfSegments
<1>18. w \in Nat \ {0} /\ 8 * w <= 2 * 2^20
  <2>1. PICK m \in Nat : m = 2^20
    BY PowerPositive
  <2>2. PICK img_width : img_width = session.img_width
    OBVIOUS
  <2>3. img_width \in Nat \ {0} /\ img_width < 2^20
    BY <1>11, <2>1, <2>2 DEF DisassembleInv
  <2>4. PaddedTo(img_width) \div 8 \in Nat \ {0} /\ 8 * (PaddedTo(img_width) \div 8) <= 2 * 2^20
    BY <2>3, BlockRow
  <2>5. QED BY <1>5, <2>2, <2>4 DEF width
<1>19. List(made, Len(made))
  <2>1. PICK m : m = FragmentContexts(Evaluated(Unpacked(w, blocks, values)))
    OBVIOUS
  <2>2. List(m, Len(m))
    BY <1>18, <2>1, PartsListed
  <2>3. made = m
    BY <1>8, <1>17, <2>1, EvaluatedIs
  <2>4. QED BY <2>2, <2>3
<1>20. PICK s : s = PartTasks(c, made)
  OBVIOUS
<1>21. List(s, Len(s)) /\ \A t \in ElementsOf(s) : t.op = "restore_image" /\ t.channel = c
  BY <1>19, <1>20, PartsDispatched
<1>22. queue' = Without(i) \o s
  BY <1>8, <1>20 DEF PartTasks
<1>23. List(Without(i), Len(queue) - 1) /\ ElementsOf(Without(i)) \subseteq Tasks
  BY <1>10, <1>11, TasksLeft DEF Shapes
<1>24. List(queue', Len(queue')) /\ Tasks' \subseteq Tasks \cup ElementsOf(s)
  <2>1. PICK q : q = Without(i) \o s
    OBVIOUS
  <2>2. /\ List(Without(i) \o s, (Len(queue) - 1) + Len(s))
        /\ ElementsOf(Without(i) \o s) = ElementsOf(Without(i)) \cup ElementsOf(s)
    BY <1>21, <1>23, ListJoined
  <2>3. List(q, Len(q)) /\ ElementsOf(q) \subseteq Tasks \cup ElementsOf(s)
    BY <1>23, <2>1, <2>2 DEF List
  <2>4. queue' = q
    BY <1>22, <2>1
  <2>5. QED BY <2>3, <2>4 DEF Tasks
<1>25. \A t \in Tasks' : /\ t.op \in {"disassemble_segments", "restore_image"}
                         /\ t.channel \in Channels'
  BY <1>10, <1>11, <1>12, <1>21, <1>24 DEF DisassembleInv
<1>26. /\ DOMAIN decoded' = Channels
       /\ \A d \in Channels : decoded'[d] = IF d = c THEN <<>> ELSE decoded[d]
  BY <1>8, <1>11 DEF Shapes
<1>27. Shapes'
  BY <1>9, <1>11, <1>12, <1>24, <1>26 DEF Shapes
<1>28. SegmentsDecoded(<<>>)
  BY DEF SegmentsDecoded, List, ElementsOf
<1>29. ASSUME NEW d \in Channels' PROVE SegmentsDecoded(decoded'[d])
  <2>1. d \in Channels
    BY <1>12
  <2>2. SegmentsDecoded(decoded[d])
    BY <1>11, <2>1 DEF DisassembleInv
  <2>3. CASE d = c
    <3>1. decoded'[d] = <<>>
      BY <1>26, <2>1, <2>3
    <3>2. QED BY <1>28, <3>1
  <2>4. CASE d # c
    <3>1. decoded'[d] = decoded[d]
      BY <1>26, <2>1, <2>4
    <3>2. QED BY <2>2, <3>1
  <2>5. QED BY <2>3, <2>4
<1>30. DisassembleInv'
  <2>1. Numbers'
    BY <1>9, <1>11, <1>12 DEF DisassembleInv, Numbers, DoneNumbered
  <2>2. registry' = RestoredParts' /\ session'.img_width \in 1..(2^20 - 1)
    BY <1>9, <1>11, <1>12 DEF DisassembleInv, RestoredParts, Parts
  <2>3. \A d \in Channels' : List(restored'[d], Len(restored'[d]))
    BY <1>9, <1>11, <1>12 DEF DisassembleInv
  <2>4. QED BY <1>25, <1>29, <2>1, <2>2, <2>3 DEF DisassembleInv, SegmentsDecoded
<1>31. QED BY <1>9, <1>10, <1>27, <1>30 DEF FlowInv

\* A part of the image is restored, and is in the registry.
LEMMA Flow_RestoreImage ==
  ASSUME FramesInv, FlowInv, NEW i, RestoreImage(i)
  PROVE  FlowInv'
<1> DEFINE Restored(v) == [restored EXCEPT ![queue[i].channel] =
                             Append(@, [frame |-> queue[i].cx.frame, image |-> v])]
<1>1. \E v : restored' = Restored(v)
  <2>1. restored' = Restored(RestoredFragment(queue[i].cx,
                               IF session.custom_shifts THEN session.shifts ELSE default_shifts,
                               session.transpose))
    BY DEF RestoreImage
  <2> HIDE DEF Restored
  <2>2. QED BY <2>1
<1>2. PICK c, frame, x :
        /\ c = queue[i].channel /\ frame = queue[i].cx.frame
        /\ x.frame = frame /\ restored' = [restored EXCEPT ![c] = Append(@, x)]
  <2>1. PICK v : restored' = Restored(v)
    BY <1>1
  <2>2. PICK x : x = [frame |-> queue[i].cx.frame, image |-> v]
    OBVIOUS
  <2>3. x.frame = queue[i].cx.frame
    BY <2>2
  <2>4. QED BY <2>1, <2>2, <2>3
<1> HIDE DEF Restored
<1>3. /\ Runs(i, "restore_image")
      /\ registry' = registry \cup {Part(c, frame)}
      /\ queue' = Without(i)
      /\ UNCHANGED <<input, session, flow, fragments, merged, allocated, descriptors, decoded>>
  BY <1>2 DEF RestoreImage, known, transform_vars, segment_vars
<1>4. /\ flow = "disassemble" /\ i \in 1..Len(queue) /\ c \in Channels /\ queue[i] \in Tasks
  <2>1. "restore_image" \in FlowTasks[flow]
    BY <1>3, OwnFlow
  <2>2. flow \in Flows
    BY DEF FlowInv, Shapes
  <2>3. flow = "disassemble"
    BY <2>1, <2>2 DEF Flows, FlowTasks
  <2>4. QED BY <1>2, <1>3, <2>3, OwnFlow
<1>5. Shapes /\ DisassembleInv
  BY <1>4 DEF FlowInv
<1>6. Request' = Request /\ Channels' = Channels
  BY <1>3, RequestStays
<1>7. List(queue', Len(queue')) /\ Tasks' \subseteq Tasks
  <2>1. PICK q : q = Without(i)
    OBVIOUS
  <2>2. List(q, Len(q)) /\ ElementsOf(q) \subseteq Tasks
    BY <1>4, <1>5, <2>1, TasksLeft DEF Shapes, List
  <2>3. QED BY <1>3, <2>1, <2>2 DEF Tasks
<1>8. PICK list, longer : list = restored[c] /\ longer = Append(list, x)
  OBVIOUS
<1>9. /\ DOMAIN restored' = Channels
      /\ \A d \in Channels : restored'[d] = IF d = c THEN longer ELSE restored[d]
  BY <1>2, <1>4, <1>5, <1>8 DEF Shapes
<1>10. List(list, Len(list))
  BY <1>4, <1>5, <1>8 DEF DisassembleInv
<1>11. /\ List(longer, Len(longer)) /\ Len(longer) = Len(list) + 1
       /\ \A k \in 1..Len(list) : longer[k] = list[k]
       /\ longer[Len(list) + 1] = x
  <2>1. /\ List(Append(list, x), Len(list) + 1)
        /\ \A k \in 1..Len(list) : Append(list, x)[k] = list[k]
        /\ Append(list, x)[Len(list) + 1] = x
    BY <1>10, ListAppended
  <2>2. QED BY <1>8, <2>1 DEF List
<1>12. Parts(c)' = Parts(c) \cup {Part(c, frame)}
  <2>1. PICK n \in Nat : n = Len(list)
    BY <1>10 DEF List
  <2>2. Parts(c) = {Part(c, list[k].frame) : k \in 1..n}
    BY <1>8, <2>1 DEF Parts
  <2>3. Parts(c)' = {Part(c, longer[k].frame) : k \in 1..(n + 1)}
    BY <1>4, <1>9, <1>11, <2>1 DEF Parts
  <2>4. /\ \A k \in 1..n : Part(c, longer[k].frame) = Part(c, list[k].frame)
        /\ Part(c, longer[n + 1].frame) = Part(c, frame)
    BY <1>2, <1>11, <2>1
  <2>5. PICK A, B, p : A = Parts(c) /\ B = Parts(c)' /\ p = Part(c, frame)
    OBVIOUS
  <2>6. \A y : y \in B <=> y \in A \/ y = p
    <3> SUFFICES ASSUME NEW y PROVE y \in B <=> y \in A \/ y = p
      OBVIOUS
    <3>1. ASSUME y \in B PROVE y \in A \/ y = p
      <4>1. PICK k \in 1..(n + 1) : y = Part(c, longer[k].frame)
        BY <2>3, <2>5, <3>1
      <4>2. CASE k = n + 1
        BY <2>4, <2>5, <4>1, <4>2
      <4>3. CASE k # n + 1
        <5>1. k \in 1..n
          BY <4>3
        <5>2. QED BY <2>2, <2>4, <2>5, <4>1, <5>1
      <4>4. QED BY <4>2, <4>3
    <3>2. ASSUME y \in A PROVE y \in B
      <4>1. PICK k \in 1..n : y = Part(c, list[k].frame)
        BY <2>2, <2>5, <3>2
      <4>2. k \in 1..(n + 1)
        OBVIOUS
      <4>3. QED BY <2>3, <2>4, <2>5, <4>1, <4>2
    <3>3. p \in B
      <4>1. n + 1 \in 1..(n + 1)
        OBVIOUS
      <4>2. QED BY <2>3, <2>4, <2>5, <4>1
    <3>4. QED BY <3>1, <3>2, <3>3
  <2>7. B = A \cup {p}
    BY <2>6
  <2>8. QED BY <2>5, <2>7
<1>13. registry' = RestoredParts'
  <2>1. \A d \in Channels : d # c => Parts(d)' = Parts(d)
    BY <1>9 DEF Parts
  <2>2. RestoredParts' = RestoredParts \cup {Part(c, frame)}
    BY <1>4, <1>6, <1>12, <2>1 DEF RestoredParts
  <2>3. QED BY <1>3, <1>5, <2>2 DEF DisassembleInv
<1>14. Shapes'
  BY <1>3, <1>5, <1>6, <1>7, <1>9 DEF Shapes
<1>15. DisassembleInv'
  <2>1. Numbers' /\ session'.img_width \in 1..(2^20 - 1)
    BY <1>3, <1>5, <1>6 DEF DisassembleInv, Numbers, DoneNumbered
  <2>2. \A t \in Tasks' : /\ t.op \in {"disassemble_segments", "restore_image"}
                          /\ t.channel \in Channels'
    BY <1>5, <1>6, <1>7 DEF DisassembleInv
  <2>3. \A d \in Channels' : SegmentsDecoded(decoded'[d]) /\ List(restored'[d], Len(restored'[d]))
    BY <1>3, <1>5, <1>6, <1>9, <1>11 DEF DisassembleInv
  <2>4. QED BY <1>13, <2>1, <2>2, <2>3 DEF DisassembleInv, SegmentsDecoded
<1>16. QED BY <1>3, <1>4, <1>14, <1>15 DEF FlowInv

\* All parts are there, and every channel's image waits to be put together.
LEMMA Flow_Postprocess == ASSUME FlowInv, Postprocess PROVE FlowInv'
<1>1. /\ flow = "disassemble" /\ queue = <<>> /\ flow' = "postprocess"
      /\ queue' = TaskOfAll("postprocess_image")
      /\ UNCHANGED <<input, registry, fragments, merged, allocated, descriptors, decoded, restored>>
  BY DEF Postprocess, NextFlow, known, transform_vars, segment_vars, restore_vars
<1>2. Shapes /\ DisassembleInv /\ ValidRequest(Request)
  BY <1>1 DEF FlowInv, Shapes
<1>3. Channels' = Channels /\ Request' = Request
  BY <1>1, RequestStays
<1>4. /\ List(queue', Len(queue')) /\ Distinct(queue)'
      /\ Tasks' = {Alone("postprocess_image", c) : c \in Channels}
  BY <1>1, <1>2, FlowStarts
<1>5. Shapes'
  BY <1>1, <1>2, <1>3, <1>4 DEF Shapes, Flows
<1>6. Numbers'
  BY <1>1, <1>2, <1>3 DEF DisassembleInv, Numbers, DoneNumbered
<1>7. \A t \in Tasks' : t.channel \in Channels' /\ t = Alone("postprocess_image", t.channel)
  <2>1. \A c : Alone("postprocess_image", c).channel = c
    BY DEF Alone, Task
  <2>2. QED BY <1>3, <1>4, <2>1
<1>8. \A c \in Channels' : Alone("postprocess_image", c) \in Tasks'
  BY <1>3, <1>4
<1>9. registry' = RestoredParts' \cup
        {Image(c) : c \in {c \in Channels' : Alone("postprocess_image", c) \notin Tasks'}}
  <2>1. registry' = RestoredParts'
    BY <1>1, <1>2, <1>3 DEF DisassembleInv, RestoredParts, Parts
  <2>2. {c \in Channels' : Alone("postprocess_image", c) \notin Tasks'} = {}
    BY <1>8
  <2>3. {Image(c) : c \in {}} = {}
    OBVIOUS
  <2>4. QED BY <2>1, <2>2, <2>3
<1>10. PostprocessInv'
  BY <1>4, <1>6, <1>7, <1>8, <1>9 DEF PostprocessInv, Alone
<1>11. QED BY <1>1, <1>5, <1>10 DEF FlowInv

\* The image of a channel takes the place of its parts.
LEMMA Flow_PostprocessImage ==
  ASSUME FramesInv, FlowInv, NEW i, PostprocessImage(i)
  PROVE  FlowInv'
<1>1. PICK c : c = queue[i].channel
  OBVIOUS
<1>2. /\ Runs(i, "postprocess_image")
      /\ restored' = [restored EXCEPT ![c] = <<>>]
      /\ registry' = (registry \ Parts(c)) \cup {Image(c)}
      /\ queue' = Without(i)
      /\ UNCHANGED <<input, flow, fragments, merged, allocated, descriptors, decoded>>
  BY <1>1 DEF PostprocessImage, known, transform_vars, segment_vars, free_descriptor
<1>3. /\ flow = "postprocess" /\ i \in 1..Len(queue) /\ c \in Channels /\ queue[i] \in Tasks
  <2>1. "postprocess_image" \in FlowTasks[flow]
    BY <1>2, OwnFlow
  <2>2. flow \in Flows
    BY DEF FlowInv, Shapes
  <2>3. flow = "postprocess"
    BY <2>1, <2>2 DEF Flows, FlowTasks
  <2>4. QED BY <1>1, <1>2, <2>3, OwnFlow
<1>4. Shapes /\ PostprocessInv
  BY <1>3 DEF FlowInv
<1>5. Request' = Request /\ Channels' = Channels
  BY <1>2, RequestStays
<1>6. /\ List(queue', Len(queue')) /\ Distinct(queue)'
      /\ Tasks' = Tasks \ {queue[i]}
  <2>1. List(queue, Len(queue)) /\ Distinct(queue)
    BY <1>4 DEF Shapes, PostprocessInv
  <2>2. QED BY <1>2, <1>3, <2>1, TaskGone
<1>7. queue[i] = Alone("postprocess_image", c) /\ \A d : Alone("postprocess_image", d).channel = d
  BY <1>1, <1>3, <1>4 DEF PostprocessInv, Alone, Task
<1>8. \A d : Alone("postprocess_image", d) \in Tasks'
               <=> d # c /\ Alone("postprocess_image", d) \in Tasks
  BY <1>6, <1>7
<1>9. /\ DOMAIN restored' = Channels
      /\ \A d \in Channels : restored'[d] = IF d = c THEN <<>> ELSE restored[d]
  BY <1>2, <1>3, <1>4 DEF Shapes
<1>10. Shapes'
  BY <1>2, <1>4, <1>5, <1>6, <1>9 DEF Shapes
<1>11. Parts(c)' = {} /\ \A d \in Channels : d # c => Parts(d)' = Parts(d)
  BY <1>3, <1>9 DEF Parts
<1>12. RestoredParts' = RestoredParts \ Parts(c)
  <2>1. \A d, p : p \in Parts(d) => p.channel = d
    BY DEF Parts, Part
  <2>2. \A p : p \in RestoredParts' <=> p \in RestoredParts /\ p \notin Parts(c)
    BY <1>3, <1>5, <1>11, <2>1 DEF RestoredParts
  <2>3. QED BY <2>2
<1>13. registry' = RestoredParts' \cup
         {Image(d) : d \in {d \in Channels' : Alone("postprocess_image", d) \notin Tasks'}}
  <2>1. PICK W, V :
          /\ W = {Image(d) : d \in {d \in Channels : Alone("postprocess_image", d) \notin Tasks}}
          /\ V = {Image(d) : d \in {d \in Channels' : Alone("postprocess_image", d) \notin Tasks'}}
    OBVIOUS
  <2>2. V = W \cup {Image(c)}
    <3>1. \A y : y \in V <=> \E d \in Channels : y = Image(d) /\ Alone("postprocess_image", d) \notin Tasks'
      BY <1>5, <2>1
    <3>2. \A y : y \in W <=> \E d \in Channels : y = Image(d) /\ Alone("postprocess_image", d) \notin Tasks
      BY <2>1
    <3>3. \A y : y \in V <=> y \in W \/ y = Image(c)
      BY <1>3, <1>8, <3>1, <3>2
    <3>4. QED BY <3>3
  <2>3. W \cap Parts(c) = {}
    <3>1. \A d, e, p : Image(d) # Part(e, p)
      BY DEF Image, Part
    <3>2. \A y \in W : \E d : y = Image(d)
      BY <2>1
    <3>3. \A y \in Parts(c) : \E p : y = Part(c, p)
      BY DEF Parts
    <3>4. QED BY <3>1, <3>2, <3>3
  <2>4. registry = RestoredParts \cup W
    BY <1>4, <2>1 DEF PostprocessInv
  <2>5. registry' = (RestoredParts \ Parts(c)) \cup V
    BY <1>2, <2>2, <2>3, <2>4
  <2>6. QED BY <1>12, <2>1, <2>5
<1>14. \A t \in Tasks' : t.channel \in Channels' /\ t = Alone("postprocess_image", t.channel)
  BY <1>4, <1>5, <1>6 DEF PostprocessInv
<1>15. \A d \in Channels' : Alone("postprocess_image", d) \in Tasks' \/ restored'[d] = <<>>
  BY <1>4, <1>5, <1>8, <1>9 DEF PostprocessInv
<1>16. Numbers'
  BY <1>2, <1>4, <1>5 DEF PostprocessInv, Numbers, DoneNumbered
<1>17. PostprocessInv'
  BY <1>6, <1>13, <1>14, <1>15, <1>16 DEF PostprocessInv, Alone
<1>18. QED BY <1>2, <1>3, <1>10, <1>17 DEF FlowInv

\* The image is written, and no part of it is left.
LEMMA Flow_Export == ASSUME FlowInv, Export PROVE FlowInv'
<1>1. /\ flow = "postprocess" /\ queue = <<>> /\ flow' = "done"
      /\ UNCHANGED <<input, queue, fragments, merged, allocated, descriptors, decoded, restored>>
  BY DEF Export, NextFlow, known, transform_vars, segment_vars
<1>2. Shapes /\ PostprocessInv /\ Tasks = {}
  BY <1>1, NoTasks DEF FlowInv
<1>3. Channels' = Channels /\ Request' = Request
  BY <1>1, RequestStays
<1>4. Shapes'
  BY <1>1, <1>2, <1>3 DEF Shapes, Flows
<1>5. EndInv'
  BY <1>1, <1>2, <1>3 DEF PostprocessInv, EndInv, Numbers, DoneNumbered
<1>6. QED BY <1>1, <1>4, <1>5 DEF FlowInv

\* No step breaks the invariant,
LEMMA FlowStep == ASSUME FramesInv, FlowInv, [Next]_vars PROVE FlowInv'
<1>1. FramesInv'
  BY FramesStep
<1>2. CASE UNCHANGED vars
  <2>1. UNCHANGED <<input, flow, queue, registry, session, settings, fragments, merged, allocated,
                    descriptors, stored, decoded, restored>>
    BY <1>2 DEF vars, known, transform_vars, segment_vars, restore_vars
  <2>2. Request' = Request /\ Channels' = Channels
    BY <2>1, RequestStays
  <2>3. Tasks' = Tasks
    BY <2>1 DEF Tasks
  <2>4. Shapes => Shapes'
    BY <2>1, <2>2 DEF Shapes
  <2>5. (Unwritten => Unwritten') /\ (Unread => Unread') /\ (Settled => Settled')
    BY <2>1, <2>2 DEF Unwritten, Unread, Settled, ForAll
  <2>6. ValidateInv => ValidateInv'
    BY <2>1, <2>5 DEF ValidateInv
  <2>7. /\ \A v : SessionWith(v)' = SessionWith(v)
        /\ \A c : /\ FrameSetOf(c)' = FrameSetOf(c)
                  /\ Transformed(c)' = Transformed(c) /\ Waiting(c)' = Waiting(c)
    BY <2>1, RequestStays DEF Transformed, Waiting
  <2>8. TransformInv => TransformInv'
    BY <2>1, <2>2, <2>3, <2>5, <2>7 DEF TransformInv, AsPrepared
  <2>9. CompressInv => CompressInv'
    <3>1. ASSUME CompressInv, NEW c \in Channels PROVE Advanced(c)'
      <4>1. Advanced(c)
        BY <3>1 DEF CompressInv, Advanced
      <4>2. FilesOf(c)' = FilesOf(c)
        BY <2>1 DEF FilesOf
      <4>3. QED BY <2>1, <2>3, <4>1, <4>2, OthersStay
    <3>2. QED BY <2>1, <2>2, <2>3, <2>5, <2>7, <3>1 DEF CompressInv, Distinct, Advanced
  <2>10. DecompressInv => DecompressInv'
    <3>1. ASSUME DecompressInv, NEW c \in Channels PROVE DecodingOf(c)'
      BY <2>1, <2>3, <3>1 DEF DecompressInv, DecodingOf, SegmentsDecoded, Described
    <3>2. ForAll(<<>>)' = ForAll(<<>>)
      BY <2>2 DEF ForAll
    <3>3. QED BY <2>1, <2>2, <2>3, <3>1, <3>2 DEF DecompressInv, Distinct
  <2>11. (Numbers => Numbers') /\ RestoredParts' = RestoredParts
    BY <2>1, <2>2 DEF Numbers, DoneNumbered, RestoredParts, Parts
  <2>12. DisassembleInv => DisassembleInv'
    BY <2>1, <2>2, <2>3, <2>11 DEF DisassembleInv, SegmentsDecoded
  <2>13. PostprocessInv => PostprocessInv'
    BY <2>1, <2>2, <2>3, <2>11 DEF PostprocessInv, Distinct
  <2>14. EndInv => EndInv'
    BY <2>1, <2>2, <2>11 DEF EndInv
  <2>15. QED BY <2>1, <2>4, <2>6, <2>8, <2>9, <2>10, <2>12, <2>13, <2>14 DEF FlowInv
<1>3. ASSUME NEW i, PreprocessImage(i) \/ TransformFragmentTask(i) PROVE FlowInv'
  BY <1>1, <1>3, Flow_PreprocessImage, Flow_TransformFragment
<1>4. ASSUME NEW i, PreprocessFragments(i) \/ AssembleSegments(i) \/ CompressSegment(i)
      PROVE  FlowInv'
  BY <1>4, Flow_PreprocessFragments, Flow_AssembleSegments, Flow_CompressSegment
<1>5. ASSUME NEW i, DecodeSegment(i) \/ DisassembleSegments(i) PROVE FlowInv'
  BY <1>5, Flow_DecodeSegment, Flow_DisassembleSegments
<1>6. ASSUME NEW i, RestoreImage(i) \/ PostprocessImage(i) PROVE FlowInv'
  BY <1>6, Flow_RestoreImage, Flow_PostprocessImage
<1>7. CASE Reject \/ Import \/ Compress
  BY <1>7, Flow_Reject, Flow_Import, Flow_Compress
<1>8. CASE Restore \/ Disassemble \/ Postprocess \/ Export
  BY <1>8, Flow_Restore, Flow_Disassemble, Flow_Postprocess, Flow_Export
<1>9. CASE Finished
  BY <1>2, <1>9 DEF Finished
<1>10. QED BY <1>2, <1>3, <1>4, <1>5, <1>6, <1>7, <1>8, <1>9 DEF Next

\* and it holds in every state: what each flow leaves behind and the next one finds.
THEOREM FlowConserved == Spec => [](FramesInv /\ FlowInv)
<1>1. Init => FramesInv /\ FlowInv
  BY FramesInit, FlowInit
<1>2. FramesInv /\ FlowInv /\ [Next]_vars => (FramesInv /\ FlowInv)'
  BY FramesStep, FlowStep
<1>3. QED BY <1>1, <1>2, PTL DEF Spec

----------------------------------------------------------------------------
(* The data that the registry holds. *)

\* Of a channel of which nothing is restored the registry holds no part.
LEMMA PartsHeld == ASSUME FlowInv, NEW channel \in Channels PROVE Parts(channel) \subseteq registry
<1>1. CASE flow \in {"validate", "rejected", "transform", "compress", "decompress", "done"}
  <2>1. restored[channel] = <<>>
    BY <1>1 DEF FlowInv, ValidateInv, TransformInv, CompressInv, DecompressInv, EndInv, Unread, ForAll
  <2>2. QED BY <2>1, NoParts
<1>2. CASE flow \in {"disassemble", "postprocess"}
  BY <1>2 DEF FlowInv, DisassembleInv, PostprocessInv, RestoredParts
<1>3. QED BY <1>1, <1>2 DEF FlowInv, Shapes, Flows

\* What a task refers to is there.
LEMMA DataHeld ==
  ASSUME FramesInv, FlowInv, NEW i \in 1..Len(queue)
  PROVE  LET channel == queue[i].channel
         IN /\ queue[i].op \in {"preprocess_image", "transform_fragment", "preprocess_fragments"}
                 => Image(channel) \in registry
            /\ queue[i].op \in {"compress_segment", "decode_segment"}
                 => Segment(channel, queue[i].cx.id) \in registry
<1>1. PICK t : t = queue[i]
  OBVIOUS
<1>2. t.op \in FlowTasks[flow] /\ t \in Tasks /\ t.channel \in Channels
  BY <1>1, TaskOfFlow
<1>3. flow \in Flows
  BY DEF FlowInv, Shapes
<1>4. CASE t.op \in {"preprocess_image", "transform_fragment"}
  <2>1. flow = "transform"
    BY <1>2, <1>3, <1>4 DEF Flows, FlowTasks
  <2>2. Image(t.channel) \in registry
    BY <1>2, <2>1 DEF FlowInv, TransformInv
  <2>3. QED BY <1>1, <1>4, <2>2
<1>5. CASE t.op \in {"preprocess_fragments", "compress_segment"}
  <2>1. flow = "compress"
    BY <1>2, <1>3, <1>5 DEF Flows, FlowTasks
  <2>2. registry = CompressRegistry(Tasks, stored)
    BY <2>1 DEF FlowInv, CompressInv
  <2>3. /\ t.op = "preprocess_fragments" => Image(t.channel) \in registry
        /\ t.op = "compress_segment" => Segment(t.channel, t.cx.id) \in registry
    BY <1>2, <2>2 DEF CompressRegistry
  <2>4. QED BY <1>1, <1>5, <2>3
<1>6. CASE t.op = "decode_segment"
  <2>1. flow = "decompress"
    BY <1>2, <1>3, <1>6 DEF Flows, FlowTasks
  <2>2. Segment(t.channel, t.cx.id) \in registry
    BY <1>2, <2>1 DEF FlowInv, DecompressInv
  <2>3. QED BY <1>1, <1>6, <2>2
<1>7. CASE t.op \notin {"preprocess_image", "transform_fragment", "preprocess_fragments",
                        "compress_segment", "decode_segment"}
  BY <1>1, <1>7
<1>8. QED BY <1>4, <1>5, <1>6, <1>7

\* When a flow ends, the registry holds what the next one needs and nothing else.
LEMMA DataLeft ==
  ASSUME FlowInv, queue = <<>>
  PROVE  /\ flow = "compress" => registry = {Segment(file.channel, file.id) : file \in stored}
         /\ flow = "postprocess" => registry = {Image(channel) : channel \in Channels}
<1>1. Tasks = {}
  BY NoTasks
<1>2. ASSUME flow = "compress"
      PROVE  registry = {Segment(file.channel, file.id) : file \in stored}
  <2>1. registry = CompressRegistry({}, stored)
    BY <1>1, <1>2 DEF FlowInv, CompressInv
  <2>2. QED BY <2>1 DEF CompressRegistry
<1>3. ASSUME flow = "postprocess"
      PROVE  registry = {Image(channel) : channel \in Channels}
  <2>1. /\ \A c \in Channels : Alone("postprocess_image", c) \in Tasks \/ restored[c] = <<>>
        /\ registry = RestoredParts \cup
             {Image(c) : c \in {c \in Channels : Alone("postprocess_image", c) \notin Tasks}}
    BY <1>3 DEF FlowInv, PostprocessInv
  <2>2. \A c \in Channels : Parts(c) = {}
    BY <1>1, <2>1, NoParts
  <2>3. RestoredParts = {}
    BY <2>2 DEF RestoredParts
  <2>4. {c \in Channels : Alone("postprocess_image", c) \notin Tasks} = Channels
    BY <1>1
  <2>5. QED BY <2>1, <2>3, <2>4
<1>4. QED BY <1>2, <1>3

\* Data is in the registry as long as a task refers to it, whatever the order in which the tasks
\* of a flow run, and a flow leaves what the next one needs.
THEOREM DataHeldExactly == Spec => []RegistryExact
<1>1. FramesInv /\ FlowInv => RegistryExact
  BY PartsHeld, DataHeld, DataLeft DEF RegistryExact
<1>2. QED BY <1>1, FlowConserved, PTL

----------------------------------------------------------------------------
(* The operations of the segments. *)

\* The descriptors that are done are those that say so.
LEMMA DoneAre ==
  ASSUME NEW channel, NEW ids, Described(descriptors[channel], ids),
         ids \subseteq 0..(Len(descriptors[channel]) - 1)
  PROVE  DoneIds(channel) = ids
<1>1. PICK list, n : list = descriptors[channel] /\ n = Len(list) /\ n \in Nat
  BY DEF Described, List
<1>2. \A k \in 1..n : list[k] = [state |-> IF k - 1 \in ids THEN "done" ELSE "pending",
                                 segment_id |-> list[k].segment_id]
  BY <1>1 DEF Described
<1>3. \A k \in 1..n : list[k].state = "done" <=> k - 1 \in ids
  <2> SUFFICES ASSUME NEW k \in 1..n PROVE list[k].state = "done" <=> k - 1 \in ids
    OBVIOUS
  <2>1. PICK word, number : /\ word = (IF k - 1 \in ids THEN "done" ELSE "pending")
                            /\ number = list[k].segment_id
    OBVIOUS
  <2>2. list[k] = [state |-> word, segment_id |-> number]
    BY <1>2, <2>1
  <2>3. list[k].state = word
    BY <2>2
  <2>4. QED BY <2>1, <2>3
<1>4. \A id \in 0..(n - 1) : list[id + 1].state = "done" <=> id \in ids
  <2> SUFFICES ASSUME NEW id \in 0..(n - 1) PROVE list[id + 1].state = "done" <=> id \in ids
    OBVIOUS
  <2>1. id + 1 \in 1..n /\ (id + 1) - 1 = id
    BY <1>1
  <2>2. QED BY <1>3, <2>1
<1>5. DoneIds(channel) = {id \in 0..(n - 1) : list[id + 1].state = "done"}
  BY <1>1 DEF DoneIds
<1>6. QED BY <1>1, <1>4, <1>5

\* While segments are coded: those that wait and those that are stored are all of them.
LEMMA CodedOnce ==
  ASSUME FlowInv, flow = "compress", NEW channel \in Channels
  PROVE  LET waiting == TaskIds(CompressTasks(channel))
             files == Ids(FilesOf(channel))
         IN /\ waiting \cup files = 0..(allocated[channel].second - 1)
            /\ waiting \cap files = {}
            /\ DoneIds(channel) = files
            /\ DoneNumbered(descriptors[channel])
<1>1. Shapes /\ CompressInv
  BY DEF FlowInv
<1>2. PICK W, F : W = TaskIds(CompressTasks(channel)) /\ F = Ids(FilesOf(channel))
  OBVIOUS
<1>3. CASE Fresh(channel)
  <2>1. W = {} /\ F = {} /\ 0..(allocated[channel].second - 1) = {}
    BY <1>2, <1>3 DEF Fresh, TaskIds, Ids
  <2>2. descriptors[channel] = <<>>
    BY <1>3 DEF Fresh
  <2>3. DoneIds(channel) = {} /\ DoneNumbered(descriptors[channel])
    BY <2>2 DEF DoneIds, DoneNumbered
  <2>4. QED BY <1>2, <2>1, <2>3
<1>4. CASE Segmented(channel)
  <2>1. input \in DOMAIN Inputs /\ ValidRequest(Inputs[input])
    BY <1>1 DEF Shapes, Request
  <2>2. PICK n \in Nat : n = CountOf(input)
    <3>1. channel \in DOMAIN Inputs[input].images
      BY DEF Channels, Request
    <3>2. QED BY <2>1, <3>1, CountIs
  <2>3. /\ allocated[channel].second = n
        /\ Coding(n, channel, CompressTasks(channel), FilesOf(channel), descriptors[channel])
    BY <1>4, <2>2 DEF Segmented
  <2>4. PICK list : list = descriptors[channel]
    OBVIOUS
  <2>5. /\ Described(list, F) /\ Len(list) = 2 * n
        /\ \A k \in 1..n : list[k].segment_id = k - 1
        /\ W \cup F = 0..(n - 1) /\ W \cap F = {}
    BY <1>2, <2>3, <2>4 DEF Coding
  <2>6. F \subseteq 0..(Len(list) - 1)
    BY <2>5
  <2>7. DoneIds(channel) = F
    BY <2>4, <2>5, <2>6, DoneAre
  <2>8. ASSUME NEW k \in 1..Len(list), list[k].state = "done" PROVE list[k].segment_id = k - 1
    <3>1. list[k] = [state |-> IF k - 1 \in F THEN "done" ELSE "pending",
                     segment_id |-> list[k].segment_id]
      BY <2>5 DEF Described
    <3>2. k - 1 \in F
      BY <2>8, <3>1
    <3>3. k \in 1..n
      BY <2>5, <3>2
    <3>4. QED BY <2>5, <3>3
  <2>9. DoneNumbered(descriptors[channel])
    BY <2>4, <2>8 DEF DoneNumbered
  <2>10. QED BY <1>2, <2>3, <2>5, <2>7, <2>9
<1>5. QED BY <1>1, <1>3, <1>4 DEF CompressInv, Unmerged, Unassembled

\* A segment's operation is started once, under the descriptor at its own id, whatever the
\* order in which the segments of the channels are coded and decoded.
THEOREM OperationsOnce == Spec => []OperationOnce
<1>1. ASSUME FlowInv, NEW channel \in Channels, flow = "compress"
      PROVE  LET waiting == {cx.id : cx \in TasksOf("compress_segment", channel)}
                 files == {file.id : file \in FilesOf(channel)}
             IN /\ waiting \cup files = 0..(allocated[channel].second - 1)
                /\ waiting \cap files = {}
                /\ DoneIds(channel) = files
  <2>1. {cx.id : cx \in TasksOf("compress_segment", channel)} = TaskIds(CompressTasks(channel))
    <3>1. TasksOf("compress_segment", channel) = {t.cx : t \in CompressTasks(channel)}
      BY DEF TasksOf, CompressTasks, Tasks, ElementsOf
    <3>2. QED BY <3>1 DEF TaskIds
  <2>2. {file.id : file \in FilesOf(channel)} = Ids(FilesOf(channel))
    BY DEF Ids
  <2>3. LET waiting == TaskIds(CompressTasks(channel))
            files == Ids(FilesOf(channel))
        IN /\ waiting \cup files = 0..(allocated[channel].second - 1)
           /\ waiting \cap files = {}
           /\ DoneIds(channel) = files
    BY <1>1, CodedOnce
  <2>4. QED BY <2>1, <2>2, <2>3
<1>2. ASSUME FlowInv, NEW channel \in Channels, flow = "decompress"
      PROVE  DoneIds(channel) = {decoded[channel][k].id : k \in 1..Len(decoded[channel])}
  <2>1. DecodingOf(channel)
    BY <1>2 DEF FlowInv, DecompressInv
  <2>2. PICK ids : ids = Ids(ElementsOf(decoded[channel]))
    OBVIOUS
  <2>3. Described(descriptors[channel], ids) /\ ids \subseteq 0..(Len(descriptors[channel]) - 1)
    BY <2>1, <2>2 DEF DecodingOf
  <2>4. DoneIds(channel) = ids
    BY <2>3, DoneAre
  <2>5. ids = {decoded[channel][k].id : k \in 1..Len(decoded[channel])}
    BY <2>2 DEF Ids, ElementsOf
  <2>6. QED BY <2>4, <2>5
<1>3. ASSUME FlowInv, NEW channel \in Channels PROVE DoneNumbered(descriptors[channel])
  <2>1. CASE flow \in {"validate", "transform"}
    <3>1. descriptors[channel] = <<>>
      BY <1>3, <2>1 DEF FlowInv, ValidateInv, TransformInv, Unwritten, ForAll
    <3>2. QED BY <3>1 DEF DoneNumbered
  <2>2. CASE flow = "compress"
    BY <1>3, <2>2, CodedOnce
  <2>3. CASE flow = "decompress"
    BY <1>3, <2>3 DEF FlowInv, DecompressInv, DecodingOf, DoneNumbered
  <2>4. CASE flow \in {"disassemble", "postprocess", "rejected", "done"}
    BY <1>3, <2>4 DEF FlowInv, DisassembleInv, PostprocessInv, EndInv, Numbers
  <2>5. QED BY <1>3, <2>1, <2>2, <2>3, <2>4 DEF FlowInv, Shapes, Flows
<1>4. FlowInv => OperationOnce
  BY <1>1, <1>2, <1>3 DEF OperationOnce, DoneNumbered
<1>5. QED BY <1>4, FlowConserved, PTL
=============================================================================
