# A verification project for ccsds122x0b2_impl

TLA+ specifications, model checks and machine-checked proofs for the C++
implementation of CCSDS 122.0-B-2 image compression in `src/`.  Line numbers refer
to the files under `src/src/` unless a longer path is given.

Contents: [parts of the system](#1-the-system) · [what is modelled](#2-modules) ·
[the runs](#3-runs) · [the proofs](#4-proofs) · [findings](#5-findings) ·
[limits](#6-what-is-only-model-checked-and-what-is-not-modelled) · [plan](#7-plan)

## 1. The system

`cli` parses a command, loads images or segments and drives phases of work on a
`task_pool`; `core/samples/routines.tpp` holds the tasks of compression and
restoration; `dwt` and `bpe` transform and code the data; `io` holds the pool, the
contexts tasks share, the headers and the sinks and sources of segment data.

    cli/commands ── add_tasks, execute_flow ──▶ io/tasking (task_pool)
         │                                          │ executes, on N threads
         ▼                                          ▼
    io/session_context  ◀── settings, ids ──  core/samples/routines
    io/io_data_registry ◀── descriptors ────      │         │
                                                  ▼         ▼
                                          dwt (transform,   bpe (encode, decode)
                                          assembly)              │ symbols
                                                                 ▼
                              io/ccsds_protocol, headers ──▶ obitwrapper ─▶ sinks
                                                        ◀── ibitwrapper ◀─ sources

| Part | State | Operations | What is hard | What makes it correct |
|---|---|---|---|---|
| Task pool (`io/tasking`) | states, execution queues, global queue, `scheduling_mx`, epoch and notification counters, locals of `schedule()` | `add_tasks`, `execute_flow`, the execution, steal and scheduling cycles, shutdown | interleaving of N executors, lost wake-ups, try_lock, waiting on atomics, tasks that throw | no task lost or run twice; one scheduler; a flow ends only when nobody works; every wait ends |
| Flow graph (`io/tasking.hpp`) | the tasks a task gives rise to | consecutive, splitter, fork tasks | a parent that throws has no successors | a task starts only after what it follows |
| Routines (`core/samples/routines.tpp`) | frames, fragments, subbands, segments of a channel | preprocess, collect fragments, merge, dispatch, compress, decode, disassemble, restore | fragments and segments arrive in any order; tiling at edges; ids modulo 256 | every column and row covered once; segment ids gapless and in order |
| Contexts (`io/session_context.hpp`, `io_contexts.hpp`) | settings by first id, operation descriptors, allocated ids | register, start and finish an operation, look up settings | several tasks of several channels share a session | a segment is coded with the settings in force at its id; an operation runs once |
| Data registry (`io/io_data_registry`) | data that tasks hold handles to | put, free, export under mutexes | concurrent channels; handles that outlive their data | what a task refers to is there; what is exported is what is left |
| Headers (`io/ccsds_protocol`, `headers.hpp`, `file_protocol.hpp`) | header parts and their presence flags | set, commit, parse | settings absent from a header are inherited | the decoder uses what the encoder used |
| Sinks (`bpe/obitwrapper`, `io/file_sink`, `io/memory_sink`) | current word, byte count and limit, word buffer, file | write symbols, flush, finish, terminate early | an exception at the limit in the middle of any write; buffer wrap-around and in-place byte swap | the file is the stream that was written, cut at the limit |
| Sources (`bpe/ibitwrapper`, `io/file_sink`) | current word, count, limit, buffer | read symbols, seek | end of data | what is read is what was written |
| Bit plane coder (`bpe/bpe.cpp`, `bitplane.tpp`) | block and gaggle state | encode and decode stages of planes | early stops, code option choice | decode inverts encode |
| Entropy codes (`bpe/entropy_*`, `symbol_*`) | none | code and translate symbols | word lengths 2 to 4 | translations are bijections |
| Wavelet transform (`dwt/`) | rows with margins | forward, backward, fragments | extension at edges | backward inverts forward |
| Segment assembly (`dwt/segment_assembly`) | incomplete segment | apply, disassemble | segment boundaries | blocks in raster order, each in one segment |
| Bitmap files (`cli/io/bmp`) | headers | load, store | masks, row order and alignment | the stored image is the image |
| Commands (`cli/commands`, `cli/parameters`) | parameters | validate, import, run flows, export | settings by segment id; order of segment files | invalid requests are refused; a flow finds what the last one left |

`PROJECT.json` lists every component with its status, and under `hazards` what is
hard to test in this code, line by line, with the property that would catch it.

## 2. Modules

| Module | What it is |
|---|---|
| `TaskPool` | the work-stealing pool: client, executors, scheduler |
| `TaskFlow` | what the pool promises its client, without executors |
| `MCTaskPool` | small task graphs for TLC |
| `TaskPoolProofs`, `TaskPoolTasks`, `TaskPoolQuiet` | the proofs about `TaskPool`: types and control, the shares of a batch, where every task is, the end of an epoch and waiting |
| `FileSinkProofs`, `FileSourceProofs` | the proofs about `FileSink` and `FileSource` |
| `CodecProofs` | the proofs about the transform (a level of `Wavelet`, the three levels in the steps of `Codec`) and about what the encoder skips |
| `PipelineProofs` | the proofs about the frames of `Fragments` and the first flow of `Pipeline`, and about the order of files and fragments |
| `FlowProofs` | the proofs about all flows of `Pipeline`: tasks, data, files and operations |
| `FileSink` | bit stream output to a file, with its clients `compress_segment` and `store_image` |
| `FileSource` | the file that `FileSink` wrote, read again |
| `BitWords`, `Bitmaps` | bits, words and streams; images and subbands as values |
| `EntropyCodes` | the tables of symbol mappings and entropy codes, in both directions |
| `BlockPlanes`, `BitPlaneEncoder`, `BitPlaneDecoder` | the bit plane coder: what both sides share, and each side |
| `Wavelet` | the integer 9/7 transform and its inverse |
| `SegmentAssembly` | segments out of subbands and back |
| `Codec`, `MCCodec` | an image through transform, assembly and coder, and back |
| `Headers`, `Session` | header parts and fields; the settings two ends of a session know |
| `Fragments`, `Restoration` | frames and fragments of a transform; parts of an image restored on their own |
| `ImageFile`, `Command` | bitmap files; validation of a request and the settings it becomes |
| `Pipeline`, `MCPipeline` | both commands: an image file to segments and back, as flows of tasks |

The project has two state machines about threads and bytes (`TaskPool`, `FileSink` with
`FileSource`) and two about images (`Codec`, `Pipeline`), which meet like this: `Pipeline`
relies on what `TaskFlow` promises, that the tasks of a flow have run, in some order,
before the next flow starts; a coded segment in it is the segment, because `Codec` shows
that the bits carry it; and its files hold what was written to them, because
`FileSource` reads what `FileSink` wrote.  Each of the three promises has its exceptions,
which are findings 1 to 5 and the known defects of section 5, and each model starts from
the promise without them.

### TaskPool

One `pc` per executor, named after the place in the code; each action is one
function's critical section, one atomic read-modify-write, or local work.

* **Client** (executor 0's thread outside a flow): `AddTasks`, `ExecuteFlow`,
  `SpawnThreads`, then as the destructor `Shutdown`, `Join`, `Destroyed`.
  `execute_flow` is called with its default `async = false`; the only callers do so.
* **Execution cycle** (`execution_cycle`, `steal_cycle`, `try_steal_task`,
  `execute_task`): `Enter`, `LeaveCycle`, `Pop`, `BeginStealing`,
  `ContinueStealing`, `StealBlocked`, `StealNothing`, `StealTask`, `EndTask`,
  `Halt`, `Announce`, `Parked`, `Stop`, `Bye`; executor 0 waits in
  `SyncEpoch`, `SyncDecide`, `SyncWait` for the end of the epoch instead of parking.
* **schedule()**, run by whoever executes the scheduling task: `TryScheduling`,
  `TakeGlobal`, `SchedulePred`, `CollectBusy`, `ScanBusy`, `AwaitStateChange`,
  `DecideExhausted`, `CountEnqueued`, `DealShare`, `WakeUp`, `NextBatch`, `Repost`,
  `TickEpoch`, `FlipEpoch`, `Unlock`.

Why steps may be as large as they are: a queue is touched only under its mutex, and
nobody else can see it in the middle of a critical section, except that a thief's
`try_lock` fails.  `Contended(e, v)` says that another thread's next step is a
critical section of v's queue; only then may `StealBlocked` happen.  The splice of
a task's children to the global queue belongs to the end of the task (`EndTask`),
since the executor does nothing in between that others see.  `weak` (the queue sizes
read without a lock) is a variable of its own, because it may be stale.

Abstractions: a task is a model value with the constant sequence `Children` of tasks it
puts and membership in `Throws`; task ids, `retired_tasks` and the type-level flow
graph are left out because no control decision reads them.

### TaskFlow

Tasks wait, are executed, have been executed; `Submit`, `Begin`, `End`, `Return`.
It allows a flow to return with tasks waiting, because the pool does (finding 1);
it does not allow a task to run twice, before its parent, or while no flow is open.
`TaskPool!KeepsPromise` is the refinement: `waiting` is whatever lies in the global
queue, the scheduler's buffer or an execution queue, `executing` what is in a hand.

### FileSink

Variables mirror the fields: `bits` (the word of `obitwrapper`), `byte_count`,
`byte_limit`, `stored` (the buffer up to `write_buffer_index`), `file`,
`terminated_early`, `completed`; the client adds `pc`, the rest of its current symbol
`length`, the number `written`, and `ext`, the header bytes the limit does not count.
A byte is the number of its position in the stream, so that a lost, repeated or
swapped byte shows.  `Put` is one pass of the loop of `operator<<`; `StoreItem` is
`__store_item` with `store_word`; an exception is the label the client continues at.
`Finish`, `TerminateLate`, `Drain` are `finish_session`; `CutOff` is the handler in
`compress_segment`; `Destroy` is the end of `store_image`.  `Commit` sets any limit, one with
no room for the CCSDS header included: the code finds that invalid and goes on
(ccsds_protocol.hpp:133-137).

Abstractions: symbols have whole bytes; the buffer is a sequence of bytes instead of
words behind an index; `write_bytes` is the stream of its bytes.  The branch of
`finish_session` that fills up to the limit is left out, because
`compress_segment` never asks for it (routines.tpp:826).

### FileSource

The other end of a file: `ibitwrapper` with its word `rest`, `count` and `limit`, over the
reading half of `file_buffer_wrapper` (`loaded`, `index`, `place`).  `LoadWord` is
`ibitwrapper::load_word` with `load_word` and `fill_buffer` below it; `Extract` is one pass
of the loop of `operator>>` and `extract`, `ReadWord` a word that `read_bytes` takes past
the bit buffer; `Seek` is `load_channels` before it reads an image that lies at any byte
of the file; `Refuse` is the byte limit exception.  A session starts with the limit of the
class, `SourceLimit` (2^27 in the code).  A segment's header is read under it with
`read_bytes`; `ParseHeader` then counts its bytes anew, without the extension
(`set_byte_count`, ccsds_protocol.hpp:207), and the limit stays what it was: nothing takes
it from the header.  A bitmap's limit is set by `Seek`.  A file that was cut off inside its
header is not read further.  `SourceNext` has all of `FileSink`'s
steps, so that a reader starts on every file a session can leave behind.

### Codec

`pc` is the next step of one image's way: `Preprocess`, `TransformRows`,
`TransformColumns` (a level of the transform is two passes); for each segment
`Assemble`, `EncodeHead` (quantised DC and block depths), and for each bit plane
`EncodePlane`, `EncodeStage` three times and `EncodeRefinement`, then `FinishSegment`;
the decoder takes the same way with `DecodeHead`, `DecodePlane`, `DecodeStage`,
`DecodeRefinement`, `CloseSegment`; at last `Unpack`, `Unscale`, `InverseColumns`,
`InverseRows`.  The encoder and the decoder are modules of their own that share the layout
of a block (`BlockPlanes`) and nothing else.  The encoder leaves a mark behind each stage, its position
in the stream and its selections; a decoder that has passed the same stage must stand at
the mark.  So an error shows where it is made and not only as a wrong image.

How data corresponds: a word is the sequence of its bits; the masks of a block
(`bplane_mask`, transition flags) are sets of indices of coefficients, the families of
`constant.hpp` are sets too; a block's plane is the set of its coefficients with that bit.
The vectorised forms of the code (64 bits of a block in one word, planes written sixteen
at a time) become set operations; their padding is kept where it reaches the stream
(`bplane_alignment`), and so is what lies behind a vector where `kHeuristic` reads it: the
difference to the zeros that pad the DC coefficients, and for the depths memory that
nobody initialised, which may hold any element of `Garbage`.  The transform's rows are
functions of indices that run over the edges, filled by the extensions of `dwtcore.tpp`.

### Headers, Session

`ccsds_protocol` is a record of the five parts; setting a field keeps the bits it is wide
(`Field`), part flags follow what is set, as in `set_first`, `set_stop` and the others.
`SegmentHeader` is the first half of `compress_segment`; `collect_decompression_session_params`
is the decoder's, with its id counter per channel, the settings added at every header
that has the part, early termination inferred from the stop fields, and zero for 2^27.
`SettingsAt` is `std::prev(upper_bound)`.  The order of bits in a header is layout.

### Fragments, Restoration

`Frames` is the tiling of `preprocess_image` (width of the largest segment, a height
quantised by `height_granularity`, wrapping at the right edge, trimming at the bottom);
`TransformFragment` is the transformer on one frame, with the rows around it that the
filters reach; `collect_contiguous_fragments` and `merge_subbands` are the routines of
these names.  `ReadsBehind` says that merging asks a fragment behind the last one for its
height, and the result then depends on what that memory holds, any of `HeightsBehind`.
`FragmentContexts`, `RestoredFragment`, `AssembledImage` are the way back,
where a part of an image is transformed with the rows it shares with its neighbours.

### ImageFile, Command

A file is its header as a record and its content as bytes.  `Accepted` is what the header
constructors and the loader refuse, `load_channels` the pixels bit by bit through the
masks, `store_image` the file the program writes.  A mask is a set of bits.
`validate_parameters` and the two `Parsed` operators are the command's validation and
conversion.

### Pipeline

`flow` goes through `validate`, `transform`, `compress`, `decompress`, `disassemble`,
`postprocess` to `done`, or to `rejected`.  `queue` holds the tasks of the flow; an action
named after a routine runs one of them, any one if the pool has several threads, and puts
what the routine puts.  A task is one step, since what tasks share are lists behind
mutexes, each used once by a task, and data nobody writes in the same flow; the one
exception, the width that `preprocess_image` writes into the shared session (162), is
written alike by all channels; the model cannot see a race of equal writes, and the
transposed request of the runs has one channel.
`Import` and `Export` are the commands' ends, `Compress`, `Disassemble`, `Postprocess` the
client's `add_tasks` between flows, and `Restore` is the second program, which knows
nothing but the files.  `registry` is the set of data with handles; `Prepared`, a
constant, holds each fragment's transform, so that TLC works it out once.

Abstractions: the bits of a segment (see `Codec`: `DecodedSegment` gives the segment back
exactly if the decoder has the size, the shifts and the depths the encoder had, and
something else if not); the tail of `merge_subbands`, which no second pass consumes, is
its width; locks of descriptors, whose `lock()` never waits, are part of the step, so that
what two tasks at one descriptor would do is not modelled (each has one: `OperationOnce`).

## 3. Runs

| Run | Instance | Checks | Result |
|---|---|---|---|
| `pool_flows` | 3 executors, two flows on one pool, of one task and of three, one with a successor; that task may throw; 2.2 million states | type, `PopFindsTask`, `TaskConservation`, `BatchDealt`, `OneToken`, `SchedulerNeverRelocks`, `EndsQuiet`, `StuckOnlyIfStranded` | hold |
| `pool_liveness` | 3 executors, one task, fair threads | refinement `KeepsPromise`, `SchedulerWaitEnds`, `ShutdownCompletes` | hold |
| `pool_early` | the two flows, nothing throws | `QuietAfterEpoch` | violated, finding 1 |
| `pool_drained` | one splitter | `FlowDrained` | violated, finding 1 |
| `pool_hang` | one chain, fair threads | `FlowReturns` | violated, finding 2 |
| `pool_destructor` | one task, fair threads | `DestructorReturns` | violated, finding 3 |
| `sink_stream` | words of 4 bytes, buffer of 2 words, limits around every word's and the buffer's end, then a reader from byte 0, 2 or 5, whose own limit is 20; 114,000 states | type, `StreamIntact`, `SegmentIsPrefix`, `LostTailBounded`, `ImageNeverLimited`, `SourceReadsFile`, `RefusedBehindFile` | hold |
| `sink_limit` | the same writers | `SegmentInLimit` | violated, finding 4 |
| `sink_image` | the same writers | `StoredWhole` | violated, finding 5 |
| `codec` | ten images, gaggles of four blocks; 1359 states | type, `Lockstep`, `Progressive`, `TransitionsAgree`, `SkippedAreZero`, `DepthsRestored`, `TransformReversible`, `SegmentRestored`, `ImageRestored` | hold |
| `pipeline` | eight requests; 725 states | type, `FramesCover`, `FragmentsExact`, `MergedWhereFramesFit`, `OperationOnce`, `SettingsTold`, `SizesTold`, `RestoredFramesTile`, `RegistryExact`, `ImageRestored` | hold |
| `pipeline_merge` | one request of six frames that wrap | `MergedIsWhole` | violated, finding 6 |

**Bounds.**  Three executors is the least `get_target_executors_count` returns
(tasking.cpp:8-12) and the least with a scheduler, a thief and a victim that are all
different.  The second flow's three tasks are more than one executor's share, so that
schedule() deals to two of them, and the successor gives it a second batch, while thieves
are at work; the second flow also restarts executor 0 and the epoch with threads that
already run, or that start only now.  Nothing else is bounded: the pool's counters are
finite because a run's tasks are.

For the sink, two words make the buffer wrap around several times within `MaxBytes`, and
the limits fall before, at and after a word's end, within and behind the first buffer;
1000 is a limit that is not reached, like the 2^27 in force without early termination, and
2 one that has no room for the header.  `SourceLimit` is 20 and stands for 2^27: files of
segments are shorter and longer than it.
The reader asks for lengths below, at and above a word (`MaxSymbol`, `Chunks`), up to
`MaxRead` bytes, which is more than three buffers and behind the end of most files.

`codec` has images with sides of 17 (the least allowed) to 32 pixels, padded and not; with
the gaggle at four blocks instead of sixteen, segments have several gaggles and a last one
that is not full, and those coded with heuristic parameters end with a segment of one block
and of three, which have too few items (section 5) and are not `Codable`.  The ten are chosen for the branches of the coder: noise and
negative pixels, edges (deep AC), ramps (deep DC), a constant image (no AC plane at all), a
single dot (blocks without a bit), a dark one (depths of one bit), a bright one
(quantised DC with additional planes), shifts from zero to three, optimal code parameters and
heuristic ones for the DC coefficients and for the depths.  `Garbage` is a value below and
one among the depths that occur.  `pipeline` has requests for the branches of the routines: frames that
fit in one and in two columns and frames that wrap; a transposed image; two channels of
17 and 12 bits in one file, read from its top row down; settings that begin at a later segment, of
both kinds; an image high enough for three restored parts; more than ten segments, whose
file names sort differently as texts than as numbers; one thread and four; a file and
parameters that are refused.  `height_granularity` is 64 instead of 256, so that images
of 150 rows have several frames, and 16 in `pipeline_merge`, where six frames suffice.

**Deadlock** is checked where a run must not stop (`codec`, `pipeline`, `pipeline_merge`:
a flow whose queue nobody can empty would be one).  It
is not for the pool and the sink: the pool's program ends, or hangs in one of two ways
(findings 2 and 3), and the sink's clients end.  `StuckOnlyIfStranded` is the pool's own
deadlock check: every state in which all threads wait is the end, or one in which the duty
to schedule is lost (finding 2), or one in which the destructor joins an executor that it
told to shut down before that had begun (finding 3).  `early`, a history variable that no
action reads, has these executors; `ShutdownCompletes` says that all others end.

**Fairness** (`pool_liveness`, `pool_hang`, `pool_destructor`).  Weak fairness of each thread: the operating
system schedules every runnable thread, and `atomic::wait` returns once the value has
changed and been notified.  Strong fairness of a steal that gets its lock: a thief
repeats `try_lock` while its victim's mutex is locked and unlocked again, and finds
it free at last; `std::mutex::try_lock` gives no hard guarantee of that, so this is
an assumption on the implementation, without which a thief could try for ever.

**Preconditions.**  Some properties are about those inputs for which the code can keep
them; the condition is a definition, with the reason beside it.  `Codec!Codable`: the decoder can
follow at all (what is coded fits the bits it gets, and a segment with heuristic parameters
has the blocks of a gaggle); `Codec!Lossless`: no bit of a DC coefficient is dropped;
`Pipeline!FramesFit`: the width is a multiple of the frames' (finding 6).  Most of the
inputs satisfy them, and the first request of `pipeline` is the one that is not `FramesFit`.

**Mutants.**  Each property of a passing run is paired in `PROJECT.json` with a
faulty form of a definition (a dropped guard, a rounding, a forgotten flush), under which
TLC finds the property violated.  Those forms stand before what they replace, and are
named in a comment that begins with *Mutation* or *mutant*.

## 4. Proofs

### The task pool

For every number of executors N ≥ 3, every finite forest of tasks, every set of throwing
tasks and every sequence of flows:

* `InductiveInvariant` (`TaskPoolProofs`): `Spec => []IInv`
* `TypeCorrect`: `TypeOK`; in particular the notification counter never drops below
  zero and every index of `schedule()` stays in range
* `PopNeverFails`: `PopFindsTask`, the unguarded `front()`/`pop_front()` is safe
* `NoRelock`: `SchedulerNeverRelocks`
* `OneDuty`: `OneToken`
* `NeighboursCovered`, `NeighboursDistinct` (`TaskPoolProofs`): the stealing sequence
  visits every other executor exactly once
* `EveryTaskDealt` (`TaskPoolProofs`): `BatchDealt`, the shares cover the batch
* `TasksConserved` (`TaskPoolTasks`): `TaskConservation`
* `PromiseKept` (`TaskPoolTasks`): `Spec => KeepsPromise`, the pool implements `TaskFlow`
* `EpochEndsQuiet` (`TaskPoolQuiet`): `EndsQuiet`
* `NoDeadlock` (`TaskPoolQuiet`): `StuckOnlyIfStranded`

Assumptions: `NAssumption`, `ItemAssumption`, `GraphAssumption` and, for the last four,
`ForestAssumption` of `TaskPool` (a task is one entry of one flow or one successor of one
task, as every `add_tasks` and `put_task` creates an item of its own), which every run
evaluates.

**Why the invariant looks as it does.**  `TypeOK` is not inductive: a pop needs a task
there, `flow` a next flow, `idx` a range.  A pop is safe because thieves take the last
task only from an executor in state `init` or `shutdown`, and an executor inside its
cycle is in neither (`CycleOK`); that depends on who may start a thread and when
(`ThreadsOK`), on where a thread returns to after a task (`OriginOK`), on a thief
having a victim (`TargetsOK`), on the client's position (`ClientOK`) and on the
ranges of `schedule()`'s locals (`LocalsOK`).  The lock's owner is the thread in
`schedule()` (`LockOK`) because no scheduler finds a second scheduling task to steal:
at most one thread or queue slot carries the duty to schedule (`TokenOK`), which in turn
needs that a duty implies a running epoch (`EpochOK`), and that an epoch is ended
only after the duty has been dropped (`EndedOK`).

**Layout.**  `TaskPoolProofs` begins with the parts of the invariant, lemmas about
sequences, and summaries of what groups of actions change, so that an invariant's proof does
not open every action, and proves the conjuncts of `TypeOK` preserved, one group of variables
at a time; then it proves each part of `Control` preserved (one lemma per part, one
step per action or group) and combines them; it also has the batch.  The other two modules
build on `IInv`, each with invariants of its own that are inductive together with it.

**The batch** (`TaskPoolProofs`).  `schedule()` counts the queues one after the other, while
executors run and steal, and deals out shares worked out from these counts.  That they
cover the batch does not depend on the counts being right: with any counts, the shares sum
up to the batch at least, because the average is rounded up before each count is taken
off.  While `schedule()` counts, `BatchOK` says that `total` is the last partial sum of the
counts; while it deals, that some bound p[v] on what is left after v visits goes down by at
most the share of each, to p[N] <= 0.

**The tasks** (`TaskPoolTasks`).  `TaskConservation` alone is not inductive: it does not say
that a sequence holds a task once, or which tasks are yet to be created.  `PlacesOK` says
that every task has one place (global queue, batch, an execution queue, a hand, done, or
not created yet) and occurs there once; by `ForestAssumption`, what a step creates was not
created before.  The refinement follows: a task leaves `waiting` only for a hand (`Pop`,
`StealTask`); every other move between the places is a stutter.

**The end of an epoch** (`TaskPoolQuiet`).  `Known` is what a scheduler with an empty queue
knows of the others at each of its labels: those it has stolen from are `Drained` of what a
thief may take, those it has looked at and not found busy are `Idle`, and when it decides
for the end nobody is left to wait for and the global queue is empty.  Neither changes
behind its back: queues are filled and executors woken up by `schedule()` only, whose lock
it has, and nobody is told to stop before the epoch has ended (`StopOK`, `ThreadStopOK`).
The conditions of `EndsQuiet` are the two things that break this: tasks dealt to the
scheduler itself before it became one, and a task that it has stolen and that throws, after
which it does not try that executor's queue again.

**Who waits for whom** (`TaskPoolQuiet`).  `OffOK`: a thread that was not started has a client
that is yet to start it.  `SyncOK`: executor 0 sleeps on an epoch that goes on, or it has
been woken up by a scheduler that will end it.  `AwaitOK`: if one of the executors that the
scheduler waits for has announced itself since its state was read, the counter shows it.
`JoinOK`: an executor that the destructor waits for and that was not told to shut down before it
began keeps the request until it stops, so that such a wait ends (`JoinWaits`).
So a state in which everybody waits has no owner of the lock and nobody about to try it,
and the scheduling task, if there is one, lies with a halted executor: `Stranded`.

### The sink

`FileSinkProofs` proves for every number of bytes in a word and of words in the buffer,
on machines of either byte order, for every limit, size of a bitmap and sequence of
symbols:

* `SinkInvariant`: `Spec => []IInv`
* `SinkTypeCorrect`: `TypeOK`; the buffer always has room for a word
* `StreamKept`: `StreamIntact`
* `SegmentKept`: `SegmentIsPrefix`
* `TailBounded`: `LostTailBounded`
* `ImageUnlimited`: `ImageNeverLimited`

Assumptions: `SinkAssumption`, and `FileSizeAssumption`, that no bitmap file consists of
whole words; without it the last word of an image would reach the limit, and
`ImageNeverLimited` would be false.

**Why the invariant looks as it does.**  `StreamIntact` speaks of the moments when the
client writes.  To follow the bytes further, `IInv` says that file and buffer are the
stream of what was *stored* at every label before the file is cut (`WordsOK`), the last
word of which may be filled up, and that the word being filled goes on from there
(`WordOK`).  A limit is set before anything is stored (`BeginOK`), only a segment that
ends has been cut (`EarlyOK`), and the two labels of the exception are reached exactly
with the limit (`LimitOK`), so that what is cut is what exceeds it.  An image is stored
in whole words while its size is none (`ImageOK`).  The other half are lemmas about
words: mirroring the bytes of whole words keeps them whole and undoes itself (`Swapped`,
from `Mirror` about one index), so a flush writes what was stored (`FlushedWords`).

### The source

`FileSourceProofs` proves, for every such sink and wherever a session seeks:

* `SourceKeepsSink`: `SourceSpec => Spec`, so that all of the above holds of `FileSource`
* `SourceRead`: `SourceReadsFile`, whatever mixture of `operator>>`, `extract` and
  `read_bytes` the file is read with
* `NothingRefused`: `RefusedBehindFile`, no byte of a bitmap is refused, and of a segment's
  file none within the segment's own limit, if that is not above the session's

Assumptions: also `SourceAssumption`, and `LimitAssumption`, that headers are within the limit
a session starts with.  The invariant adds that only a file that is written is read
(`ClosedOK`), that the buffer is the block of the file with the next
word in it while the filebuf stands behind that block (`BufferOK`; or both stand behind
the file's end, from where every place reads the same), and that what the client has and
the bit buffer still has are the words loaded (`GotOK`).  `FilledIsBlock` is the delicate
lemma: at the end of the file `fill_buffer` swaps only the words it has read, and that
is enough because the others are zero.  Who is refused has used up the bit buffer, so that
what was counted is what was got; a session has the limit of the class, and its count leaves
out the header's extension at least (`CountOK`), or, once it has
sought an image, it has the size of the file that `store_image` made (`LimitKept`,
`StoredOK`).

### The transform and the coder

`CodecProofs` proves, for every image, all shifts that validation lets through and every
size of segments:

* `LevelRestored`: a level of the integer transform loses nothing, for every bitmap of even
  sides from six pixels on, with any integers as pixels: the inverse makes the image of its
  four quarters
* `TransformKeepsImage`: `TransformReversible`, the codec's ten subbands, scaled by their
  shifts, are at every step such that unscaling and three inverse levels give the padded image
* `NothingSkippedIsLost`: `SkippedAreZero`, what the encoder leaves out of the lowest bit
  planes has no bits there

Assumptions: `GaggleAssumption` of `BlockPlanes`, and `InputAssumption`, that an image has pixels for its
width and height, at least 17 of each (`min_width`, `min_height`), that shifts are at
most `max_scale_shift`, and that the size of segments is a number of blocks.

**Along which argument.**  The forward filter computes odd pixels' differences and then
updates even pixels by them; the inverse takes the updates off again, and so it is right
wherever it uses the same high coefficients.  Inside a row that is immediate.  At the ends
the forward filter computes with mirrored *pixels*, and the inverse with mirrored
*coefficients*; that these agree is a case for each place (`EvenRestored`): the filter is
symmetric, so the mirrored pixels have the mirrored coefficients.  The extension reaches
three coefficients back, hence n >= 3 in a half of a row, and 17 pixels so that the third
level still has them.  `TransformInv` says at each step of `Codec` what `work` and the
subbands so far are, as functions of the image.

What is skipped: `bplane_skip` counts a coefficient to a subband by its place in the block,
and the assembler takes it from a place in an image; that both mean the same subband, and
that the place lies inside it, is `PlaceOf` and `PackedScaled`.  So every coefficient of every
segment is a multiple of its subband's scale (`SubbandsScaled`).  `CodingInv` adds to
`TransformInv` what the encoder has in hand: a segment not beyond the image (`SizesAre`), bit
planes counted down from a natural number (`WidthIs`), and that whatever is skipped has a
greater shift than the plane that is coded, so that its bit is zero (`LowBits`).

### The frames and the orders

`PipelineProofs` proves, for every sequence of requests, every granularity of frames, and
in whatever order the tasks of a flow run:

* `FramesConserved`: `Spec => []FramesInv`; once an image is cut, its frames that wait and
  those that are transformed are all its frames
* `FramesTheWhole`: `FramesCover`, these frames, wrapped and trimmed, take every block of
  the padded image exactly once
* `CollectedInOrder`: the fragments of a channel, when all have been transformed, are
  collected all and in raster order, in whatever order their transforms ended
* `NamesInOrder`, `LoadedInOrder`: the names of files compare as the numbers in them do, for
  numbers of any length, so a session's files are loaded channel by channel and segment by
  segment, and all of them
* `CollectedAsWritten`: collecting the settings, which counts channels and segments by the
  headers' first flags only, takes every file for the segment that it is

Assumptions: `GranularityAssumption`, and `RequestAssumption`, that an image file shows what
its header says in size and number of channels, that there is a first set of segment
parameters, as the command's defaults see to, and that ids are not negative.  The last two
theorems are about any set of files as a compression leaves them (`SessionFiles`, `Started`;
that it leaves such a set is `CompressEnds` of `FlowProofs`).

**Along which argument.**  `Frames` is a recursive function over the places where a frame
may start, and first of all that function must be shown to exist: the measure `Left`, what
is left of the image in raster order, falls from place to place, and the function is built
up by induction on it (`RasterExists`).  What it returns is a chain, each frame at the
place that the one in front of it says, from the first pixel to below the image (`RasterIs`,
by a least counterexample).  The rectangles that `decompose_frame` makes of a frame are
exactly the points between its place and the next one's (`InnerParts`, where it may wrap
around; `LastParts`, where it is trimmed), so each point is in one frame, and in one of
its rectangles (`FramesTile`).  The sizes are positive: validation lets no side below 17
and no segment below 16 blocks through, and `FrameHeight` rounds to at least one granule
(`FrameListIs`).

The same goes for the orders.  `Sorted` gives every item the place that as many others come
before it, so what it returns is found by counting (`SortedIs`), once the order is shown to be
total on the items.  For the names it is: a number's digits, with zeros in front up to the
longer one's length, compare as the number does.  The frames are sorted already, as each is
behind the one in front of it (`AheadGrows`), and each begins where the one in front of it
says, so none is left for another round.

### The flows

`FlowProofs` proves, for every sequence of requests and in whatever order the tasks of each
flow run:

* `FlowConserved`: `Spec => [](FramesInv /\ FlowInv)`
* `DataHeldExactly`: `RegistryExact`, data is in the registry as long as a task refers to it,
  and what is left when a command ends is what it exports
* `OperationsOnce`: `OperationOnce`, the operation of every segment is begun and done once,
  under the descriptor at its own id

Assumptions: those of the frames.

**Why the invariant looks as it does.**  `OperationOnce` and `RegistryExact` compare tasks with
data and descriptors, but do not say which tasks there are.  `FlowInv` has a part per flow that
does (TLC checked it on the requests of `pipeline` before it was proved).  While an image is
compressed, a channel is unmerged, merged or segmented; then the tasks that wait
and the files written have the ids from 0 to one below the number of segments, each once, and
that number is the same for all channels (`CountOf`).  While it is restored, the segments
decoded and those that wait are those of the descriptors.  Within a flow each action moves one
task from the one side to the other.

What is hard lies between the flows.  For the second command, all it knows is the files: it
must be shown that they name channels and segments without a gap (`CompressEnds`), that their
order gives each segment its own descriptor, and each descriptor one task (`RegisteredOnce`,
`TasksLoaded`), and that what they tell is enough for a setting at every segment
(`Told`, `SessionTold`).  `SegmentSizes` must give a natural number of segments of whatever was
merged, also where frames wrap and merging is wrong (finding 6): the merged width is the
image's and the height is positive.  One step depends on what does *not* happen: a width of
2^20, which validation accepts, is zero in its field, and the last segment's size is then
divided by zero; the guard of `DecodeSegment` is that the program ends there.

## 5. Findings

1. **A flow can leave tasks behind** (`pool_drained`) **or running** (`pool_early`).  A task
   dealt to an executor between its last look at its queue and its step to `halted` gets no
   effective wake-up; a lone task is not stolen from a halted executor; the flow ends
   without it.  And a thief does not look at its own queue again before it steals: if it has
   been dealt tasks meanwhile and steals the scheduling task, it finds everybody else
   idle, ends the epoch, and executes its tasks while `execute_flow` returns.  `EndsQuiet`
   shows that there is no third way, unless a task throws.
2. **execute_flow can hang** (`pool_hang`).  The scheduling task is reposted before
   `scheduling_mx` is released; a thief that runs it at once fails its `try_lock`, and
   nobody schedules again.
3. **The destructor can hang** (`pool_destructor`).  When a flow is shorter
   than a thread's start, `shutdown()` finds its executor in state `init`, against the stated
   precondition, and stores `shutdown` (tasking.cpp:526-527); the thread, when it begins,
   exchanges that for `busy` (330), parks (498), and is joined for ever (30).
4. **A segment can be longer than its limit** (`sink_limit`).  When only the padded last
   word reaches the limit, the buffer is written twice, the second time byte-swapped.
   It needs `early_termination`, which a user of the library sets; the command line
   front end does not set it yet (cli/commands/compress.cpp:217).
5. **Stored bitmaps lose their tail** (`sink_image`).  `store_image` does not flush its
   sink: up to 2 KiB at the end of the file become zeros (`LostTailBounded`: no more).
6. **Merged subbands are wrong where frames wrap** (`pipeline_merge`).  When the padded
   width is no multiple of the segment size, a frame goes on at the left edge; after it
   `merge_subbands` starts the next one at column 0 (routines.tpp:627) instead of behind what
   is there, and what follows is shifted.  `MergedWhereFramesFit` shows that all other
   images are merged exactly.  In the run's image the last frame is put
   where it crosses the right edge, and `fragments[i + 1]` (routines.tpp:607) is past the
   end of the vector.  In the program an image of 24 columns and 776 to 1024 rows with
   segments of 16 blocks does it.

**Known defects that the runs' inputs leave out.**  Where the code gives no value, or
one that no document or test contradicts, there is no run to show; the models start
from inputs that do not meet these, and the properties are not claimed for them.

*Routines and session.*
* An image of one segment has header parts of 20 bytes, one more than the area of 19.
* With frames whose width is no multiple of 8 (segment size no multiple of 8), frames
  begin between blocks (routines.tpp:185); segment sizes of later settings are not used, all
  segments have the first one's.
* Padding of a transposed image is counted before it is transposed; a transposed image of
  several restored parts loses columns to `shrink` (1084).
* A restored image with more parts than segments reads `segments_copy[i]` out of bounds (1046).
* A frame that ends 32 rows above the padded bottom, with 5 or more rows of padding, gets
  its last rows too early (dwt.cpp:301).
* Custom shifts never raise `CustomWtFlag` and are lost; the decoder's `custom_shifts` is
  not initialised (`Restore` chooses it).
* `CodeWordLength` is never set; a stop at stage 4 passes validation but its field has two
  bits; a depth of 16 is written as 0.

*Commands and bitmaps.*
* Validation refuses every floating-point transform (validation.cpp:71), and
  `early_termination` is always false, so that stop settings have no effect.
* Default masks of three and four channels are shifted by the channel's index instead of
  its width; bit-field files without masks divide by zero; pixels are read with the highest
  bit first, which differs from other programs' files of 32 bits; an all-black last
  channel gets an empty mask.
* Reading past the end of a file gives zeros (a TODO in the code); at the end of a row
  `extract(0)` shifts by the width of the word.

*Coder.*
* Heuristic code parameters break segments of less than 16 blocks, an image's last one or a
  small image.  `kHeuristic` writes the first gaggle with fifteen items whatever the
  segment's size (bpe.cpp:292-298), and nothing for a segment of one block; the decoder
  reads as many items as there are, and a reference in any case (1075-1137), so the segment is
  misread from its head on.  The items beyond the segment are the padding of a vector, for
  the depths memory that nobody initialised.  The model codes them so (`HeuristicItems`,
  `kEncode`); the help text (cli/parameters/compress.hpp:374) calls the parameter suboptimal.
* A constant segment with shifts comes back too bright (bpe.cpp:1426 is skipped at 1052); the
  reference depth is sign-extended (1083, `DepthsRestored`); with additional DC planes the
  lowest is not written, and their padding is read differently than written unless the
  segment's size is a multiple of 16; a difference of one-bit values is not coded; a folded
  difference may need more bits than it gets (`Fits`).
* The optimal choice of a code parameter leaves the parameter's own bits out of the
  lengths; with gaggles of 16 this may cost bits, and loses nothing.
* The decoder looks up a code table by the option it reads; for an option that a word length
  does not have, the table is a null pointer.  The encoder writes none; the model takes the word as
  uncoded there.

## 6. What is only model-checked, and what is not modelled

Every safety property that a passing run checks of the pool, the sink and the source is
proved, and so is the pool's refinement.  Only model-checked are:

* the liveness properties `SchedulerWaitEnds` and `ShutdownCompletes`, because fairness and
  `ENABLED` are beyond the prover's backends;
* of `Codec`: `Lockstep`, `Progressive`, `TransitionsAgree`, `DepthsRestored`, `SegmentRestored`,
  `ImageRestored` and the types.  They speak of what the coder's streams, folds inside folds,
  are for every input.  The prover's induction theorems take an operator as a parameter, which
  its backends cannot instantiate; a least counterexample over a set of naturals can
  be used instead (`Least` and `Induction` of `PipelineProofs`), at the price of showing first
  that each recursive function exists.  That was worth it for frames, names, settings and
  segments; for the coder it has not been done;
* of `Pipeline`: `FragmentsExact` and `MergedWhereFramesFit`, an argument about ten
  subbands for every position of a frame at the edges; `RestoredFramesTile` and `ImageRestored`,
  which are claimed for images that lie inside the limits of section 5 only; `SizesTold` and
  `SettingsTold`, which are false for values that validation accepts and whose field is too
  narrow (a width of 2^20); and `TypeOK`, whose bound on the size of a header is false
  for an image of one segment (section 5), which the runs' requests are not.

Not modelled, with the reason in `PROJECT.json`:
* weak memory: every atomic of the pool is used with its sequentially consistent default;
  the unlocked `list::empty()` in tasking.cpp:112 is a data race, modelled as an atomic read;
* asynchronous flows, which no caller uses, and task ids, which no decision reads;
* ids that wrap: no run has a channel of more than 256 segments, and the window of ids that
  `dispatch_segments` computes has no property;
* the memory sink, whose buffer never reaches its descriptor and which no command selects;
* the floating-point transform: arithmetic TLC does not have, and which validation refuses;
* `extract_next_one` as a loop over words (the models count zeros in a stream) and the
  loop in `ccsds_protocol::parse` that enlarges its buffer part by part;
* parsing of the command line, a stateless translation; I/O errors, for which the code has
  TODOs; segments of `SegmentAssembler::apply` that an earlier call left incomplete, which
  no caller makes; per-thread coder objects, which share nothing.

## 7. Plan

Done: the pool with its promise and proofs; sink and source with theirs; the codec, and the
proofs of its transform and of what it skips; headers and session; the pipeline from image
file to image file, and the proofs of its frames, orders and flows.  Left, by value:

1. The decoder's side of `Codec` for all inputs, from `TransitionsAgree`, which needs only the
   selections, to `Lockstep`.
2. `SettingsTold` for requests whose values fit their fields, on top of `SessionTold`.
3. Header parsing part by part over `FileSource`, with `extract_next_one`.
4. Two commands' flows on one `TaskPool`, as `Children` of its tasks, on two executors.
