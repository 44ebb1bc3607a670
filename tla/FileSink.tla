------------------------------ MODULE FileSink ------------------------------
(***************************************************************************)
(* The output of a session: obitwrapper (src/src/bpe/obitwrapper.tpp),     *)
(* which packs symbols into words and enforces the byte limit, over        *)
(* file_sink and file_buffer_wrapper (src/src/io/file_sink.tpp), which     *)
(* buffer the words and write them to a file.  Its two clients:            *)
(* compression_routines::compress_segment, one sink for each segment, and  *)
(* the bitmap writer store_image.                                          *)
(*                                                                         *)
(* A byte is named by its position in what the client writes; Padding is a *)
(* byte nobody wrote.  Symbols have whole bytes: what happens at a word's  *)
(* end happens at a byte's end.  The stored words are kept as the sequence *)
(* of their bytes, most significant first.                                 *)
(***************************************************************************)
EXTENDS Integers, Sequences

CONSTANTS
    W,              \* bytes in a word of the buffer, sizeof(size_t)
    B,              \* words in the buffer, file_buffer_wrapper::buffer_size
    LittleEndian,   \* std::endian::native is little
    HeaderTotal,    \* bytes of the file protocol's header
    Extensions,     \* bytes of it that are not the CCSDS header
    Limits,         \* byte limits of segments
    NoLimit,        \* std::numeric_limits<ptrdiff_t>::max()
    FileSizes,      \* sizes of bitmap files
    MaxSymbol,      \* the longest symbol
    MaxBytes        \* bound on what a segment's client writes

ASSUME SinkAssumption ==
    /\ W \in Nat \ {0} /\ B \in Nat \ {0} /\ LittleEndian \in BOOLEAN
    /\ HeaderTotal \in Nat \ {0} /\ MaxSymbol \in Nat \ {0} /\ MaxBytes \in Nat
    /\ Extensions \subseteq 1 .. HeaderTotal - 1
    /\ NoLimit \in Nat \ {0} /\ Limits \subseteq Nat

\* header_protocol.cpp:161-170: 138 bytes of headers, and rows of whole quadwords,
\* so that no bitmap file consists of whole words.
ASSUME FileSizeAssumption == FileSizes \subseteq {s \in Nat : s % W # 0}

VARIABLES
    client,             \* "segment" or "image"
    pc,                 \* where the client is
    length,             \* what is left of the symbol being written
    written,            \* bytes the client has handed over
    ext,                \* bytes the limit does not count, -header_offset
    bits,               \* the part of obitwrapper::buffer that is filled
    byte_count, byte_limit,
    stored,             \* file_buffer_wrapper::buffer up to write_buffer_index
    file,
    terminated_early, completed

vars == <<client, pc, length, written, ext, bits, byte_count, byte_limit, stored, file,
          terminated_early, completed>>

Padding == 0
Labels  == {"begin", "write", "limit", "late", "drain",
            "finished", "terminated", "stored"}

-----------------------------------------------------------------------------
Smaller(a, b) == IF a < b THEN a ELSE b
relu(a)       == IF a > 0 THEN a ELSE 0
Padded(word)  == word \o [i \in 1 .. W - Len(word) |-> Padding]

\* The file's first n bytes; resize_file adds zeros where there are none.
Resized(f, n) == [i \in 1 .. n |-> IF i <= Len(f) THEN f[i] ELSE Padding]

\* The bytes of every word in reverse.
byteswap(s) == [i \in 1 .. Len(s) |-> s[i + W - 1 - 2 * ((i - 1) % W)]]

\* The bytes of words in the order of their addresses.
InMemory(s) == IF LittleEndian THEN byteswap(s) ELSE s

\* What flush_buffer turns the buffer into, and a mutant that swaps nothing.
Unswapped(s)   == s
ToBigEndian(s) == IF LittleEndian THEN byteswap(s) ELSE s

\* The buffer is written as it lies in memory once it has been swapped.
Flushed(f, s) == f \o InMemory(ToBigEndian(s))

\* (write_buffer_index & buffer_index_mask) == 0, and a mutant that never flushes.
NeverFull(s) == FALSE
Full(s)      == Len(s) = B * W

\* What handle_early_termination cuts off, and a mutant that cuts off nothing.
NoExcess(count) == 0
Excess(count)   == relu(relu(count) - byte_limit)

\* Mutant of LimitReached: the next word would reach the limit.
LimitNear(count)    == count + W >= byte_limit
LimitReached(count) == count >= byte_limit

\* set_byte_limit on a fresh obitwrapper.
set_byte_limit(limit, count) ==
    /\ byte_limit' = IF limit = 0 THEN NoLimit ELSE limit
    /\ byte_count' = count
    /\ pc' = IF byte_count' >= byte_limit' THEN "limit" ELSE "write"

\* __store_item and, through its callback, store_word: a full buffer is flushed and
\* wraps around.  The word is in the buffer when the limit is found reached; the
\* client goes on at the label "otherwise" if it is not.
StoreItem(word, exception, otherwise) ==
    /\ byte_count' = byte_count + W
    /\ pc' = IF LimitReached(byte_count') THEN exception ELSE otherwise
    /\ IF Full(stored \o word)
       THEN file' = Flushed(file, stored \o word) /\ stored' = <<>>
       ELSE stored' = stored \o word /\ UNCHANGED file

\* handle_early_termination.  The buffer stays filled, and swapped.
Terminate ==
    LET flushed == Flushed(file, stored) IN
    /\ terminated_early' = TRUE /\ completed' = TRUE
    /\ stored' = ToBigEndian(stored)
    /\ file' = Resized(flushed, Len(flushed) - Excess(byte_count))
-----------------------------------------------------------------------------
Init ==
    /\ client \in {"segment", "image"}
    /\ pc = "begin" /\ length = 0 /\ written = 0 /\ ext = 0
    /\ bits = <<>> /\ stored = <<>> /\ file = <<>>
    /\ byte_count = 0 /\ byte_limit = NoLimit
    /\ terminated_early = FALSE /\ completed = FALSE

\* ccsds_protocol::commit: the file protocol's own part of the header is counted from
\* below zero.  A limit that has no room for the CCSDS header is found invalid,
\* and set.
Commit ==
    /\ client = "segment" /\ pc = "begin"
    /\ \E x \in Extensions, limit \in Limits :
        /\ set_byte_limit(limit, -x)
        /\ ext' = x
    /\ length' = HeaderTotal
    /\ UNCHANGED <<client, written, bits, stored, file, terminated_early, completed>>

\* store_image limits its output to the size of the file.
BeginImage ==
    /\ client = "image" /\ pc = "begin"
    /\ \E size \in FileSizes : set_byte_limit(size, 0)
    /\ UNCHANGED <<client, length, written, ext, bits, stored, file, terminated_early,
                   completed>>

\* The client has another symbol, while its data lasts.
Symbol ==
    /\ pc = "write" /\ length = 0
    /\ \E n \in 1 .. MaxSymbol :
        /\ written + n <= IF client = "image" THEN byte_limit ELSE MaxBytes
        /\ length' = n
    /\ UNCHANGED <<client, pc, written, ext, bits, byte_count, byte_limit, stored, file,
                   terminated_early, completed>>

\* One pass of the loop of operator<<: as much of the symbol as the word has room
\* for.  A word that is complete is stored; if that throws, flush() has not yet
\* emptied it.
Put ==
    LET shift == Smaller(length, W - Len(bits))
        word  == bits \o [i \in 1 .. shift |-> written + i]
    IN
    /\ pc = "write" /\ length > 0
    /\ length' = length - shift /\ written' = written + shift
    /\ IF Len(word) < W
       THEN bits' = word /\ UNCHANGED <<pc, byte_count, stored, file>>
       ELSE /\ StoreItem(word, "limit", "write")
            /\ bits' = IF pc' = "limit" /\ bits # <<>> THEN word ELSE <<>>
    /\ UNCHANGED <<client, ext, byte_limit, terminated_early, completed>>

\* compress_segment has encoded everything: finish_session completes the last word.
Finish ==
    /\ client = "segment" /\ pc = "write" /\ length = 0
    /\ IF bits = <<>>
       THEN pc' = "drain" /\ UNCHANGED <<bits, byte_count, stored, file>>
       ELSE /\ StoreItem(Padded(bits), "late", "drain")
            /\ bits' = IF pc' = "late" THEN bits ELSE <<>>
    /\ UNCHANGED <<client, length, written, ext, byte_limit, terminated_early, completed>>

\* The last word reaches the limit: finish_session catches that, and goes on.
TerminateLate ==
    /\ pc = "late"
    /\ Terminate
    /\ pc' = "drain"
    /\ UNCHANGED <<client, length, written, ext, bits, byte_count, byte_limit>>

\* The end of finish_session, which compress_segment does not ask to fill up.
Drain ==
    /\ pc = "drain"
    /\ stored' = ToBigEndian(stored)
    /\ file' = Flushed(file, stored)
    /\ completed' = TRUE
    /\ pc' = "finished"
    /\ UNCHANGED <<client, length, written, ext, bits, byte_count, byte_limit,
                   terminated_early>>

\* The limit is reached before the end of the segment: compress_segment's handler.
CutOff ==
    /\ client = "segment" /\ pc = "limit"
    /\ Terminate
    /\ pc' = "terminated"
    /\ UNCHANGED <<client, length, written, ext, bits, byte_count, byte_limit>>

\* store_image leaves the scope of its sink, whose destructor neither stores the
\* last word nor flushes the buffer, and then gives the file its size.
Destroy ==
    /\ client = "image" /\ pc = "write" /\ written = byte_limit
    /\ bits' = <<>> /\ stored' = <<>>
    /\ file' = Resized(file, byte_limit)
    /\ pc' = "stored"
    /\ UNCHANGED <<client, length, written, ext, byte_count, byte_limit, terminated_early,
                   completed>>

Next == \/ Commit \/ BeginImage \/ Symbol \/ Put \/ Finish \/ TerminateLate \/ Drain
        \/ CutOff \/ Destroy

Spec == Init /\ [][Next]_vars
-----------------------------------------------------------------------------
(* Properties *)

\* n bytes of which the first have been written by the client, in their order.
Stream(n) == [i \in 1 .. n |-> IF i <= written THEN i ELSE Padding]

\* The word being filled is never full between two operations, the buffer holds
\* whole words and is never full, and the counters have their types.
TypeOK ==
    /\ client \in {"segment", "image"} /\ pc \in Labels
    /\ length \in Nat /\ written \in Nat /\ ext \in Nat
    /\ byte_count \in Int /\ byte_limit \in Nat \ {0}
    /\ bits \in Seq(Nat) /\ Len(bits) <= W /\ (pc = "write" => Len(bits) < W)
    /\ stored \in Seq(Nat) /\ Len(stored) % W = 0 /\ Len(stored) < B * W
    /\ file \in Seq(Nat)
    /\ terminated_early \in BOOLEAN /\ completed \in BOOLEAN

\* While a client writes, the file, the buffer and the word being filled are what
\* it has written: no byte is lost, repeated or misplaced on its way through
\* operator<<, the buffer's wrap-around and the byte swap of flush_buffer.
StreamIntact == pc = "write" => file \o stored \o bits = Stream(written)

\* A segment's file holds what was written: all of it, in whole words, if the limit
\* was not reached, and exactly the limit if it was reached while encoding.
SegmentIsPrefix ==
    /\ pc = "finished" /\ ~terminated_early => file = Stream(ext + byte_count)
    /\ pc = "terminated" => file = Stream(ext + byte_limit)

\* Nobody handles the exception in store_image (store.tpp:37): the limit it sets is
\* the size of the file, which the words stored never reach.
ImageNeverLimited == client = "image" => pc # "limit"

\* file_sink.tpp:124-125: "raw ccsds header should be accounted for seg_byte_limit!
\* but header extensions are not part of the segment and should not account for byte
\* limit".
SegmentInLimit == pc \in {"finished", "terminated"} => Len(file) - ext <= byte_limit

\* obitwrapper.tpp:37-38: "The owning code has to call flush before the object is
\* distructed to commit the buffer content": a stored bitmap is what was written.
StoredWhole == pc = "stored" => file = Stream(byte_limit)

\* What a bitmap loses is at most its last buffer, and none of it is misplaced.
LostTailBounded ==
    pc = "stored" =>
        \A i \in 1 .. byte_limit : file[i] = i \/ (file[i] = Padding /\ i > byte_limit - B * W)
=============================================================================
