----------------------------- MODULE FileSource -----------------------------
(***************************************************************************)
(* The file that a session has written is read again: ibitwrapper          *)
(* (src/src/bpe/ibitwrapper.tpp) over file_source and the reading half of  *)
(* file_buffer_wrapper (src/src/io/file_sink.tpp).  Headers are read with  *)
(* read_bytes, which takes whole words past the bit buffer, and what       *)
(* follows them with operator>> and extract; load_channels seeks the image *)
(* first, which lies at any byte of the file, and parse_header of a        *)
(* segment counts its bytes anew, without the header's extension.          *)
(*                                                                         *)
(* As in FileSink a symbol has whole bytes, and a buffer is the sequence   *)
(* of the bytes of its words, most significant first.                      *)
(***************************************************************************)
EXTENDS FileSink

CONSTANTS
    Offsets,        \* where images begin in their files
    Chunks,         \* lengths asked of read_bytes
    SourceLimit,    \* ibitwrapper::ccsds_max_byte_limit
    MaxRead         \* bound on what is read

ASSUME SourceAssumption ==
    Offsets \subseteq Nat \ {0} /\ Chunks \subseteq Nat \ {0} /\ MaxRead \in Nat

\* Every header lies within the limit a session starts with, which is 2^27.
ASSUME LimitAssumption ==
    SourceLimit \in Nat /\ \A size \in Offsets \cup {HeaderTotal} : size <= SourceLimit

VARIABLES
    reading,            \* "closed", "open", in "extract" or "read_bytes", or "refused"
    start,              \* where the file is read from
    place,              \* the position of the filebuf
    loaded, index,      \* the buffer, and write_buffer_index in bytes
    rest,               \* what ibitwrapper::buffer still has
    count,              \* bytes loaded since the buffers were reset
    uncounted, limit,   \* ibitwrapper: byte_count is count - uncounted; byte_limit
    parsed,             \* the header has been read
    asked,              \* what is left of a request
    got                 \* what was read since start

word_vars   == <<place, loaded, index, count>>
limit_vars  == <<uncounted, limit, parsed>>
source_vars == <<reading, start, word_vars, rest, limit_vars, asked, got>>

-----------------------------------------------------------------------------
Capacity == B * W
EmptyBuffer == [i \in 1 .. Capacity |-> Padding]

\* The next bytes of a file as they are put in memory, with zeros behind its end.
Block(f, from) ==
    [i \in 1 .. Capacity |-> IF from + i <= Len(f) THEN f[from + i] ELSE Padding]

\* How many words n bytes are, the last one possibly in part; and a mutant that
\* counts only whole ones.
WholeWords(n) == n \div W
WordsRead(n)  == (n + W - 1) \div W

\* fill_buffer: the words that were read are swapped in place, those filled up with
\* zeros are not.
Filled(f, from) ==
    LET words == InMemory(Block(f, from))
        bytes == WordsRead(Smaller(relu(Len(f) - from), Capacity)) * W
    IN  IF LittleEndian
        THEN byteswap(SubSeq(words, 1, bytes)) \o SubSeq(words, bytes + 1, Capacity)
        ELSE words

\* file_buffer_wrapper::load_word: the buffer is filled when its index has wrapped
\* around.
NextBuffer == IF index = 0 THEN Filled(file, place) ELSE loaded
NextWord   == SubSeq(NextBuffer, index + 1, index + W)

\* ibitwrapper::load_word, which refuses to load more than the limit.
Refused  == count - uncounted >= limit
LoadWord ==
    /\ ~Refused
    /\ loaded' = NextBuffer
    /\ place' = IF index = 0 THEN place + Smaller(relu(Len(file) - place), Capacity) ELSE place
    /\ index' = (index + W) % Capacity
    /\ count' = count + W

SourceInit ==
    /\ Init
    /\ reading = "closed" /\ start = 0 /\ place = 0 /\ loaded = EmptyBuffer /\ index = 0
    /\ rest = <<>> /\ count = 0 /\ uncounted = 0 /\ limit = SourceLimit /\ parsed = FALSE
    /\ asked = 0 /\ got = <<>>

\* A session is set up on a file that is written.
Open ==
    /\ pc \in {"finished", "terminated", "stored"} /\ reading = "closed"
    /\ reading' = "open"
    /\ UNCHANGED <<vars, start, word_vars, rest, limit_vars, asked, got>>

\* load_channels seeks the image, which resets both buffers and the count, and limits
\* what is read of it to the size of the file.
Seek ==
    /\ client = "image" /\ reading = "open"
    /\ \E offset \in Offsets : start' = offset /\ place' = offset
    /\ loaded' = EmptyBuffer /\ index' = 0
    /\ rest' = <<>> /\ count' = 0
    /\ uncounted' = 0 /\ limit' = byte_limit /\ parsed' = TRUE
    /\ got' = <<>>
    /\ UNCHANGED <<vars, reading, asked>>

\* What set_byte_count counts of a header, ccsds_protocol::header_size(), and a mutant
\* that counts the extension, too.
HeaderWhole   == HeaderTotal
HeaderCounted == HeaderTotal - ext

\* parse_header has read the segment's headers.  The limit stays what it was.
ParseHeader ==
    /\ client = "segment" /\ reading = "open" /\ ~parsed
    /\ Len(got) = HeaderTotal /\ Len(file) >= HeaderTotal
    /\ uncounted' = count - HeaderCounted /\ parsed' = TRUE
    /\ UNCHANGED <<vars, reading, start, word_vars, rest, limit, asked, got>>

\* The sizes a header may have, which is read with read_bytes.
HeaderSizes == IF client = "segment" THEN {HeaderTotal} ELSE Offsets

\* A client asks for n bytes: by extract or operator>>, which also is asked for none
\* at the end of a row (load.tpp:55), or by read_bytes.
Ask(method, n) ==
    /\ reading = "open" /\ Len(got) + n <= MaxRead
    /\ parsed \/ (method = "read_bytes" /\ \E size \in HeaderSizes : Len(got) + n <= size)
    /\ reading' = method /\ asked' = n
    /\ UNCHANGED <<vars, start, word_vars, rest, limit_vars, got>>

\* One pass of the loop of extract and operator>>: as much as the word has left of
\* what is asked.  read_bytes extracts byte by byte, until the word is empty, and
\* in the end.
Extract ==
    LET word  == IF rest = <<>> THEN NextWord ELSE rest
        shift == Smaller(IF reading = "read_bytes" THEN 1 ELSE asked, Len(word))
    IN
    /\ \/ reading = "extract"
       \/ reading = "read_bytes" /\ (rest # <<>> \/ asked <= W)
    /\ IF rest = <<>> THEN LoadWord ELSE UNCHANGED word_vars
    /\ got' = got \o SubSeq(word, 1, shift)
    /\ rest' = SubSeq(word, shift + 1, Len(word))
    /\ asked' = asked - shift
    /\ reading' = IF asked' = 0 THEN "open" ELSE reading
    /\ UNCHANGED <<vars, start, limit_vars>>

\* read_bytes, the bit buffer empty: a whole word past it.
ReadWord ==
    /\ reading = "read_bytes" /\ rest = <<>> /\ asked > W
    /\ LoadWord
    /\ got' = got \o NextWord
    /\ asked' = asked - W
    /\ UNCHANGED <<vars, reading, start, rest, limit_vars>>

\* byte_limit_exception.
Refuse ==
    /\ reading \in {"extract", "read_bytes"} /\ rest = <<>> /\ Refused
    /\ reading' = "refused"
    /\ UNCHANGED <<vars, start, word_vars, rest, limit_vars, asked, got>>

SourceNext ==
    \/ Next /\ UNCHANGED source_vars
    \/ Open \/ Seek \/ ParseHeader
    \/ \E n \in 0 .. MaxSymbol : Ask("extract", n)
    \/ \E n \in Chunks : Ask("read_bytes", n)
    \/ Extract \/ ReadWord \/ Refuse

SourceSpec == SourceInit /\ [][SourceNext]_<<vars, source_vars>>
-----------------------------------------------------------------------------
(* Properties *)

\* What is read are the file's bytes from where the reading starts, none lost, repeated
\* or out of order, whichever way they are asked for and whatever was read before
\* a seek, and zeros behind the file's end, whose last word may be a part of one.
SourceReadsFile ==
    got = [i \in 1 .. Len(got) |->
             IF start + i <= Len(file) THEN file[start + i] ELSE Padding]

\* Nothing within the file is refused.  The limit of load_channels is the size of the
\* file, though it counts from the image on, and words instead of bytes; that of
\* a segment's session lets through whatever is within the segment's own limit,
\* to which the header's extension does not count.
RefusedBehindFile ==
    reading = "refused" /\ (client = "segment" => byte_limit <= SourceLimit) =>
        start + Len(got) >=
            IF client = "image" THEN Len(file) ELSE Smaller(Len(file), ext + byte_limit)
=============================================================================
