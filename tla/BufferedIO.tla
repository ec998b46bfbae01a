----------------------------- MODULE BufferedIO -----------------------------
(***************************************************************************)
(* The buffered writer and reader under every table file                   *)
(* (src/src/persistence.c:7-172): a save writes an int count and then, for *)
(* each element, its size and its bytes; a load reads them back.           *)
(*                                                                         *)
(* A byte is its position in the stream the save produces, so a byte lost, *)
(* duplicated or moved is visible.  One step is one iteration of the loop  *)
(* in buffered_write or buffered_read, with the flush or refill it needs.  *)
(* A pwrite or pread may be short or fail at any time.                     *)
(***************************************************************************)
EXTENDS Integers, Sequences

CONSTANTS
    BufferSizes,  \* values of BUFFER_SIZE to try
    Lists,        \* lists of element sizes to save
    COUNT, HDR,   \* sizeof(int), sizeof(size_t)
    WriteFaults   \* TRUE: pwrite may be short or fail

ASSUME BufferAssumption ==
    /\ BufferSizes \subseteq Nat \ {0} /\ COUNT \in Nat \ {0} /\ HDR \in Nat \ {0}
    /\ \A q \in Lists : q \in Seq(Nat \ {0})
    /\ WriteFaults \in BOOLEAN

VARIABLES
    buffer_size, elems,    \* chosen at the start
    file,                  \* bytes of the table file
    buffer, buffer_pos,    \* writer: the buffer, and its fill level
    file_offset,           \* writer: where the next flush goes
    chunk, rest, sent,     \* writer: call of buffered_write, bytes left in it, bytes taken
    stage,                 \* "save", "count", "size", "body" or "end"
    rbuf, rpos, roffset,   \* reader: valid bytes of its buffer, position, file offset
    part, want, got,       \* reader: bytes of the current call, bytes it asked for, elements
    failed                 \* history: a pread failed before the end of the file

writerVars == <<buffer, buffer_pos, file_offset, chunk, rest, sent>>
readerVars == <<rbuf, rpos, roffset, part, want, got>>
bioVars == <<buffer_size, elems, file, stage, writerVars, readerVars, failed>>

Lesser(a, b) == IF a < b THEN a ELSE b
Span(from, n) == [i \in 1 .. n |-> from + i]   \* n bytes of the stream after `from'

\* The calls of buffered_write that make up a save: the count, then for each
\* element its size and its bytes.
Calls == 1 + 2 * Len(elems)
CallSize(c) == IF c = 1 THEN COUNT ELSE IF c % 2 = 0 THEN HDR ELSE elems[c \div 2]
CallStart(c) == LET sum[i \in 1 .. Calls + 1] ==
                        IF i = 1 THEN 0 ELSE sum[i - 1] + CallSize(i - 1)
                IN sum[c]
BytesOf(c) == Span(CallStart(c), CallSize(c))

BioInit ==
    /\ buffer_size \in BufferSizes /\ elems \in Lists
    /\ file = <<>> /\ buffer = <<>> /\ buffer_pos = 0 /\ file_offset = 0
    /\ chunk = 0 /\ rest = 0 /\ sent = 0 /\ stage = "save"
    /\ rbuf = <<>> /\ rpos = 0 /\ roffset = 0
    /\ part = <<>> /\ want = 0 /\ got = <<>> /\ failed = FALSE

-----------------------------------------------------------------------------
(* Save                                                                    *)

\* Mutant: the rest of a short write is not moved to the front of the buffer.
KeptUnmoved(w) == SubSeq(buffer, 1, buffer_pos - w)

\* pwrite at file_offset took w bytes of the buffer; w = 0 stands for a failure,
\* which is reported and otherwise ignored.
Written == IF WriteFaults THEN 0 .. buffer_pos ELSE {buffer_pos}
OnDisk(w) == SubSeq(file, 1, file_offset) \o SubSeq(buffer, 1, w)
Kept(w)   == SubSeq(buffer, w + 1, buffer_pos)

\* The next call of buffered_write, once the last one has copied everything.
NextCall ==
    /\ stage = "save" /\ rest = 0 /\ chunk < Calls
    /\ chunk' = chunk + 1 /\ rest' = CallSize(chunk + 1)
    /\ UNCHANGED <<buffer_size, elems, file, stage, buffer, buffer_pos, file_offset,
                   sent, readerVars, failed>>

CopyIn(before, n) ==
    /\ buffer' = before \o Span(sent, n)
    /\ buffer_pos' = Len(before) + n
    /\ sent' = sent + n /\ rest' = rest - n
    /\ UNCHANGED <<buffer_size, elems, stage, chunk, readerVars, failed>>

\* Mutant: a chunk that does not fit waits for room.
WriteCopyWhole ==
    /\ stage = "save" /\ rest > 0 /\ buffer_pos < buffer_size
    /\ IF rest <= buffer_size - buffer_pos
       THEN CopyIn(buffer, rest) /\ UNCHANGED <<file, file_offset>>
       ELSE UNCHANGED bioVars

\* There is room: copy what fits.  Beyond the end of the buffer the behaviour is
\* undefined and the model stops.
WriteCopy ==
    /\ stage = "save" /\ rest > 0 /\ buffer_pos < buffer_size
    /\ CopyIn(buffer, Lesser(rest, buffer_size - buffer_pos))
    /\ UNCHANGED <<file, file_offset>>

\* The buffer is full: flush, then take the whole buffer for available, whatever
\* the flush has left in it.
WriteFlush ==
    /\ stage = "save" /\ rest > 0 /\ buffer_pos = buffer_size
    /\ \E w \in Written :
         /\ file' = OnDisk(w) /\ file_offset' = file_offset + w
         /\ CopyIn(Kept(w), Lesser(rest, buffer_size))

\* The last flush of the save; its result is ignored and the file is closed.
FinalFlush ==
    /\ stage = "save" /\ rest = 0 /\ chunk = Calls /\ buffer_pos <= buffer_size
    /\ \E w \in Written :
         file' = OnDisk(w) /\ file_offset' = file_offset + w /\ buffer_pos' = buffer_pos - w
    /\ buffer' = <<>> /\ stage' = "count" /\ want' = COUNT
    /\ UNCHANGED <<buffer_size, elems, chunk, rest, sent, rbuf, rpos, roffset, part, got,
                   failed>>

-----------------------------------------------------------------------------
(* Load                                                                    *)

\* Mutant: an element is kept although its bytes ended early.
ReadFailKeep ==
    /\ stage' = "end" /\ got' = IF stage = "body" THEN Append(got, part) ELSE got
    /\ UNCHANGED <<rbuf, rpos, roffset, part, want>>

Reading == stage \in {"count", "size", "body"}

\* buffered_read copies from the buffer ...
ReadCopy ==
    LET n == Lesser(want - Len(part), Len(rbuf) - rpos)
    IN /\ Reading /\ Len(part) < want /\ rpos < Len(rbuf)
       /\ part' = part \o SubSeq(rbuf, rpos + 1, rpos + n)
       /\ rpos' = rpos + n
       /\ UNCHANGED <<buffer_size, elems, file, stage, writerVars, rbuf, roffset, want, got,
                      failed>>

\* ... and refills it when it is used up.
Refill ==
    /\ Reading /\ Len(part) < want /\ rpos = Len(rbuf)
    /\ \E n \in 1 .. Lesser(buffer_size, Len(file) - roffset) :
         /\ rbuf' = SubSeq(file, roffset + 1, roffset + n)
         /\ roffset' = roffset + n
    /\ rpos' = 0
    /\ UNCHANGED <<buffer_size, elems, file, stage, writerVars, part, want, got, failed>>

\* End of file, or an error: buffered_read returns FALSE and the load loop stops
\* with the elements it has.
ReadFail == stage' = "end" /\ UNCHANGED readerVars
RefillFail ==
    /\ Reading /\ Len(part) < want /\ rpos = Len(rbuf)
    /\ failed' = (roffset < Len(file))
    /\ ReadFail
    /\ UNCHANGED <<buffer_size, elems, file, writerVars>>

\* The size an element's header says, when its bytes are a header at all.
SizeIn(bytes) == LET c == {d \in 1 .. Calls : d % 2 = 0 /\ BytesOf(d) = bytes}
                 IN IF c = {} THEN 0 ELSE elems[(CHOOSE d \in c : TRUE) \div 2]

\* A call of buffered_read is complete: count, size or bytes of an element.
ReadDone ==
    /\ Reading /\ Len(part) = want
    /\ part' = <<>>
    /\ got' = IF stage = "body" THEN Append(got, part) ELSE got
    /\ \/ stage = "size" /\ stage' = "body" /\ want' = SizeIn(part)
       \/ stage # "size" /\ Len(got') < Len(elems) /\ stage' = "size" /\ want' = HDR
       \/ stage # "size" /\ Len(got') = Len(elems) /\ stage' = "end" /\ want' = 0
    /\ UNCHANGED <<buffer_size, elems, file, writerVars, rbuf, rpos, roffset, failed>>

\* Done; or memory beyond the buffer was written and anything may happen.
Finished == (stage = "end" \/ buffer_pos > buffer_size) /\ UNCHANGED bioVars

BioStep == \/ NextCall \/ WriteCopy \/ WriteFlush \/ FinalFlush
           \/ ReadCopy \/ Refill \/ RefillFail \/ ReadDone
BioNext == BioStep \/ Finished

BioSpec == BioInit /\ [][BioNext]_bioVars /\ WF_bioVars(BioStep)

-----------------------------------------------------------------------------
(* Properties                                                              *)

\* However writes are cut into buffers, and whichever of them fall short, the
\* file holds a prefix of the stream: no byte is lost, doubled or out of order.
FileIsPrefix == file = Span(0, Len(file))

\* Elements that lie in the file from their first to their last byte.
Complete == {i \in 1 .. Len(elems) : CallStart(2 * i + 2) <= Len(file)}

\* A load returns elements as they were saved, in order, and without a read error
\* exactly those that are complete in the file: an element that straddles
\* buffers comes back whole, one that was cut off is left out.
LoadsCompleteElements ==
    /\ \A i \in DOMAIN got : got[i] = BytesOf(2 * i + 1)
    /\ stage = "end" /\ ~failed => DOMAIN got = Complete

\* Saving and loading come to an end, whatever the calls return and however an
\* element is larger than the buffer, unless a failed flush made buffered_write
\* copy beyond the end of its buffer (persistence.c:84).
SaveAndLoadEnd == <>(stage = "end" \/ buffer_pos > buffer_size)
=============================================================================
