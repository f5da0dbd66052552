------------------------------ MODULE MockPty ------------------------------
(***************************************************************************)
(* terminal::MockPty (src/src/terminal/pty/MockPty.cpp): the pty the      *)
(* terminal tests run against.  The test appends to the output buffer     *)
(* (what the "application" printed); the terminal reads it through         *)
(* read(size) or read(storage), which advance outputReadOffset_; what the  *)
(* terminal writes goes to the input buffer.  resizeScreen stores the page *)
(* and pixel size; close() only sets a flag.                               *)
(*                                                                         *)
(* The reader side is shown to implement ByteChannel.                      *)
(***************************************************************************)
EXTENDS Integers, Sequences, SequencesExt, PageSize

CONSTANTS
    Bytes,          \* the byte values the application writes
    MaxOutput,      \* bound on the output the test appends
    MaxInput,       \* bound on the input the terminal writes
    ReadSizes,      \* the sizes the terminal asks read(size) for
    StorageSize,    \* capacity of the terminal's BufferObject
    PageSizes,      \* the page sizes resizeScreen is called with
    PixelSizes,     \* the pixel sizes it is called with
    None

VARIABLES
    outputBuffer,       \* outputBuffer_
    outputReadOffset,   \* outputReadOffset_
    inputBuffer,        \* inputBuffer_
    pageSize,           \* pageSize_
    pixelSize,          \* pixelSize_ (None for nullopt)
    closed,             \* closed_
    storage,            \* the terminal's BufferObject: bytes read, not yet parsed
    parsed              \* the bytes the terminal has parsed

vars == <<outputBuffer, outputReadOffset, inputBuffer, pageSize, pixelSize,
          closed, storage, parsed>>

Chunks(n) == {s \in BoundedSeq(Bytes, n) : s # <<>>}

Init ==
    /\ outputBuffer = <<>> /\ outputReadOffset = 0
    /\ inputBuffer = <<>>
    /\ pageSize \in PageSizes /\ pixelSize = None
    /\ closed = FALSE
    /\ storage = <<>> /\ parsed = <<>>

Unread == SubSeq(outputBuffer, outputReadOffset + 1, Len(outputBuffer))

(* The test appends to the output buffer (MockPty.h).                      *)
AppendStdOut(chunk) ==
    /\ Len(outputBuffer) + Len(chunk) <= MaxOutput
    /\ outputBuffer' = outputBuffer \o chunk
    /\ UNCHANGED <<outputReadOffset, inputBuffer, pageSize, pixelSize, closed,
                   storage, parsed>>

(* read(size): n = min(size() - offset, size); return the n bytes at the  *)
(* offset and advance it.  The terminal parses them at once.  closed_ is   *)
(* not consulted.                                                          *)
ReadCountWholeOnly(available, size) == IF available < size THEN 0 ELSE size
ReadCount(available, size) == IF available < size THEN available ELSE size

ReadOffsetAssigned(n) == n
ReadOffsetAdvanced(n) == outputReadOffset + n

Read(size) ==
    LET n == ReadCount(Len(Unread), size)
    IN  /\ parsed' = parsed \o SubSeq(Unread, 1, n)
        /\ outputReadOffset' = ReadOffsetAdvanced(n)
        /\ UNCHANGED <<outputBuffer, inputBuffer, pageSize, pixelSize, closed,
                       storage>>

(* read(storage): n = min(size() - offset, storage.bytesAvailable());     *)
(* the chunk is written at the end of the buffer object.                   *)
StorageCountUnbounded(available, room) == available
StorageCount(available, room) == IF available < room THEN available ELSE room

ReadInto ==
    LET n == StorageCount(Len(Unread), StorageSize - Len(storage))
    IN  /\ storage' = storage \o SubSeq(Unread, 1, n)
        /\ outputReadOffset' = outputReadOffset + n
        /\ UNCHANGED <<outputBuffer, inputBuffer, pageSize, pixelSize, closed,
                       parsed>>

(* The terminal parses what the buffer object holds and releases it.      *)
ParseStorage ==
    /\ storage # <<>>
    /\ parsed' = parsed \o storage
    /\ storage' = <<>>
    /\ UNCHANGED <<outputBuffer, outputReadOffset, inputBuffer, pageSize,
                   pixelSize, closed>>

(* write(buf, size): append to stdin, report size bytes written.           *)
Write(buf) ==
    /\ Len(inputBuffer) + Len(buf) <= MaxInput
    /\ inputBuffer' = inputBuffer \o buf
    /\ UNCHANGED <<outputBuffer, outputReadOffset, pageSize, pixelSize, closed,
                   storage, parsed>>

(* resizeScreen(cells, pixels)                                             *)
ResizeScreen(cells, pixels) ==
    /\ pageSize' = cells
    /\ pixelSize' = pixels
    /\ UNCHANGED <<outputBuffer, outputReadOffset, inputBuffer, closed,
                   storage, parsed>>

(* close()                                                                 *)
Close ==
    /\ closed' = TRUE
    /\ UNCHANGED <<outputBuffer, outputReadOffset, inputBuffer, pageSize,
                   pixelSize, storage, parsed>>

(* pageSize() and isClosed(): what the terminal reads back.               *)
PtyPageSize == pageSize
IsClosed == closed

(* The terminal parses in order: it reads through read(size) only once   *)
(* what it read into its buffer object has been parsed.                    *)
ReadDirect == storage = <<>> /\ \E size \in ReadSizes : Read(size)

Next ==
    \/ \E chunk \in Chunks(2) : AppendStdOut(chunk)
    \/ ReadDirect
    \/ ReadInto \/ ParseStorage
    \/ \E buf \in Chunks(1) : Write(buf)
    \/ \E cells \in PageSizes, pixels \in PixelSizes \cup {None} :
          ResizeScreen(cells, pixels)
    \/ Close

(* The terminal's read loop keeps reading and parsing while the pty has  *)
(* output.                                                                  *)
Spec == Init /\ [][Next]_vars /\ WF_vars(ReadDirect) /\ WF_vars(ParseStorage)

-----------------------------------------------------------------------------
(* The read offset stays within the output, and read(storage) never       *)
(* writes more than the buffer object has room for.                        *)
TypeOK ==
    /\ outputBuffer \in BoundedSeq(Bytes, MaxOutput)
    /\ outputReadOffset \in 0..Len(outputBuffer)
    /\ storage \in BoundedSeq(Bytes, StorageSize)
    /\ inputBuffer \in BoundedSeq(Bytes, MaxInput)
    /\ PtyPageSize \in PageSizes
    /\ pixelSize \in PixelSizes \cup {None}
    /\ IsClosed \in BOOLEAN

(* The terminal parses the application's output in order, each byte once: *)
(* what it parsed followed by what waits in its buffer object is exactly   *)
(* the output up to the read offset, whichever read overload it used.      *)
ReaderSeesStreamInOrder ==
    parsed \o storage = SubSeq(outputBuffer, 1, outputReadOffset)

(* MockPty implements a byte channel: the refinement maps the channel's   *)
(* sent bytes to the output buffer and its received bytes to the output    *)
(* before the read offset.  Under the read loop's fairness every byte the  *)
(* test appends is eventually read.                                        *)
Channel == INSTANCE ByteChannel
               WITH sent <- outputBuffer,
                    recv <- SubSeq(outputBuffer, 1, outputReadOffset)
ImplementsByteChannel == Channel!Spec

(* The pixel size of one cell (ImageSize / PageSize) times the page        *)
(* (ImageSize times PageSize) gives back the pixel size up to less than    *)
(* one cell per line and column: width goes with columns, height with      *)
(* lines.                                                                  *)
CellSizeRoundTrip ==
    pixelSize # None =>
        LET page == PtyPageSize
            cell == ImageDivPage(pixelSize, page)
            back == ImageTimesPage(cell, page)
        IN  /\ back.width <= pixelSize.width
            /\ pixelSize.width - back.width < page.columns
            /\ back.height <= pixelSize.height
            /\ pixelSize.height - back.height < page.lines

====
