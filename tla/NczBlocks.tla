------------------------------ MODULE NczBlocks ------------------------------
(***************************************************************************)
(* How a compressed NCA (NCZ) is turned back into the NCA: the blocks that *)
(* readFuncInternal lists and decompressFuncInternal takes from buffers    *)
(* that know nothing of them, the flushes of the inflate buffer, which     *)
(* know nothing of either, and the sections under whose key and counter    *)
(* ncz_flush encrypts each piece again (yati.cpp, yati/nx/ncz.hpp).        *)
(* TransferPipeline has the threads this passes through; here they take    *)
(* turns, for the buffers arrive in order.                                 *)
(*                                                                         *)
(* Units of the NCA are numbered from 0; the header, which was passed on   *)
(* as it is, is unit 0.  Compressed units are numbered from 0, too, from   *)
(* the end of the NCZ headers.                                             *)
(***************************************************************************)
EXTENDS Integers, Sequences, FiniteSets

CONSTANTS
    Images,        \* the NCZ files
    BufferSizes,   \* read_buffer_size, 4 MB in the code
    FlushSize      \* INFLATE_BUFFER_MAX, 4 MB, too

\* A file: blockSize is 0 when there is no block header, and then blocks has
\* one element, the whole stream.  A block takes size compressed units and
\* stands for units units; it is stored as it is when that is no more.
ImageType ==
    [ blocks : Seq([size : Nat \ {0}, units : Nat \ {0}]),
      blockSize : Nat,
      sections : Seq([offset : Nat, size : Nat \ {0}, ctr : BOOLEAN]),
      size : Nat \ {0} ]

ASSUME NczAssumption ==
    /\ \A f \in Images : f \in ImageType /\ Len(f.blocks) > 0
    /\ FlushSize \in Nat \ {0, 1}
    /\ BufferSizes \subseteq 2 .. FlushSize

VARIABLES
    image,       \* the file
    bufferSize,  \* read_buffer_size
    readOff,     \* compressed units read so far
    held,        \* units in temp_buf: read in search of a block header
    pos,         \* decompress_buf_off, and on to the next unit of the buffer
    bufEnd,      \* the end of the buffer
    block,       \* ncz_block, by its number; 0 when null
    blockOffset, \* block_offset
    compressed,  \* what the code takes the span for
    spanEnd,     \* the end of the span: the part of the buffer in this block
    inflateBuf,  \* inflate_buf up to inflate_offset
    inflated,    \* decompress_offset
    flushing,    \* the size ncz_flush was called with, and its off
    section,     \* ncz_section, by its number; 0 when null
    stream,      \* where the key stream of ctx stands
    written,     \* the local written
    out,         \* what SetWriteBuf was given, after the header
    pc           \* where the decompress thread is; the place after a flush

readerVars == <<readOff, held>>
spanVars == <<pos, bufEnd, block, blockOffset, compressed, spanEnd>>
flushVars == <<flushing, section, stream, written, out>>
vars == <<image, bufferSize, readerVars, spanVars, inflateBuf, inflated, flushVars, pc>>

HeaderUnits == 1
Blocks == image.blocks
HasBlocks == image.blockSize > 0

\* The prefix sums of f over 1 .. n: where each part starts.
StartOf(f, n) ==
    LET s[i \in 1 .. n + 1] == IF i = 1 THEN 0 ELSE s[i - 1] + f[i - 1] IN s

\* BlockInfo::offset, from the array of block sizes.
BlockStart(b) == StartOf([i \in 1 .. Len(Blocks) |-> Blocks[i].size], Len(Blocks))[b]
UnitStart(b) == HeaderUnits + StartOf([i \in 1 .. Len(Blocks) |-> Blocks[i].units], Len(Blocks))[b]
CompressedSize == BlockStart(Len(Blocks) + 1)

InRange(e, off) == e.offset <= off /\ off < e.offset + e.size
InBlock(b, off) == InRange([offset |-> BlockStart(b), size |-> Blocks[b].size], off)

Init ==
    /\ image \in Images
    /\ bufferSize \in BufferSizes
    /\ readOff = IF image.blockSize > 0 THEN 0 ELSE 1
    /\ held = readOff
    /\ pos = 0 /\ bufEnd = 0 /\ block = 0 /\ blockOffset = 0 /\ compressed = TRUE /\ spanEnd = 0
    /\ inflateBuf = <<>> /\ inflated = HeaderUnits
    /\ flushing = [size |-> 0, off |-> 0] /\ section = 0 /\ stream = 0
    /\ written = HeaderUnits /\ out = <<>>
    /\ pc = [at |-> "take", next |-> "take"]

Goto(place) == pc' = [pc EXCEPT !.at = place]

-----------------------------------------------------------------------------
(* The format, seen from outside *)

IsCompressed(b) == ~HasBlocks \/ Blocks[b].size < Blocks[b].units
BlockAt(off) == CHOOSE b \in 1 .. Len(Blocks) : InBlock(b, off)

\* What the decoder gives for the compressed unit at off: the units of its
\* block are spread over the compressed ones.
Inflated(off) ==
    LET b == BlockAt(off)
        i == off - BlockStart(b)
        upto(k) == (k * Blocks[b].units) \div Blocks[b].size
    IN [k \in 1 .. upto(i + 1) - upto(i) |-> UnitStart(b) + upto(i) + k - 1]

\* What a stored unit is when it is copied: a unit of the NCA, or garbage if
\* it is a compressed one.
Garbage == -1
Stored(off) ==
    LET b == BlockAt(off)
    IN IF IsCompressed(b) THEN Garbage ELSE UnitStart(b) + off - BlockStart(b)

-----------------------------------------------------------------------------
(* The buffers *)

\* Seeded fault: what was read in search of a block header is not put back.
DropHeld ==
    /\ pc.at = "take" /\ inflated < image.size /\ readOff < CompressedSize
    /\ held' = 0
    /\ pos' = readOff
    /\ bufEnd' = IF readOff + bufferSize < CompressedSize THEN readOff + bufferSize ELSE CompressedSize
    /\ readOff' = bufEnd'
    /\ Goto("span")
    /\ UNCHANGED <<image, bufferSize, block, blockOffset, compressed, spanEnd, inflateBuf, inflated, flushVars>>

\* The next buffer: what is held, and on to the size of a buffer.
TakeBuffer ==
    /\ pc.at = "take"
    /\ inflated < image.size
    /\ readOff < CompressedSize
    /\ held' = 0
    /\ pos' = readOff - held
    /\ bufEnd' = IF pos' + bufferSize < CompressedSize THEN pos' + bufferSize ELSE CompressedSize
    /\ readOff' = bufEnd'
    /\ Goto("span")
    /\ UNCHANGED <<image, bufferSize, block, blockOffset, compressed, spanEnd, inflateBuf, inflated, flushVars>>

\* All is inflated, or there are no more buffers: flush the rest.
LastFlush ==
    /\ pc.at = "take"
    /\ inflated >= image.size \/ readOff = CompressedSize
    /\ IF inflateBuf = <<>>
         THEN Goto("done") /\ UNCHANGED flushing
         ELSE /\ flushing' = [size |-> Len(inflateBuf), off |-> 0]
              /\ pc' = [at |-> "flush", next |-> "take"]
    /\ UNCHANGED <<image, bufferSize, readerVars, spanVars, inflateBuf, inflated, section, stream, written, out>>

-----------------------------------------------------------------------------
(* The spans: what of the buffer belongs to one block *)

\* ncz_block, looked for again only when pos has left it.
CurrentBlock ==
    IF block # 0 /\ InBlock(block, pos) THEN block ELSE BlockAt(pos)

\* The size a block is compared with to tell whether it is compressed.  The
\* last one is taken to have the remainder of the size of the image.
ExpectedUnits(b) ==
    IF b = Len(Blocks) THEN (image.size - HeaderUnits) % image.blockSize ELSE image.blockSize

SpanSize(b, o) ==
    IF bufEnd - pos < Blocks[b].size - o THEN bufEnd - pos ELSE Blocks[b].size - o

NextSpan ==
    /\ pc.at = "span"
    /\ pos < bufEnd
    /\ IF HasBlocks
         THEN LET b == CurrentBlock
                  o == IF b = block THEN blockOffset ELSE 0
                  n == SpanSize(b, o)
              IN /\ block' = b
                 /\ blockOffset' = o + n
                 /\ compressed' = (Blocks[b].size < ExpectedUnits(b))
                 /\ spanEnd' = pos + n
         ELSE /\ compressed' = TRUE
              /\ spanEnd' = bufEnd
              /\ UNCHANGED <<block, blockOffset>>
    /\ Goto(IF compressed' THEN "inflate" ELSE "copy")
    /\ UNCHANGED <<image, bufferSize, readerVars, pos, bufEnd, inflateBuf, inflated, flushVars>>

BufferEnds ==
    /\ pc.at = "span"
    /\ pos = bufEnd
    /\ Goto("take")
    /\ UNCHANGED <<image, bufferSize, readerVars, spanVars, inflateBuf, inflated, flushVars>>

\* More units for the inflate buffer; a full one is flushed.
Fill(units, place) ==
    /\ inflateBuf' = inflateBuf \o units
    /\ inflated' = inflated + Len(units)
    /\ IF Len(inflateBuf') >= FlushSize
         THEN /\ flushing' = [size |-> FlushSize, off |-> 0]
              /\ pc' = [at |-> "flush", next |-> place]
         ELSE /\ Goto(place)
              /\ UNCHANGED flushing
    /\ UNCHANGED <<image, bufferSize, readerVars, block, blockOffset, compressed, bufEnd, spanEnd,
                   section, stream, written, out>>

\* One turn of the decoder loop.  It refuses data that is not compressed.
Inflate ==
    /\ pc.at = "inflate"
    /\ pos < spanEnd
    /\ IF IsCompressed(BlockAt(pos))
         THEN Fill(Inflated(pos), "inflate") /\ pos' = pos + 1
         ELSE Goto("failed") /\ UNCHANGED <<image, bufferSize, readerVars, spanVars, inflateBuf, inflated, flushVars>>

SpanEnds ==
    /\ pc.at = "inflate"
    /\ pos = spanEnd
    /\ Goto("span")
    /\ UNCHANGED <<image, bufferSize, readerVars, spanVars, inflateBuf, inflated, flushVars>>

\* A span that is not compressed is copied at once.
Copy ==
    /\ pc.at = "copy"
    /\ Fill([k \in 1 .. spanEnd - pos |-> Stored(pos + k - 1)], "span")
    /\ pos' = spanEnd

-----------------------------------------------------------------------------
(* ncz_flush *)

Sections == image.sections

\* Seeded fault: the counter is set up with the offset in the flush.
FlushCounter(s) == IF s # section THEN flushing.off ELSE stream

\* The counter of a section is set up when it is entered, and then runs on.
Counter(s) == IF s # section THEN written ELSE stream

\* The piece of the flush that lies in one section is encrypted under it.
FlushPiece ==
    /\ pc.at = "flush"
    /\ flushing.off < flushing.size
    /\ LET found == {s \in 1 .. Len(Sections) : InRange(Sections[s], written)}
       IN IF found = {}
            THEN Goto("failed") /\ UNCHANGED flushVars
            ELSE LET s == IF section \in found THEN section
                                               ELSE CHOOSE t \in found : \A u \in found : t <= u
                     e == Sections[s]
                     rest == flushing.size - flushing.off
                     n == IF e.offset + e.size - written < rest THEN e.offset + e.size - written ELSE rest
                 IN /\ section' = s
                    /\ stream' = IF e.ctr THEN Counter(s) + n ELSE stream
                    /\ out' = out \o [i \in 1 .. n |->
                         [unit |-> inflateBuf[flushing.off + i],
                          section |-> IF e.ctr THEN s ELSE 0,
                          ctr |-> IF e.ctr THEN Counter(s) + i - 1 ELSE 0]]
                    /\ written' = written + n
                    /\ flushing' = [flushing EXCEPT !.off = @ + n]
                    /\ UNCHANGED pc
    /\ UNCHANGED <<image, bufferSize, readerVars, spanVars, inflateBuf, inflated>>

\* Seeded fault: what is behind the flushed part is dropped with it.
FlushAll ==
    /\ pc.at = "flush" /\ flushing.off = flushing.size
    /\ inflateBuf' = <<>>
    /\ Goto(pc.next)
    /\ UNCHANGED <<image, bufferSize, readerVars, spanVars, inflated, flushVars>>

\* The buffer has gone to the write thread; what is behind it is kept.
FlushEnds ==
    /\ pc.at = "flush"
    /\ flushing.off = flushing.size
    /\ inflateBuf' = SubSeq(inflateBuf, flushing.size + 1, Len(inflateBuf))
    /\ Goto(pc.next)
    /\ UNCHANGED <<image, bufferSize, readerVars, spanVars, inflated, flushVars>>

-----------------------------------------------------------------------------
Finished == pc.at \in {"done", "failed"} /\ UNCHANGED vars

Next ==
    \/ TakeBuffer \/ LastFlush
    \/ NextSpan \/ BufferEnds \/ Inflate \/ SpanEnds \/ Copy
    \/ FlushPiece \/ FlushEnds
    \/ Finished

Spec == Init /\ [][Next]_vars

-----------------------------------------------------------------------------
(* What the theorems assume of the files *)

\* A sound NCZ: its blocks stand for all units behind the header, a stored one
\* is no larger than its units, and the sizes are those the code expects: each
\* block has blockSize units and the last one a remainder that is not zero.  A
\* stream without blocks is longer than what is read in search of their header.
\* Every unit lies in a section, and no two sections overlap.
Sound(f) ==
    LET n == Len(f.blocks)
        last == f.size - HeaderUnits
    IN /\ StartOf([b \in 1 .. n |-> f.blocks[b].units], n)[n + 1] = last
       /\ f.blockSize = 0 => n = 1 /\ f.blocks[1].size > 1
       /\ f.blockSize > 0 => \A b \in 1 .. n :
             /\ f.blocks[b].size <= f.blocks[b].units
             /\ f.blocks[b].units = IF b = n THEN last % f.blockSize ELSE f.blockSize
       /\ \A u \in HeaderUnits .. last : \E s \in 1 .. Len(f.sections) : InRange(f.sections[s], u)
       /\ \A s, t \in 1 .. Len(f.sections) : s # t =>
             \/ f.sections[s].offset + f.sections[s].size <= f.sections[t].offset
             \/ f.sections[t].offset + f.sections[t].size <= f.sections[s].offset

AllSound == \A f \in Images : Sound(f)

-----------------------------------------------------------------------------
(* Properties *)

\* The units that were passed on and those that wait in the inflate buffer are
\* the units of the NCA, in order, however blocks, buffers and flushes fall
\* across each other.
UnitsInOrder ==
    LET waiting == IF pc.at = "flush" THEN SubSeq(inflateBuf, flushing.off + 1, Len(inflateBuf)) ELSE inflateBuf
    IN /\ \A i \in 1 .. Len(out) : out[i].unit = HeaderUnits + i - 1
       /\ \A i \in 1 .. Len(waiting) : waiting[i] = HeaderUnits + Len(out) + i - 1

\* Each unit is encrypted under the section it lies in, with the counter of its
\* own place, although the key stream is set up once per section and a
\* section is spread over several flushes.
KeyStreamInStep ==
    \A i \in 1 .. Len(out) :
        LET s == CHOOSE t \in 1 .. Len(Sections) : InRange(Sections[t], HeaderUnits + i - 1)
        IN IF Sections[s].ctr THEN out[i].section = s /\ out[i].ctr = HeaderUnits + i - 1
                              ELSE out[i].section = 0

\* A sound file is restored to its last unit and never refused.
Restored ==
    /\ pc.at # "failed"
    /\ pc.at = "done" => Len(out) = image.size - HeaderUnits

\* yati.cpp:715: "special handling for the last block to check it's actually
\* compressed": a block is inflated if it is compressed, and copied if it is not.
LastBlockToldApart ==
    pc.at \in {"inflate", "copy"} /\ pos < spanEnd => compressed = IsCompressed(BlockAt(pos))
=============================================================================
