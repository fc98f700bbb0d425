------------------------------ MODULE BmpEncoder ------------------------------
(***************************************************************************)
(* bitmap.rs over the stream of com_stream.rs: a BMP written band by band  *)
(* into a COM stream that may write short, fail after it has consumed      *)
(* bytes, make no progress or claim too much.  The file is a sequence of   *)
(* cells: one for each byte of the signature and of a row, one for each    *)
(* header field that matters.  A call of the stream is one action.         *)
(***************************************************************************)
EXTENDS Integers, Sequences

CONSTANTS Widths, RowCounts,  \* geometry a decoded band may claim
          Dpis,               \* resolutions asked for
          MaxRowBytes, MaxPixelBytes, MaxBands,  \* the encoder's own limits
          MaxInt,             \* i32::MAX
          MaxFileSize         \* u32::MAX

Modes == {"Gray", "Rgb"}
Limits == {MaxRowBytes, MaxPixelBytes, MaxBands, MaxInt, MaxFileSize}

\* A header field is one cell here, and the palette too.
HeaderCells == 8
PixelOffset(mode) == HeaderCells + (IF mode = "Gray" THEN 1 ELSE 0)

ASSUME InputsAssumption == Widths \cup RowCounts \cup Dpis \cup Limits \subseteq Nat

\* 256 MiB of pixels in rows of one byte are padded to four times their size; in
\* bitmap.rs 4 * 2^28 + 1078 < 2^32.
ASSUME FileFitsAssumption == PixelOffset("Gray") + 4 * MaxPixelBytes <= MaxFileSize

VARIABLES
    file, pos,        \* the stream: its cells and its seek position
    mode, ppm,        \* fixed by new()
    width, stride,    \* of the first band; width 0 is None
    height, bands, bytes,
    poisoned,
    stage,            \* which method of the encoder is running
    band,             \* the argument of push()
    plan,             \* writes the method has still to make
    result            \* how the encoder ended

stream   == <<file, pos>>
counters == <<width, stride, height, bands, bytes>>
vars     == <<stream, mode, ppm, counters, poisoned, stage, band, plan, result>>

Bands == [width : Widths, rows : RowCounts, mode : Modes, exact : BOOLEAN]
NoBand == [width |-> 0, rows |-> 0, mode |-> "Gray", exact |-> FALSE]

Cell(tag, a, b) == <<tag, a, b>>
Foreign == Cell("foreign", 0, 0)
Blank   == Cell("blank", 0, 0)

Init ==
    /\ file \in {<<>>, <<Foreign>>} /\ pos \in 0..Len(file)
    /\ mode \in Modes /\ ppm = 0
    /\ width = 0 /\ stride = 0 /\ height = 0 /\ bands = 0 /\ bytes = 0
    /\ poisoned = FALSE
    /\ stage = "new" /\ plan = <<>> /\ result = "None"
    /\ band = NoBand

-------------------------------------------------------------------------------
\* Geometry and limits.
RowBytes(w) == w * (IF mode = "Rgb" THEN 3 ELSE 1)

Stride(w) == ((RowBytes(w) + 3) \div 4) * 4

ValidGeometry(b) ==
    /\ b.mode = mode
    /\ b.width \in 1..MaxInt /\ b.rows > 0
    /\ RowBytes(b.width) <= MaxRowBytes
    /\ b.exact

\* Seeded fault: the pixel limit looks at the band alone.
BugWithinLimits(b) ==
    /\ Stride(b.width) <= MaxRowBytes + 3
    /\ bands < MaxBands
    /\ height + b.rows <= MaxInt
    /\ RowBytes(b.width) * b.rows <= MaxPixelBytes

WithinLimits(b) ==
    /\ Stride(b.width) <= MaxRowBytes + 3
    /\ bands < MaxBands
    /\ height + b.rows <= MaxInt
    /\ bytes + RowBytes(b.width) * b.rows <= MaxPixelBytes

Accepts(b) == ValidGeometry(b) /\ (width # 0 => b.width = width) /\ WithinLimits(b)

-------------------------------------------------------------------------------
\* What the methods write.  A planned write may begin with a seek.
Here == -1
Put(cells) == [at |-> Here, cells |-> cells]
PutAt(offset, cells) == [at |-> offset, cells |-> cells]

FileSizeAt == 2
HeightAt == 5
ImageSizeAt == 7

HeaderPlan(w) ==
    <<PutAt(0, <<Blank, Blank, Blank, Cell("offset", PixelOffset(mode), 0)>>),
      Put(<<Cell("width", w, 0), Blank, Cell("format", ppm, 0), Blank>>)>>
    \o (IF mode = "Gray" THEN <<Put(<<Cell("palette", 0, 0)>>)>> ELSE <<>>)

\* The decoder's samples of an image row, and the cells the encoder makes of them.
Channels == <<"red", "green", "blue">>
Sample(row, i) ==
    IF mode = "Gray" THEN Cell("gray", row, i)
    ELSE Cell(Channels[(i % 3) + 1], row, i \div 3)

Converted(row, w) ==
    [i \in 1..RowBytes(w) |->
        IF mode = "Gray" THEN Sample(row, i - 1)
        ELSE Sample(row, 3 * ((i - 1) \div 3) + 2 - ((i - 1) % 3))]

Padding(w) == [i \in 1..(Stride(w) - RowBytes(w)) |-> Cell("pad", 0, 0)]

\* write_bounded of no bytes calls nothing.
RowWrites(w) == IF Padding(w) = <<>> THEN 1 ELSE 2

BandPlan(b) ==
    [k \in 1..(RowWrites(b.width) * b.rows) |->
        IF k % RowWrites(b.width) = 1 % RowWrites(b.width)
        THEN Put(Converted(height + (k - 1) \div RowWrites(b.width), b.width))
        ELSE Put(Padding(b.width))]

FileSize == PixelOffset(mode) + stride * height
Signature == <<Cell("B", 0, 0), Cell("M", 0, 0)>>

\* Seeded fault: the signature is written before the image size.
BugFinishPlan ==
    <<PutAt(FileSizeAt, <<Cell("size", FileSize, 0)>>),
      PutAt(HeightAt, <<Cell("height", -height, 0)>>),
      PutAt(0, Signature),
      PutAt(ImageSizeAt, <<Cell("size", stride * height, 0)>>)>>

FinishPlan ==
    <<PutAt(FileSizeAt, <<Cell("size", FileSize, 0)>>),
      PutAt(HeightAt, <<Cell("height", -height, 0)>>),
      PutAt(ImageSizeAt, <<Cell("size", stride * height, 0)>>),
      PutAt(0, Signature)>>

-------------------------------------------------------------------------------
\* One call of the stream for the head of the plan.
Overwritten(cells) ==
    [i \in 1..(IF pos + Len(cells) > Len(file) THEN pos + Len(cells) ELSE Len(file)) |->
        IF i \in (pos + 1)..(pos + Len(cells)) THEN cells[i - pos]
        ELSE IF i <= Len(file) THEN file[i] ELSE Blank]

Consumes(n) ==
    /\ file' = Overwritten(SubSeq(Head(plan).cells, 1, n))
    /\ pos' = pos + n

Keeps == UNCHANGED <<mode, ppm, counters, band>>

Ends(r) == stage' = "closed" /\ result' = r

\* Seeded fault: a failed write does not poison the encoder.
BugBreaks ==
    /\ plan' = <<>>
    /\ \/ stage \in {"header", "rows"} /\ stage' = "open" /\ UNCHANGED <<poisoned, result>>
       \/ stage = "finish" /\ Ends("Error") /\ UNCHANGED poisoned

\* The method returns the error: push poisons the encoder, finish has consumed it.
Breaks ==
    /\ plan' = <<>>
    /\ \/ stage \in {"header", "rows"} /\ poisoned' = TRUE /\ stage' = "open" /\ UNCHANGED result
       \/ stage = "finish" /\ Ends("Error") /\ UNCHANGED poisoned

SeekCall ==
    /\ plan # <<>> /\ Head(plan).at # Here
    /\ \/ /\ pos' = Head(plan).at
          /\ plan' = <<Put(Head(plan).cells)>> \o Tail(plan)
          /\ UNCHANGED <<poisoned, stage, result>>
       \/ Breaks /\ UNCHANGED pos
    /\ UNCHANGED file /\ Keeps

\* A call that reports n of the cells written.
WriteSome(n) ==
    LET rest == SubSeq(Head(plan).cells, n + 1, Len(Head(plan).cells))
    IN  /\ Consumes(n)
        /\ plan' = (IF rest = <<>> THEN <<>> ELSE <<Put(rest)>>) \o Tail(plan)
        /\ UNCHANGED <<poisoned, stage, result>>

\* A failed HRESULT wins over the progress reported; a claim beyond the cells given, or
\* no progress, is an error as well.
WriteFails(n) == Consumes(n) /\ Breaks

WriteCall ==
    /\ plan # <<>> /\ Head(plan).at = Here
    /\ \E n \in 0..Len(Head(plan).cells) : (n > 0 /\ WriteSome(n)) \/ WriteFails(n)
    /\ Keeps

-------------------------------------------------------------------------------
\* dpi_to_ppm.
PixelsPerMetre(dpi) == (dpi * 10000 + 127) \div 254

Refused == Ends("Refused") /\ UNCHANGED ppm

\* The length is found by a seek to the end; a stream that is not empty is put back.
New(dpi) ==
    /\ stage = "new"
    /\ \/ (dpi = 0 \/ PixelsPerMetre(dpi) > MaxInt) /\ Refused /\ UNCHANGED pos
       \/ dpi # 0 /\ Refused /\ UNCHANGED pos
       \/ dpi # 0 /\ file # <<>> /\ Refused /\ pos' \in {pos, Len(file)}
       \/ /\ dpi # 0 /\ PixelsPerMetre(dpi) <= MaxInt /\ file = <<>>
          /\ stage' = "open" /\ ppm' = PixelsPerMetre(dpi)
          /\ UNCHANGED <<pos, result>>
    /\ UNCHANGED <<file, mode, counters, poisoned, band, plan>>

\* A poisoned encoder repeats its error and does nothing.
Push(b) ==
    /\ stage = "open" /\ ~poisoned
    /\ band' = b
    /\ \/ ~Accepts(b) /\ poisoned' = TRUE /\ UNCHANGED <<stage, plan>>
       \/ /\ Accepts(b) /\ width = 0
          /\ stage' = "header" /\ plan' = HeaderPlan(b.width) /\ UNCHANGED poisoned
       \/ /\ Accepts(b) /\ width # 0
          /\ stage' = "rows" /\ plan' = BandPlan(b) /\ UNCHANGED poisoned
    /\ UNCHANGED <<stream, mode, ppm, counters, result>>

HeaderDone ==
    /\ stage = "header" /\ plan = <<>>
    /\ width' = band.width /\ stride' = Stride(band.width)
    /\ stage' = "rows" /\ plan' = BandPlan(band)
    /\ UNCHANGED <<stream, mode, ppm, height, bands, bytes, poisoned, band, result>>

BandDone ==
    /\ stage = "rows" /\ plan = <<>>
    /\ height' = height + band.rows
    /\ bands' = bands + 1
    /\ bytes' = bytes + RowBytes(band.width) * band.rows
    /\ stage' = "open"
    /\ UNCHANGED <<stream, mode, ppm, width, stride, poisoned, band, plan, result>>

\* Seeded fault: finish() does not look at the sticky error.
BugFinish(agrees) ==
    /\ stage = "open"
    /\ \/ /\ width = 0 \/ ~agrees \/ FileSize > MaxFileSize
          /\ Ends("Error") /\ UNCHANGED plan
       \/ /\ width # 0 /\ agrees /\ FileSize <= MaxFileSize
          /\ stage' = "finish" /\ plan' = FinishPlan /\ UNCHANGED result
    /\ UNCHANGED <<stream, mode, ppm, counters, poisoned, band>>

\* The scan's summary, as far as finish() compares it: it agrees with the bands or not.
Finish(agrees) ==
    /\ stage = "open"
    /\ \/ /\ poisoned \/ width = 0 \/ ~agrees \/ FileSize > MaxFileSize
          /\ Ends("Error") /\ UNCHANGED plan
       \/ /\ ~poisoned /\ width # 0 /\ agrees /\ FileSize <= MaxFileSize
          /\ stage' = "finish" /\ plan' = FinishPlan /\ UNCHANGED result
    /\ UNCHANGED <<stream, mode, ppm, counters, poisoned, band>>

FinishDone ==
    /\ stage = "finish" /\ plan = <<>>
    /\ Ends("Ok")
    /\ UNCHANGED <<stream, mode, ppm, counters, poisoned, band, plan>>

\* The transfer drops the encoder of a job that failed or was cancelled.
Dropped ==
    /\ stage = "open"
    /\ Ends("Dropped")
    /\ UNCHANGED <<stream, mode, ppm, counters, poisoned, band, plan>>

Next ==
    \/ SeekCall \/ WriteCall
    \/ \E dpi \in Dpis : New(dpi)
    \/ \E b \in Bands : Push(b)
    \/ HeaderDone \/ BandDone
    \/ \E agrees \in BOOLEAN : Finish(agrees)
    \/ FinishDone \/ Dropped

Spec == Init /\ [][Next]_vars

-------------------------------------------------------------------------------
\* PROPERTIES

Tags == {"foreign", "blank", "offset", "width", "format", "palette", "gray", "red",
         "green", "blue", "pad", "size", "height", "B", "M"}
Cells == Tags \X Int \X Int
Writes == [at : Nat \cup {Here}, cells : Seq(Cells)]

TypeOK ==
    /\ file \in Seq(Cells) /\ pos \in Nat
    /\ plan \in Seq(Writes)
    /\ mode \in Modes /\ ppm \in 0..MaxInt
    /\ width \in Nat /\ stride \in Nat /\ height \in Nat /\ bands \in Nat /\ bytes \in Nat
    /\ poisoned \in BOOLEAN
    /\ stage \in {"new", "open", "header", "rows", "finish", "closed"}
    /\ band \in Bands \cup {NoBand}
    /\ result \in {"None", "Refused", "Ok", "Error", "Dropped"}

Signed == Len(file) >= 2 /\ SubSeq(file, 1, 2) = Signature

\* The cell a top-down BMP has at an offset from the first pixel.
PixelCell(i) ==
    LET row == i \div stride
        col == i % stride
    IN  IF col >= RowBytes(width) THEN Cell("pad", 0, 0)
        ELSE IF mode = "Gray" THEN Cell("gray", row, col)
        ELSE Cell(<<"blue", "green", "red">>[(col % 3) + 1], row, col \div 3)

RowsInPlace ==
    \A i \in 0..(stride * height - 1) : file[PixelOffset(mode) + i + 1] = PixelCell(i)

\* A file with the signature is the whole image: the sizes in its header are its own,
\* and each row lies where a reader looks for it, in the order and with the channels of
\* the scan - whichever call of the stream wrote short or failed, and even if finish
\* reports an error.
SignedIsWhole ==
    Signed =>
        /\ height > 0 /\ Len(file) = FileSize
        /\ file[FileSizeAt + 1] = Cell("size", Len(file), 0)
        /\ file[HeightAt + 1] = Cell("height", -height, 0)
        /\ file[ImageSizeAt + 1] = Cell("size", stride * height, 0)
        /\ RowsInPlace

\* Between two calls an encoder that is not poisoned counts what the stream holds, and
\* stands at its end: push never seeks, and progress() tells the service this number.
StreamIsAsCounted ==
    (stage = "open" /\ ~poisoned) =>
        /\ pos = Len(file)
        /\ Len(file) = (IF height = 0 THEN 0 ELSE FileSize)
        /\ bytes = RowBytes(width) * height
        /\ RowsInPlace

\* Both, at every call of the stream: what bitmap.rs lets a reader, or progress(), believe.
FileIsAsPromised == SignedIsWhole /\ StreamIsAsCounted

\* finish() never refuses for its size what push() has accepted: 32 bits hold the size
\* of any image within the limits, padding included.
SizesFit == FileSize <= MaxFileSize

Output ==
    IF Signed THEN "complete"
    ELSE IF \A i \in DOMAIN file : file[i] = Foreign THEN "empty" ELSE "partial"

Contract == INSTANCE BmpContract WITH rows <- height, output <- Output

\* The encoder keeps the contract the transfer relies on: rows only grow, an error is
\* final for the stream, and the file becomes valid once, by its last write.
ImplementsContract == Contract!BmpSpec
===============================================================================
