---------------------------- MODULE BmpEncoderProofs ----------------------------
(***************************************************************************)
(* The types of BmpEncoder; that its limits keep every size within 32      *)
(* bits; that the file it writes is whole once it bears the signature; and *)
(* that it keeps BmpContract: for any geometry and limits, and whatever    *)
(* the stream does with the writes.                                        *)
(***************************************************************************)
EXTENDS BmpEncoder, SequenceTheorems, TLAPS

\* What the counters say of each other, and the band whose writes are under way.
CounterInv ==
    /\ width = 0 => stride = 0 /\ height = 0
    /\ width # 0 => stride = Stride(width) /\ RowBytes(width) > 0
    /\ bytes = RowBytes(width) * height
    /\ bytes <= MaxPixelBytes

BandInv ==
    /\ stage \in {"header", "rows"} => band \in Bands /\ ValidGeometry(band) /\ WithinLimits(band)
    /\ stage = "header" => width = 0
    /\ stage = "rows" => width = band.width

EncoderInv == TypeOK /\ CounterInv /\ BandInv

-------------------------------------------------------------------------------
\* Geometry.
LEMMA RowBytesNat ==
  ASSUME NEW w \in Nat, mode \in Modes
  PROVE  RowBytes(w) \in Nat /\ (w > 0 => RowBytes(w) > 0)
  BY DEF RowBytes, Modes

LEMMA PaddedRow ==
  ASSUME NEW n \in Nat
  PROVE  /\ ((n + 3) \div 4) * 4 \in Nat
         /\ n <= ((n + 3) \div 4) * 4
         /\ n > 0 => ((n + 3) \div 4) * 4 <= 4 * n
  OBVIOUS

LEMMA StrideBounds ==
  ASSUME NEW w \in Nat, mode \in Modes
  PROVE  /\ Stride(w) \in Nat /\ RowBytes(w) <= Stride(w)
         /\ RowBytes(w) > 0 => Stride(w) <= 4 * RowBytes(w)
  BY RowBytesNat, PaddedRow DEF Stride

LEMMA ProductGrows ==
  ASSUME NEW a \in Nat, NEW b \in Nat, NEW h \in Nat, a <= b
  PROVE  a * h \in Nat /\ a * h <= b * h
  OBVIOUS

-------------------------------------------------------------------------------
\* The planned writes are well formed.
LEMMA ConvertedTyped ==
  ASSUME NEW row \in Nat, NEW w \in Nat, mode \in Modes
  PROVE  Converted(row, w) \in Seq(Cells)
<1>1. RowBytes(w) \in Nat
  BY RowBytesNat
<1>2. ASSUME NEW i \in Int, i >= 0 PROVE Sample(row, i) \in Cells
  <2>1. i % 3 \in {0, 1, 2} /\ i \div 3 \in Int
    BY <1>2
  <2>2. Channels[1] \in Tags /\ Channels[2] \in Tags /\ Channels[3] \in Tags
    BY DEF Channels, Tags
  <2>3. Channels[(i % 3) + 1] \in Tags
    <3>1. CASE i % 3 = 0
      BY <3>1, <2>2
    <3>2. CASE i % 3 = 1
      BY <3>2, <2>2
    <3>3. CASE i % 3 = 2
      BY <3>3, <2>2
    <3> QED
      BY <2>1, <3>1, <3>2, <3>3
  <2>4. CASE mode = "Gray"
    BY <1>2, <2>4 DEF Sample, Cell, Cells, Tags
  <2>5. CASE mode # "Gray"
    BY <2>1, <2>3, <2>5 DEF Sample, Cell, Cells
  <2> QED
    BY <2>4, <2>5
<1>3. ASSUME NEW i \in 1..RowBytes(w) PROVE Converted(row, w)[i] \in Cells
  <2>1. i - 1 \in Int /\ i - 1 >= 0
    BY <1>1
  <2>2. 3 * ((i - 1) \div 3) + 2 - ((i - 1) % 3) \in Int /\ 3 * ((i - 1) \div 3) + 2 - ((i - 1) % 3) >= 0
    BY <2>1
  <2> QED
    BY <1>2, <2>1, <2>2 DEF Converted
<1> QED
  BY <1>1, <1>3 DEF Converted

LEMMA PaddingTyped ==
  ASSUME NEW w \in Nat, mode \in Modes
  PROVE  Padding(w) \in Seq(Cells)
<1>1. Stride(w) - RowBytes(w) \in Nat
  BY StrideBounds, RowBytesNat
<1>2. Cell("pad", 0, 0) \in Cells
  BY DEF Cell, Cells, Tags
<1> QED
  BY <1>1, <1>2 DEF Padding

LEMMA PutTyped ==
  ASSUME NEW cells \in Seq(Cells)
  PROVE  Put(cells) \in Writes /\ \A offset \in Nat : PutAt(offset, cells) \in Writes
  BY DEF Put, PutAt, Writes, Here

LEMMA BandPlanTyped ==
  ASSUME TypeOK, NEW b \in Bands
  PROVE  BandPlan(b) \in Seq(Writes)
<1>1. b.width \in Nat /\ b.rows \in Nat /\ mode \in Modes /\ height \in Nat
  BY InputsAssumption DEF TypeOK, Bands
<1>2. RowWrites(b.width) \in {1, 2}
  BY DEF RowWrites
<1>3. RowWrites(b.width) * b.rows \in Nat
  BY <1>1, <1>2
<1>4. ASSUME NEW k \in 1..(RowWrites(b.width) * b.rows)
      PROVE  height + (k - 1) \div RowWrites(b.width) \in Nat
  BY <1>1, <1>2, <1>3, <1>4
<1>5. \A row \in Nat : Put(Converted(row, b.width)) \in Writes
  BY <1>1, ConvertedTyped, PutTyped
<1>6. Put(Padding(b.width)) \in Writes
  BY <1>1, PaddingTyped, PutTyped
<1>7. \A k \in 1..(RowWrites(b.width) * b.rows) : BandPlan(b)[k] \in Writes
  BY <1>4, <1>5, <1>6 DEF BandPlan
<1> QED
  BY <1>3, <1>7 DEF BandPlan

LEMMA FixedPlansTyped ==
  ASSUME TypeOK
  PROVE  FinishPlan \in Seq(Writes) /\ \A w \in Nat : HeaderPlan(w) \in Seq(Writes)
<1>1. \A tag \in Tags, a \in Int, b \in Int : Cell(tag, a, b) \in Cells
  BY DEF Cell, Cells
<1> DEFINE Puts(cells) == Put(cells) \in Writes /\ \A offset \in Nat : PutAt(offset, cells) \in Writes
<1>6. ASSUME NEW c \in Cells PROVE Puts(<<c>>)
  <2>1. <<c>> \in Seq(Cells)
    OBVIOUS
  <2> QED
    BY <2>1, PutTyped
<1>7. ASSUME NEW c \in Cells, NEW d \in Cells PROVE Puts(<<c, d>>)
  <2>1. <<c, d>> \in Seq(Cells)
    OBVIOUS
  <2> QED
    BY <2>1, PutTyped
<1>8. ASSUME NEW c \in Cells, NEW d \in Cells, NEW e \in Cells, NEW f \in Cells
      PROVE  Puts(<<c, d, e, f>>)
  <2>1. <<c, d, e, f>> \in Seq(Cells)
    OBVIOUS
  <2> QED
    BY <2>1, PutTyped
<1> HIDE DEF Puts
<1>2. PixelOffset(mode) \in Int /\ height \in Int /\ -height \in Int /\ ppm \in Int
  BY DEF TypeOK, PixelOffset, HeaderCells
<1>3. stride * height \in Int /\ FileSize \in Int
  BY <1>2 DEF TypeOK, FileSize
<1>4. FinishPlan \in Seq(Writes)
  <2>1. Cell("size", FileSize, 0) \in Cells /\ Cell("height", -height, 0) \in Cells
        /\ Cell("size", stride * height, 0) \in Cells
        /\ Cell("B", 0, 0) \in Cells /\ Cell("M", 0, 0) \in Cells
    BY <1>1, <1>2, <1>3 DEF Tags
  <2>2. /\ PutAt(FileSizeAt, <<Cell("size", FileSize, 0)>>) \in Writes
        /\ PutAt(HeightAt, <<Cell("height", -height, 0)>>) \in Writes
        /\ PutAt(ImageSizeAt, <<Cell("size", stride * height, 0)>>) \in Writes
        /\ PutAt(0, Signature) \in Writes
    BY <2>1, <1>6, <1>7 DEF Puts, FileSizeAt, HeightAt, ImageSizeAt, Signature
  <2> QED
    BY <2>2 DEF FinishPlan
<1>5. ASSUME NEW w \in Nat PROVE HeaderPlan(w) \in Seq(Writes)
  <2>1. Blank \in Cells /\ Cell("offset", PixelOffset(mode), 0) \in Cells
        /\ Cell("width", w, 0) \in Cells /\ Cell("format", ppm, 0) \in Cells
        /\ Cell("palette", 0, 0) \in Cells
    BY <1>1, <1>2 DEF Tags, Blank
  <2> DEFINE first  == PutAt(0, <<Blank, Blank, Blank, Cell("offset", PixelOffset(mode), 0)>>)
             second == Put(<<Cell("width", w, 0), Blank, Cell("format", ppm, 0), Blank>>)
             third  == Put(<<Cell("palette", 0, 0)>>)
  <2>2. first \in Writes /\ second \in Writes /\ third \in Writes
    BY <2>1, <1>6, <1>8 DEF Puts
  <2>3. <<first, second>> \in Seq(Writes)
        /\ (IF mode = "Gray" THEN <<third>> ELSE <<>>) \in Seq(Writes)
    BY <2>2
  <2> QED
    BY <2>3 DEF HeaderPlan
<1> QED
  BY <1>4, <1>5

\* A call of the stream keeps the stream and the plan typed.
LEMMA ConsumesTyped ==
  ASSUME TypeOK, plan # <<>>, NEW n \in 0..Len(Head(plan).cells), Consumes(n)
  PROVE  file' \in Seq(Cells) /\ pos' \in Nat
<1>1. Head(plan) \in Writes
  BY DEF TypeOK
<1>2. Head(plan).cells \in Seq(Cells)
  BY <1>1 DEF Writes
<1> DEFINE cells == SubSeq(Head(plan).cells, 1, n)
           last  == IF pos + Len(cells) > Len(file) THEN pos + Len(cells) ELSE Len(file)
<1>3. cells \in Seq(Cells) /\ Len(cells) \in Nat /\ n \in Nat
  BY <1>2
<1>4. file \in Seq(Cells) /\ pos \in Nat /\ Len(file) \in Nat
  BY DEF TypeOK
<1>5. last \in Nat
  BY <1>3, <1>4
<1>6. Blank \in Cells
  BY DEF Blank, Cell, Cells, Tags
<1>7. ASSUME NEW i \in 1..last PROVE Overwritten(cells)[i] \in Cells
  <2>1. CASE i \in (pos + 1)..(pos + Len(cells))
    <3>1. i - pos \in 1..Len(cells)
      BY <2>1, <1>3, <1>4
    <3>2. cells[i - pos] \in Cells
      BY <3>1, <1>3
    <3>3. Overwritten(cells)[i] = cells[i - pos]
      BY <2>1 DEF Overwritten
    <3> QED
      BY <3>2, <3>3
  <2>2. CASE i \notin (pos + 1)..(pos + Len(cells)) /\ i <= Len(file)
    <3>1. file[i] \in Cells
      BY <2>2, <1>4, <1>5
    <3>2. Overwritten(cells)[i] = file[i]
      BY <2>2 DEF Overwritten
    <3> QED
      BY <3>1, <3>2
  <2>3. CASE i \notin (pos + 1)..(pos + Len(cells)) /\ ~(i <= Len(file))
    BY <2>3, <1>6 DEF Overwritten
  <2> QED
    BY <2>1, <2>2, <2>3
<1>8. Overwritten(cells) \in Seq(Cells)
  <2>1. Overwritten(cells) = [i \in 1..last |-> Overwritten(cells)[i]]
    BY DEF Overwritten
  <2> HIDE DEF last, cells
  <2>2. [i \in 1..last |-> Overwritten(cells)[i]] \in Seq(Cells)
    BY <1>5, <1>7
  <2> QED
    BY <2>1, <2>2
<1> QED
  BY <1>3, <1>4, <1>8 DEF Consumes

-------------------------------------------------------------------------------
LEMMA InitEstablishesEncoderInv == Init => EncoderInv
<1> SUFFICES ASSUME Init PROVE EncoderInv
  OBVIOUS
<1>1. file \in Seq(Cells) /\ pos \in Nat
  <2>1. Foreign \in Cells
    BY DEF Foreign, Cell, Cells, Tags
  <2>2. <<>> \in Seq(Cells) /\ <<Foreign>> \in Seq(Cells)
    BY <2>1
  <2>3. file \in Seq(Cells)
    BY <2>2 DEF Init
  <2>4. pos \in Nat
    BY <2>3 DEF Init
  <2> QED
    BY <2>3, <2>4
<1>2. MaxInt \in Nat /\ MaxPixelBytes \in Nat
  BY InputsAssumption DEF Limits
<1>3. TypeOK
  <2>1. plan \in Seq(Writes)
    BY DEF Init
  <2>2. ppm \in 0..MaxInt
    BY <1>2 DEF Init
  <2> QED
    BY <1>1, <2>1, <2>2 DEF Init, TypeOK
<1>4. RowBytes(0) = 0
  BY DEF RowBytes
<1>5. CounterInv /\ BandInv
  BY <1>2, <1>4 DEF Init, CounterInv, BandInv
<1> QED
  BY <1>3, <1>5 DEF EncoderInv

\* The operators of the geometry read variables that most steps keep.
LEMMA GeometryKept ==
  ASSUME UNCHANGED <<mode, height, bands, bytes>>
  PROVE  /\ \A w : RowBytes(w)' = RowBytes(w) /\ Stride(w)' = Stride(w)
         /\ \A b \in Bands : /\ ValidGeometry(b)' <=> ValidGeometry(b)
                            /\ WithinLimits(b)' <=> WithinLimits(b)
  BY DEF RowBytes, Stride, ValidGeometry, WithinLimits

\* An error leaves the counters alone and no band under way.
LEMMA BreaksKeepsEncoderInv ==
  ASSUME EncoderInv, Breaks, Keeps, file' \in Seq(Cells), pos' \in Nat
  PROVE  EncoderInv'
<1>1. UNCHANGED <<mode, ppm, width, stride, height, bands, bytes, band>>
  BY DEF Keeps, counters
<1>2. /\ plan' = <<>> /\ stage' \in {"open", "closed"}
      /\ poisoned' \in BOOLEAN /\ result' \in {"None", "Refused", "Ok", "Error", "Dropped"}
  BY DEF Breaks, Ends, EncoderInv, TypeOK
<1>3. plan' \in Seq(Writes)
  BY <1>2
<1>4. TypeOK'
  BY <1>1, <1>2, <1>3 DEF EncoderInv, TypeOK
<1>5. CounterInv'
  BY <1>1, GeometryKept DEF EncoderInv, CounterInv
<1>6. BandInv'
  BY <1>2 DEF BandInv
<1> QED
  BY <1>4, <1>5, <1>6 DEF EncoderInv

\* A call that succeeds moves the stream and the plan only.
LEMMA ProgressKeepsEncoderInv ==
  ASSUME EncoderInv, Keeps, UNCHANGED <<poisoned, stage, result>>,
         file' \in Seq(Cells), pos' \in Nat, plan' \in Seq(Writes)
  PROVE  EncoderInv'
<1>1. UNCHANGED <<mode, ppm, width, stride, height, bands, bytes, band>>
  BY DEF Keeps, counters
<1>2. TypeOK'
  BY <1>1 DEF EncoderInv, TypeOK
<1>3. CounterInv'
  BY <1>1, GeometryKept DEF EncoderInv, CounterInv
<1>4. BandInv'
  BY <1>1, GeometryKept DEF EncoderInv, BandInv
<1> QED
  BY <1>2, <1>3, <1>4 DEF EncoderInv

LEMMA StreamCallsKeepEncoderInv ==
  ASSUME EncoderInv, SeekCall \/ WriteCall
  PROVE  EncoderInv'
<1>1. plan # <<>> /\ plan \in Seq(Writes)
  BY DEF SeekCall, WriteCall, EncoderInv, TypeOK
<1>2. Head(plan) \in Writes /\ Tail(plan) \in Seq(Writes)
  BY <1>1
<1>3. Head(plan).cells \in Seq(Cells) /\ Head(plan).at \in Nat \cup {Here}
  BY <1>2 DEF Writes
<1>4. ASSUME NEW cells \in Seq(Cells) PROVE <<Put(cells)>> \o Tail(plan) \in Seq(Writes)
  <2>1. <<Put(cells)>> \in Seq(Writes)
    BY PutTyped
  <2> QED
    BY <2>1, <1>2
<1>5. CASE SeekCall
  <2>1. Keeps /\ UNCHANGED file /\ file' \in Seq(Cells)
    BY <1>5 DEF SeekCall, EncoderInv, TypeOK
  <2>2. CASE Breaks /\ UNCHANGED pos
    BY <2>1, <2>2, BreaksKeepsEncoderInv DEF EncoderInv, TypeOK
  <2>3. CASE /\ pos' = Head(plan).at
             /\ plan' = <<Put(Head(plan).cells)>> \o Tail(plan)
             /\ UNCHANGED <<poisoned, stage, result>>
    <3>1. pos' \in Nat
      BY <1>3, <1>5, <2>3 DEF SeekCall
    <3>2. plan' \in Seq(Writes)
      BY <1>3, <1>4, <2>3
    <3> QED
      BY <2>1, <2>3, <3>1, <3>2, ProgressKeepsEncoderInv
  <2> QED
    BY <1>5, <2>2, <2>3 DEF SeekCall
<1>6. CASE WriteCall
  <2>1. PICK n \in 0..Len(Head(plan).cells) : (n > 0 /\ WriteSome(n)) \/ WriteFails(n)
    BY <1>6 DEF WriteCall
  <2>2. Consumes(n) /\ Keeps
    BY <1>6, <2>1 DEF WriteCall, WriteSome, WriteFails
  <2>3. file' \in Seq(Cells) /\ pos' \in Nat
    BY <1>1, <2>2, ConsumesTyped DEF EncoderInv
  <2>4. CASE WriteFails(n)
    BY <2>2, <2>3, <2>4, BreaksKeepsEncoderInv DEF WriteFails
  <2>5. CASE WriteSome(n)
    <3> DEFINE rest == SubSeq(Head(plan).cells, n + 1, Len(Head(plan).cells))
    <3>1. rest \in Seq(Cells)
      BY <1>3
    <3>2. (IF rest = <<>> THEN <<>> ELSE <<Put(rest)>>) \o Tail(plan) \in Seq(Writes)
      <4>1. <<>> \o Tail(plan) \in Seq(Writes)
        BY <1>2
      <4>2. <<Put(rest)>> \o Tail(plan) \in Seq(Writes)
        BY <1>4, <3>1
      <4> QED
        BY <4>1, <4>2
    <3>3. plan' \in Seq(Writes) /\ UNCHANGED <<poisoned, stage, result>>
      BY <2>5, <3>2 DEF WriteSome
    <3> QED
      BY <2>2, <2>3, <3>3, ProgressKeepsEncoderInv
  <2> QED
    BY <2>1, <2>4, <2>5
<1> QED
  BY <1>5, <1>6

LEMMA AcceptedBandStarts ==
  ASSUME EncoderInv, NEW b \in Bands, Accepts(b)
  PROVE  /\ b.width \in Nat /\ b.width > 0 /\ b.rows \in Nat
         /\ HeaderPlan(b.width) \in Seq(Writes) /\ BandPlan(b) \in Seq(Writes)
<1>1. b.width \in Nat /\ b.rows \in Nat
  BY InputsAssumption DEF Bands
<1>2. b.width > 0
  BY <1>1, InputsAssumption DEF Accepts, ValidGeometry, Limits
<1> QED
  BY <1>1, <1>2, FixedPlansTyped, BandPlanTyped DEF EncoderInv

LEMMA NextKeepsEncoderInv == EncoderInv /\ [Next]_vars => EncoderInv'
<1> SUFFICES ASSUME EncoderInv, [Next]_vars PROVE EncoderInv'
  OBVIOUS
<1>1. MaxInt \in Nat /\ MaxPixelBytes \in Nat
  BY InputsAssumption DEF Limits
<1>2. CASE UNCHANGED vars
  <2>1. UNCHANGED <<mode, height, bands, bytes>>
    BY <1>2 DEF vars, counters
  <2> QED
    BY <1>2, <2>1, GeometryKept
       DEF EncoderInv, TypeOK, CounterInv, BandInv, vars, stream, counters
<1>3. CASE SeekCall \/ WriteCall
  BY <1>3, StreamCallsKeepEncoderInv
<1>4. ASSUME NEW dpi \in Dpis, New(dpi) PROVE EncoderInv'
  <2>1. /\ UNCHANGED <<file, mode, width, stride, height, bands, bytes, poisoned, band, plan>>
        /\ stage = "new" /\ stage' \in {"open", "closed"}
        /\ result' \in {result, "Refused"}
    BY <1>4 DEF New, Refused, Ends, counters
  <2>2. pos' \in Nat
    BY <1>4 DEF New, EncoderInv, TypeOK
  <2>3. ppm' \in 0..MaxInt
    <3>1. CASE UNCHANGED ppm
      BY <3>1 DEF EncoderInv, TypeOK
    <3>2. CASE ppm' = PixelsPerMetre(dpi) /\ PixelsPerMetre(dpi) <= MaxInt
      <4>1. dpi \in Nat
        BY InputsAssumption
      <4>2. PixelsPerMetre(dpi) \in Nat
        BY <4>1 DEF PixelsPerMetre
      <4> QED
        BY <1>1, <3>2, <4>2
    <3> QED
      BY <1>4, <3>1, <3>2 DEF New, Refused
  <2>4. TypeOK'
    BY <2>1, <2>2, <2>3 DEF EncoderInv, TypeOK
  <2>5. CounterInv' /\ BandInv'
    BY <2>1, GeometryKept DEF EncoderInv, CounterInv, BandInv
  <2> QED
    BY <2>4, <2>5 DEF EncoderInv
<1>5. ASSUME NEW b \in Bands, Push(b) PROVE EncoderInv'
  <2>1. /\ UNCHANGED <<file, pos, mode, ppm, width, stride, height, bands, bytes, result>>
        /\ band' = b /\ stage = "open"
    BY <1>5 DEF Push, stream, counters
  <2>2. CounterInv'
    BY <2>1, GeometryKept DEF EncoderInv, CounterInv
  <2>3. CASE poisoned' = TRUE /\ UNCHANGED <<stage, plan>>
    BY <2>1, <2>2, <2>3 DEF EncoderInv, TypeOK, BandInv
  <2>4. CASE Accepts(b) /\ UNCHANGED poisoned
             /\ \/ width = 0 /\ stage' = "header" /\ plan' = HeaderPlan(b.width)
                \/ width # 0 /\ stage' = "rows" /\ plan' = BandPlan(b)
    <3>1. plan' \in Seq(Writes)
      BY <2>4, AcceptedBandStarts
    <3>2. TypeOK'
      BY <2>1, <2>4, <3>1 DEF EncoderInv, TypeOK
    <3>3. (ValidGeometry(b) /\ WithinLimits(b))'
      BY <2>1, <2>4, GeometryKept DEF Accepts
    <3>4. BandInv'
      BY <2>1, <2>4, <3>3 DEF BandInv, Accepts
    <3> QED
      BY <2>2, <3>2, <3>4 DEF EncoderInv
  <2> QED
    BY <1>5, <2>3, <2>4 DEF Push
<1>6. CASE HeaderDone
  <2>1. /\ UNCHANGED <<file, pos, mode, ppm, height, bands, bytes, poisoned, band, result>>
        /\ stage = "header" /\ stage' = "rows"
        /\ width' = band.width /\ stride' = Stride(band.width) /\ plan' = BandPlan(band)
    BY <1>6 DEF HeaderDone, stream
  <2>2. /\ band \in Bands /\ ValidGeometry(band) /\ WithinLimits(band)
        /\ width = 0 /\ height = 0 /\ mode \in Modes
    BY <2>1 DEF EncoderInv, BandInv, CounterInv, TypeOK
  <2>3. Accepts(band)
    BY <2>2 DEF Accepts
  <2>4. /\ band.width \in Nat /\ band.width > 0
        /\ Stride(band.width) \in Nat /\ plan' \in Seq(Writes)
    BY <2>1, <2>2, <2>3, AcceptedBandStarts, StrideBounds
  <2>5. TypeOK'
    BY <2>1, <2>4 DEF EncoderInv, TypeOK
  <2>6. CounterInv'
    <3>1. RowBytes(band.width) \in Nat /\ RowBytes(band.width) > 0 /\ RowBytes(0) \in Nat
      BY <2>2, <2>4, RowBytesNat
    <3>2. bytes = 0
      BY <2>2, <3>1 DEF EncoderInv, CounterInv, RowBytes
    <3>3. bytes <= MaxPixelBytes
      BY DEF EncoderInv, CounterInv
    <3> QED
      BY <2>1, <2>2, <2>4, <3>1, <3>2, <3>3, GeometryKept DEF CounterInv
  <2>7. BandInv'
    BY <2>1, <2>2, GeometryKept DEF BandInv
  <2> QED
    BY <2>5, <2>6, <2>7 DEF EncoderInv
<1>7. CASE BandDone
  <2>1. /\ UNCHANGED <<file, pos, mode, ppm, width, stride, poisoned, band, plan, result>>
        /\ stage = "rows" /\ stage' = "open"
        /\ height' = height + band.rows /\ bands' = bands + 1
        /\ bytes' = bytes + RowBytes(band.width) * band.rows
    BY <1>7 DEF BandDone, stream
  <2>2. /\ band \in Bands /\ WithinLimits(band) /\ width = band.width
        /\ mode \in Modes /\ height \in Nat /\ bytes \in Nat /\ bands \in Nat
        /\ bytes = RowBytes(width) * height
        /\ width # 0 => stride = Stride(width) /\ RowBytes(width) > 0
    BY <2>1 DEF EncoderInv, BandInv, CounterInv, TypeOK
  <2>3. band.rows \in Nat /\ band.width \in Nat /\ band.width > 0
    BY <2>1, <2>2, InputsAssumption DEF EncoderInv, BandInv, ValidGeometry, Bands, Limits
  <2>4. RowBytes(width) \in Nat
    BY <2>2, <2>3, RowBytesNat
  <2>5. RowBytes(width) * band.rows \in Nat
    BY <2>3, <2>4
  <2>6. bytes' = RowBytes(width) * height'
    BY <2>1, <2>2, <2>3, <2>4
  <2>7. TypeOK'
    <3>1. height' \in Nat /\ bands' \in Nat /\ bytes' \in Nat
      BY <2>1, <2>2, <2>3, <2>5
    <3> QED
      BY <2>1, <3>1 DEF EncoderInv, TypeOK
  <2>8. bytes' <= MaxPixelBytes
    BY <2>1, <2>2 DEF WithinLimits
  <2>9. RowBytes(width)' = RowBytes(width) /\ Stride(width)' = Stride(width)
    BY <2>1 DEF RowBytes, Stride
  <2>10. width' # 0 /\ width' = width
    BY <2>1, <2>2, <2>3
  <2>11. CounterInv'
    BY <2>1, <2>2, <2>6, <2>8, <2>9, <2>10 DEF CounterInv
  <2>12. BandInv'
    BY <2>1 DEF BandInv
  <2> QED
    BY <2>7, <2>11, <2>12 DEF EncoderInv
<1>8. ASSUME NEW agrees \in BOOLEAN, Finish(agrees) PROVE EncoderInv'
  <2>1. /\ UNCHANGED <<file, pos, mode, ppm, width, stride, height, bands, bytes, poisoned, band>>
        /\ stage' \in {"closed", "finish"} /\ result' \in {result, "Error"}
        /\ plan' = plan \/ plan' = FinishPlan
    BY <1>8 DEF Finish, Ends, stream, counters
  <2>2. plan' \in Seq(Writes)
    BY <2>1, FixedPlansTyped DEF EncoderInv, TypeOK
  <2>3. TypeOK'
    BY <2>1, <2>2 DEF EncoderInv, TypeOK
  <2>4. CounterInv' /\ BandInv'
    BY <2>1, GeometryKept DEF EncoderInv, CounterInv, BandInv
  <2> QED
    BY <2>3, <2>4 DEF EncoderInv
<1>9. CASE FinishDone \/ Dropped
  <2>1. /\ UNCHANGED <<file, pos, mode, ppm, width, stride, height, bands, bytes, poisoned, band, plan>>
        /\ stage' = "closed" /\ result' \in {"Ok", "Dropped"}
    BY <1>9 DEF FinishDone, Dropped, Ends, stream, counters
  <2>2. TypeOK'
    BY <2>1 DEF EncoderInv, TypeOK
  <2>3. CounterInv' /\ BandInv'
    BY <2>1, GeometryKept DEF EncoderInv, CounterInv, BandInv
  <2> QED
    BY <2>2, <2>3 DEF EncoderInv
<1> QED
  BY <1>2, <1>3, <1>4, <1>5, <1>6, <1>7, <1>8, <1>9 DEF Next

LEMMA EncoderInvariant == Spec => []EncoderInv
  BY InitEstablishesEncoderInv, NextKeepsEncoderInv, PTL DEF Spec

-------------------------------------------------------------------------------
\* The type invariant of the encoder and of the stream it writes.
THEOREM EncoderTypeCorrect == Spec => []TypeOK
<1>1. EncoderInv => TypeOK
  BY DEF EncoderInv
<1> QED
  BY <1>1, EncoderInvariant, PTL

\* Any image push() has accepted - rows of any width, padded to four bytes, in any number
\* of bands - has a size that the 32-bit fields finish() writes can hold.
THEOREM AcceptedSizesFit == Spec => []SizesFit
<1>1. EncoderInv => SizesFit
  <2> SUFFICES ASSUME EncoderInv PROVE SizesFit
    OBVIOUS
  <2> USE DEF EncoderInv
  <2>1. /\ mode \in Modes /\ width \in Nat /\ height \in Nat /\ bytes \in Nat
        /\ MaxPixelBytes \in Nat /\ MaxFileSize \in Nat
    BY InputsAssumption DEF TypeOK, Limits
  <2>2. RowBytes(width) \in Nat /\ Stride(width) \in Nat
    BY <2>1, RowBytesNat, StrideBounds
  <2>3. stride \in Nat /\ stride * height <= 4 * MaxPixelBytes
    <3>1. CASE width = 0
      <4>1. stride = 0 /\ height = 0
        BY <3>1 DEF CounterInv
      <4> QED
        BY <2>1, <4>1
    <3>2. CASE width # 0
      <4>1. stride = Stride(width) /\ Stride(width) <= 4 * RowBytes(width)
        BY <2>1, <3>2, StrideBounds DEF CounterInv
      <4>2. stride * height <= (4 * RowBytes(width)) * height
        BY <2>1, <2>2, <4>1, ProductGrows
      <4>3. (4 * RowBytes(width)) * height = 4 * (RowBytes(width) * height)
        BY <2>1, <2>2
      <4>4. bytes = RowBytes(width) * height /\ bytes <= MaxPixelBytes
        BY DEF CounterInv
      <4> QED
        BY <2>1, <2>2, <4>1, <4>2, <4>3, <4>4
    <3> QED
      BY <3>1, <3>2
  <2>4. PixelOffset(mode) \in Nat /\ PixelOffset(mode) <= PixelOffset("Gray")
        /\ PixelOffset("Gray") \in Nat
    BY <2>1 DEF PixelOffset, HeaderCells, Modes
  <2>5. stride * height \in Nat
    BY <2>1, <2>3
  <2> HIDE DEF EncoderInv
  <2> QED
    BY <2>1, <2>3, <2>4, <2>5, FileFitsAssumption DEF SizesFit, FileSize
<1> QED
  BY <1>1, EncoderInvariant, PTL

-------------------------------------------------------------------------------
(* WHAT THE STREAM HOLDS *)

SignatureStart == Cell("B", 0, 0)

\* The cell the encoder puts at an index of the file: a cell of the header, which is
\* neither foreign nor the start of a signature, or the cell of a pixel.
Belongs(i, c) ==
    IF i > PixelOffset(mode) THEN c = PixelCell(i - PixelOffset(mode) - 1)
    ELSE c \notin {Foreign, SignatureStart}

InPlace == \A i \in 1..Len(file) : Belongs(i, file[i])
Fresh == file # <<>> => file[1] \notin {Foreign, SignatureStart}

\* A plan laid out over the file: start[k] cells precede its write k.
Placed(writes, start) ==
    /\ start \in [1..(Len(writes) + 1) -> Nat]
    /\ \A k \in 1..Len(writes) : start[k + 1] = start[k] + Len(writes[k].cells)

Lays(writes, start, i, c) ==
    \E k \in 1..Len(writes) : \E j \in 1..Len(writes[k].cells) :
        i = start[k] + j /\ c = writes[k].cells[j]

\* The plan of push() continues the file to its end, each cell where it belongs.
Appends(end) ==
    /\ pos = Len(file) /\ InPlace
    /\ \E start :
        /\ Placed(plan, start) /\ start[1] = pos /\ start[Len(plan) + 1] = end
        /\ \A k \in 1..Len(plan) : plan[k].at = Here \/ (k = 1 /\ plan[k].at = pos)
        /\ \A i, c : Lays(plan, start, i, c) => Belongs(i, c)

\* The plan of finish(): the fields it fills in and then the signature.
FieldAt == <<FileSizeAt, HeightAt, ImageSizeAt>>

Field == <<Cell("size", FileSize, 0), Cell("height", -height, 0), Cell("size", stride * height, 0)>>

\* The fields before write k are filled in.
Filled(k) == \A d \in 1..3 : d < k => file[FieldAt[d] + 1] = Field[d]

\* Write k comes next: with its seek still to do, or without, or half done.
Reached(k) ==
    /\ Filled(k) /\ plan # <<>> /\ Tail(plan) = SubSeq(FinishPlan, k + 1, 4)
    /\ \/ file[1] # SignatureStart /\ Head(plan) = FinishPlan[k]
       \/ file[1] # SignatureStart /\ Head(plan) = Put(FinishPlan[k].cells) /\ pos = FinishPlan[k].at
       \/ k = 4 /\ Head(plan) = Put(<<Cell("M", 0, 0)>>) /\ pos = 1

Framed == height > 0 /\ Len(file) = FileSize /\ RowsInPlace /\ file[1] # Foreign

Finishing == Framed /\ ((\E k \in 1..4 : Reached(k)) \/ (plan = <<>> /\ Filled(4)))

FileInv ==
    /\ stage \in {"new", "open", "closed"} => plan = <<>>
    /\ stage \in {"new", "header", "rows", "finish"} => ~poisoned
    /\ stage = "new" => file \in {<<>>, <<Foreign>>} /\ pos <= Len(file) /\ width = 0
    /\ stage = "open" => Fresh
    /\ stage = "open" /\ ~poisoned =>
        /\ pos = Len(file) /\ InPlace /\ (width = 0 <=> height = 0)
        /\ Len(file) = IF height = 0 THEN 0 ELSE FileSize
    /\ stage = "header" => Appends(PixelOffset(mode))
    /\ stage = "rows" => Appends(PixelOffset(mode) + stride * (height + band.rows))
    /\ stage = "finish" => Finishing
    /\ stage = "closed" => SignedIsWhole
-------------------------------------------------------------------------------
\* One call over the cells of the file: past its end it appends, inside it replaces.
LEMMA OverwrittenIs ==
  ASSUME file \in Seq(Cells), pos \in Nat, NEW cells \in Seq(Cells), pos <= Len(file)
  PROVE  LET over == Overwritten(cells)
         IN /\ Len(over) = IF pos + Len(cells) > Len(file) THEN pos + Len(cells) ELSE Len(file)
            /\ Len(over) \in Nat
            /\ \A i \in 1..Len(over) :
                 over[i] = IF i \in (pos + 1)..(pos + Len(cells)) THEN cells[i - pos] ELSE file[i]
<1> DEFINE over == Overwritten(cells)
           last == IF pos + Len(cells) > Len(file) THEN pos + Len(cells) ELSE Len(file)
<1>1. Len(cells) \in Nat /\ Len(file) \in Nat /\ last \in Nat
  OBVIOUS
<1>2. over = [i \in 1..last |-> IF i \in (pos + 1)..(pos + Len(cells)) THEN cells[i - pos]
                                ELSE IF i <= Len(file) THEN file[i] ELSE Blank]
  BY DEF Overwritten
<1>3. Len(over) = last
  <2> HIDE DEF last, over
  <2> QED
    BY <1>1, <1>2
<1>4. ASSUME NEW i \in 1..last
      PROVE  over[i] = IF i \in (pos + 1)..(pos + Len(cells)) THEN cells[i - pos] ELSE file[i]
  <2>1. i \in (pos + 1)..(pos + Len(cells)) \/ i <= Len(file)
    BY <1>1
  <2> HIDE DEF last, over
  <2> QED
    BY <1>2, <2>1
<1> QED
  BY <1>1, <1>3, <1>4

\* A file of cells in their places does not begin like a BMP.
LEMMA InPlaceIsFresh == TypeOK /\ InPlace => Fresh
<1> SUFFICES ASSUME TypeOK, InPlace, file # <<>> PROVE file[1] \notin {Foreign, SignatureStart}
  BY DEF Fresh
<1>1. file \in Seq(Cells)
  BY DEF TypeOK
<1>2. 1 \in 1..Len(file)
  BY <1>1
<1>3. ~(1 > PixelOffset(mode))
  BY DEF PixelOffset, HeaderCells
<1> QED
  BY <1>2, <1>3 DEF InPlace, Belongs

LEMMA FreshIsUnsigned ==
  ASSUME file \in Seq(Cells), file # <<>> => file[1] # SignatureStart
  PROVE  ~Signed
<1> SUFFICES ASSUME Signed PROVE FALSE
  OBVIOUS
<1>1. Len(file) >= 2 /\ SubSeq(file, 1, 2) = Signature
  BY DEF Signed
<1>2. SubSeq(file, 1, 2)[1] = file[1]
  BY <1>1
<1>3. Signature[1] = SignatureStart
  BY DEF Signature, SignatureStart
<1>4. file # <<>>
  BY <1>1
<1> QED
  BY <1>1, <1>2, <1>3, <1>4

-------------------------------------------------------------------------------
\* What is left of a sequence, element by element.
LEMMA TailIs ==
  ASSUME NEW S, NEW s \in Seq(S), NEW n, n = Len(s), s # <<>>
  PROVE  /\ n \in Nat /\ n > 0 /\ Tail(s) \in Seq(S) /\ Len(Tail(s)) = n - 1
         /\ \A k \in 1..(n - 1) : Tail(s)[k] = s[k + 1]
OBVIOUS

LEMMA DropIs ==
  ASSUME NEW S, NEW s \in Seq(S), NEW m \in Nat, m = Len(s), NEW n \in 1..m, n < m
  PROVE  LET r == SubSeq(s, n + 1, m)
         IN /\ r \in Seq(S) /\ Len(r) = m - n /\ r # <<>>
            /\ \A j \in 1..(m - n) : r[j] = s[n + j]
<1> DEFINE r == SubSeq(s, n + 1, m)
<1>1. /\ m \in Int /\ n + 1 \in Int /\ n + 1 <= m /\ m - (n + 1) + 1 = m - n /\ m - n > 0
      /\ \A j \in 1..(m - n) : (n + 1) + j - 1 = n + j
  OBVIOUS
<1>2. \A i \in (n + 1)..m : s[i] \in S
  OBVIOUS
<1>3. /\ r \in Seq(S) /\ Len(r) = m - (n + 1) + 1
      /\ \A j \in 1..(m - (n + 1) + 1) : r[j] = s[(n + 1) + j - 1]
  BY <1>1, <1>2, SubSeqProperties
<1> HIDE DEF r
<1>4. Len(r) = m - n /\ \A j \in 1..(m - n) : r[j] = s[n + j]
  BY <1>1, <1>3
<1>5. r # <<>>
  <2>1. Len(<<>>) = 0
    OBVIOUS
  <2> QED
    BY <1>1, <1>4, <2>1
<1> QED
  BY <1>3, <1>4, <1>5 DEF r

LEMMA FirstTwo ==
  ASSUME NEW S, NEW s \in Seq(S), Len(s) >= 2
  PROVE  SubSeq(s, 1, 2) = <<s[1], s[2]>>
<1> DEFINE t == SubSeq(s, 1, 2)  u == <<s[1], s[2]>>
<1>1. s[1] \in S /\ s[2] \in S
  OBVIOUS
<1>2. \A i \in 1..2 : s[i] \in S
  BY <1>1
<1>3. t \in Seq(S) /\ Len(t) = 2 /\ t[1] = s[1] /\ t[2] = s[2]
  OBVIOUS
<1>4. u \in Seq(S) /\ Len(u) = 2 /\ u[1] = s[1] /\ u[2] = s[2]
  BY <1>1
<1> HIDE DEF t, u
<1>5. \A i \in 1..2 : t[i] = u[i]
  <2>1. \A i \in 1..2 : i = 1 \/ i = 2
    OBVIOUS
  <2> QED
    BY <1>3, <1>4, <2>1
<1>6. t = u
  BY <1>3, <1>4, <1>5, SeqEqual
<1> QED
  BY <1>6 DEF t, u

LEMMA ConsIs ==
  ASSUME NEW S, NEW s \in Seq(S), NEW n, n = Len(s), NEW x \in S, NEW r, r = <<x>> \o s
  PROVE  /\ r \in Seq(S) /\ Len(r) = n + 1 /\ r[1] = x
         /\ \A k \in 2..(n + 1) : r[k] = s[k - 1]
OBVIOUS
\* A plan from which the first n cells are taken is laid out where it was.
LEMMA TakenFromPlan ==
  ASSUME NEW writes \in Seq(Writes), writes # <<>>, NEW start, Placed(writes, start),
         NEW n \in 1..Len(Head(writes).cells)
  PROVE  LET rest == SubSeq(Head(writes).cells, n + 1, Len(Head(writes).cells))
             next == (IF rest = <<>> THEN <<>> ELSE <<Put(rest)>>) \o Tail(writes)
         IN \E t : /\ Placed(next, t)
                   /\ t[1] = start[1] + n /\ t[Len(next) + 1] = start[Len(writes) + 1]
                   /\ \A i, c : Lays(next, t, i, c) => Lays(writes, start, i, c)
<1> DEFINE rest == SubSeq(Head(writes).cells, n + 1, Len(Head(writes).cells))
           next == (IF rest = <<>> THEN <<>> ELSE <<Put(rest)>>) \o Tail(writes)
<1>0. /\ rest = SubSeq(Head(writes).cells, n + 1, Len(Head(writes).cells))
      /\ next = (IF rest = <<>> THEN <<>> ELSE <<Put(rest)>>) \o Tail(writes)
  OBVIOUS
<1> SUFFICES \E t : /\ Placed(next, t)
                    /\ t[1] = start[1] + n /\ t[Len(next) + 1] = start[Len(writes) + 1]
                    /\ \A i, c : Lays(next, t, i, c) => Lays(writes, start, i, c)
  OBVIOUS
<1> HIDE DEF rest, next
<1> DEFINE cells == writes[1].cells  size == Len(cells)  last == Len(writes)  from == start[1]
<1>1. /\ Head(writes) = writes[1] /\ writes[1] \in Writes
      /\ cells \in Seq(Cells) /\ size \in Nat /\ size = Len(cells)
  <2>1. Head(writes) = writes[1] /\ writes[1] \in Writes
    OBVIOUS
  <2>2. writes[1].cells \in Seq(Cells)
    BY <2>1 DEF Writes
  <2> QED
    BY <2>1, <2>2
<1>2. /\ last \in Nat /\ last > 0 /\ last = Len(writes)
      /\ Tail(writes) \in Seq(Writes) /\ Len(Tail(writes)) = last - 1
      /\ \A k \in 1..(last - 1) : Tail(writes)[k] = writes[k + 1]
  <2>1. last = Len(writes)
    OBVIOUS
  <2> HIDE DEF last
  <2> QED
    BY <2>1, TailIs
<1>3. n \in 1..size /\ rest = SubSeq(cells, n + 1, size)
  BY <1>0, <1>1
<1>4. /\ start \in [1..(last + 1) -> Nat]
      /\ \A k \in 1..last : start[k + 1] = start[k] + Len(writes[k].cells)
  BY DEF Placed
<1>5. from \in Nat /\ start[1] = from /\ start[2] = from + size
  BY <1>1, <1>2, <1>4
<1>6. \A i, c : Lays(writes, start, i, c)
                  <=> \E k \in 1..last : \E j \in 1..Len(writes[k].cells) :
                        i = start[k] + j /\ c = writes[k].cells[j]
  BY DEF Lays
<1>7. \A j : j \in 1..size => j \in 1..Len(writes[1].cells) /\ writes[1].cells[j] = cells[j]
  BY DEF cells, size
<1> HIDE DEF cells, size, last, from
<1>8. CASE n = size
  <2>1. rest = <<>>
    BY <1>3, <1>8, SubSeqEmpty
  <2>2. next = Tail(writes)
    BY <1>0, <1>2, <2>1, ConcatEmptySeq
  <2>3. last - 1 \in Nat /\ Len(next) = last - 1
    BY <1>2, <2>2
  <2>4. \A k \in 1..(last - 1) : next[k] = writes[k + 1]
    BY <1>2, <2>2
  <2> DEFINE t == [k \in 1..last |-> start[k + 1]]
  <2>5. /\ t \in [1..last -> Nat] /\ \A k \in 1..last : t[k] = start[k + 1]
    BY <1>2, <1>4
  <2> HIDE DEF t
  <2>6. Placed(next, t)
    <3>1. ASSUME NEW k \in 1..(last - 1) PROVE t[k + 1] = t[k] + Len(next[k].cells)
      <4>1. k + 1 \in 1..last /\ k \in 1..last
        BY <1>2
      <4>2. start[(k + 1) + 1] = start[k + 1] + Len(writes[k + 1].cells)
        BY <1>4, <4>1
      <4>3. t[k + 1] = start[(k + 1) + 1] /\ t[k] = start[k + 1]
        BY <2>5, <4>1
      <4> QED
        BY <2>4, <4>2, <4>3
    <3>2. (last - 1) + 1 = last
      BY <1>2
    <3> QED
      BY <2>3, <2>5, <3>1, <3>2 DEF Placed
  <2>7. t[1] = start[1] + n /\ t[Len(next) + 1] = start[Len(writes) + 1]
    <3>1. t[1] = start[2] /\ t[last] = start[last + 1] /\ (last - 1) + 1 = last
      BY <1>2, <2>5
    <3> QED
      BY <1>2, <1>5, <1>8, <2>3, <3>1
  <2>8. ASSUME NEW i, NEW c, Lays(next, t, i, c) PROVE Lays(writes, start, i, c)
    <3>1. PICK k \in 1..(last - 1) :
            \E j \in 1..Len(next[k].cells) : i = t[k] + j /\ c = next[k].cells[j]
      BY <2>3, <2>8 DEF Lays
    <3>2. /\ k + 1 \in 1..last /\ k \in 1..last
      BY <1>2
    <3>3. \E j \in 1..Len(writes[k + 1].cells) : i = start[k + 1] + j /\ c = writes[k + 1].cells[j]
      BY <2>4, <2>5, <3>1, <3>2
    <3> QED
      BY <1>6, <3>2, <3>3
  <2> QED
    BY <2>6, <2>7, <2>8
<1>9. CASE n < size
  <2>1. /\ rest \in Seq(Cells) /\ Len(rest) = size - n /\ rest # <<>>
        /\ \A j \in 1..(size - n) : rest[j] = cells[n + j]
    <3>1. cells \in Seq(Cells) /\ size \in Nat /\ size = Len(cells) /\ n \in 1..size /\ n < size
      BY <1>1, <1>3, <1>9
    <3>2. LET r == SubSeq(cells, n + 1, size)
          IN /\ r \in Seq(Cells) /\ Len(r) = size - n /\ r # <<>>
             /\ \A j \in 1..(size - n) : r[j] = cells[n + j]
      BY <3>1, DropIs
    <3> QED
      BY <1>3, <3>2
  <2>2. /\ next = <<Put(rest)>> \o Tail(writes) /\ Put(rest) \in Writes /\ Put(rest).cells = rest
    BY <1>0, <2>1, PutTyped DEF Put
  <2>3. Len(next) = last /\ next[1].cells = rest /\ \A k \in 2..last : next[k] = writes[k]
    <3> DEFINE m == last - 1
    <3>1. m \in Nat /\ m + 1 = last /\ m = Len(Tail(writes))
      BY <1>2
    <3>2. \A k \in 2..last : k - 1 \in 1..m /\ (k - 1) + 1 = k
      BY <1>2
    <3>3. \A k \in 1..m : Tail(writes)[k] = writes[k + 1]
      BY <1>2
    <3> HIDE DEF m
    <3>4. Len(next) = m + 1 /\ next[1] = Put(rest) /\ \A k \in 2..(m + 1) : next[k] = Tail(writes)[k - 1]
      BY <1>2, <2>2, <3>1, ConsIs
    <3>5. ASSUME NEW k \in 2..last PROVE next[k] = writes[k]
      BY <3>1, <3>2, <3>3, <3>4
    <3> QED
      BY <2>2, <3>1, <3>4, <3>5
  <2> DEFINE t == [k \in 1..(last + 1) |-> IF k = 1 THEN from + n ELSE start[k]]
  <2>4. /\ t \in [1..(last + 1) -> Nat] /\ t[1] = from + n
        /\ \A k \in 2..(last + 1) : t[k] = start[k]
    BY <1>2, <1>3, <1>4, <1>5
  <2> HIDE DEF t
  <2>5. Placed(next, t)
    <3>1. ASSUME NEW k \in 1..last PROVE t[k + 1] = t[k] + Len(next[k].cells)
      <4>1. CASE k = 1
        <5>1. t[2] = from + size
          BY <1>2, <1>5, <2>4
        <5>2. from + size = (from + n) + (size - n)
          BY <1>1, <1>3, <1>5
        <5>3. Len(next[1].cells) = size - n
          BY <2>1, <2>3
        <5>4. t[k + 1] = t[2] /\ t[k] = t[1] /\ next[k] = next[1]
          BY <4>1
        <5> QED
          BY <2>4, <5>1, <5>2, <5>3, <5>4
      <4>2. CASE k # 1
        <5>1. k \in 2..last /\ k \in 2..(last + 1) /\ k + 1 \in 2..(last + 1)
          BY <4>2, <1>2
        <5> QED
          BY <1>4, <2>3, <2>4, <5>1
      <4> QED
        BY <4>1, <4>2
    <3> QED
      BY <2>3, <2>4, <3>1 DEF Placed
  <2>6. t[1] = start[1] + n /\ t[Len(next) + 1] = start[Len(writes) + 1]
    BY <1>2, <1>5, <2>3, <2>4
  <2>7. ASSUME NEW i, NEW c, Lays(next, t, i, c) PROVE Lays(writes, start, i, c)
    <3>1. PICK k \in 1..last :
            \E j \in 1..Len(next[k].cells) : i = t[k] + j /\ c = next[k].cells[j]
      BY <2>3, <2>7 DEF Lays
    <3>2. CASE k = 1
      <4>1. PICK j \in 1..(size - n) : i = (from + n) + j /\ c = rest[j]
        BY <3>1, <3>2, <2>1, <2>3, <2>4
      <4>2. (from + n) + j = from + (n + j) /\ n + j \in 1..size
        BY <1>1, <1>3, <1>5
      <4>3. i = start[1] + (n + j) /\ c = cells[n + j]
        BY <1>5, <2>1, <4>1, <4>2
      <4>4. \E m \in 1..Len(writes[1].cells) : i = start[1] + m /\ c = writes[1].cells[m]
        BY <1>7, <4>2, <4>3
      <4> QED
        BY <1>2, <1>6, <4>4
    <3>3. CASE k # 1
      <4>1. k \in 2..last /\ k \in 2..(last + 1)
        BY <3>3, <1>2
      <4>2. \E j \in 1..Len(writes[k].cells) : i = start[k] + j /\ c = writes[k].cells[j]
        BY <3>1, <4>1, <2>3, <2>4
      <4> QED
        BY <1>6, <4>2
    <3> QED
      BY <3>2, <3>3
  <2> QED
    BY <2>5, <2>6, <2>7
<1>10. n = size \/ n < size
  BY <1>1, <1>3
<1> QED
  BY <1>8, <1>9, <1>10

\* After its first write a plan goes on without a seek.
LEMMA TakenStaysHere ==
  ASSUME NEW writes \in Seq(Writes), writes # <<>>,
         \A k \in 1..Len(writes) : k # 1 => writes[k].at = Here,
         NEW rest \in Seq(Cells), NEW next,
         next \in {<<>> \o Tail(writes), <<Put(rest)>> \o Tail(writes)}
  PROVE  \A k \in 1..Len(next) : next[k].at = Here
<1> DEFINE last == Len(writes)
<1>1. last = Len(writes)
  OBVIOUS
<1> HIDE DEF last
<1>2. /\ last \in Nat /\ last > 0
      /\ Tail(writes) \in Seq(Writes) /\ Len(Tail(writes)) = last - 1
      /\ \A k \in 1..(last - 1) : Tail(writes)[k] = writes[k + 1]
  BY <1>1, TailIs
<1>3. \A k \in 1..(last - 1) : k + 1 \in 1..last /\ k + 1 # 1
  BY <1>2
<1>4. \A k \in 1..(last - 1) : Tail(writes)[k].at = Here
  BY <1>1, <1>2, <1>3
<1>5. CASE next = <<>> \o Tail(writes)
  <2>1. next = Tail(writes)
    BY <1>2, <1>5, ConcatEmptySeq
  <2> QED
    BY <1>2, <1>4, <2>1
<1>6. CASE next = <<Put(rest)>> \o Tail(writes)
  <2> DEFINE m == last - 1
  <2>1. m \in Nat /\ m + 1 = last /\ m = Len(Tail(writes)) /\ \A k \in 2..last : k - 1 \in 1..m
    BY <1>2
  <2>2. \A k \in 1..m : Tail(writes)[k].at = Here
    BY <1>4
  <2> HIDE DEF m
  <2>3. Put(rest) \in Writes /\ Put(rest).at = Here
    BY PutTyped DEF Put
  <2>4. Len(next) = m + 1 /\ next[1] = Put(rest) /\ \A k \in 2..(m + 1) : next[k] = Tail(writes)[k - 1]
    BY <1>2, <1>6, <2>1, <2>3, ConsIs
  <2>5. ASSUME NEW k \in 1..last PROVE next[k].at = Here
    <3>1. CASE k = 1
      BY <2>3, <2>4, <3>1
    <3>2. CASE k # 1
      <4>1. k \in 2..last /\ k - 1 \in 1..m
        BY <1>2, <2>1, <3>2
      <4> QED
        BY <2>1, <2>2, <2>4, <4>1
    <3> QED
      BY <3>1, <3>2
  <2> QED
    BY <2>1, <2>4, <2>5
<1> QED
  BY <1>5, <1>6

\* A seek changes nothing about where the writes lie.
LEMMA SoughtPlan ==
  ASSUME NEW writes \in Seq(Writes), writes # <<>>, NEW start,
         NEW next, next = <<Put(Head(writes).cells)>> \o Tail(writes)
  PROVE  /\ Len(next) = Len(writes)
         /\ Placed(writes, start) => Placed(next, start)
         /\ \A i, c : Lays(next, start, i, c) => Lays(writes, start, i, c)
<1> DEFINE last == Len(writes)  m == last - 1  head == Put(Head(writes).cells)
<1>1. last = Len(writes)
  OBVIOUS
<1>2. /\ Head(writes) = writes[1] /\ Head(writes) \in Writes
  OBVIOUS
<1>3. head \in Writes /\ head.cells = writes[1].cells
  <2>1. Head(writes).cells \in Seq(Cells)
    BY <1>2 DEF Writes
  <2> QED
    BY <1>2, <2>1, PutTyped DEF Put
<1> HIDE DEF last, head
<1>4. /\ last \in Nat /\ last > 0
      /\ Tail(writes) \in Seq(Writes) /\ Len(Tail(writes)) = last - 1
      /\ \A k \in 1..(last - 1) : Tail(writes)[k] = writes[k + 1]
  BY <1>1, TailIs
<1>5. m \in Nat /\ m + 1 = last /\ m = Len(Tail(writes))
      /\ \A k \in 2..last : k - 1 \in 1..m /\ (k - 1) + 1 = k
  BY <1>4
<1>6. \A k \in 1..m : Tail(writes)[k] = writes[k + 1]
  BY <1>4
<1> HIDE DEF m
<1>7. Len(next) = m + 1 /\ next[1] = head /\ \A k \in 2..(m + 1) : next[k] = Tail(writes)[k - 1]
  <2>1. next = <<head>> \o Tail(writes)
    BY DEF head
  <2> QED
    BY <1>3, <1>4, <1>5, <2>1, ConsIs
<1>8. ASSUME NEW k \in 1..last PROVE next[k].cells = writes[k].cells
  <2>1. CASE k = 1
    BY <1>3, <1>7, <2>1
  <2>2. CASE k # 1
    <3>1. k \in 2..last
      BY <1>4, <2>2
    <3>2. next[k] = writes[k]
      BY <1>5, <1>6, <1>7, <3>1
    <3> QED
      BY <3>2
  <2> QED
    BY <2>1, <2>2
<1>9. Len(next) = last
  BY <1>5, <1>7
<1>10. Placed(writes, start) => Placed(next, start)
  BY <1>1, <1>8, <1>9 DEF Placed
<1>11. \A i, c : Lays(next, start, i, c) => Lays(writes, start, i, c)
  BY <1>1, <1>8, <1>9 DEF Lays
<1> QED
  BY <1>1, <1>9, <1>10, <1>11

\* A call that consumes n cells at the end of the file appends them where they belong.
LEMMA AppendedInPlace ==
  ASSUME TypeOK, NEW end, Appends(end), plan # <<>>, Head(plan).at = Here,
         NEW n \in 0..Len(Head(plan).cells), Consumes(n),
         UNCHANGED <<mode, width, stride>>
  PROVE  /\ InPlace' /\ file' \in Seq(Cells) /\ Len(file') = pos + n /\ pos' = pos + n
<1> DEFINE cells == SubSeq(Head(plan).cells, 1, n)
<1>1. /\ Head(plan) = plan[1] /\ plan[1] \in Writes /\ Len(plan) \in Nat /\ 1 \in 1..Len(plan)
  BY DEF TypeOK
<1>2. Head(plan).cells \in Seq(Cells) /\ file \in Seq(Cells) /\ pos \in Nat /\ pos = Len(file)
  BY <1>1 DEF TypeOK, Writes, Appends
<1>3. cells \in Seq(Cells) /\ Len(cells) = n /\ n \in Nat
  BY <1>2
<1>4. \A j \in 1..n : cells[j] = Head(plan).cells[j] /\ j \in 1..Len(Head(plan).cells)
  BY <1>2
<1> HIDE DEF cells
<1>5. file' = Overwritten(cells) /\ pos' = pos + n
  BY DEF Consumes, cells
<1>6. /\ Len(file') = pos + n
      /\ \A i \in 1..(pos + n) :
           file'[i] = IF i \in (pos + 1)..(pos + n) THEN cells[i - pos] ELSE file[i]
  <2>1. /\ Len(file') = IF pos + n > Len(file) THEN pos + n ELSE Len(file)
        /\ \A i \in 1..Len(file') :
             file'[i] = IF i \in (pos + 1)..(pos + n) THEN cells[i - pos] ELSE file[i]
    BY <1>2, <1>3, <1>5, OverwrittenIs
  <2>2. Len(file') = pos + n
    BY <1>2, <1>3, <2>1
  <2> QED
    BY <2>1, <2>2
<1>7. file' \in Seq(Cells)
  BY ConsumesTyped
<1>8. \A i, c : Belongs(i, c)' <=> Belongs(i, c)
  BY DEF Belongs, PixelOffset, PixelCell, RowBytes
<1>9. PICK start : /\ Placed(plan, start) /\ start[1] = pos
                   /\ \A i, c : Lays(plan, start, i, c) => Belongs(i, c)
  BY DEF Appends
<1>10. ASSUME NEW j \in 1..n PROVE Belongs(pos + j, cells[j])
  <2>1. Lays(plan, start, pos + j, cells[j])
    BY <1>1, <1>4, <1>9 DEF Lays
  <2> QED
    BY <1>9, <2>1
<1>11. ASSUME NEW i \in 1..(pos + n) PROVE Belongs(i, file'[i])
  <2>1. CASE i \in (pos + 1)..(pos + n)
    <3>1. i - pos \in 1..n /\ pos + (i - pos) = i
      BY <1>2, <1>3, <2>1
    <3> QED
      BY <1>6, <1>10, <2>1, <3>1
  <2>2. CASE i \notin (pos + 1)..(pos + n)
    <3>1. i \in 1..Len(file)
      BY <1>2, <1>3, <2>2
    <3> QED
      BY <1>6, <2>2, <3>1 DEF Appends, InPlace
  <2> QED
    BY <2>1, <2>2
<1>12. InPlace'
  BY <1>6, <1>8, <1>11 DEF InPlace
<1> QED
  BY <1>5, <1>6, <1>7, <1>12

\* So a call that makes progress leaves a plan that goes on where the file ends,
LEMMA ProgressAppends ==
  ASSUME TypeOK, NEW end \in Nat, Appends(end), plan # <<>>, Head(plan).at = Here,
         NEW n \in 1..Len(Head(plan).cells), WriteSome(n), UNCHANGED <<mode, width, stride>>
  PROVE  Appends(end)'
<1> DEFINE rest == SubSeq(Head(plan).cells, n + 1, Len(Head(plan).cells))
           next == (IF rest = <<>> THEN <<>> ELSE <<Put(rest)>>) \o Tail(plan)
<1>1. plan \in Seq(Writes) /\ Head(plan) \in Writes /\ Head(plan).cells \in Seq(Cells)
  <2>1. plan \in Seq(Writes) /\ Head(plan) \in Writes
    BY DEF TypeOK
  <2> QED
    BY <2>1 DEF Writes
<1>2. Consumes(n) /\ plan' = next
  BY DEF WriteSome
<1>3. rest \in Seq(Cells) /\ n \in 0..Len(Head(plan).cells)
  BY <1>1
<1>4. InPlace' /\ pos' = Len(file') /\ pos' = pos + n
  BY <1>2, <1>3, AppendedInPlace
<1>5. PICK start : /\ Placed(plan, start) /\ start[1] = pos /\ start[Len(plan) + 1] = end
                   /\ \A k \in 1..Len(plan) : plan[k].at = Here \/ (k = 1 /\ plan[k].at = pos)
                   /\ \A i, c : Lays(plan, start, i, c) => Belongs(i, c)
  BY DEF Appends
<1>6. \A i, c : Belongs(i, c)' <=> Belongs(i, c)
  BY DEF Belongs, PixelOffset, PixelCell, RowBytes
<1>10. PICK t : /\ Placed(next, t)
                /\ t[1] = start[1] + n /\ t[Len(next) + 1] = start[Len(plan) + 1]
                /\ \A i, c : Lays(next, t, i, c) => Lays(plan, start, i, c)
  BY <1>1, <1>5, TakenFromPlan
<1>7. next \in {<<>> \o Tail(plan), <<Put(rest)>> \o Tail(plan)}
  OBVIOUS
<1> HIDE DEF rest, next
<1>9. \A k \in 1..Len(next) : next[k].at = Here
  <2>1. \A k \in 1..Len(plan) : k # 1 => plan[k].at = Here
    BY <1>5
  <2> QED
    BY <1>1, <1>3, <1>7, <2>1, TakenStaysHere
<1>11. /\ Placed(plan', t) /\ t[1] = pos' /\ t[Len(plan') + 1] = end
       /\ \A k \in 1..Len(plan') : plan'[k].at = Here
       /\ \A i, c : Lays(plan', t, i, c) => Belongs(i, c)'
  BY <1>2, <1>4, <1>5, <1>6, <1>9, <1>10
<1>12. Placed(plan, t)'
  BY <1>11 DEF Placed
<1>13. (\A i, c : Lays(plan, t, i, c) => Belongs(i, c))'
  BY <1>11 DEF Lays
<1> QED
  BY <1>4, <1>11, <1>12, <1>13 DEF Appends

\* and so does the seek the header begins with, to where the stream stands anyway.
LEMMA SeekAppends ==
  ASSUME TypeOK, NEW end \in Nat, Appends(end), plan # <<>>, Head(plan).at # Here,
         pos' = Head(plan).at, plan' = <<Put(Head(plan).cells)>> \o Tail(plan),
         UNCHANGED <<file, mode, width, stride>>
  PROVE  Appends(end)'
<1>1. /\ plan \in Seq(Writes) /\ Head(plan) = plan[1] /\ Head(plan) \in Writes
      /\ Len(plan) \in Nat /\ 1 \in 1..Len(plan)
  BY DEF TypeOK
<1>2. Head(plan).cells \in Seq(Cells)
  BY <1>1 DEF Writes
<1>3. PICK start : /\ Placed(plan, start) /\ start[1] = pos /\ start[Len(plan) + 1] = end
                   /\ \A k \in 1..Len(plan) : plan[k].at = Here \/ (k = 1 /\ plan[k].at = pos)
                   /\ \A i, c : Lays(plan, start, i, c) => Belongs(i, c)
  BY DEF Appends
<1>4. pos' = pos
  BY <1>1, <1>3
<1>5. \A i, c : Belongs(i, c)' <=> Belongs(i, c)
  BY DEF Belongs, PixelOffset, PixelCell, RowBytes
<1>6. InPlace' /\ pos' = Len(file')
  BY <1>4, <1>5 DEF Appends, InPlace
<1>7. /\ Len(plan') = Len(plan) /\ Placed(plan', start)
      /\ \A i, c : Lays(plan', start, i, c) => Lays(plan, start, i, c)
  BY <1>1, <1>3, SoughtPlan
<1>8. \A k \in 1..Len(plan') : plan'[k].at = Here
  <2>1. \A k \in 1..Len(plan) : k # 1 => plan[k].at = Here
    BY <1>3
  <2>2. plan' \in {<<>> \o Tail(plan), <<Put(Head(plan).cells)>> \o Tail(plan)}
    OBVIOUS
  <2> QED
    BY <1>1, <1>2, <2>1, <2>2, TakenStaysHere
<1>9. /\ Placed(plan', start) /\ start[1] = pos' /\ start[Len(plan') + 1] = end
      /\ \A k \in 1..Len(plan') : plan'[k].at = Here
      /\ \A i, c : Lays(plan', start, i, c) => Belongs(i, c)'
  BY <1>3, <1>4, <1>5, <1>7, <1>8
<1>10. Placed(plan, start)'
  BY <1>9 DEF Placed
<1>11. (\A i, c : Lays(plan, start, i, c) => Belongs(i, c))'
  BY <1>9 DEF Lays
<1> QED
  BY <1>6, <1>9, <1>10, <1>11 DEF Appends

-------------------------------------------------------------------------------
\* The plans of push(), cell by cell.
LEMMA HeaderPlanPlaced ==
  ASSUME TypeOK, NEW w \in Nat
  PROVE  \E start :
           /\ Placed(HeaderPlan(w), start)
           /\ start[1] = 0 /\ start[Len(HeaderPlan(w)) + 1] = PixelOffset(mode)
           /\ \A k \in 1..Len(HeaderPlan(w)) :
                HeaderPlan(w)[k].at = Here \/ (k = 1 /\ HeaderPlan(w)[k].at = 0)
           /\ \A i, c : Lays(HeaderPlan(w), start, i, c) =>
                i \in 1..PixelOffset(mode) /\ c \notin {Foreign, SignatureStart}
<1> DEFINE first  == <<Blank, Blank, Blank, Cell("offset", PixelOffset(mode), 0)>>
           second == <<Cell("width", w, 0), Blank, Cell("format", ppm, 0), Blank>>
           third  == <<Cell("palette", 0, 0)>>
<1>1. /\ Len(first) = 4 /\ Len(second) = 4 /\ Len(third) = 1
      /\ \A j \in 1..4 : first[j] \notin {Foreign, SignatureStart}
      /\ \A j \in 1..4 : second[j] \notin {Foreign, SignatureStart}
      /\ \A j \in 1..1 : third[j] \notin {Foreign, SignatureStart}
  BY DEF Blank, Foreign, SignatureStart, Cell
<1>2. HeaderPlan(w) = <<PutAt(0, first), Put(second)>>
                        \o (IF mode = "Gray" THEN <<Put(third)>> ELSE <<>>)
  BY DEF HeaderPlan
<1> HIDE DEF first, second, third
<1>3. /\ PutAt(0, first).at = 0 /\ PutAt(0, first).cells = first
      /\ Put(second).at = Here /\ Put(second).cells = second
      /\ Put(third).at = Here /\ Put(third).cells = third
  BY DEF Put, PutAt
<1> DEFINE a == PutAt(0, first)  b == Put(second)  c == Put(third)
<1>4. CASE mode = "Gray"
  <2> DEFINE start == [k \in 1..4 |-> CASE k = 1 -> 0 [] k = 2 -> 4 [] k = 3 -> 8 [] k = 4 -> 9]
  <2>1. /\ start \in [1..4 -> Nat]
        /\ start[1] = 0 /\ start[2] = 4 /\ start[3] = 8 /\ start[4] = 9
    OBVIOUS
  <2>2. HeaderPlan(w) = <<a, b>> \o <<c>> /\ PixelOffset(mode) = 9
    BY <1>2, <1>4 DEF PixelOffset, HeaderCells
  <2> HIDE DEF start, a, b, c
  <2>3. /\ Len(HeaderPlan(w)) = 3
        /\ HeaderPlan(w)[1] = a /\ HeaderPlan(w)[2] = b /\ HeaderPlan(w)[3] = c
    <3>1. <<a, b>> \in Seq({a, b, c}) /\ <<c>> \in Seq({a, b, c})
      OBVIOUS
    <3>2. Len(<<a, b>>) = 2 /\ Len(<<c>>) = 1
      OBVIOUS
    <3> QED
      BY <2>2, <3>1, <3>2, ConcatProperties
  <2>4. \A k \in 1..3 : k = 1 \/ k = 2 \/ k = 3
    OBVIOUS
  <2>5. Placed(HeaderPlan(w), start)
    <3>1. start[1 + 1] = start[1] + Len(HeaderPlan(w)[1].cells)
      <4>1. Len(HeaderPlan(w)[1].cells) = 4
        BY <1>1, <1>3, <2>3 DEF a
      <4>2. start[1 + 1] = 4 /\ start[1] = 0 /\ 0 + 4 = 4
        BY <2>1
      <4> QED
        BY <4>1, <4>2
    <3>2. start[2 + 1] = start[2] + Len(HeaderPlan(w)[2].cells)
      <4>1. Len(HeaderPlan(w)[2].cells) = 4
        BY <1>1, <1>3, <2>3 DEF b
      <4>2. start[2 + 1] = 8 /\ start[2] = 4 /\ 4 + 4 = 8
        BY <2>1
      <4> QED
        BY <4>1, <4>2
    <3>3. start[3 + 1] = start[3] + Len(HeaderPlan(w)[3].cells)
      <4>1. Len(HeaderPlan(w)[3].cells) = 1
        BY <1>1, <1>3, <2>3 DEF c
      <4>2. start[3 + 1] = 9 /\ start[3] = 8 /\ 8 + 1 = 9
        BY <2>1
      <4> QED
        BY <4>1, <4>2
    <3>4. start \in [1..(Len(HeaderPlan(w)) + 1) -> Nat]
      BY <2>1, <2>3
    <3> QED
      BY <2>3, <2>4, <3>1, <3>2, <3>3, <3>4 DEF Placed
  <2>6. \A k \in 1..3 : HeaderPlan(w)[k].at = Here \/ (k = 1 /\ HeaderPlan(w)[k].at = 0)
    BY <1>3, <2>3, <2>4 DEF a, b, c
  <2>7. ASSUME NEW i, NEW d, Lays(HeaderPlan(w), start, i, d)
        PROVE  i \in 1..9 /\ d \notin {Foreign, SignatureStart}
    <3>1. PICK k \in 1..3 : \E j \in 1..Len(HeaderPlan(w)[k].cells) :
            i = start[k] + j /\ d = HeaderPlan(w)[k].cells[j]
      BY <2>3, <2>7 DEF Lays
    <3>2. CASE k = 1
      BY <1>1, <1>3, <2>1, <2>3, <3>1, <3>2 DEF a
    <3>3. CASE k = 2
      BY <1>1, <1>3, <2>1, <2>3, <3>1, <3>3, SMTT(30) DEF b
    <3>4. CASE k = 3
      BY <1>1, <1>3, <2>1, <2>3, <3>1, <3>4 DEF c
    <3> QED
      BY <2>4, <3>2, <3>3, <3>4
  <2> QED
    BY <2>1, <2>2, <2>3, <2>5, <2>6, <2>7
<1>5. CASE mode # "Gray"
  <2> DEFINE start == [k \in 1..3 |-> CASE k = 1 -> 0 [] k = 2 -> 4 [] k = 3 -> 8]
  <2>1. start \in [1..3 -> Nat] /\ start[1] = 0 /\ start[2] = 4 /\ start[3] = 8
    OBVIOUS
  <2>2. HeaderPlan(w) = <<a, b>> \o <<>> /\ PixelOffset(mode) = 8
    BY <1>2, <1>5 DEF PixelOffset, HeaderCells
  <2> HIDE DEF start, a, b
  <2>3. Len(HeaderPlan(w)) = 2 /\ HeaderPlan(w)[1] = a /\ HeaderPlan(w)[2] = b
    <3>1. <<a, b>> \in Seq({a, b}) /\ <<>> \in Seq({a, b}) /\ Len(<<a, b>>) = 2
      OBVIOUS
    <3> QED
      BY <2>2, <3>1, ConcatEmptySeq
  <2>4. \A k \in 1..2 : k = 1 \/ k = 2
    OBVIOUS
  <2>5. Placed(HeaderPlan(w), start)
    <3>1. start[1 + 1] = start[1] + Len(HeaderPlan(w)[1].cells)
      <4>1. Len(HeaderPlan(w)[1].cells) = 4
        BY <1>1, <1>3, <2>3 DEF a
      <4>2. start[1 + 1] = 4 /\ start[1] = 0 /\ 0 + 4 = 4
        BY <2>1
      <4> QED
        BY <4>1, <4>2
    <3>2. start[2 + 1] = start[2] + Len(HeaderPlan(w)[2].cells)
      <4>1. Len(HeaderPlan(w)[2].cells) = 4
        BY <1>1, <1>3, <2>3 DEF b
      <4>2. start[2 + 1] = 8 /\ start[2] = 4 /\ 4 + 4 = 8
        BY <2>1
      <4> QED
        BY <4>1, <4>2
    <3>3. start \in [1..(Len(HeaderPlan(w)) + 1) -> Nat]
      BY <2>1, <2>3
    <3> QED
      BY <2>3, <2>4, <3>1, <3>2, <3>3 DEF Placed
  <2>6. \A k \in 1..2 : HeaderPlan(w)[k].at = Here \/ (k = 1 /\ HeaderPlan(w)[k].at = 0)
    BY <1>3, <2>3, <2>4 DEF a, b
  <2>7. ASSUME NEW i, NEW d, Lays(HeaderPlan(w), start, i, d)
        PROVE  i \in 1..8 /\ d \notin {Foreign, SignatureStart}
    <3>1. PICK k \in 1..2 : \E j \in 1..Len(HeaderPlan(w)[k].cells) :
            i = start[k] + j /\ d = HeaderPlan(w)[k].cells[j]
      BY <2>3, <2>7 DEF Lays
    <3>2. CASE k = 1
      BY <1>1, <1>3, <2>1, <2>3, <3>1, <3>2 DEF a
    <3>3. CASE k = 2
      BY <1>1, <1>3, <2>1, <2>3, <3>1, <3>3 DEF b
    <3> QED
      BY <2>4, <3>2, <3>3
  <2> QED
    BY <2>1, <2>2, <2>3, <2>5, <2>6, <2>7
<1> QED
  BY <1>4, <1>5

\* A cell of a row in the file, at a column of the row, for an image of width w.
PixelAt(w, row, col) ==
    IF col >= RowBytes(w) THEN Cell("pad", 0, 0)
    ELSE IF mode = "Gray" THEN Cell("gray", row, col)
    ELSE Cell(<<"blue", "green", "red">>[(col % 3) + 1], row, col \div 3)

\* The encoder turns the samples of a row, red first, into cells, blue first.
LEMMA ConvertedIs ==
  ASSUME mode \in Modes, NEW w \in Nat, NEW row \in Nat
  PROVE  /\ Len(Converted(row, w)) = RowBytes(w)
         /\ \A j \in 1..RowBytes(w) : Converted(row, w)[j] = PixelAt(w, row, j - 1)
<1>1. RowBytes(w) \in Nat
  BY RowBytesNat
<1>2. Len(Converted(row, w)) = RowBytes(w)
  BY <1>1 DEF Converted
<1>3. ASSUME NEW j \in 1..RowBytes(w) PROVE Converted(row, w)[j] = PixelAt(w, row, j - 1)
  <2> DEFINE n == j - 1
  <2>1. n \in Nat /\ ~(n >= RowBytes(w)) /\ n = j - 1
    BY <1>1
  <2>2. CASE mode = "Gray"
    BY <2>1, <2>2 DEF Converted, Sample, PixelAt
  <2>3. CASE mode # "Gray"
    <3> DEFINE i == 3 * (n \div 3) + 2 - (n % 3)
    <3>1. Converted(row, w)[j] = Cell(Channels[(i % 3) + 1], row, i \div 3)
      BY <2>3 DEF Converted, Sample
    <3>2. i \div 3 = n \div 3 /\ i % 3 = 2 - (n % 3) /\ n % 3 \in {0, 1, 2}
      BY <2>1
    <3> HIDE DEF n, i
    <3>3. Channels[(i % 3) + 1] = <<"blue", "green", "red">>[(n % 3) + 1]
      <4>1. CASE n % 3 = 0
        BY <3>2, <4>1 DEF Channels
      <4>2. CASE n % 3 = 1
        BY <3>2, <4>2 DEF Channels
      <4>3. CASE n % 3 = 2
        BY <3>2, <4>3 DEF Channels
      <4> QED
        BY <3>2, <4>1, <4>2, <4>3
    <3> QED
      BY <2>1, <2>3, <3>1, <3>2, <3>3 DEF PixelAt
  <2> QED
    BY <2>2, <2>3
<1> QED
  BY <1>2, <1>3

LEMMA NextRow ==
  ASSUME NEW p \in Nat, NEW s \in Nat, NEW r \in Nat
  PROVE  p + s * r \in Nat /\ p + s * (r + 1) = (p + s * r) + s
OBVIOUS

\* A write carries cells of an image row, from a column on.
Carries(w, x, row, col, size) ==
    /\ w.at = Here /\ Len(w.cells) = size
    /\ \A j \in 1..size : w.cells[j] = PixelAt(x, row, col + j - 1)

\* The writes of a band, row by row: the cells of the row and, if it needs one, a padding.
LEMMA BandPlanIs ==
  ASSUME TypeOK, NEW b \in Bands, b.width > 0,
         NEW q, q = RowWrites(b.width), NEW n, n = Len(BandPlan(b))
  PROVE  /\ n = q * b.rows /\ n \in Nat /\ b.rows \in Nat
         /\ RowBytes(b.width) \in Nat /\ Stride(b.width) \in Nat /\ RowBytes(b.width) <= Stride(b.width)
         /\ \/ q = 1 /\ RowBytes(b.width) = Stride(b.width)
            \/ q = 2
         /\ \A k \in 1..n :
              /\ height + (k - 1) \div q \in Nat
              /\ k % q = 1 % q =>
                   Carries(BandPlan(b)[k], b.width, height + (k - 1) \div q, 0, RowBytes(b.width))
              /\ k % q # 1 % q =>
                   Carries(BandPlan(b)[k], b.width, height + (k - 1) \div q, RowBytes(b.width),
                           Stride(b.width) - RowBytes(b.width))
<1> DEFINE x == b.width  r == RowBytes(b.width)  s == Stride(b.width)
<1>1. /\ x \in Nat /\ b.rows \in Nat /\ mode \in Modes /\ height \in Nat
      /\ r \in Nat /\ r = RowBytes(x) /\ s \in Nat /\ s = Stride(x) /\ r <= s
  <2>1. b.width \in Nat /\ b.rows \in Nat /\ mode \in Modes /\ height \in Nat
    BY InputsAssumption DEF TypeOK, Bands
  <2> QED
    BY <2>1, RowBytesNat, StrideBounds
<1>2. Padding(x) = [i \in 1..(s - r) |-> Cell("pad", 0, 0)] /\ s - r \in Nat
  BY <1>1 DEF Padding
<1>3. q \in {1, 2} /\ (q = 1 => r = s)
  <2>1. q = IF Padding(x) = <<>> THEN 1 ELSE 2
    BY DEF RowWrites
  <2>2. ASSUME Padding(x) = <<>> PROVE r = s
    <3>1. Len(Padding(x)) = s - r
      BY <1>2
    <3>2. Len(Padding(x)) = 0
      BY <2>2
    <3> QED
      BY <1>1, <3>1, <3>2
  <2> QED
    BY <2>1, <2>2
<1>4. /\ q * b.rows \in Nat
      /\ BandPlan(b) = [k \in 1..(q * b.rows) |->
            IF k % q = 1 % q THEN Put(Converted(height + (k - 1) \div q, x)) ELSE Put(Padding(x))]
  BY <1>1, <1>3 DEF BandPlan
<1>5. n = q * b.rows /\ n \in Nat
  BY <1>4
<1>6. ASSUME NEW k \in 1..n
      PROVE  /\ height + (k - 1) \div q \in Nat
             /\ k % q = 1 % q => Carries(BandPlan(b)[k], x, height + (k - 1) \div q, 0, r)
             /\ k % q # 1 % q => Carries(BandPlan(b)[k], x, height + (k - 1) \div q, r, s - r)
  <2> DEFINE w == BandPlan(b)[k]  row == height + (k - 1) \div q
  <2>1. row \in Nat
    BY <1>1, <1>3, <1>5
  <2>2. w = IF k % q = 1 % q THEN Put(Converted(row, x)) ELSE Put(Padding(x))
    BY <1>4, <1>5
  <2>3. \A cells : Put(cells).at = Here /\ Put(cells).cells = cells
    BY DEF Put
  <2> HIDE DEF w, row, x, r, s
  <2>4. w.at = Here
    BY <2>2, <2>3
  <2>5. CASE k % q = 1 % q
    <3>1. w.cells = Converted(row, x)
      BY <2>2, <2>3, <2>5
    <3>3. /\ Len(Converted(row, x)) = RowBytes(x)
          /\ \A j \in 1..RowBytes(x) : Converted(row, x)[j] = PixelAt(x, row, j - 1)
      BY <1>1, <2>1, ConvertedIs
    <3>2. \A j \in 1..r : w.cells[j] = PixelAt(x, row, 0 + j - 1)
      BY <1>1, <3>1, <3>3
    <3>4. Carries(w, x, row, 0, r)
      BY <1>1, <2>4, <3>1, <3>2, <3>3 DEF Carries
    <3> QED
      BY <2>1, <2>5, <3>4 DEF w, row
  <2>6. CASE k % q # 1 % q
    <3>1. w.cells = Padding(x)
      BY <2>2, <2>3, <2>6
    <3>2. Len(w.cells) = s - r /\ \A j \in 1..(s - r) : w.cells[j] = Cell("pad", 0, 0)
      BY <1>2, <3>1
    <3>3. ASSUME NEW j \in 1..(s - r) PROVE PixelAt(x, row, r + j - 1) = Cell("pad", 0, 0)
      BY <1>1 DEF PixelAt
    <3>4. Carries(w, x, row, r, s - r)
      BY <2>4, <3>2, <3>3 DEF Carries
    <3> QED
      BY <2>1, <2>6, <3>4 DEF w, row
  <2> QED
    BY <2>5, <2>6
<1> QED
  BY <1>1, <1>3, <1>5, <1>6

\* Laid out after the rows before it, a band puts each cell at its row and its column.
LEMMA BandPlanPlaced ==
  ASSUME TypeOK, NEW b \in Bands, b.width > 0
  PROVE  LET x   == b.width
             top == PixelOffset(mode) + Stride(x) * height
             end == PixelOffset(mode) + Stride(x) * (height + b.rows)
         IN \E start :
              /\ Placed(BandPlan(b), start)
              /\ start[1] = top /\ start[Len(BandPlan(b)) + 1] = end
              /\ \A k \in 1..Len(BandPlan(b)) : BandPlan(b)[k].at = Here
              /\ \A i, c : Lays(BandPlan(b), start, i, c) =>
                   \E row \in Nat : \E col \in 0..(Stride(x) - 1) :
                      /\ i = PixelOffset(mode) + Stride(x) * row + col + 1
                      /\ c = PixelAt(x, row, col)
<1> DEFINE x == b.width  r == RowBytes(x)  s == Stride(x)  q == RowWrites(x)
           n == Len(BandPlan(b))  h == height  m == b.rows
           writes == BandPlan(b)
           At(row) == PixelOffset(mode) + s * row
           Meets(i, c) == \E row \in Nat : \E col \in 0..(s - 1) :
                             /\ i = At(row) + col + 1
                             /\ c = PixelAt(x, row, col)
<1>1. /\ n = q * m /\ n \in Nat /\ n = Len(writes) /\ m \in Nat
      /\ r \in Nat /\ s \in Nat /\ r <= s
      /\ (q = 1 /\ r = s) \/ q = 2
      /\ \A k \in 1..n :
           /\ h + (k - 1) \div q \in Nat
           /\ k % q = 1 % q => Carries(writes[k], x, h + (k - 1) \div q, 0, r)
           /\ k % q # 1 % q => Carries(writes[k], x, h + (k - 1) \div q, r, s - r)
  <2>1. q = RowWrites(b.width) /\ n = Len(BandPlan(b))
    OBVIOUS
  <2> HIDE DEF q, n
  <2>2. /\ n = q * m /\ n \in Nat /\ m \in Nat
        /\ r \in Nat /\ s \in Nat /\ r <= s
        /\ (q = 1 /\ r = s) \/ q = 2
    BY <2>1, BandPlanIs
  <2>3. ASSUME NEW k \in 1..n
        PROVE  /\ h + (k - 1) \div q \in Nat
               /\ k % q = 1 % q => Carries(writes[k], x, h + (k - 1) \div q, 0, r)
               /\ k % q # 1 % q => Carries(writes[k], x, h + (k - 1) \div q, r, s - r)
    BY <2>1, BandPlanIs
  <2> QED
    BY <2>1, <2>2, <2>3
<1>2. h \in Nat
  BY DEF TypeOK
<1>3. PixelOffset(mode) \in Nat
  BY DEF PixelOffset, HeaderCells
<1>4. ASSUME NEW row \in Nat PROVE At(row) \in Nat /\ At(row + 1) = At(row) + s
  <2> HIDE DEF s
  <2> QED
    BY <1>1, <1>3, NextRow
<1> SUFFICES \E start :
               /\ Placed(writes, start) /\ start[1] = At(h) /\ start[n + 1] = At(h + m)
               /\ \A k \in 1..n : writes[k].at = Here
               /\ \A i, c : Lays(writes, start, i, c) => Meets(i, c)
  BY <1>1
<1> HIDE DEF x, r, s, q, n, m, h, writes, At
<1>5. CASE q = 1 /\ r = s
  <2>1. n = m
    BY <1>1, <1>5
  <2>2. ASSUME NEW k \in 1..n
        PROVE  /\ writes[k].at = Here /\ Len(writes[k].cells) = s /\ h + (k - 1) \in Nat
               /\ \A j \in 1..s : writes[k].cells[j] = PixelAt(x, h + (k - 1), j - 1)
    <3>1. (k - 1) \div q = k - 1 /\ k % q = 1 % q
      BY <1>1, <1>5
    <3>2. Carries(writes[k], x, h + (k - 1), 0, s) /\ h + (k - 1) \in Nat
      BY <1>1, <1>5, <3>1
    <3>3. \A j \in 1..s : 0 + j - 1 = j - 1
      BY <1>1
    <3> QED
      BY <3>2, <3>3 DEF Carries
  <2> DEFINE start == [k \in 1..(n + 1) |-> At(h + (k - 1))]
  <2>3. ASSUME NEW k \in 1..(n + 1) PROVE start[k] = At(h + (k - 1)) /\ start[k] \in Nat
    <3>1. h + (k - 1) \in Nat
      BY <1>1, <1>2
    <3> QED
      BY <1>4, <3>1
  <2>4. start \in [1..(n + 1) -> Nat]
    BY <2>3
  <2> HIDE DEF start
  <2>5. ASSUME NEW k \in 1..n PROVE start[k + 1] = start[k] + Len(writes[k].cells)
    <3>1. k + 1 \in 1..(n + 1) /\ k \in 1..(n + 1) /\ h + ((k + 1) - 1) = (h + (k - 1)) + 1
      BY <1>1, <1>2
    <3>2. At((h + (k - 1)) + 1) = At(h + (k - 1)) + s
      BY <1>4, <2>2
    <3> QED
      BY <2>2, <2>3, <3>1, <3>2
  <2>6. Placed(writes, start)
    BY <1>1, <2>4, <2>5 DEF Placed
  <2>7. start[1] = At(h) /\ start[n + 1] = At(h + m)
    <3>1. 1 \in 1..(n + 1) /\ h + (1 - 1) = h /\ n + 1 \in 1..(n + 1) /\ h + ((n + 1) - 1) = h + m
      BY <1>1, <1>2, <2>1
    <3> QED
      BY <2>3, <3>1
  <2>8. ASSUME NEW i, NEW c, Lays(writes, start, i, c) PROVE Meets(i, c)
    <3>1. PICK k \in 1..n : \E j \in 1..Len(writes[k].cells) :
            i = start[k] + j /\ c = writes[k].cells[j]
      BY <1>1, <2>8 DEF Lays
    <3>2. PICK j \in 1..s : i = start[k] + j /\ c = writes[k].cells[j]
      BY <2>2, <3>1
    <3>3. k \in 1..(n + 1) /\ j - 1 \in 0..(s - 1)
      BY <1>1
    <3>4. h + (k - 1) \in Nat /\ start[k] = At(h + (k - 1)) /\ start[k] \in Nat
      BY <2>2, <2>3, <3>3
    <3>5. i = At(h + (k - 1)) + (j - 1) + 1
      BY <3>2, <3>4
    <3>6. c = PixelAt(x, h + (k - 1), j - 1)
      BY <2>2, <3>2
    <3> QED
      BY <3>3, <3>4, <3>5, <3>6
  <2> QED
    BY <2>2, <2>6, <2>7, <2>8
<1>6. CASE q = 2
  <2>1. n = 2 * m
    BY <1>1, <1>6
  <2> DEFINE Row(k) == h + (k - 1) \div 2
             Col(k) == IF k % 2 = 1 THEN 0 ELSE r
             Size(k) == IF k % 2 = 1 THEN r ELSE s - r
  <2>2. ASSUME NEW k \in 1..n
        PROVE  /\ writes[k].at = Here /\ Len(writes[k].cells) = Size(k)
               /\ \A j \in 1..Size(k) : writes[k].cells[j] = PixelAt(x, Row(k), Col(k) + j - 1)
    <3>1. 1 % q = 1
      BY <1>6
    <3>2. Carries(writes[k], x, Row(k), Col(k), Size(k))
      BY <1>1, <1>6, <3>1
    <3> HIDE DEF Row, Col, Size
    <3> QED
      BY <3>2 DEF Carries
  <2>3. ASSUME NEW k \in 1..(n + 1)
        PROVE  Row(k) \in Nat /\ Col(k) \in 0..s /\ Size(k) \in 0..s /\ Col(k) + Size(k) <= s
    BY <1>1, <1>2
  <2>4. ASSUME NEW k \in 1..n
        PROVE  At(Row(k + 1)) + Col(k + 1) = (At(Row(k)) + Col(k)) + Size(k)
    <3>1. k \in 1..(n + 1) /\ Row(k) \in Nat
      BY <1>1, <2>3
    <3>2. At(Row(k)) \in Nat /\ At(Row(k) + 1) = At(Row(k)) + s
      BY <1>4, <3>1
    <3>3. CASE k % 2 = 1
      <4>1. (k + 1) % 2 # 1 /\ ((k + 1) - 1) \div 2 = (k - 1) \div 2
        BY <3>3
      <4>2. Row(k + 1) = Row(k)
        BY <4>1
      <4>3. Col(k + 1) = r /\ Col(k) = 0 /\ Size(k) = r
        BY <3>3, <4>1
      <4> HIDE DEF Row, Col, Size
      <4> QED
        BY <1>1, <3>2, <4>2, <4>3
    <3>4. CASE k % 2 # 1
      <4>1. (k + 1) % 2 = 1 /\ Row(k + 1) = Row(k) + 1
        BY <1>2, <3>4
      <4>2. At(Row(k + 1)) = At(Row(k)) + s
        BY <3>2, <4>1
      <4>3. Col(k + 1) = 0 /\ Col(k) = r /\ Size(k) = s - r
        BY <3>4, <4>1
      <4> HIDE DEF Row, Col, Size
      <4> QED
        BY <1>1, <3>2, <4>2, <4>3
    <3> QED
      BY <3>3, <3>4
  <2>5. Row(1) = h /\ Col(1) = 0 /\ Row(n + 1) = h + m /\ Col(n + 1) = 0
    <3>1. (1 - 1) \div 2 = 0 /\ 1 % 2 = 1 /\ ((2 * m + 1) - 1) \div 2 = m /\ (2 * m + 1) % 2 = 1
      BY <1>1
    <3> QED
      BY <1>2, <2>1, <3>1
  <2> DEFINE start == [k \in 1..(n + 1) |-> At(Row(k)) + Col(k)]
  <2> HIDE DEF Row, Col, Size
  <2>6. ASSUME NEW k \in 1..(n + 1)
        PROVE  start[k] = At(Row(k)) + Col(k) /\ start[k] \in Nat /\ At(Row(k)) \in Nat
    <3>1. Row(k) \in Nat /\ Col(k) \in Nat
      BY <1>1, <2>3
    <3>2. At(Row(k)) \in Nat
      BY <1>4, <3>1
    <3> QED
      BY <3>1, <3>2
  <2>7. start \in [1..(n + 1) -> Nat]
    BY <2>6
  <2> HIDE DEF start
  <2>8. ASSUME NEW k \in 1..n PROVE start[k + 1] = start[k] + Len(writes[k].cells)
    <3>1. k + 1 \in 1..(n + 1) /\ k \in 1..(n + 1)
      BY <1>1
    <3> QED
      BY <2>2, <2>4, <2>6, <3>1
  <2>9. Placed(writes, start)
    BY <1>1, <2>7, <2>8 DEF Placed
  <2>10. start[1] = At(h) /\ start[n + 1] = At(h + m)
    <3>1. 1 \in 1..(n + 1) /\ n + 1 \in 1..(n + 1) /\ h + m \in Nat
      BY <1>1, <1>2
    <3>2. At(h) \in Nat /\ At(h + m) \in Nat
      BY <1>2, <1>4, <3>1
    <3> QED
      BY <2>5, <2>6, <3>1, <3>2
  <2>11. ASSUME NEW i, NEW c, Lays(writes, start, i, c) PROVE Meets(i, c)
    <3>1. PICK k \in 1..n : \E j \in 1..Len(writes[k].cells) :
            i = start[k] + j /\ c = writes[k].cells[j]
      BY <1>1, <2>11 DEF Lays
    <3>2. PICK j \in 1..Size(k) : i = start[k] + j /\ c = writes[k].cells[j]
      BY <2>2, <3>1
    <3>3. /\ k \in 1..(n + 1) /\ Row(k) \in Nat /\ Col(k) \in Nat /\ Col(k) + j - 1 \in 0..(s - 1)
      <4>1. k \in 1..(n + 1) /\ s \in Nat
        BY <1>1
      <4>2. Row(k) \in Nat /\ Col(k) \in 0..s /\ Size(k) \in 0..s /\ Col(k) + Size(k) <= s
        BY <2>3, <4>1
      <4> QED
        BY <4>1, <4>2
    <3>4. start[k] = At(Row(k)) + Col(k) /\ At(Row(k)) \in Nat
      BY <2>6, <3>3
    <3>5. i = At(Row(k)) + (Col(k) + j - 1) + 1
      BY SMTT(30), <1>1, <2>3, <3>2, <3>3, <3>4
    <3>6. c = PixelAt(x, Row(k), Col(k) + j - 1)
      BY <2>2, <3>2
    <3> QED
      BY <3>3, <3>5, <3>6
  <2> QED
    BY <2>2, <2>9, <2>10, <2>11
<1> QED
  BY <1>1, <1>5, <1>6

\* The row and the column of an offset into the rows.
LEMMA RowAndColumn ==
  ASSUME NEW s \in Nat, s > 0, NEW row \in Nat, NEW col \in 0..(s - 1)
  PROVE  (s * row + col) \div s = row /\ (s * row + col) % s = col /\ s * row \in Nat
OBVIOUS

-------------------------------------------------------------------------------
\* The plan of finish().
LEMMA FinishPlanIs ==
  ASSUME TypeOK
  PROVE  /\ FinishPlan \in Seq(Writes) /\ Len(FinishPlan) = 4
         /\ \A k \in 1..3 : FinishPlan[k].at = FieldAt[k] /\ FinishPlan[k].cells = <<Field[k]>>
         /\ FinishPlan[4].at = 0 /\ FinishPlan[4].cells = Signature
         /\ \A k \in 1..3 : FieldAt[k] \in 2..7
         /\ \A k \in 1..3, d \in 1..3 : FieldAt[k] = FieldAt[d] => k = d
<1> DEFINE a == PutAt(FileSizeAt, <<Cell("size", FileSize, 0)>>)
           b == PutAt(HeightAt, <<Cell("height", -height, 0)>>)
           c == PutAt(ImageSizeAt, <<Cell("size", stride * height, 0)>>)
           d == PutAt(0, Signature)
<1>1. FinishPlan = <<a, b, c, d>>
  BY DEF FinishPlan
<1>2. FinishPlan \in Seq(Writes)
  BY FixedPlansTyped
<1>3. /\ a.at = FileSizeAt /\ a.cells = <<Cell("size", FileSize, 0)>>
      /\ b.at = HeightAt /\ b.cells = <<Cell("height", -height, 0)>>
      /\ c.at = ImageSizeAt /\ c.cells = <<Cell("size", stride * height, 0)>>
      /\ d.at = 0 /\ d.cells = Signature
  BY DEF PutAt
<1>4. /\ Field[1] = Cell("size", FileSize, 0) /\ Field[2] = Cell("height", -height, 0)
      /\ Field[3] = Cell("size", stride * height, 0)
  BY DEF Field
<1>5. FieldAt[1] = FileSizeAt /\ FieldAt[2] = HeightAt /\ FieldAt[3] = ImageSizeAt
  BY DEF FieldAt
<1> HIDE DEF a, b, c, d
<1>6. /\ Len(FinishPlan) = 4
      /\ FinishPlan[1] = a /\ FinishPlan[2] = b /\ FinishPlan[3] = c /\ FinishPlan[4] = d
  BY <1>1
<1>7. \A k \in 1..3 : k = 1 \/ k = 2 \/ k = 3
  OBVIOUS
<1>8. \A k \in 1..3 : FinishPlan[k].at = FieldAt[k] /\ FinishPlan[k].cells = <<Field[k]>>
  BY <1>3, <1>4, <1>5, <1>6, <1>7
<1>9. \A k \in 1..3 : FieldAt[k] \in 2..7
  BY <1>5, <1>7 DEF FileSizeAt, HeightAt, ImageSizeAt
<1>10. \A k \in 1..3, e \in 1..3 : FieldAt[k] = FieldAt[e] => k = e
  BY <1>5, <1>7 DEF FileSizeAt, HeightAt, ImageSizeAt
<1> QED
  BY <1>2, <1>3, <1>6, <1>8, <1>9, <1>10

\* It does not change while the geometry stays.
LEMMA FinishPlanStays ==
  ASSUME UNCHANGED <<mode, width, stride, height>>
  PROVE  /\ FileSize' = FileSize /\ FinishPlan' = FinishPlan /\ Field' = Field
         /\ PixelOffset(mode)' = PixelOffset(mode)
         /\ \A i : PixelCell(i)' = PixelCell(i)
  BY DEF FileSize, FinishPlan, Field, PixelOffset, PixelCell, RowBytes

\* A call inside the file replaces the cells it consumes.
LEMMA Patched ==
  ASSUME TypeOK, plan # <<>>, NEW n \in 0..Len(Head(plan).cells), Consumes(n),
         pos + n <= Len(file)
  PROVE  /\ file' \in Seq(Cells) /\ Len(file') = Len(file) /\ pos' = pos + n
         /\ \A i \in 1..Len(file) :
              file'[i] = IF i \in (pos + 1)..(pos + n) THEN Head(plan).cells[i - pos] ELSE file[i]
<1> DEFINE cells == SubSeq(Head(plan).cells, 1, n)
<1>1. Head(plan) \in Writes
  BY DEF TypeOK
<1>2. Head(plan).cells \in Seq(Cells) /\ file \in Seq(Cells) /\ pos \in Nat
  BY <1>1 DEF TypeOK, Writes
<1>3. cells \in Seq(Cells) /\ Len(cells) = n /\ n \in Nat
  BY <1>2
<1>4. \A j \in 1..n : cells[j] = Head(plan).cells[j]
  BY <1>2
<1> HIDE DEF cells
<1>5. file' = Overwritten(cells) /\ pos' = pos + n
  BY DEF Consumes, cells
<1>6. pos <= Len(file)
  BY <1>2, <1>3
<1>7. /\ Len(file') = IF pos + n > Len(file) THEN pos + n ELSE Len(file)
      /\ \A i \in 1..Len(file') :
           file'[i] = IF i \in (pos + 1)..(pos + n) THEN cells[i - pos] ELSE file[i]
  BY <1>2, <1>3, <1>5, <1>6, OverwrittenIs
<1>8. Len(file') = Len(file)
  BY <1>2, <1>3, <1>7
<1>9. ASSUME NEW i \in 1..Len(file)
      PROVE  file'[i] = IF i \in (pos + 1)..(pos + n) THEN Head(plan).cells[i - pos] ELSE file[i]
  <2>1. i \in (pos + 1)..(pos + n) => i - pos \in 1..n
    BY <1>2, <1>3
  <2> QED
    BY <1>4, <1>7, <1>8, <2>1
<1> QED
  BY <1>5, <1>8, <1>9, ConsumesTyped

\* A call of finish() stays inside the header: the pixels remain, and so do the fields
\* that are filled in; the last cell of a field, written, fills it in.
LEMMA FinishCall ==
  ASSUME TypeOK, Framed, NEW k \in 1..4, Reached(k), Head(plan).at = Here,
         NEW n \in 0..Len(Head(plan).cells), Consumes(n),
         UNCHANGED <<mode, width, stride, height>>
  PROVE  /\ Framed' /\ Filled(k)' /\ (Signed => Signed')
         /\ k < 4 => /\ file'[1] # SignatureStart
                     /\ Head(plan).cells = <<Field[k]>> /\ (n = 1 => Filled(k + 1)')
         /\ k = 4 => \/ Head(plan).cells = Signature /\ pos = 0
                     \/ Head(plan).cells = <<Cell("M", 0, 0)>> /\ pos = 1
<1> DEFINE cells == Head(plan).cells
<1>1. /\ height > 0 /\ Len(file) = FileSize /\ RowsInPlace /\ file[1] # Foreign /\ height \in Nat
      /\ file \in Seq(Cells) /\ Len(file) \in Nat /\ pos \in Nat
      /\ Filled(k) /\ plan # <<>>
  BY DEF Framed, Reached, TypeOK
<1>2. /\ \A d \in 1..3 : FinishPlan[d].at = FieldAt[d] /\ FinishPlan[d].cells = <<Field[d]>>
      /\ FinishPlan[4].at = 0 /\ FinishPlan[4].cells = Signature
      /\ \A d \in 1..3 : FieldAt[d] \in 2..7
      /\ \A d \in 1..3, e \in 1..3 : FieldAt[d] = FieldAt[e] => d = e
  BY FinishPlanIs
<1>3. PixelOffset(mode) \in Nat /\ PixelOffset(mode) >= 8
  BY DEF PixelOffset, HeaderCells
<1>4. stride * height \in Nat /\ Len(file) = PixelOffset(mode) + stride * height
  BY <1>1, <1>3 DEF TypeOK, FileSize
<1>25. /\ Len(file) >= 8
       /\ \A i \in 0..(stride * height - 1) :
            PixelOffset(mode) + i + 1 \in 9..Len(file)
  <2> DEFINE head == PixelOffset(mode)  area == stride * height
  <2>1. head \in Nat /\ head >= 8 /\ area \in Nat /\ Len(file) = head + area
    BY <1>3, <1>4
  <2> HIDE DEF head, area
  <2>2. Len(file) >= 8 /\ \A i \in 0..(area - 1) : head + i + 1 \in 9..Len(file)
    BY <2>1
  <2> QED
    BY <2>2 DEF head, area
<1>5. \A w : Put(w).at = Here /\ Put(w).cells = w
  BY DEF Put
<1>6. k \in 1..3 \/ k = 4
  OBVIOUS
<1>7. \/ cells = FinishPlan[k].cells /\ pos = FinishPlan[k].at /\ file[1] # SignatureStart
      \/ k = 4 /\ cells = <<Cell("M", 0, 0)>> /\ pos = 1
  <2>1. Head(plan) # FinishPlan[k]
    <3>1. FinishPlan[k].at # Here
      BY <1>2, <1>6 DEF Here
    <3> QED
      BY <3>1
  <2> QED
    BY <1>5, <2>1 DEF Reached
<1>8. k \in 1..3 => cells = <<Field[k]>> /\ pos = FieldAt[k] /\ file[1] # SignatureStart
  BY <1>2, <1>7
<1>9. k = 4 => (cells = Signature /\ pos = 0) \/ (cells = <<Cell("M", 0, 0)>> /\ pos = 1)
  BY <1>2, <1>7
<1>10. Len(Signature) = 2 /\ \A c : Len(<<c>>) = 1
  BY DEF Signature
<1>11. /\ n \in Nat /\ pos + n <= 8
       /\ k \in 1..3 => n <= 1 /\ pos >= 2
       /\ k = 4 => pos + n <= 2
  <2>1. CASE k \in 1..3
    <3>1. Len(cells) = 1 /\ pos \in 2..7
      BY <1>2, <1>8, <1>10, <2>1
    <3> HIDE DEF cells
    <3>2. n \in 0..Len(cells)
      BY DEF cells
    <3> QED
      BY <2>1, <3>1, <3>2
  <2>2. CASE k = 4
    <3>1. (Len(cells) = 2 /\ pos = 0) \/ (Len(cells) = 1 /\ pos = 1)
      BY <1>9, <1>10, <2>2
    <3> HIDE DEF cells
    <3>2. n \in 0..Len(cells)
      BY DEF cells
    <3>3. CASE Len(cells) = 2 /\ pos = 0
      BY <2>2, <3>2, <3>3
    <3>4. CASE Len(cells) = 1 /\ pos = 1
      BY <2>2, <3>2, <3>4
    <3> QED
      BY <3>1, <3>3, <3>4
  <2> QED
    BY <1>6, <2>1, <2>2
<1>12. /\ Len(file') = Len(file) /\ file' \in Seq(Cells)
       /\ \A i \in 1..Len(file) :
            file'[i] = IF i \in (pos + 1)..(pos + n) THEN cells[i - pos] ELSE file[i]
  <2>1. pos + n <= Len(file)
    BY <1>1, <1>25, <1>11
  <2> QED
    BY <1>1, <2>1, Patched
<1> HIDE DEF cells
<1>13. \A i \in 1..Len(file) : i > pos + n => file'[i] = file[i]
  BY <1>1, <1>11, <1>12
<1>14. 1 \in 1..Len(file) /\ 2 \in 1..Len(file) /\ \A d \in 1..3 : FieldAt[d] + 1 \in 1..Len(file)
  BY <1>1, <1>2, <1>25
<1>15. k \in 1..3 => file'[1] = file[1]
  BY <1>1, <1>11, <1>12, <1>14
<1>16. k = 4 => file'[1] \in {file[1], SignatureStart}
  <2>1. CASE k = 4 /\ cells = Signature /\ pos = 0
    <3>1. cells[1] = SignatureStart
      BY <2>1 DEF Signature, SignatureStart
    <3>2. file'[1] = IF 1 \in 1..n THEN cells[1] ELSE file[1]
      BY <1>11, <1>12, <1>14, <2>1
    <3> QED
      BY <3>1, <3>2
  <2>2. CASE k = 4 /\ pos = 1
    BY <1>11, <1>12, <1>14, <2>2
  <2> QED
    BY <1>9, <2>1, <2>2
<1>17. SignatureStart # Foreign
  BY DEF SignatureStart, Foreign, Cell
<1>18. /\ FileSize' = FileSize /\ Field' = Field /\ PixelOffset(mode)' = PixelOffset(mode)
       /\ \A i : PixelCell(i)' = PixelCell(i)
  BY FinishPlanStays
<1>19. RowsInPlace'
  <2> SUFFICES ASSUME NEW i \in 0..(stride * height - 1)
               PROVE  file'[PixelOffset(mode) + i + 1] = PixelCell(i)
    BY <1>18 DEF RowsInPlace
  <2>1. PixelOffset(mode) + i + 1 \in 1..Len(file) /\ PixelOffset(mode) + i + 1 > pos + n
    BY <1>1, <1>25, <1>11
  <2> QED
    BY <1>1, <1>13, <2>1 DEF RowsInPlace
<1>20. Framed'
  BY <1>1, <1>6, <1>12, <1>15, <1>16, <1>17, <1>18, <1>19 DEF Framed
<1>21. ASSUME NEW d \in 1..3, d # k PROVE file'[FieldAt[d] + 1] = file[FieldAt[d] + 1]
  <2>1. FieldAt[d] \in 2..7 /\ FieldAt[d] + 1 \in 1..Len(file)
    BY <1>2, <1>14
  <2>2. CASE k \in 1..3
    <3>1. pos = FieldAt[k] /\ FieldAt[k] \in 2..7 /\ FieldAt[d] # FieldAt[k] /\ n <= 1
      <4>1. n <= 1
        BY <1>11, <2>2
      <4> QED
        BY <1>2, <1>8, <1>21, <2>2, <4>1
    <3>2. FieldAt[d] + 1 \notin (pos + 1)..(pos + n)
      BY SMTT(30), <1>11, <2>1, <3>1
    <3> QED
      BY <1>12, <2>1, <3>2
  <2>3. CASE k = 4
    <3>1. FieldAt[d] + 1 > pos + n
      BY <1>1, <1>11, <2>1, <2>3
    <3> QED
      BY <1>13, <2>1, <3>1
  <2> QED
    BY <1>6, <2>2, <2>3
<1>22. Filled(k)'
  <2>1. \A d \in 1..3 : d < k => d # k /\ file[FieldAt[d] + 1] = Field[d]
    BY <1>1 DEF Filled
  <2> QED
    BY <1>18, <1>21, <2>1 DEF Filled
<1>23. ASSUME k \in 1..3, n = 1 PROVE Filled(k + 1)'
  <2>1. file'[FieldAt[k] + 1] = Field[k]
    <3>1. FieldAt[k] + 1 \in 1..Len(file) /\ FieldAt[k] \in 2..7 /\ pos = FieldAt[k]
      BY <1>2, <1>8, <1>14, <1>23
    <3>2. FieldAt[k] + 1 \in (pos + 1)..(pos + n) /\ (FieldAt[k] + 1) - pos = 1
      BY <1>23, <3>1
    <3>3. cells[1] = Field[k]
      BY <1>8, <1>23
    <3> QED
      BY <1>12, <3>1, <3>2, <3>3
  <2>2. \A d \in 1..3 : d < k + 1 => d = k \/ d < k
    BY <1>23
  <2>3. \A d \in 1..3 : d < k => d # k /\ file[FieldAt[d] + 1] = Field[d]
    BY <1>1 DEF Filled
  <2> QED
    BY <1>18, <1>21, <2>1, <2>2, <2>3 DEF Filled
<1>24. Signed => Signed'
  <2> SUFFICES ASSUME Signed PROVE Signed'
    OBVIOUS
  <2>1. SubSeq(file, 1, 2) = Signature
    BY DEF Signed
  <2>2. file[1] = SignatureStart /\ file[2] = Cell("M", 0, 0)
    <3>1. Signature[1] = SignatureStart /\ Signature[2] = Cell("M", 0, 0)
      BY DEF Signature, SignatureStart
    <3>2. SubSeq(file, 1, 2)[1] = file[1] /\ SubSeq(file, 1, 2)[2] = file[2]
      OBVIOUS
    <3> QED
      BY <2>1, <3>1, <3>2
  <2>3. k = 4 /\ cells = <<Cell("M", 0, 0)>> /\ pos = 1
    BY <1>7, <2>2 DEF cells
  <2>4. file'[1] = SignatureStart
    BY <1>11, <1>12, <1>14, <2>2, <2>3
  <2>5. file'[2] = Cell("M", 0, 0)
    <3>1. cells[1] = Cell("M", 0, 0)
      BY <2>3
    <3>2. file'[2] = IF 2 \in 2..(1 + n) THEN cells[2 - 1] ELSE file[2]
      BY <1>11, <1>12, <1>14, <2>3
    <3> QED
      BY <2>2, <3>1, <3>2
  <2>6. Len(file') >= 2
    BY <1>12 DEF Signed
  <2>7. SubSeq(file', 1, 2) = Signature
    <3>1. SubSeq(file', 1, 2) = <<file'[1], file'[2]>>
      <4> DEFINE f == file'
      <4>1. f \in Seq(Cells) /\ Len(f) >= 2
        BY <1>12, <2>6
      <4> HIDE DEF f
      <4>2. SubSeq(f, 1, 2) = <<f[1], f[2]>>
        BY <4>1, FirstTwo
      <4> QED
        BY <4>2 DEF f
    <3> QED
      BY <2>4, <2>5, <3>1 DEF Signature, SignatureStart
  <2> QED
    BY <2>6, <2>7 DEF Signed, Signature
<1> QED
  BY <1>8, <1>9, <1>15, <1>20, <1>22, <1>23, <1>24 DEF cells

\* A sequence with an element before it.
LEMMA ConsParts ==
  ASSUME NEW S, NEW s \in Seq(S), NEW x \in S
  PROVE  /\ <<x>> \o s # <<>> /\ Head(<<x>> \o s) = x /\ Tail(<<x>> \o s) = s
OBVIOUS

LEMMA SizedIsNotEmpty ==
  ASSUME TypeOK, Len(file) = FileSize
  PROVE  file # <<>>
<1> DEFINE area == stride * height
<1>1. PixelOffset(mode) \in Nat /\ PixelOffset(mode) > 0 /\ area \in Nat
  BY DEF PixelOffset, HeaderCells, TypeOK
<1>2. Len(file) = PixelOffset(mode) + area
  BY DEF FileSize
<1> HIDE DEF area
<1>3. Len(file) > 0
  BY <1>1, <1>2
<1> QED
  BY <1>3

\* A file with the frame of an image is whole once it is signed, if the signature comes
\* after the fields.
Ordered == Filled(4) \/ file[1] # SignatureStart

LEMMA OrderedIsWhole == TypeOK /\ Framed /\ Ordered => SignedIsWhole /\ file # <<>>
<1> SUFFICES ASSUME TypeOK, Framed, Ordered PROVE SignedIsWhole /\ file # <<>>
  OBVIOUS
<1>1. file \in Seq(Cells)
  BY DEF TypeOK
<1>2. file # <<>>
  BY SizedIsNotEmpty DEF Framed
<1>3. CASE Filled(4)
  <2>1. /\ file[FieldAt[1] + 1] = Field[1] /\ file[FieldAt[2] + 1] = Field[2]
        /\ file[FieldAt[3] + 1] = Field[3]
    BY <1>3 DEF Filled
  <2>2. /\ FieldAt[1] = FileSizeAt /\ FieldAt[2] = HeightAt /\ FieldAt[3] = ImageSizeAt
        /\ Field[1] = Cell("size", FileSize, 0) /\ Field[2] = Cell("height", -height, 0)
        /\ Field[3] = Cell("size", stride * height, 0)
    BY DEF FieldAt, Field
  <2> QED
    BY <1>2, <2>1, <2>2 DEF SignedIsWhole, Framed
<1>4. CASE file[1] # SignatureStart
  BY <1>1, <1>2, <1>4, FreshIsUnsigned DEF SignedIsWhole
<1> QED
  BY <1>2, <1>3, <1>4 DEF Ordered

LEMMA FinishingIsOrdered == Finishing => Framed /\ Ordered
  BY DEF Finishing, Reached, Ordered

\* finish() begins with its plan to do and no signature in the file.
LEMMA FinishBegins ==
  ASSUME TypeOK, Framed, file[1] # SignatureStart, plan' = FinishPlan,
         UNCHANGED <<file, mode, width, stride, height>>
  PROVE  Finishing'
<1>1. FinishPlan \in Seq(Writes) /\ Len(FinishPlan) = 4
  BY FinishPlanIs
<1>2. FinishPlan # <<>> /\ Head(FinishPlan) = FinishPlan[1] /\ Tail(FinishPlan) = SubSeq(FinishPlan, 2, 4)
  <2>1. FinishPlan # <<>>
    BY <1>1
  <2>2. Tail(FinishPlan) = SubSeq(FinishPlan, 2, Len(FinishPlan))
    BY <1>1, <2>1, TailIsSubSeq
  <2>3. Head(FinishPlan) = FinishPlan[1]
    OBVIOUS
  <2> QED
    BY <1>1, <2>1, <2>2, <2>3
<1>3. /\ FileSize' = FileSize /\ FinishPlan' = FinishPlan
      /\ PixelOffset(mode)' = PixelOffset(mode)
      /\ \A i : PixelCell(i)' = PixelCell(i)
  BY FinishPlanStays
<1>4. Framed'
  BY <1>3 DEF Framed, RowsInPlace
<1>5. Filled(1)'
  BY DEF Filled
<1>6. Reached(1)'
  BY <1>2, <1>3, <1>5 DEF Reached
<1> QED
  BY <1>4, <1>6 DEF Finishing

\* A seek leaves its write to do, at its place.
LEMMA FinishSeeks ==
  ASSUME TypeOK, Finishing, plan # <<>>, Head(plan).at # Here,
         pos' = Head(plan).at, plan' = <<Put(Head(plan).cells)>> \o Tail(plan),
         UNCHANGED <<file, mode, width, stride, height>>
  PROVE  Finishing'
<1>1. PICK k \in 1..4 : Reached(k)
  BY DEF Finishing
<1>2. Head(plan) = FinishPlan[k] /\ file[1] # SignatureStart
  <2>1. \A w : Put(w).at = Here
    BY DEF Put
  <2> QED
    BY <1>1, <2>1 DEF Reached
<1>3. /\ FileSize' = FileSize /\ FinishPlan' = FinishPlan /\ Field' = Field
      /\ PixelOffset(mode)' = PixelOffset(mode)
      /\ \A i : PixelCell(i)' = PixelCell(i)
  BY FinishPlanStays
<1>4. Framed'
  BY <1>3 DEF Finishing, Framed, RowsInPlace
<1>5. Filled(k)'
  BY <1>1, <1>3 DEF Reached, Filled
<1>6. plan' # <<>> /\ Head(plan') = Put(FinishPlan[k].cells) /\ Tail(plan') = Tail(plan)
  <2>1. Head(plan) \in Writes /\ Tail(plan) \in Seq(Writes)
    BY DEF TypeOK
  <2>2. Head(plan).cells \in Seq(Cells)
    BY <2>1 DEF Writes
  <2>3. Put(Head(plan).cells) \in Writes
    BY <2>2, PutTyped
  <2> QED
    BY <1>2, <2>1, <2>3, ConsParts
<1>7. Reached(k)'
  BY <1>1, <1>2, <1>3, <1>5, <1>6 DEF Reached
<1> QED
  BY <1>4, <1>7 DEF Finishing

\* A call that makes progress goes on to the next write, or to the rest of this one.
LEMMA FinishProgress ==
  ASSUME TypeOK, Finishing, plan # <<>>, Head(plan).at = Here,
         NEW n \in 1..Len(Head(plan).cells), WriteSome(n),
         UNCHANGED <<mode, width, stride, height>>
  PROVE  Finishing' /\ (Signed => Signed')
<1> DEFINE cells == Head(plan).cells
           rest == SubSeq(cells, n + 1, Len(cells))
<1>1. PICK k \in 1..4 : Reached(k)
  BY DEF Finishing
<1>2. Head(plan) \in Writes /\ Tail(plan) \in Seq(Writes) /\ Tail(plan) = SubSeq(FinishPlan, k + 1, 4)
  <2>1. plan \in Seq(Writes)
    BY DEF TypeOK
  <2>2. Tail(plan) = SubSeq(FinishPlan, k + 1, 4)
    BY <1>1 DEF Reached
  <2> QED
    BY <2>1, <2>2
<1>3. cells \in Seq(Cells) /\ n \in 0..Len(cells) /\ n \in 1..Len(cells)
  <2>1. cells \in Seq(Cells)
    BY <1>2 DEF Writes
  <2> QED
    BY <2>1
<1>4. /\ Consumes(n) /\ plan' = (IF rest = <<>> THEN <<>> ELSE <<Put(rest)>>) \o Tail(plan)
      /\ pos' = pos + n
  BY DEF WriteSome, Consumes
<1>5. /\ Framed' /\ Filled(k)' /\ (Signed => Signed')
      /\ k < 4 => /\ file'[1] # SignatureStart
                  /\ cells = <<Field[k]>> /\ (n = 1 => Filled(k + 1)')
      /\ k = 4 => \/ cells = Signature /\ pos = 0
                  \/ cells = <<Cell("M", 0, 0)>> /\ pos = 1
  BY <1>1, <1>3, <1>4, FinishCall DEF Finishing
<1>6. FinishPlan \in Seq(Writes) /\ Len(FinishPlan) = 4 /\ FinishPlan' = FinishPlan
  BY FinishPlanIs, FinishPlanStays
<1> HIDE DEF cells, rest
<1>7. \A c : Len(<<c>>) = 1
  OBVIOUS
<1>8. n = Len(cells) => rest = <<>> /\ plan' = Tail(plan)
  <2> SUFFICES ASSUME n = Len(cells) PROVE rest = <<>> /\ plan' = Tail(plan)
    OBVIOUS
  <2>1. rest = <<>>
    BY <1>3, SubSeqEmpty DEF rest
  <2> QED
    BY <1>2, <1>4, <2>1, ConcatEmptySeq
<1>9. CASE k < 4
  <2>1. n = 1 /\ plan' = Tail(plan)
    <3>1. Len(cells) = 1
      BY <1>5, <1>7, <1>9
    <3> QED
      BY <1>3, <1>8, <3>1
  <2>2. k + 1 \in 1..4
    BY <1>9
  <2>3. Head(Tail(plan)) = FinishPlan[k + 1] /\ Tail(Tail(plan)) = SubSeq(FinishPlan, (k + 1) + 1, 4)
    BY <1>2, <1>6, <2>2, HeadTailOfSubSeq
  <2>4. Tail(plan) # <<>>
    <3> DEFINE m == k + 1
    <3>1. m \in 1..4 /\ m \in Int /\ 4 \in Int /\ m <= 4 /\ 4 - m + 1 > 0
      BY <2>2
    <3>2. ASSUME NEW i \in m..4 PROVE FinishPlan[i] \in Writes
      <4>1. i \in 1..Len(FinishPlan)
        BY <1>6, <3>1
      <4> QED
        BY <1>6, <4>1, ElementOfSeq
    <3> HIDE DEF m
    <3>3. Len(SubSeq(FinishPlan, m, 4)) = 4 - m + 1
      BY <3>1, <3>2, SubSeqProperties
    <3>4. Len(<<>>) = 0 /\ Tail(plan) = SubSeq(FinishPlan, m, 4)
      BY <1>2 DEF m
    <3> DEFINE t == SubSeq(FinishPlan, m, 4)
    <3>5. Len(t) > 0
      BY <3>1, <3>3
    <3> HIDE DEF t
    <3>6. t # <<>>
      BY <3>4, <3>5
    <3> QED
      BY <3>4, <3>6 DEF t
  <2>5. Reached(k + 1)'
    BY <1>5, <1>6, <1>9, <2>1, <2>3, <2>4 DEF Reached
  <2> QED
    BY <1>5, <2>2, <2>5 DEF Finishing
<1>10. CASE k = 4
  <2>1. Tail(plan) = <<>>
    BY <1>2, <1>10, SubSeqEmpty
  <2>2. CASE n = Len(cells)
    BY <1>5, <1>8, <1>10, <2>1, <2>2 DEF Finishing
  <2>3. CASE n # Len(cells)
    <3>1. cells = Signature /\ pos = 0 /\ n = 1
      <4>1. Len(Signature) = 2
        BY DEF Signature
      <4>2. CASE cells = Signature /\ pos = 0
        <5>1. n \in 1..2 /\ n # 2
          BY <1>3, <2>3, <4>1, <4>2
        <5> QED
          BY <4>2, <5>1
      <4>3. CASE cells = <<Cell("M", 0, 0)>> /\ pos = 1
        <5>1. Len(cells) = 1
          BY <1>7, <4>3
        <5> QED
          BY <1>3, <2>3, <5>1
      <4> QED
        BY <1>5, <1>10, <4>2, <4>3
    <3>2. rest = <<Cell("M", 0, 0)>>
      <4> DEFINE b == Cell("B", 0, 0)  m == Cell("M", 0, 0)
      <4>3. Signature = <<b, m>>
        BY DEF Signature
      <4> HIDE DEF b, m
      <4>1. SubSeq(Signature, 2, 2) = <<m>>
        <5>1. Signature \in Seq({b, m}) /\ Len(Signature) = 2 /\ Signature[2] = m /\ 2 + 1 = 3
          BY <4>3
        <5>2. SubSeq(Signature, 2, 2) = <<m>> \o SubSeq(Signature, 3, 2)
          BY <5>1, SubSeqRecursiveFirst
        <5>3. SubSeq(Signature, 3, 2) = <<>> /\ <<m>> \in Seq({m})
          BY SubSeqEmpty
        <5> QED
          BY <5>2, <5>3, ConcatEmptySeq
      <4>2. Len(Signature) = 2 /\ m = Cell("M", 0, 0)
        BY <4>3 DEF m
      <4> QED
        BY <3>1, <4>1, <4>2 DEF rest
    <3>3. Put(rest) \in Writes
      <4>1. Cell("M", 0, 0) \in Cells
        BY DEF Cell, Cells, Tags
      <4>2. rest \in Seq(Cells)
        BY <3>2, <4>1
      <4> QED
        BY <4>2, PutTyped
    <3>4. plan' = <<Put(rest)>> \o Tail(plan)
      <4>1. rest # <<>>
        BY <3>2
      <4> QED
        BY <1>4, <4>1
    <3>5. plan' # <<>> /\ Head(plan') = Put(<<Cell("M", 0, 0)>>) /\ Tail(plan') = SubSeq(FinishPlan, 5, 4)
      BY <1>2, <1>10, <3>2, <3>3, <3>4, ConsParts
    <3>6. Reached(4)'
      BY <1>4, <1>5, <1>6, <1>10, <3>1, <3>5 DEF Reached
    <3> QED
      BY <1>5, <3>6 DEF Finishing
  <2> QED
    BY <2>2, <2>3
<1> QED
  BY <1>9, <1>10

\* An error ends finish() with the file as ordered as it was.
LEMMA FinishFails ==
  ASSUME TypeOK, Finishing, plan # <<>>, Head(plan).at = Here,
         NEW n \in 0..Len(Head(plan).cells), Consumes(n),
         UNCHANGED <<mode, width, stride, height>>
  PROVE  Framed' /\ Ordered' /\ (Signed => Signed')
<1>1. PICK k \in 1..4 : Reached(k)
  BY DEF Finishing
<1>2. /\ Framed' /\ Filled(k)' /\ (Signed => Signed')
      /\ k < 4 => file'[1] # SignatureStart
  BY <1>1, FinishCall DEF Finishing
<1>3. k < 4 \/ k = 4
  OBVIOUS
<1> QED
  BY <1>2, <1>3 DEF Ordered

-------------------------------------------------------------------------------
\* A band whose plan is laid out at the end of the file, with the rows before it there.
LEMMA BandAppends ==
  ASSUME TypeOK, NEW b \in Bands, b.width > 0, RowBytes(b.width) > 0,
         plan' = BandPlan(b), width' = b.width, stride' = Stride(b.width),
         UNCHANGED <<file, pos, mode, height>>,
         pos = Len(file), Len(file) = PixelOffset(mode) + Stride(b.width) * height, InPlace',
         NEW end, end = PixelOffset(mode) + Stride(b.width) * (height + b.rows)
  PROVE  Appends(end)'
<1> DEFINE x == b.width  s == Stride(x)  writes == BandPlan(b)
<1>1. PICK start :
        /\ Placed(writes, start)
        /\ start[1] = pos /\ start[Len(writes) + 1] = end
        /\ \A k \in 1..Len(writes) : writes[k].at = Here
        /\ \A i, c : Lays(writes, start, i, c) =>
             \E row \in Nat : \E col \in 0..(s - 1) :
                i = PixelOffset(mode) + s * row + col + 1 /\ c = PixelAt(x, row, col)
  BY BandPlanPlaced
<1>2. s \in Nat /\ s > 0 /\ s = stride' /\ x = width'
  <2>1. x \in Nat /\ mode \in Modes /\ RowBytes(x) > 0
    BY InputsAssumption DEF TypeOK, Bands
  <2>2. RowBytes(x) \in Nat /\ s \in Nat /\ RowBytes(x) <= s
    BY <2>1, RowBytesNat, StrideBounds
  <2> QED
    BY <2>1, <2>2
<1>3. PixelOffset(mode) \in Nat /\ PixelOffset(mode)' = PixelOffset(mode)
  BY DEF PixelOffset, HeaderCells
<1> HIDE DEF x, s, writes
<1>4. ASSUME NEW row \in Nat, NEW col \in 0..(s - 1), NEW i, NEW c,
             i = PixelOffset(mode) + s * row + col + 1, c = PixelAt(x, row, col)
      PROVE  Belongs(i, c)'
  <2>1. PICK head \in Nat : head = PixelOffset(mode) /\ head = PixelOffset(mode)'
    BY <1>3
  <2>2. PICK at : at = s * row + col
    OBVIOUS
  <2>3. PICK t \in Nat : t = s /\ t > 0 /\ t = stride'
    BY <1>2
  <2>4. at = t * row + col
    BY <2>2, <2>3
  <2>5. at \div t = row /\ at % t = col /\ t * row \in Nat /\ col \in Nat
    <3>1. col \in 0..(t - 1) /\ col \in Nat
      BY <2>3
    <3>2. (t * row + col) \div t = row /\ (t * row + col) % t = col /\ t * row \in Nat
      BY <2>3, <3>1, RowAndColumn
    <3> QED
      BY <2>4, <3>1, <3>2
  <2>6. i > head /\ i - head - 1 = at
    <3> DEFINE area == t * row
    <3>1. i = head + area + col + 1 /\ at = area + col /\ area \in Nat /\ col \in Nat
      BY <1>4, <2>1, <2>3, <2>4, <2>5
    <3> HIDE DEF area
    <3> QED
      BY <3>1
  <2>7. PixelCell(at)' = PixelAt(x, row, col)
    BY <1>2, <2>3, <2>5 DEF PixelCell, PixelAt, RowBytes
  <2> QED
    BY <1>4, <2>1, <2>6, <2>7 DEF Belongs
<1>5. ASSUME NEW i, NEW c, Lays(plan, start, i, c)' PROVE Belongs(i, c)'
  <2>1. Lays(writes, start, i, c)
    BY <1>5 DEF Lays, writes
  <2>2. PICK row \in Nat : \E col \in 0..(s - 1) :
          i = PixelOffset(mode) + s * row + col + 1 /\ c = PixelAt(x, row, col)
    BY <1>1, <2>1
  <2>3. PICK col \in 0..(s - 1) :
          i = PixelOffset(mode) + s * row + col + 1 /\ c = PixelAt(x, row, col)
    BY <2>2
  <2> QED
    BY <1>4, <2>3
<1>6. Placed(plan, start)'
  BY <1>1 DEF Placed, writes
<1>7. (\A i, c : Lays(plan, start, i, c) => Belongs(i, c))'
  BY <1>5
<1>8. /\ start[1] = pos' /\ start[Len(plan') + 1] = end /\ pos' = Len(file')
      /\ \A k \in 1..Len(plan') : plan'[k].at = Here
  BY <1>1 DEF writes
<1> QED
  BY <1>6, <1>7, <1>8 DEF Appends

\* What a reader makes of the file does not change while file and geometry stay.
LEMMA FileStays ==
  ASSUME UNCHANGED <<file, mode, width, stride, height>>
  PROVE  /\ FileSize' = FileSize /\ PixelOffset(mode)' = PixelOffset(mode)
         /\ Fresh' <=> Fresh
         /\ InPlace' <=> InPlace
         /\ RowsInPlace' <=> RowsInPlace
         /\ Signed' <=> Signed
         /\ SignedIsWhole' <=> SignedIsWhole
<1>1. FileSize' = FileSize /\ PixelOffset(mode)' = PixelOffset(mode) /\ \A i : PixelCell(i)' = PixelCell(i)
  BY FinishPlanStays
<1>2. Fresh' <=> Fresh
  BY DEF Fresh
<1>3. InPlace' <=> InPlace
  <2>1. \A i, c : Belongs(i, c)' <=> Belongs(i, c)
    BY DEF Belongs, PixelOffset, PixelCell, RowBytes
  <2> QED
    BY <2>1 DEF InPlace
<1>4. RowsInPlace' <=> RowsInPlace
  BY <1>1 DEF RowsInPlace
<1>5. Signed' <=> Signed
  BY DEF Signed, Signature
<1>6. SignedIsWhole' <=> SignedIsWhole
  BY <1>1, <1>4, <1>5 DEF SignedIsWhole
<1> QED
  BY <1>1, <1>2, <1>3, <1>4, <1>5, <1>6

LEMMA FreshIsWhole == TypeOK /\ Fresh => ~Signed /\ SignedIsWhole
<1> SUFFICES ASSUME TypeOK, Fresh PROVE ~Signed /\ SignedIsWhole
  OBVIOUS
<1>1. ~Signed
  BY FreshIsUnsigned DEF TypeOK, Fresh
<1> QED
  BY <1>1 DEF SignedIsWhole

\* A file in its places that is as long as its header says has its rows in place.
LEMMA PlacedRows ==
  ASSUME TypeOK, InPlace, Len(file) = FileSize
  PROVE  RowsInPlace
<1> SUFFICES ASSUME NEW i \in 0..(stride * height - 1)
             PROVE  file[PixelOffset(mode) + i + 1] = PixelCell(i)
  BY DEF RowsInPlace
<1> DEFINE head == PixelOffset(mode)  area == stride * height  j == head + i + 1
<1>1. head \in Nat /\ area \in Nat /\ Len(file) = head + area /\ i \in 0..(area - 1)
  BY DEF TypeOK, FileSize, PixelOffset, HeaderCells
<1> HIDE DEF head, area
<1>2. j \in 1..Len(file) /\ j > head /\ j - head - 1 = i
  BY <1>1
<1>3. file[j] = PixelCell(j - head - 1)
  BY <1>2 DEF InPlace, Belongs, head
<1> QED
  BY <1>2, <1>3 DEF head

\* Nothing of an image is in the file until a band is.
LEMMA EmptyIsPlaced ==
  ASSUME TypeOK, width = 0 <=> height = 0, Len(file) = IF height = 0 THEN 0 ELSE FileSize, InPlace
  PROVE  RowsInPlace
<1>1. CASE height = 0
  <2>1. stride * height = 0
    BY <1>1 DEF TypeOK
  <2> QED
    BY <2>1 DEF RowsInPlace
<1>2. CASE height # 0
  BY <1>2, PlacedRows
<1> QED
  BY <1>1, <1>2

-------------------------------------------------------------------------------
LEMMA InitEstablishesFileInv == Init => FileInv
  BY DEF Init, FileInv

LEMMA NewKeepsFileInv ==
  ASSUME EncoderInv, FileInv, NEW dpi \in Dpis, New(dpi), TypeOK'
  PROVE  FileInv'
<1>1. /\ stage = "new" /\ plan = <<>> /\ ~poisoned /\ width = 0 /\ height = 0
      /\ file \in {<<>>, <<Foreign>>} /\ pos <= Len(file) /\ pos \in Nat
  BY DEF New, FileInv, EncoderInv, CounterInv, TypeOK
<1>2. UNCHANGED <<file, mode, width, stride, height, poisoned, plan>>
  BY DEF New, counters
<1>3. CASE stage' = "closed"
  <2>1. file # <<>> => file[1] # SignatureStart
    BY <1>1 DEF Foreign, SignatureStart, Cell
  <2>2. ~Signed
    BY <2>1, FreshIsUnsigned DEF EncoderInv, TypeOK
  <2>3. SignedIsWhole'
    BY <1>2, <2>2, FileStays DEF SignedIsWhole
  <2> QED
    BY <1>1, <1>2, <1>3, <2>3 DEF FileInv
<1>4. CASE stage' = "open" /\ file = <<>> /\ UNCHANGED pos
  <2>1. Len(file) = 0 /\ pos = 0
    BY <1>1, <1>4
  <2>2. Fresh' /\ InPlace'
    BY <1>2, <1>4, <2>1 DEF Fresh, InPlace
  <2> QED
    BY <1>1, <1>2, <1>4, <2>1, <2>2 DEF FileInv
<1> QED
  BY <1>3, <1>4 DEF New, Refused, Ends

LEMMA PushKeepsFileInv ==
  ASSUME EncoderInv, FileInv, NEW b \in Bands, Push(b)
  PROVE  FileInv'
<1>1. /\ stage = "open" /\ ~poisoned /\ plan = <<>> /\ band' = b
      /\ UNCHANGED <<file, pos, mode, ppm, width, stride, height>>
  BY DEF Push, FileInv, stream, counters
<1>2. /\ Fresh /\ pos = Len(file) /\ InPlace /\ (width = 0 <=> height = 0)
      /\ Len(file) = IF height = 0 THEN 0 ELSE FileSize
  BY <1>1 DEF FileInv
<1>3. TypeOK
  BY DEF EncoderInv
<1>4. Fresh' /\ InPlace'
  BY <1>1, <1>2, FileStays
<1>5. CASE poisoned' = TRUE /\ UNCHANGED <<stage, plan>>
  BY <1>1, <1>4, <1>5 DEF FileInv
<1>6. CASE Accepts(b) /\ width = 0 /\ stage' = "header" /\ plan' = HeaderPlan(b.width) /\ UNCHANGED poisoned
  <2>1. b.width \in Nat /\ pos = 0
    BY <1>2, <1>6, AcceptedBandStarts
  <2>2. PICK head \in Nat : head = PixelOffset(mode) /\ head = PixelOffset(mode)'
    BY <1>1 DEF PixelOffset, HeaderCells
  <2>3. PICK start :
           /\ Placed(HeaderPlan(b.width), start)
           /\ start[1] = 0 /\ start[Len(HeaderPlan(b.width)) + 1] = head
           /\ \A k \in 1..Len(HeaderPlan(b.width)) :
                HeaderPlan(b.width)[k].at = Here \/ (k = 1 /\ HeaderPlan(b.width)[k].at = 0)
           /\ \A i, c : Lays(HeaderPlan(b.width), start, i, c) =>
                i \in 1..head /\ c \notin {Foreign, SignatureStart}
    BY <1>3, <2>1, <2>2, HeaderPlanPlaced
  <2>4. ASSUME NEW i, NEW c, Lays(plan, start, i, c)' PROVE Belongs(i, c)'
    <3>1. Lays(HeaderPlan(b.width), start, i, c)
      BY <1>6, <2>4 DEF Lays
    <3>2. i \in 1..head /\ c \notin {Foreign, SignatureStart}
      BY <2>3, <3>1
    <3> QED
      BY <2>2, <3>2 DEF Belongs
  <2>5. Placed(plan, start)'
    BY <1>6, <2>3 DEF Placed
  <2>6. (\A i, c : Lays(plan, start, i, c) => Belongs(i, c))'
    BY <2>4
  <2>7. /\ start[1] = pos' /\ start[Len(plan') + 1] = head /\ pos' = Len(file')
        /\ \A k \in 1..Len(plan') : plan'[k].at = Here \/ (k = 1 /\ plan'[k].at = pos')
    BY <1>1, <1>2, <1>6, <2>1, <2>3
  <2>8. Appends(head)'
    BY <1>4, <2>5, <2>6, <2>7 DEF Appends
  <2>9. Appends(PixelOffset(mode))'
    BY <2>2, <2>8 DEF Appends
  <2> QED
    BY <1>1, <1>6, <2>9 DEF FileInv
<1>7. CASE Accepts(b) /\ width # 0 /\ stage' = "rows" /\ plan' = BandPlan(b) /\ UNCHANGED poisoned
  <2>1. b.width = width /\ height # 0 /\ b.width > 0 /\ b.width \in Nat /\ b.rows \in Nat
    BY <1>2, <1>7, AcceptedBandStarts DEF Accepts
  <2>2. stride = Stride(b.width) /\ RowBytes(b.width) > 0
    BY <1>7, <2>1 DEF EncoderInv, CounterInv
  <2>3. width' = b.width /\ stride' = Stride(b.width)
    BY <1>1, <2>1, <2>2
  <2>4. Len(file) = PixelOffset(mode) + Stride(b.width) * height
    BY <1>2, <2>1, <2>2 DEF FileSize
  <2>5. PICK end : end = PixelOffset(mode) + Stride(b.width) * (height + b.rows)
    OBVIOUS
  <2>6. Appends(end)'
    BY <1>1, <1>2, <1>3, <1>4, <1>7, <2>1, <2>2, <2>3, <2>4, <2>5, BandAppends
  <2>7. end = (PixelOffset(mode) + stride * (height + band.rows))'
    BY <1>1, <2>3, <2>5 DEF PixelOffset
  <2>8. Appends(PixelOffset(mode) + stride * (height + band.rows))'
    BY <2>6, <2>7 DEF Appends
  <2> QED
    BY <1>1, <1>7, <2>8 DEF FileInv
<1> QED
  BY <1>5, <1>6, <1>7 DEF Push

\* With no write left, the file ends where the plan was to take it.
LEMMA AppendedAll ==
  ASSUME NEW end, Appends(end), plan = <<>>
  PROVE  pos = end /\ Len(file) = end /\ InPlace
<1>1. PICK start : start[1] = pos /\ start[Len(plan) + 1] = end
  BY DEF Appends
<1>2. Len(plan) + 1 = 1
  <2>1. Len(plan) = 0
    OBVIOUS
  <2> QED
    BY <2>1
<1> QED
  BY <1>1, <1>2 DEF Appends

LEMMA HeaderDoneKeepsFileInv ==
  ASSUME EncoderInv, FileInv, HeaderDone
  PROVE  FileInv'
<1>1. /\ stage = "header" /\ stage' = "rows" /\ plan = <<>> /\ plan' = BandPlan(band) /\ ~poisoned
      /\ width' = band.width /\ stride' = Stride(band.width)
      /\ UNCHANGED <<file, pos, mode, height, poisoned, band>>
  BY DEF HeaderDone, FileInv, stream
<1>2. /\ band \in Bands /\ ValidGeometry(band) /\ WithinLimits(band) /\ width = 0 /\ height = 0
      /\ TypeOK /\ mode \in Modes
  BY <1>1 DEF EncoderInv, BandInv, CounterInv, TypeOK
<1>3. PICK head \in Nat : head = PixelOffset(mode) /\ head = PixelOffset(mode)'
  BY <1>1 DEF PixelOffset, HeaderCells
<1>4. pos = head /\ Len(file) = head /\ InPlace
  <2>1. Appends(head)
    BY <1>1, <1>3 DEF FileInv
  <2> QED
    BY <1>1, <2>1, AppendedAll
<1>5. InPlace'
  <2>1. ASSUME NEW i \in 1..head PROVE Belongs(i, file[i])'
    <3>1. Belongs(i, file[i]) /\ ~(i > head)
      BY <1>4, <2>1 DEF InPlace
    <3> QED
      BY <1>1, <1>3, <3>1 DEF Belongs
  <2> QED
    BY <1>1, <1>4, <2>1 DEF InPlace
<1>6. /\ band.width \in Nat /\ band.width > 0 /\ band.rows \in Nat
      /\ RowBytes(band.width) > 0 /\ Stride(band.width) \in Nat
  <2>1. Accepts(band)
    BY <1>2 DEF Accepts
  <2>2. band.width \in Nat /\ band.width > 0 /\ band.rows \in Nat
    BY <1>2, <2>1, AcceptedBandStarts
  <2> QED
    BY <1>2, <2>2, RowBytesNat, StrideBounds
<1>7. Len(file) = PixelOffset(mode) + Stride(band.width) * height
  <2>1. Stride(band.width) * height = 0
    BY <1>2, <1>6
  <2> QED
    BY <1>3, <1>4, <2>1
<1>8. PICK end : end = PixelOffset(mode) + Stride(band.width) * (height + band.rows)
  OBVIOUS
<1>9. PICK b \in Bands : b = band
  BY <1>2
<1>10. Appends(end)'
  BY <1>1, <1>2, <1>4, <1>5, <1>6, <1>7, <1>8, <1>9, BandAppends
<1>11. end = (PixelOffset(mode) + stride * (height + band.rows))'
  BY <1>1, <1>3, <1>8
<1>12. Appends(PixelOffset(mode) + stride * (height + band.rows))'
  BY <1>10, <1>11 DEF Appends
<1> QED
  BY <1>1, <1>12 DEF FileInv

LEMMA BandDoneKeepsFileInv ==
  ASSUME EncoderInv, FileInv, BandDone, TypeOK'
  PROVE  /\ FileInv' /\ file # <<>> /\ InPlace
         /\ band.rows > 0 /\ band.rows \in Nat /\ height \in Nat
<1>1. /\ stage = "rows" /\ stage' = "open" /\ plan = <<>> /\ ~poisoned
      /\ height' = height + band.rows
      /\ UNCHANGED <<file, pos, mode, width, stride, poisoned, band, plan>>
  BY DEF BandDone, FileInv, stream
<1>2. /\ band \in Bands /\ ValidGeometry(band) /\ width = band.width /\ TypeOK
  BY <1>1 DEF EncoderInv, BandInv
<1>3. /\ band.rows \in Nat /\ band.rows > 0 /\ band.width > 0 /\ height \in Nat /\ stride \in Nat
  BY <1>2, InputsAssumption DEF ValidGeometry, Bands, Limits, TypeOK
<1>4. PICK end : end = PixelOffset(mode) + stride * (height + band.rows)
  OBVIOUS
<1>5. pos = end /\ Len(file) = end /\ InPlace
  <2>1. Appends(PixelOffset(mode) + stride * (height + band.rows))
    BY <1>1 DEF FileInv
  <2>2. Appends(end)
    BY <1>4, <2>1 DEF Appends
  <2> QED
    BY <1>1, <2>2, AppendedAll
<1>6. FileSize' = end /\ height' # 0 /\ width' # 0
  BY <1>1, <1>2, <1>3, <1>4 DEF FileSize, PixelOffset
<1>7. InPlace'
  <2>1. \A i, c : Belongs(i, c)' <=> Belongs(i, c)
    BY <1>1 DEF Belongs, PixelOffset, PixelCell, RowBytes
  <2> QED
    BY <1>1, <1>5, <2>1 DEF InPlace
<1>8. Fresh'
  BY <1>7, InPlaceIsFresh, PTL
<1>9. FileInv'
  BY <1>1, <1>5, <1>6, <1>7, <1>8 DEF FileInv
<1>10. file # <<>>
  <2>1. PixelOffset(mode) \in Nat /\ PixelOffset(mode) > 0 /\ stride * (height + band.rows) \in Nat
    BY <1>3 DEF PixelOffset, HeaderCells
  <2> DEFINE area == stride * (height + band.rows)
  <2>2. Len(file) = PixelOffset(mode) + area /\ area \in Nat
    BY <1>4, <1>5, <2>1
  <2> HIDE DEF area
  <2>3. Len(file) > 0
    BY <2>1, <2>2
  <2> QED
    BY <2>3
<1> QED
  BY <1>3, <1>5, <1>9, <1>10

LEMMA FinishKeepsFileInv ==
  ASSUME EncoderInv, FileInv, NEW agrees \in BOOLEAN, Finish(agrees)
  PROVE  FileInv'
<1>1. /\ stage = "open" /\ plan = <<>> /\ Fresh
      /\ UNCHANGED <<file, pos, mode, width, stride, height, poisoned>>
  BY DEF Finish, FileInv, stream, counters
<1>2. TypeOK
  BY DEF EncoderInv
<1>3. CASE stage' = "closed" /\ UNCHANGED plan
  <2>1. SignedIsWhole'
    BY <1>1, <1>2, FreshIsWhole, FileStays
  <2> QED
    BY <1>1, <1>3, <2>1 DEF FileInv
<1>4. CASE ~poisoned /\ width # 0 /\ stage' = "finish" /\ plan' = FinishPlan
  <2>1. /\ InPlace /\ height # 0 /\ Len(file) = FileSize
    BY <1>1, <1>4 DEF FileInv
  <2>2. RowsInPlace
    BY <1>2, <2>1, PlacedRows
  <2>3. file # <<>>
    BY <1>2, <2>1, SizedIsNotEmpty
  <2>4. file[1] # SignatureStart /\ file[1] # Foreign
    BY <1>1, <2>3 DEF Fresh
  <2>5. Framed
    BY <1>2, <2>1, <2>2, <2>4 DEF Framed, TypeOK
  <2>6. Finishing'
    BY <1>1, <1>2, <1>4, <2>4, <2>5, FinishBegins
  <2> QED
    BY <1>1, <1>4, <2>6 DEF FileInv
<1> QED
  BY <1>3, <1>4 DEF Finish, Ends

LEMMA EndsKeepFileInv ==
  ASSUME EncoderInv, FileInv, FinishDone \/ Dropped
  PROVE  FileInv'
<1>1. UNCHANGED <<file, pos, mode, width, stride, height, poisoned, plan>> /\ stage' = "closed" /\ plan = <<>>
  BY DEF FinishDone, Dropped, Ends, FileInv, stream, counters
<1>2. SignedIsWhole
  <2>1. CASE FinishDone
    BY <2>1, FinishingIsOrdered, OrderedIsWhole DEF FinishDone, FileInv, EncoderInv
  <2>2. CASE Dropped
    BY <2>2, FreshIsWhole DEF Dropped, FileInv, EncoderInv
  <2> QED
    BY <2>1, <2>2
<1>3. SignedIsWhole'
  BY <1>1, <1>2, FileStays
<1> QED
  BY <1>1, <1>3 DEF FileInv

\* The stage of a call of the stream, and what its plan does there.
LEMMA CallStage ==
  ASSUME EncoderInv, FileInv, plan # <<>>
  PROVE  /\ TypeOK /\ ~poisoned /\ stage \in {"header", "rows", "finish"}
         /\ Head(plan).cells \in Seq(Cells)
         /\ stage = "finish" => Finishing
         /\ stage \in {"header", "rows"} =>
              \E end \in Nat :
                 /\ Appends(end)
                 /\ stage = "header" => end = PixelOffset(mode)
                 /\ stage = "rows" => end = PixelOffset(mode) + stride * (height + band.rows)
<1>1. TypeOK /\ stage \in {"header", "rows", "finish"}
  BY DEF EncoderInv, TypeOK, FileInv
<1>2. Head(plan).cells \in Seq(Cells)
  <2>1. Head(plan) \in Writes
    BY <1>1 DEF TypeOK
  <2> QED
    BY <2>1 DEF Writes
<1>3. PixelOffset(mode) \in Nat
  BY DEF PixelOffset, HeaderCells
<1>4. CASE stage = "header"
  BY <1>1, <1>2, <1>3, <1>4 DEF FileInv
<1>5. CASE stage = "rows"
  <2>1. band.rows \in Nat /\ height \in Nat /\ stride \in Nat
    BY <1>1, <1>5, InputsAssumption DEF EncoderInv, BandInv, Bands, TypeOK
  <2>2. stride * (height + band.rows) \in Nat
    BY <2>1
  <2>3. PixelOffset(mode) + stride * (height + band.rows) \in Nat
    BY <1>3, <2>2
  <2> QED
    BY <1>1, <1>2, <1>5, <2>3 DEF FileInv
<1>6. CASE stage = "finish"
  BY <1>1, <1>2, <1>6 DEF FileInv
<1> QED
  BY <1>1, <1>4, <1>5, <1>6

\* An error of push() leaves its cells where they belong, and no signature.
LEMMA BrokenPush ==
  ASSUME FileInv, stage \in {"header", "rows"}, Breaks, TypeOK', InPlace'
  PROVE  FileInv'
<1>1. plan' = <<>> /\ poisoned' = TRUE /\ stage' = "open"
  BY DEF Breaks
<1>2. Fresh'
  BY InPlaceIsFresh, PTL
<1> QED
  BY <1>1, <1>2 DEF FileInv

\* An error of finish() leaves a file that is whole if it is signed.
LEMMA BrokenFinish ==
  ASSUME FileInv, stage = "finish", Breaks, TypeOK', Framed', Ordered'
  PROVE  FileInv'
<1>1. plan' = <<>> /\ stage' = "closed"
  BY DEF Breaks, Ends
<1>2. SignedIsWhole'
  BY OrderedIsWhole, PTL
<1> QED
  BY <1>1, <1>2 DEF FileInv

\* A call of push() that succeeds.
LEMMA GoesOn ==
  ASSUME FileInv, UNCHANGED <<mode, width, stride, height, band, poisoned, stage>>, ~poisoned,
         NEW end \in Nat, Appends(end)',
         stage \in {"header", "rows"},
         stage = "header" => end = PixelOffset(mode),
         stage = "rows" => end = PixelOffset(mode) + stride * (height + band.rows)
  PROVE  FileInv'
<1>1. PixelOffset(mode)' = PixelOffset(mode)
  BY DEF PixelOffset
<1>2. CASE stage = "header"
  <2>1. Appends(PixelOffset(mode))'
    BY <1>1, <1>2 DEF Appends
  <2> QED
    BY <1>2, <2>1 DEF FileInv
<1>3. CASE stage = "rows"
  <2>1. end = (PixelOffset(mode) + stride * (height + band.rows))'
    BY <1>1, <1>3
  <2>2. Appends(PixelOffset(mode) + stride * (height + band.rows))'
    BY <2>1 DEF Appends
  <2> QED
    BY <1>3, <2>2 DEF FileInv
<1> QED
  BY <1>2, <1>3

LEMMA SeekKeepsFileInv ==
  ASSUME EncoderInv, FileInv, SeekCall, TypeOK'
  PROVE  FileInv'
<1>1. /\ plan # <<>> /\ Head(plan).at # Here
      /\ UNCHANGED <<file, mode, width, stride, height, band>>
  BY DEF SeekCall, Keeps, counters
<1>2. /\ TypeOK /\ ~poisoned /\ stage \in {"header", "rows", "finish"}
      /\ stage = "finish" => Finishing
  BY <1>1, CallStage
<1>3. CASE stage \in {"header", "rows"}
  <2>1. PICK end \in Nat :
           /\ Appends(end)
           /\ stage = "header" => end = PixelOffset(mode)
           /\ stage = "rows" => end = PixelOffset(mode) + stride * (height + band.rows)
    BY <1>1, <1>3, CallStage
  <2>2. CASE Breaks
    <3>1. InPlace'
      BY <1>1, <2>1, FileStays DEF Appends
    <3> QED
      BY <1>3, <2>2, <3>1, BrokenPush
  <2>3. CASE pos' = Head(plan).at /\ plan' = <<Put(Head(plan).cells)>> \o Tail(plan)
             /\ UNCHANGED <<poisoned, stage, result>>
    <3>1. Appends(end)'
      BY <1>1, <1>2, <2>1, <2>3, SeekAppends
    <3> QED
      BY <1>1, <1>2, <1>3, <2>1, <2>3, <3>1, GoesOn
  <2> QED
    BY <2>2, <2>3 DEF SeekCall
<1>4. CASE stage = "finish"
  <2>1. CASE Breaks
    <3>1. Framed /\ Ordered
      BY <1>2, <1>4, FinishingIsOrdered
    <3>2. Framed' /\ Ordered'
      <4>1. RowsInPlace' /\ FileSize' = FileSize /\ Field' = Field
        BY <1>1, <3>1, FileStays, FinishPlanStays DEF Framed
      <4> QED
        BY <1>1, <3>1, <4>1 DEF Framed, Ordered, Filled
    <3> QED
      BY <1>4, <2>1, <3>2, BrokenFinish
  <2>2. CASE pos' = Head(plan).at /\ plan' = <<Put(Head(plan).cells)>> \o Tail(plan)
             /\ UNCHANGED <<poisoned, stage, result>>
    <3>1. Finishing'
      BY <1>1, <1>2, <1>4, <2>2, FinishSeeks
    <3> QED
      BY <1>2, <1>4, <2>2, <3>1 DEF FileInv
  <2> QED
    BY <2>1, <2>2 DEF SeekCall
<1> QED
  BY <1>2, <1>3, <1>4

\* A write of push() leaves every cell where it belongs, the failing one too; one of
\* finish() leaves the frame, and a signature that is there.
LEMMA WriteKeepsFileInv ==
  ASSUME EncoderInv, FileInv, WriteCall, TypeOK'
  PROVE  /\ FileInv'
         /\ stage \in {"header", "rows"} =>
              /\ InPlace /\ InPlace'
              /\ (UNCHANGED poisoned => file' # <<>>) /\ (file' = <<>> => file = <<>>)
         /\ stage = "finish" => Framed /\ Framed' /\ (Signed => Signed')
<1>1. /\ plan # <<>> /\ Head(plan).at = Here
      /\ UNCHANGED <<mode, width, stride, height, band>>
  BY DEF WriteCall, Keeps, counters
<1>2. /\ TypeOK /\ ~poisoned /\ stage \in {"header", "rows", "finish"}
      /\ Head(plan).cells \in Seq(Cells)
      /\ stage = "finish" => Finishing
  BY <1>1, CallStage
<1>3. PICK n \in 0..Len(Head(plan).cells) : (n > 0 /\ WriteSome(n)) \/ WriteFails(n)
  BY DEF WriteCall
<1>4. Consumes(n) /\ n \in Nat
  <2>1. Consumes(n)
    BY <1>3 DEF WriteSome, WriteFails
  <2>2. n \in Nat
    BY <1>2
  <2> QED
    BY <2>1, <2>2
<1>5. CASE stage \in {"header", "rows"}
  <2>1. PICK end \in Nat :
           /\ Appends(end)
           /\ stage = "header" => end = PixelOffset(mode)
           /\ stage = "rows" => end = PixelOffset(mode) + stride * (height + band.rows)
    BY <1>1, <1>5, CallStage
  <2>2. InPlace' /\ file' \in Seq(Cells) /\ Len(file') = pos + n
    BY <1>1, <1>2, <1>4, <2>1, AppendedInPlace
  <2>3. InPlace /\ pos = Len(file) /\ file \in Seq(Cells) /\ pos \in Nat
    BY <1>2, <2>1 DEF Appends, TypeOK
  <2>4. file' = <<>> => file = <<>> /\ n = 0
    <3> SUFFICES ASSUME file' = <<>> PROVE file = <<>> /\ n = 0
      OBVIOUS
    <3>1. Len(file') = 0
      OBVIOUS
    <3>2. Len(file) = 0 /\ n = 0
      BY <1>4, <2>2, <2>3, <3>1
    <3> QED
      BY <2>3, <3>2
  <2>5. CASE WriteFails(n)
    <3>1. Breaks /\ poisoned' = TRUE
      BY <1>5, <2>5 DEF WriteFails, Breaks
    <3>2. FileInv'
      BY <1>5, <2>2, <3>1, BrokenPush
    <3> QED
      BY <1>2, <1>5, <2>2, <2>3, <2>4, <3>1, <3>2
  <2>6. CASE n > 0 /\ WriteSome(n)
    <3>1. n \in 1..Len(Head(plan).cells)
      BY <1>2, <1>4, <2>6
    <3>2. Appends(end)'
      BY <1>1, <1>2, <2>1, <2>6, <3>1, ProgressAppends
    <3>3. UNCHANGED <<poisoned, stage>>
      BY <2>6 DEF WriteSome
    <3>4. FileInv'
      BY <1>1, <1>2, <1>5, <2>1, <3>2, <3>3, GoesOn
    <3> QED
      BY <1>5, <2>2, <2>3, <2>4, <2>6, <3>4
  <2> QED
    BY <1>3, <2>5, <2>6
<1>6. CASE stage = "finish"
  <2>1. CASE WriteFails(n)
    <3>1. Framed' /\ Ordered' /\ (Signed => Signed')
      BY <1>1, <1>2, <1>4, <1>6, FinishFails
    <3>2. FileInv'
      BY <1>6, <2>1, <3>1, BrokenFinish DEF WriteFails
    <3> QED
      BY <1>2, <1>6, <3>1, <3>2 DEF Finishing
  <2>2. CASE n > 0 /\ WriteSome(n)
    <3>1. n \in 1..Len(Head(plan).cells)
      BY <1>2, <1>4, <2>2
    <3>2. Finishing' /\ (Signed => Signed')
      BY <1>1, <1>2, <1>6, <2>2, <3>1, FinishProgress
    <3>3. UNCHANGED <<poisoned, stage>>
      BY <2>2 DEF WriteSome
    <3>4. FileInv'
      BY <1>2, <1>6, <3>2, <3>3 DEF FileInv
    <3> QED
      BY <1>2, <1>6, <3>2, <3>4 DEF Finishing
  <2> QED
    BY <1>3, <2>1, <2>2
<1> QED
  BY <1>2, <1>5, <1>6

LEMMA NextKeepsFileInv == EncoderInv /\ FileInv /\ EncoderInv' /\ [Next]_vars => FileInv'
<1> SUFFICES ASSUME EncoderInv, FileInv, EncoderInv', [Next]_vars PROVE FileInv'
  OBVIOUS
<1>1. TypeOK'
  BY DEF EncoderInv
<1>2. CASE UNCHANGED vars
  <2>1. UNCHANGED <<file, pos, mode, ppm, width, stride, height, poisoned, stage, band, plan>>
    BY <1>2 DEF vars, stream, counters
  <2>2. /\ FileSize' = FileSize /\ PixelOffset(mode)' = PixelOffset(mode) /\ FinishPlan' = FinishPlan
        /\ Field' = Field /\ (Fresh' <=> Fresh) /\ (InPlace' <=> InPlace)
        /\ (RowsInPlace' <=> RowsInPlace) /\ (SignedIsWhole' <=> SignedIsWhole)
    BY <2>1, FileStays, FinishPlanStays
  <2>3. \A i, c : Belongs(i, c)' <=> Belongs(i, c)
    BY <2>1 DEF Belongs, PixelOffset, PixelCell, RowBytes
  <2>4. \A end : Appends(end)' <=> Appends(end)
    BY <2>1, <2>2, <2>3 DEF Appends, Placed, Lays
  <2>5. Finishing' <=> Finishing
    BY <2>1, <2>2 DEF Finishing, Framed, Reached, Filled
  <2> QED
    BY <2>1, <2>2, <2>4, <2>5 DEF FileInv
<1>3. CASE SeekCall
  BY <1>1, <1>3, SeekKeepsFileInv
<1>4. CASE WriteCall
  BY <1>1, <1>4, WriteKeepsFileInv
<1>5. ASSUME NEW dpi \in Dpis, New(dpi) PROVE FileInv'
  BY <1>1, <1>5, NewKeepsFileInv
<1>6. ASSUME NEW b \in Bands, Push(b) PROVE FileInv'
  BY <1>6, PushKeepsFileInv
<1>7. CASE HeaderDone
  BY <1>7, HeaderDoneKeepsFileInv
<1>8. CASE BandDone
  BY <1>1, <1>8, BandDoneKeepsFileInv
<1>9. ASSUME NEW agrees \in BOOLEAN, Finish(agrees) PROVE FileInv'
  BY <1>9, FinishKeepsFileInv
<1>10. CASE FinishDone \/ Dropped
  BY <1>10, EndsKeepFileInv
<1> QED
  BY <1>2, <1>3, <1>4, <1>5, <1>6, <1>7, <1>8, <1>9, <1>10 DEF Next

LEMMA FileInvariant == Spec => []FileInv
  BY InitEstablishesFileInv, NextKeepsFileInv, EncoderInvariant, PTL DEF Spec

-------------------------------------------------------------------------------
\* Whatever a stream does with the writes of new(), push() and finish() - short writes,
\* failures that have consumed bytes, refused seeks - a file that bears the signature is
\* the whole image, and between two calls an encoder that is not poisoned counts what
\* the stream holds.
THEOREM FileStaysAsPromised == Spec => []FileIsAsPromised
<1>1. EncoderInv /\ FileInv => FileIsAsPromised
  <2> SUFFICES ASSUME EncoderInv, FileInv PROVE SignedIsWhole /\ StreamIsAsCounted
    BY DEF FileIsAsPromised
  <2>1. TypeOK
    BY DEF EncoderInv
  <2>2. SignedIsWhole
    <3>1. CASE stage = "new"
      <4>1. file # <<>> => file[1] # SignatureStart
        BY <3>1 DEF FileInv, Foreign, SignatureStart, Cell
      <4> QED
        BY <2>1, <4>1, FreshIsUnsigned DEF SignedIsWhole, TypeOK
    <3>2. CASE stage = "open"
      BY <2>1, <3>2, FreshIsWhole DEF FileInv
    <3>3. CASE stage \in {"header", "rows"}
      <4>1. InPlace
        BY <3>3 DEF FileInv, Appends
      <4> QED
        BY <2>1, <4>1, InPlaceIsFresh, FreshIsWhole
    <3>4. CASE stage = "finish"
      BY <2>1, <3>4, FinishingIsOrdered, OrderedIsWhole DEF FileInv
    <3>5. CASE stage = "closed"
      BY <3>5 DEF FileInv
    <3> QED
      BY <2>1, <3>1, <3>2, <3>3, <3>4, <3>5 DEF TypeOK
  <2>3. ASSUME stage = "open", ~poisoned
        PROVE  /\ pos = Len(file) /\ Len(file) = (IF height = 0 THEN 0 ELSE FileSize)
               /\ bytes = RowBytes(width) * height /\ RowsInPlace
    <3>1. /\ pos = Len(file) /\ InPlace /\ (width = 0 <=> height = 0)
          /\ Len(file) = IF height = 0 THEN 0 ELSE FileSize
      BY <2>3 DEF FileInv
    <3>2. RowsInPlace
      BY <2>1, <3>1, EmptyIsPlaced
    <3> QED
      BY <3>1, <3>2 DEF EncoderInv, CounterInv
  <2> QED
    BY <2>2, <2>3 DEF StreamIsAsCounted
<1> QED
  BY <1>1, EncoderInvariant, FileInvariant, PTL

-------------------------------------------------------------------------------
\* What the contract says the stream holds.
LEMMA OutputIs ==
  /\ Signed => Output = "complete"
  /\ ~Signed /\ file = <<>> => Output = "empty"
  /\ ~Signed /\ file \in Seq(Cells) /\ file # <<>> /\ file[1] # Foreign => Output = "partial"
<1>1. Signed => Output = "complete"
  BY DEF Output
<1>2. ~Signed /\ file = <<>> => Output = "empty"
  <2>1. file = <<>> => DOMAIN file = {}
    OBVIOUS
  <2> QED
    BY <2>1 DEF Output
<1>3. ~Signed /\ file \in Seq(Cells) /\ file # <<>> /\ file[1] # Foreign => Output = "partial"
  <2>1. file \in Seq(Cells) /\ file # <<>> => 1 \in DOMAIN file
    OBVIOUS
  <2> QED
    BY <2>1 DEF Output
<1> QED
  BY <1>1, <1>2, <1>3

\* Cells in their places are an image under way, or nothing.
LEMMA InPlaceOutput ==
  TypeOK /\ InPlace => ~Signed /\ Output = IF file = <<>> THEN "empty" ELSE "partial"
<1> SUFFICES ASSUME TypeOK, InPlace
             PROVE  ~Signed /\ Output = IF file = <<>> THEN "empty" ELSE "partial"
  OBVIOUS
<1>1. Fresh /\ ~Signed /\ file \in Seq(Cells)
  BY InPlaceIsFresh, FreshIsWhole DEF TypeOK
<1>2. file # <<>> => file[1] # Foreign
  BY <1>1 DEF Fresh
<1> QED
  BY <1>1, <1>2, OutputIs

\* The frame of an image holds it in part, or whole.
LEMMA FramedOutput ==
  TypeOK /\ Framed => Output = IF Signed THEN "complete" ELSE "partial"
<1> SUFFICES ASSUME TypeOK, Framed PROVE Output = IF Signed THEN "complete" ELSE "partial"
  OBVIOUS
<1>1. file \in Seq(Cells) /\ file # <<>> /\ file[1] # Foreign
  BY SizedIsNotEmpty DEF TypeOK, Framed
<1> QED
  BY <1>1, OutputIs

LEMMA OutputStays == ASSUME UNCHANGED file PROVE Output' = Output
  BY DEF Output, Signed, Signature

ContractStep == [Contract!BmpNext]_(Contract!encoder)

LEMMA StaysInContract ==
  ASSUME UNCHANGED <<height, poisoned>>, Output' = Output
  PROVE  ContractStep
  BY DEF ContractStep, Contract!encoder

\* A refused band, or a call of push() that fails.
LEMMA RefusalInContract ==
  ASSUME ~poisoned, Output # "complete", poisoned' = TRUE, UNCHANGED height,
         Output' \in {Output, "partial"}
  PROVE  ContractStep
  BY DEF ContractStep, Contract!BmpNext, Contract!BmpRefuse, Contract!Unfinished

LEMMA WriteKeepsContract ==
  ASSUME EncoderInv, FileInv, WriteCall, TypeOK'
  PROVE  ContractStep
<1>1. plan # <<>> /\ UNCHANGED <<mode, width, stride, height, band>>
  BY DEF WriteCall, Keeps, counters
<1>2. /\ TypeOK /\ ~poisoned /\ stage \in {"header", "rows", "finish"}
      /\ height \in Nat
  BY <1>1, CallStage DEF TypeOK
<1>3. CASE stage \in {"header", "rows"}
  <2>1. /\ InPlace /\ InPlace'
        /\ (UNCHANGED poisoned => file' # <<>>) /\ (file' = <<>> => file = <<>>)
    BY <1>3, WriteKeepsFileInv
  <2>2. Output # "complete" /\ Output = IF file = <<>> THEN "empty" ELSE "partial"
    BY <1>2, <2>1, InPlaceOutput
  <2>3. (TypeOK /\ InPlace)' => (Output = IF file = <<>> THEN "empty" ELSE "partial")'
    BY InPlaceOutput, PTL
  <2>4. Output' = IF file' = <<>> THEN "empty" ELSE "partial"
    BY <2>1, <2>3
  <2>5. poisoned' = TRUE \/ UNCHANGED poisoned
    BY <1>3 DEF WriteCall, WriteSome, WriteFails, Breaks
  <2>6. CASE UNCHANGED poisoned
    <3>1. Output' = "partial"
      BY <2>1, <2>4, <2>6
    <3> QED
      BY <1>1, <1>2, <2>2, <2>6, <3>1
         DEF ContractStep, Contract!BmpNext, Contract!BmpTouch, Contract!Unfinished
  <2>7. CASE poisoned' = TRUE
    <3>1. Output' \in {Output, "partial"}
      BY <2>1, <2>2, <2>4
    <3> QED
      BY <1>1, <1>2, <2>2, <2>7, <3>1, RefusalInContract
  <2> QED
    BY <2>5, <2>6, <2>7
<1>4. CASE stage = "finish"
  <2>1. Framed /\ Framed' /\ (Signed => Signed')
    BY <1>4, WriteKeepsFileInv
  <2>2. Output = IF Signed THEN "complete" ELSE "partial"
    BY <1>2, <2>1, FramedOutput
  <2>3. (TypeOK /\ Framed)' => (Output = IF Signed THEN "complete" ELSE "partial")'
    BY FramedOutput, PTL
  <2>4. Output' = IF Signed' THEN "complete" ELSE "partial"
    BY <2>1, <2>3
  <2>5. UNCHANGED poisoned
    BY <1>4 DEF WriteCall, WriteSome, WriteFails, Breaks
  <2>6. CASE Signed' /\ ~Signed
    <3>1. height > 0
      BY <2>1 DEF Framed
    <3> QED
      BY <1>1, <1>2, <2>2, <2>4, <2>5, <2>6, <3>1
         DEF ContractStep, Contract!BmpNext, Contract!BmpCommit, Contract!Unfinished
  <2>7. CASE Signed' <=> Signed
    <3>1. Output' = Output
      BY <2>2, <2>4, <2>7
    <3> QED
      BY <1>1, <2>5, <3>1, StaysInContract
  <2> QED
    BY <2>1, <2>6, <2>7
<1> QED
  BY <1>2, <1>3, <1>4

LEMMA NextKeepsContract ==
  EncoderInv /\ FileInv /\ EncoderInv' /\ [Next]_vars => ContractStep
<1> SUFFICES ASSUME EncoderInv, FileInv, EncoderInv', [Next]_vars PROVE ContractStep
  OBVIOUS
<1>1. TypeOK /\ TypeOK'
  BY DEF EncoderInv
<1>2. ASSUME UNCHANGED <<file, height, poisoned>> PROVE ContractStep
  BY <1>2, OutputStays, StaysInContract
<1>3. CASE UNCHANGED vars
  BY <1>2, <1>3 DEF vars, stream, counters
<1>4. CASE SeekCall
  <2>1. plan # <<>> /\ UNCHANGED <<file, height>>
    BY <1>4 DEF SeekCall, Keeps, counters
  <2>2. ~poisoned /\ stage \in {"header", "rows", "finish"}
    BY <2>1, CallStage
  <2>3. CASE UNCHANGED poisoned
    BY <1>2, <2>1, <2>3
  <2>4. CASE poisoned' = TRUE /\ stage \in {"header", "rows"}
    <3>1. InPlace
      BY <2>1, <2>4, CallStage DEF Appends
    <3>2. Output # "complete"
      BY <1>1, <3>1, InPlaceOutput
    <3> QED
      BY <2>1, <2>2, <2>4, <3>2, OutputStays, RefusalInContract
  <2> QED
    BY <1>4, <2>3, <2>4 DEF SeekCall, Breaks
<1>5. CASE WriteCall
  BY <1>1, <1>5, WriteKeepsContract
<1>6. ASSUME NEW dpi \in Dpis, New(dpi) PROVE ContractStep
  BY <1>2, <1>6 DEF New, counters
<1>7. ASSUME NEW b \in Bands, Push(b) PROVE ContractStep
  <2>1. stage = "open" /\ ~poisoned /\ UNCHANGED <<file, height>> /\ poisoned' \in {TRUE, poisoned}
    BY <1>7 DEF Push, stream, counters
  <2>2. CASE poisoned' = TRUE
    <3>1. ~Signed
      BY <1>1, <2>1, FreshIsWhole DEF FileInv
    <3>2. Output # "complete"
      BY <3>1 DEF Output
    <3> QED
      BY <2>1, <2>2, <3>2, OutputStays, RefusalInContract
  <2> QED
    BY <1>2, <2>1, <2>2
<1>8. CASE HeaderDone
  BY <1>2, <1>8 DEF HeaderDone, stream
<1>9. CASE BandDone
  <2>1. /\ file # <<>> /\ InPlace /\ band.rows > 0 /\ band.rows \in Nat /\ height \in Nat
    BY <1>1, <1>9, BandDoneKeepsFileInv
  <2>2. UNCHANGED <<file, poisoned>> /\ height' = height + band.rows /\ ~poisoned
    BY <1>9 DEF BandDone, FileInv, stream
  <2>3. Output = "partial" /\ Output' = "partial"
    BY <1>1, <2>1, <2>2, InPlaceOutput, OutputStays
  <2>4. band.rows \in 1..height'
    BY <2>1, <2>2
  <2>5. Contract!BmpAppend(band.rows)
    BY <2>2, <2>3 DEF Contract!BmpAppend, Contract!Unfinished
  <2> QED
    BY <2>4, <2>5 DEF ContractStep, Contract!BmpNext
<1>10. ASSUME NEW agrees \in BOOLEAN, Finish(agrees) PROVE ContractStep
  BY <1>2, <1>10 DEF Finish, stream, counters
<1>11. CASE FinishDone \/ Dropped
  BY <1>2, <1>11 DEF FinishDone, Dropped, stream, counters
<1> QED
  BY <1>3, <1>4, <1>5, <1>6, <1>7, <1>8, <1>9, <1>10, <1>11 DEF Next

\* The encoder keeps the contract the transfer relies on: rows only grow, an error is
\* final for the stream, and the file becomes valid once, by a write of finish(), after
\* the last row.
THEOREM EncoderImplementsContract == Spec => ImplementsContract
<1>1. Init => Contract!BmpInit
  <2> SUFFICES ASSUME Init PROVE Contract!BmpInit
    OBVIOUS
  <2>1. ~Signed
    <3>1. file \in Seq(Cells)
      BY InitEstablishesEncoderInv DEF EncoderInv, TypeOK
    <3>2. file # <<>> => file[1] # SignatureStart
      BY DEF Init, Foreign, SignatureStart, Cell
    <3> QED
      BY <3>1, <3>2, FreshIsUnsigned
  <2>2. \A i \in DOMAIN file : file[i] = Foreign
    BY DEF Init
  <2> QED
    BY <2>1, <2>2 DEF Init, Contract!BmpInit, Output
<1>2. EncoderInv /\ FileInv /\ EncoderInv' /\ [Next]_vars => [Contract!BmpNext]_(Contract!encoder)
  BY NextKeepsContract DEF ContractStep
<1> QED
  BY <1>1, <1>2, EncoderInvariant, FileInvariant, PTL
     DEF Spec, ImplementsContract, Contract!BmpSpec
===============================================================================
