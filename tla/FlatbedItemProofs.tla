--------------------------- MODULE FlatbedItemProofs ---------------------------
(***************************************************************************)
(* What FlatbedItem promises of any bed, any set of resolutions the core   *)
(* knows, and any requests: the numbers an application may write are not   *)
(* bounded.                                                                *)
(***************************************************************************)
EXTENDS FlatbedItem, TLAPS

\* The smallest multiple of 1/100 inch in pixels, and the units of the bed in a pixel.
StepAt(dpi) ==
    CASE dpi = 75 -> 3 [] dpi = 100 -> 1 [] dpi = 150 -> 3
      [] dpi = 200 -> 2 [] dpi = 300 -> 3 [] dpi = 600 -> 6

UnitsAt(dpi) ==
    CASE dpi = 75 -> 16 [] dpi = 100 -> 12 [] dpi = 150 -> 8
      [] dpi = 200 -> 6 [] dpi = 300 -> 4 [] dpi = 600 -> 2

-------------------------------------------------------------------------------
(* UNITS, PIXELS AND STEPS *)

\* offset_step divides by the greatest common divisor of the resolution and 100.
LEMMA StepValue ==
  ASSUME NEW dpi \in Resolutions
  PROVE  OffsetStep(dpi) = StepAt(dpi)
<1> DEFINE P(s) == (s * 100) % dpi = 0 /\ \A n \in 1..(s - 1) : (n * 100) % dpi # 0
<1> OffsetStep(dpi) = CHOOSE s \in 1..dpi : P(s)
  BY DEF OffsetStep, Steps
<1>1. dpi \in {75, 100, 150, 200, 300, 600}
  BY ResolutionsAssumption
<1>2. StepAt(dpi) \in 1..dpi /\ P(StepAt(dpi))
  BY <1>1 DEF StepAt
<1>3. \A s \in 1..dpi : s < StepAt(dpi) => (s * 100) % dpi # 0
  BY <1>1 DEF StepAt
<1>4. ASSUME NEW s \in 1..dpi, P(s) PROVE s = StepAt(dpi)
  <2>1. ~(s < StepAt(dpi))
    BY <1>3, <1>4
  <2>2. ~(StepAt(dpi) < s)
    <3>1. StepAt(dpi) \in Nat /\ (StepAt(dpi) * 100) % dpi = 0 /\ StepAt(dpi) > 0
      BY <1>2
    <3> QED
      BY <3>1, <1>4
  <2> QED
    BY <2>1, <2>2, <1>2
<1> HIDE DEF P
<1> QED
  BY <1>2, <1>4

\* Every resolution divides 1200: a pixel is a whole number of units.
LEMMA UnitsExact ==
  ASSUME NEW dpi \in Resolutions, NEW p \in Nat
  PROVE  /\ Units(p, dpi) = UnitsAt(dpi) * p
         /\ Units(p, dpi) \in Nat
         /\ Units(p, dpi) * dpi = p * 1200
         /\ Units(p, dpi) % 12 = 0 <=> p % StepAt(dpi) = 0
<1>1. dpi \in {75, 100, 150, 200, 300, 600}
  BY ResolutionsAssumption
<1>2. Units(p, dpi) = UnitsAt(dpi) * p
  BY <1>1 DEF Units, UnitsAt
<1> QED
  BY <1>1, <1>2 DEF UnitsAt, StepAt

LEMMA StepRange == \A dpi \in Resolutions : OffsetStep(dpi) \in {1, 2, 3, 6}
BY StepValue, ResolutionsAssumption DEF StepAt

LEMMA FloorIsBelow ==
  ASSUME NEW value \in Int, NEW step \in {1, 2, 3, 6}
  PROVE  /\ FloorToStep(value, step) \in Nat /\ FloorToStep(value, step) % step = 0
         /\ value >= 0 => FloorToStep(value, step) <= value /\ value - FloorToStep(value, step) < step
         /\ \A n \in Nat : n % step = 0 /\ n <= value => n <= FloorToStep(value, step)
BY DEF FloorToStep

LEMMA QuantizedIsNear ==
  ASSUME NEW dpi \in Resolutions, NEW value \in Nat
  PROVE  LET q == QuantizePosition(value, dpi)  step == OffsetStep(dpi)
         IN /\ q \in Nat /\ q % step = 0
            /\ 2 * (q - value) <= step /\ 2 * (value - q) < step
            /\ value % step = 0 => q = value
<1> DEFINE step == OffsetStep(dpi)
<1>1. step \in {1, 2, 3, 6}
  BY StepRange
<1>2. QuantizePosition(value, dpi)
         = (value \div step + IF 2 * (value % step) >= step THEN 1 ELSE 0) * step
  BY DEF QuantizePosition
<1> HIDE DEF step
<1>3. /\ QuantizePosition(value, dpi) \in Nat /\ QuantizePosition(value, dpi) % step = 0
      /\ 2 * (QuantizePosition(value, dpi) - value) <= step
      /\ 2 * (value - QuantizePosition(value, dpi)) < step
      /\ value % step = 0 => QuantizePosition(value, dpi) = value
  BY <1>1, <1>2
<1> QED
  BY <1>3 DEF step

LEMMA ScaledIsPixels ==
  ASSUME NEW old \in Resolutions, NEW new \in Resolutions, NEW value \in Nat
  PROVE  ScaleExtent(value, old, new) \in Nat
<1>1. old \in {75, 100, 150, 200, 300, 600} /\ new \in {75, 100, 150, 200, 300, 600}
  BY ResolutionsAssumption
<1> QED
  BY <1>1 DEF ScaleExtent

LEMMA RescaledTyped ==
  ASSUME NEW old \in Resolutions, NEW new \in Resolutions, NEW value \in Nat
  PROVE  /\ Rescaled(value, old, new) \in Nat
         /\ RescaledPosition(value, old, new) \in Nat
         /\ value % OffsetStep(old) = 0 => RescaledPosition(value, old, new) % OffsetStep(new) = 0
BY ScaledIsPixels, QuantizedIsNear DEF Rescaled, RescaledPosition

LEMMA ExtentBounds == \A axis \in Axes, dpi \in Resolutions : MaxExtent(axis, dpi) \in Nat
<1> SUFFICES ASSUME NEW axis \in Axes, NEW dpi \in Resolutions PROVE MaxExtent(axis, dpi) \in Nat
  OBVIOUS
<1>1. dpi \in {75, 100, 150, 200, 300, 600} /\ Bed[axis] \in Nat
  BY ResolutionsAssumption, BedAssumption DEF Axes, Bed
<1> QED
  BY <1>1 DEF MaxExtent

-------------------------------------------------------------------------------
(* ONE AXIS *)

\* What with_settings asks of an axis, in pixels.
Fits(pos, extent, dpi, max) ==
    /\ pos \in Nat /\ pos % OffsetStep(dpi) = 0
    /\ extent \in Nat /\ extent > 0
    /\ pos + extent <= max

\* A selection that fits is left alone, whatever part of it was written just so.
LEMMA AxisStays ==
  ASSUME NEW dpi \in Resolutions, NEW max \in Nat, NEW pos, NEW extent,
         NEW posWritten \in BOOLEAN, NEW extentWritten \in BOOLEAN,
         Fits(pos, extent, dpi, max)
  PROVE  /\ AxisAdmits(pos, extent, posWritten, extentWritten, max)
         /\ AxisPosition(pos, extent, posWritten, extentWritten, dpi, dpi, max) = pos
         /\ AxisExtent(extent, extentWritten, dpi, dpi, max - pos) = extent
<1> DEFINE step == OffsetStep(dpi)
<1>1. /\ pos \in Nat /\ extent \in Nat /\ extent > 0 /\ pos + extent <= max
      /\ pos % step = 0 /\ step \in {1, 2, 3, 6}
  BY StepRange DEF Fits
<1>2. QuantizePosition(pos, dpi) = pos
  BY <1>1, QuantizedIsNear
<1> HIDE DEF step
<1>a. max - extent \in Int /\ pos <= max - extent
  BY <1>1
<1>3. pos <= FloorToStep(max - extent, step)
  BY <1>1, <1>a, FloorIsBelow
<1>4. FloorToStep(max - extent, step) \in Nat
  BY <1>1, <1>a, FloorIsBelow
<1>5. AxisAdmits(pos, extent, posWritten, extentWritten, max)
  BY <1>1 DEF AxisAdmits
<1>6. AxisPosition(pos, extent, posWritten, extentWritten, dpi, dpi, max) = pos
  <2>1. RescaledPosition(pos, dpi, dpi) = pos
    BY DEF RescaledPosition
  <2>2. CASE posWritten
    <3>1. AxisPosition(pos, extent, posWritten, extentWritten, dpi, dpi, max)
             = Snapped(pos, dpi, max - IF extentWritten THEN extent ELSE 1)
      BY <2>2 DEF AxisPosition
    <3> QED
      BY <3>1, <1>1, <1>2 DEF Snapped
  <2>3. CASE ~posWritten /\ extentWritten
    <3>1. AxisPosition(pos, extent, posWritten, extentWritten, dpi, dpi, max)
             = IF pos < FloorToStep(max - extent, step) THEN pos ELSE FloorToStep(max - extent, step)
      BY <2>1, <2>3 DEF AxisPosition, step
    <3> QED
      BY <3>1, <1>1, <1>3, <1>4
  <2>4. CASE ~posWritten /\ ~extentWritten
    BY <2>1, <2>4, <1>1 DEF AxisPosition
  <2> QED
    BY <2>2, <2>3, <2>4
<1>7. AxisExtent(extent, extentWritten, dpi, dpi, max - pos) = extent
  BY <1>1 DEF AxisExtent, AtLeastOne, Rescaled
<1> QED
  BY <1>5, <1>6, <1>7

\* What resolve_axis admits ends in a selection that fits, with what was written in it.
LEMMA AxisSettles ==
  ASSUME NEW old \in Resolutions, NEW dpi \in Resolutions, NEW max \in Nat,
         NEW pos \in Int, NEW extent \in Int,
         NEW posWritten \in BOOLEAN, NEW extentWritten \in BOOLEAN,
         AxisAdmits(pos, extent, posWritten, extentWritten, max),
         ~posWritten => pos >= 0 /\ pos % OffsetStep(old) = 0,
         ~extentWritten => extent > 0,
         posWritten /\ extentWritten => FloorToStep(pos, OffsetStep(dpi)) + extent <= max,
         NEW p, p = AxisPosition(pos, extent, posWritten, extentWritten, old, dpi, max),
         NEW e, e = AxisExtent(extent, extentWritten, old, dpi, max - p)
  PROVE  Fits(p, e, dpi, max)
<1> DEFINE step == OffsetStep(dpi)
<1>0. step \in {1, 2, 3, 6} /\ max > 0
  BY StepRange DEF AxisAdmits
<1> HIDE DEF step
<1>1. /\ p \in Nat /\ p % step = 0 /\ p < max
      /\ extentWritten => p + extent <= max
  <2>1. CASE posWritten
    <3> DEFINE limit == max - IF extentWritten THEN extent ELSE 1
               q == QuantizePosition(pos, dpi)
               f == FloorToStep(pos, step)
    <3>1. pos \in Nat /\ pos < max /\ (extentWritten => extent \in 1..max)
      BY <2>1, <1>0 DEF AxisAdmits
    <3>2. p = IF q > limit THEN f ELSE q
      BY <2>1 DEF AxisPosition, Snapped, step
    <3>3. q \in Nat /\ q % step = 0
      BY <3>1, QuantizedIsNear DEF step
    <3>4. f \in Nat /\ f % step = 0 /\ f <= pos
      <4>1. pos \in Int /\ pos >= 0
        BY <3>1
      <4> QED
        BY <4>1, <1>0, FloorIsBelow
    <3>5. extentWritten => f + extent <= max
      BY <2>1 DEF step
    <3>6. limit \in Int /\ limit < max /\ (extentWritten => limit = max - extent)
      BY <3>1
    <3> HIDE DEF limit, q, f
    <3>8. CASE q > limit
      <4> p = f
        BY <3>2, <3>8
      <4> QED
        BY <3>1, <3>4, <3>5, <1>0
    <3>9. CASE ~(q > limit)
      <4> p = q
        BY <3>2, <3>9
      <4> QED
        BY <3>3, <3>6, <3>9
    <3> QED
      BY <3>8, <3>9
  <2>2. CASE ~posWritten
    <3> DEFINE scaled == RescaledPosition(pos, old, dpi)
    <3>1. scaled \in Nat /\ scaled % step = 0
      BY <2>2, RescaledTyped DEF step
    <3>2. CASE extentWritten
      <4> DEFINE room == FloorToStep(max - extent, step)
      <4>1. extent \in 1..max
        BY <3>2 DEF AxisAdmits
      <4>2. room \in Nat /\ room % step = 0 /\ room <= max - extent
        <5>1. max - extent \in Int /\ max - extent >= 0
          BY <4>1
        <5> QED
          BY <5>1, <1>0, FloorIsBelow
      <4>3. p = IF scaled < room THEN scaled ELSE room
        BY <2>2, <3>2 DEF AxisPosition, step
      <4> HIDE DEF room, scaled
      <4> QED
        BY <4>1, <4>2, <4>3, <3>1, <1>0, <2>2
    <3>3. CASE ~extentWritten
      <4> DEFINE last == FloorToStep(max - 1, step)
      <4>1. last \in Nat /\ last % step = 0 /\ last <= max - 1
        <5>1. max - 1 \in Int /\ max - 1 >= 0
          BY <1>0
        <5> QED
          BY <5>1, <1>0, FloorIsBelow
      <4>2. p = IF scaled >= max THEN last ELSE scaled
        BY <2>2, <3>3 DEF AxisPosition, step
      <4> HIDE DEF last, scaled
      <4> QED
        BY <4>1, <4>2, <3>1, <3>3, <1>0, <2>2
    <3> QED
      BY <3>2, <3>3
  <2> QED
    BY <2>1, <2>2
<1>2. e \in Nat /\ e > 0 /\ p + e <= max
  <2>1. CASE extentWritten
    <3>1. extent \in 1..max /\ e = extent
      BY <2>1 DEF AxisExtent, AxisAdmits
    <3>2. p + extent <= max /\ p \in Nat
      BY <2>1, <1>1
    <3>3. e \in Nat /\ e > 0 /\ p + e <= max
      BY <3>1, <3>2
    <3> QED
      BY <2>1, <3>1, <3>3
  <2>2. CASE ~extentWritten
    <3> DEFINE scaled == AtLeastOne(Rescaled(extent, old, dpi))
    <3>1. scaled \in Nat /\ scaled > 0
      BY <2>2, RescaledTyped DEF AtLeastOne
    <3>2. e = IF scaled > max - p THEN max - p ELSE scaled
      BY <2>2 DEF AxisExtent
    <3> HIDE DEF scaled
    <3> QED
      BY <3>1, <3>2, <1>1, <2>2
  <2> QED
    BY <2>1, <2>2
<1> QED
  BY <1>1, <1>2 DEF Fits, step

\* A written extent is kept, a written position to less than a step.
LEMMA AxisKeeps ==
  ASSUME NEW old \in Resolutions, NEW dpi \in Resolutions, NEW max \in Nat,
         NEW pos \in Int, NEW extent \in Int,
         NEW posWritten \in BOOLEAN, NEW extentWritten \in BOOLEAN,
         AxisAdmits(pos, extent, posWritten, extentWritten, max),
         NEW p, p = AxisPosition(pos, extent, posWritten, extentWritten, old, dpi, max)
  PROVE  /\ extentWritten => AxisExtent(extent, extentWritten, old, dpi, max - p) = extent
         /\ posWritten => pos - p < OffsetStep(dpi) /\ p - pos < OffsetStep(dpi)
<1> DEFINE step == OffsetStep(dpi)  f == FloorToStep(pos, step)  q == QuantizePosition(pos, dpi)
<1>1. extentWritten => AxisExtent(extent, extentWritten, old, dpi, max - p) = extent
  BY DEF AxisExtent
<1>2. ASSUME posWritten PROVE pos - p < step /\ p - pos < step
  <2>1. step \in {1, 2, 3, 6}
    BY StepRange
  <2>2. pos \in Nat /\ pos \in Int /\ pos >= 0
    BY <1>2 DEF AxisAdmits
  <2>3. p \in {f, q}
    BY <1>2 DEF AxisPosition, Snapped
  <2> HIDE DEF step
  <2>4. f \in Nat /\ f <= pos /\ pos - f < step
    BY <2>1, <2>2, FloorIsBelow
  <2>5. q \in Nat /\ 2 * (q - pos) <= step /\ 2 * (pos - q) < step
    BY <2>2, QuantizedIsNear DEF step
  <2> HIDE DEF f, q
  <2> QED
    BY <2>1, <2>2, <2>3, <2>4, <2>5
<1> QED
  BY <1>1, <1>2

\* Whatever was written, an axis holds whole numbers; Scannable says if they are any good.
LEMMA AxisTyped ==
  ASSUME NEW old \in Resolutions, NEW dpi \in Resolutions, NEW max \in Nat,
         NEW pos \in Int, NEW extent \in Int,
         NEW posWritten \in BOOLEAN, NEW extentWritten \in BOOLEAN,
         AxisAdmits(pos, extent, posWritten, extentWritten, max),
         ~posWritten => pos >= 0,
         ~extentWritten => extent > 0,
         NEW p, p = AxisPosition(pos, extent, posWritten, extentWritten, old, dpi, max)
  PROVE  p \in Nat /\ AxisExtent(extent, extentWritten, old, dpi, max - p) \in Int
<1> DEFINE step == OffsetStep(dpi)
<1>0. step \in {1, 2, 3, 6} /\ max > 0
  BY StepRange DEF AxisAdmits
<1>1. \A value \in Int : FloorToStep(value, step) \in Nat
  BY <1>0, FloorIsBelow
<1>2. p \in Nat
  <2>1. CASE posWritten
    <3>1. pos \in Nat
      BY <2>1 DEF AxisAdmits
    <3>2. FloorToStep(pos, step) \in Nat /\ QuantizePosition(pos, dpi) \in Nat
      BY <3>1, <1>1, QuantizedIsNear
    <3>3. p \in {FloorToStep(pos, step), QuantizePosition(pos, dpi)}
      BY <2>1 DEF AxisPosition, Snapped, step
    <3> QED
      BY <3>2, <3>3
  <2>2. CASE ~posWritten
    <3>1. RescaledPosition(pos, old, dpi) \in Nat
      BY <2>2, RescaledTyped
    <3>2. FloorToStep(max - extent, step) \in Nat /\ FloorToStep(max - 1, step) \in Nat
      <4>1. max - extent \in Int /\ max - 1 \in Int
        OBVIOUS
      <4> QED
        BY <4>1, <1>1
    <3>3. p \in {RescaledPosition(pos, old, dpi), FloorToStep(max - extent, step),
                 FloorToStep(max - 1, step)}
      BY <2>2 DEF AxisPosition, step
    <3> QED
      BY <3>1, <3>2, <3>3
  <2> QED
    BY <2>1, <2>2
<1>3. CASE extentWritten
  BY <1>2, <1>3 DEF AxisExtent
<1>4. CASE ~extentWritten
  <2>1. AtLeastOne(Rescaled(extent, old, dpi)) \in Int /\ max - p \in Int
    BY <1>2, <1>4, RescaledTyped DEF AtLeastOne
  <2>2. AxisExtent(extent, extentWritten, old, dpi, max - p)
           \in {AtLeastOne(Rescaled(extent, old, dpi)), max - p}
    BY <1>4 DEF AxisExtent
  <2> QED
    BY <1>2, <2>1, <2>2
<1> QED
  BY <1>3, <1>4

-------------------------------------------------------------------------------
(* THE WHOLE ITEM *)

Settings == [Ids -> Int]

\* Two offset bytes, whole inches and hundredths, reach every point of the bed.
BedIsAddressable == WidthUnits <= 256 * 1200 /\ HeightUnits <= 256 * 1200

LEMMA AxisIds ==
  /\ Pos["x"] = "XPOS" /\ Pos["y"] = "YPOS"
  /\ Extent["x"] = "XEXTENT" /\ Extent["y"] = "YEXTENT"
  /\ Res["x"] = "XRES" /\ Res["y"] = "YRES"
  /\ Bed["x"] = WidthUnits /\ Bed["y"] = HeightUnits
BY DEF Pos, Extent, Res, Bed

LEMMA ScannableFits ==
  ASSUME NEW s \in Settings, Scannable(s)
  PROVE  /\ s.XRES \in Resolutions /\ s.YRES = s.XRES
         /\ s.DATATYPE \in DataTypes /\ s.DEPTH = DepthFor(s.DATATYPE)
         /\ \A axis \in Axes :
              Fits(s[Pos[axis]], s[Extent[axis]], s.XRES, MaxExtent(axis, s.XRES))
<1>1. s.XRES \in Resolutions /\ s.YRES = s.XRES
  BY DEF Scannable
<1>2. s.DATATYPE \in DataTypes /\ s.DEPTH = DepthFor(s.DATATYPE)
  BY DEF Scannable
<1>3. ASSUME NEW axis \in Axes
      PROVE  Fits(s[Pos[axis]], s[Extent[axis]], s.XRES, MaxExtent(axis, s.XRES))
  <2>1. s[Pos[axis]] \in Int /\ s[Extent[axis]] \in Int
    BY AxisIds DEF Axes, Settings, Ids, RegionIds
  <2>2. /\ s[Extent[axis]] > 0 /\ s[Pos[axis]] >= 0
        /\ Units(s[Pos[axis]], s.XRES) % 12 = 0
        /\ s[Pos[axis]] + s[Extent[axis]] <= MaxExtent(axis, s.XRES)
    BY DEF Scannable, Units
  <2>3. s[Pos[axis]] % OffsetStep(s.XRES) = 0
    BY <1>1, <2>1, <2>2, UnitsExact, StepValue
  <2> QED
    BY <2>1, <2>2, <2>3 DEF Fits
<1> QED
  BY <1>1, <1>2, <1>3

\* Pixels within the bed are units within the bed.
LEMMA UnitsOnBed ==
  ASSUME NEW axis \in Axes, NEW dpi \in Resolutions, NEW pixels \in Nat,
         pixels <= MaxExtent(axis, dpi)
  PROVE  Units(pixels, dpi) <= Bed[axis]
<1>1. dpi \in {75, 100, 150, 200, 300, 600} /\ Bed[axis] \in Nat
  BY ResolutionsAssumption, BedAssumption DEF Axes, Bed
<1>2. pixels <= (Bed[axis] * dpi) \div 1200
  BY DEF MaxExtent
<1> QED
  BY <1>1, <1>2 DEF Units

LEMMA FitsIsScannable ==
  ASSUME BedIsAddressable, NEW s \in Settings,
         s.XRES \in Resolutions, s.YRES = s.XRES,
         s.DATATYPE \in DataTypes, s.DEPTH = DepthFor(s.DATATYPE),
         \A axis \in Axes : Fits(s[Pos[axis]], s[Extent[axis]], s.XRES, MaxExtent(axis, s.XRES))
  PROVE  Scannable(s)
<1>1. ASSUME NEW axis \in Axes
      PROVE  /\ s[Extent[axis]] > 0 /\ s[Pos[axis]] >= 0
             /\ Units(s[Pos[axis]], s.XRES) % 12 = 0
             /\ Units(s[Pos[axis]], s.XRES) < 256 * 1200
             /\ s[Pos[axis]] + s[Extent[axis]] <= MaxExtent(axis, s.XRES)
  <2> DEFINE p == s[Pos[axis]]  e == s[Extent[axis]]
  <2>1. /\ p \in Nat /\ p % OffsetStep(s.XRES) = 0 /\ e \in Nat /\ e > 0
        /\ p + e <= MaxExtent(axis, s.XRES)
    BY DEF Fits
  <2> HIDE DEF p, e
  <2>2. Units(p, s.XRES) % 12 = 0
    BY <2>1, UnitsExact, StepValue
  <2>3. Units(p + 1, s.XRES) <= Bed[axis]
    <3>1. p + 1 \in Nat /\ p + 1 <= MaxExtent(axis, s.XRES)
      BY <2>1, ExtentBounds
    <3> QED
      BY <3>1, UnitsOnBed
  <2>4. Bed[axis] <= 256 * 1200 /\ Bed[axis] \in Nat
    BY AxisIds, BedAssumption DEF BedIsAddressable, Axes
  <2>5. Units(p, s.XRES) < Units(p + 1, s.XRES)
    <3>1. s.XRES \in {75, 100, 150, 200, 300, 600}
      BY ResolutionsAssumption
    <3> QED
      BY <3>1, <2>1 DEF Units
  <2>6. Units(p, s.XRES) \in Nat /\ Units(p + 1, s.XRES) \in Nat
    <3>1. p + 1 \in Nat
      BY <2>1
    <3> QED
      BY <2>1, <3>1, UnitsExact
  <2>7. Units(p, s.XRES) < 256 * 1200
    BY <2>3, <2>4, <2>5, <2>6
  <2> QED
    BY <2>1, <2>2, <2>7 DEF p, e
<1> QED
  BY <1>1 DEF Scannable, Units

\* The request laid over the item, and what an intent makes of the data type.
LEMMA CurrentTyped ==
  ASSUME NEW s \in Settings, NEW r, IsRequest(r)
  PROVE  /\ Raw(s, r) \in Settings
         /\ WithIntent(Raw(s, r), r) \in Settings
         /\ \A id \in Ids \ {"DATATYPE"} : WithIntent(Raw(s, r), r)[id] = Raw(s, r)[id]
         /\ Written(s, r) \subseteq Ids
         /\ \A id \in Ids \ {"DATATYPE"} : id \in Written(s, r) <=> id \in DOMAIN r
<1>1. \A id \in DOMAIN r \cap Ids : r[id] \in Int
  BY DEF IsRequest
<1>2. Raw(s, r) \in Settings
  BY <1>1 DEF Raw, Settings
<1>3. \A word \in {"color", "grayscale"} : Intents[word] \in Int
  BY DEF Intents
<1>4. WithIntent(Raw(s, r), r) \in Settings
  BY <1>2, <1>3 DEF WithIntent, Settings
<1>5. \A id \in Ids \ {"DATATYPE"} : WithIntent(Raw(s, r), r)[id] = Raw(s, r)[id]
  BY <1>2 DEF WithIntent, Settings
<1>6. "DATATYPE" \in Ids
  BY DEF Ids
<1>7. /\ Written(s, r) \subseteq Ids
      /\ \A id \in Ids \ {"DATATYPE"} : id \in Written(s, r) <=> id \in DOMAIN r
  BY <1>6 DEF Written
<1> QED
  BY <1>2, <1>4, <1>5, <1>7

\* resolve in one line: the old item, the request and the outcome each have a gate.
LEMMA ResolveIs ==
  ASSUME NEW s, NEW r
  PROVE  LET current == WithIntent(Raw(s, r), r)
             written == Written(s, r)
             dpi == Resolution(current, written)
             resolved == Resolved(s, current, written, dpi)
         IN Resolve(s, r) = IF /\ Scannable(s) /\ Agrees(r, current, written, dpi)
                               /\ Scannable(resolved)
                            THEN resolved ELSE Refused
BY DEF Resolve

\* A resolved request is scannable settings again: the last gate of resolve.
LEMMA ResolvedIsSettings ==
  ASSUME NEW s \in Settings, Scannable(s), NEW r, IsRequest(r), Resolve(s, r) # Refused
  PROVE  Resolve(s, r) \in Settings /\ Scannable(Resolve(s, r))
<1> DEFINE current == WithIntent(Raw(s, r), r)
           written == Written(s, r)
           dpi == Resolution(current, written)
           resolved == Resolved(s, current, written, dpi)
<1>1. /\ Resolve(s, r) = resolved /\ Scannable(resolved)
      /\ \A axis \in Axes :
            AxisAdmits(current[Pos[axis]], current[Extent[axis]],
                       Pos[axis] \in written, Extent[axis] \in written, MaxExtent(axis, dpi))
  <2>1. Resolve(s, r) # Refused
    OBVIOUS
  <2>2. Resolve(s, r) = IF /\ Scannable(s) /\ Agrees(r, current, written, dpi)
                           /\ Scannable(resolved)
                        THEN resolved ELSE Refused
    BY ResolveIs
  <2> HIDE DEF current, written, dpi, resolved
  <2>3. Resolve(s, r) = resolved /\ Scannable(resolved) /\ Agrees(r, current, written, dpi)
    BY <2>1, <2>2
  <2> QED
    BY <2>3 DEF Agrees
<1>2. resolved.XRES = dpi
  BY DEF Resolved, Ids
<1>3. dpi \in Resolutions /\ resolved.DATATYPE \in DataTypes
      /\ resolved.DEPTH = DepthFor(resolved.DATATYPE)
  BY <1>1, <1>2 DEF Scannable
<1>4. current \in Settings
  BY CurrentTyped
<1>5. ASSUME NEW axis \in Axes
      PROVE  /\ NewPosition(s, current, written, dpi, axis) \in Int
             /\ NewExtent(s, current, written, dpi, axis) \in Int
  <2> DEFINE pos == current[Pos[axis]]  extent == current[Extent[axis]]
             posWritten == Pos[axis] \in written  extentWritten == Extent[axis] \in written
             old == s[Res[axis]]  max == MaxExtent(axis, dpi)
  <2>1. pos \in Int /\ extent \in Int
    BY <1>4, AxisIds DEF Axes, Settings, Ids, RegionIds
  <2>2. old \in Resolutions
    BY AxisIds, ScannableFits DEF Axes
  <2>3. max \in Nat
    BY <1>3, ExtentBounds
  <2>4. AxisAdmits(pos, extent, posWritten, extentWritten, max)
    BY <1>1
  <2>5. /\ Pos[axis] \in Ids \ {"DATATYPE"} /\ Extent[axis] \in Ids \ {"DATATYPE"}
    BY AxisIds DEF Axes, Ids, RegionIds
  <2>6. (~posWritten => pos = s[Pos[axis]]) /\ (~extentWritten => extent = s[Extent[axis]])
    BY <2>5, CurrentTyped DEF Raw
  <2>7. (~posWritten => pos >= 0) /\ (~extentWritten => extent > 0)
    BY <2>6, ScannableFits DEF Fits
  <2>8. posWritten \in BOOLEAN /\ extentWritten \in BOOLEAN
    OBVIOUS
  <2>9. /\ NewPosition(s, current, written, dpi, axis)
              = AxisPosition(pos, extent, posWritten, extentWritten, old, dpi, max)
        /\ NewExtent(s, current, written, dpi, axis)
              = AxisExtent(extent, extentWritten, old, dpi,
                           max - NewPosition(s, current, written, dpi, axis))
    BY DEF NewPosition, NewExtent
  <2> HIDE DEF pos, extent, posWritten, extentWritten, old, max, current, written, dpi
  <2> QED
    BY <1>3, <2>1, <2>2, <2>3, <2>4, <2>7, <2>8, <2>9, AxisTyped
<1>6. resolved.DATATYPE \in Int /\ resolved.DEPTH \in Int
  BY <1>3, DataTypesAssumption DEF DepthFor
<1>7. "x" \in Axes /\ "y" \in Axes /\ dpi \in Int
  <2>1. dpi \in {75, 100, 150, 200, 300, 600}
    BY <1>3, ResolutionsAssumption
  <2> HIDE DEF dpi
  <2> QED
    BY <2>1 DEF Axes
<1>8. \A id \in Ids : resolved[id] \in Int
  <2> SUFFICES ASSUME NEW id \in Ids PROVE resolved[id] \in Int
    OBVIOUS
  <2>1. CASE id \in {"DATATYPE", "DEPTH"}
    BY <1>6, <2>1
  <2>2. CASE id \notin {"DATATYPE", "DEPTH"}
    BY <1>5, <1>7, <2>2 DEF Resolved, Ids, RegionIds
  <2> QED
    BY <2>1, <2>2
<1>9. resolved \in Settings
  BY <1>8 DEF Resolved, Settings
<1> QED
  BY <1>1, <1>9

\* The delta leaves exactly the resolved settings in the item, because its baseline is
\* what the service has already written.
LEMMA PublishedIsResolved ==
  ASSUME NEW s, NEW r, NEW resolved \in Settings
  PROVE  Published(s, r, resolved) = resolved
BY DEF Published, Baseline, Settings

ItemInv == item \in Settings /\ Scannable(item) /\ limits = Limits(item)

LEMMA InitEstablishesItemInv == Init => ItemInv
<1>1. Initial.XRES \in Resolutions /\ Initial.DATATYPE \in DataTypes
  BY BedIsVisible DEF Scannable
<1>2. Initial.XRES \in Int /\ Initial.YRES = Initial.XRES /\ Initial.DATATYPE \in {2, 3}
  <2>1. Initial.YRES = Initial.XRES
    BY BedIsVisible DEF Scannable
  <2>2. Initial.XRES \in {75, 100, 150, 200, 300, 600} /\ Initial.DATATYPE \in {2, 3}
    BY ZenonT(60), <1>1, ResolutionsAssumption, DataTypesAssumption
  <2> QED
    BY <2>1, <2>2
<1>3. Initial.DEPTH \in Int
  BY <1>2, BedIsVisible DEF Scannable, DepthFor
<1>4. Initial.XPOS = 0 /\ Initial.YPOS = 0
  BY DEF Initial, Ids, RegionIds
<1>5. /\ Initial.XEXTENT = MaxExtent("x", Initial.XRES)
      /\ Initial.YEXTENT = MaxExtent("y", Initial.XRES)
  BY DEF Initial, Ids, RegionIds
<1>6. Initial.XEXTENT \in Int /\ Initial.YEXTENT \in Int
  BY <1>1, <1>5, ExtentBounds DEF Axes
<1>7. \A id \in Ids : Initial[id] \in Int
  BY <1>2, <1>3, <1>4, <1>6 DEF Ids, RegionIds
<1>8. Initial \in Settings
  BY <1>7 DEF Initial, Settings
<1> QED
  BY <1>8, BedIsVisible DEF Init, ItemInv

LEMMA NextKeepsItemInv == ItemInv /\ [Next]_vars => ItemInv'
<1> SUFFICES ASSUME ItemInv, [Next]_vars PROVE ItemInv'
  OBVIOUS
<1>1. ASSUME NEW r \in Requests, Validates(r) PROVE ItemInv'
  <2>1. Resolve(item, r) # Refused /\ limits' = Limits(Resolve(item, r))
    BY <1>1 DEF Validates
  <2>2. Resolve(item, r) \in Settings /\ Scannable(Resolve(item, r))
    BY <2>1, ResolvedIsSettings, RequestsAssumption DEF ItemInv
  <2>3. item' = Resolve(item, r)
    BY <1>1, <2>2, PublishedIsResolved DEF Validates
  <2>4. item' \in Settings /\ Scannable(item') /\ limits' = Limits(item')
    BY <2>1, <2>2, <2>3
  <2> QED
    BY <2>4 DEF ItemInv
<1>2. CASE UNCHANGED vars
  BY <1>2 DEF ItemInv, vars, Scannable, Limits
<1> QED
  BY <1>1, <1>2 DEF Next

LEMMA ItemInvariant == Spec => []ItemInv
BY InitEstablishesItemInv, NextKeepsItemInv, PTL DEF Spec

-------------------------------------------------------------------------------
(* WHAT THE SCANNER IS TOLD *)

\* A whole number of hundredths survives the way through the two bytes.
LEMMA OffsetIsExact ==
  ASSUME NEW units \in Nat, units % 12 = 0
  PROVE  ReadOffset(Offset(units)) = units
<1>1. Offset(units)[1] = units \div 1200 /\ Offset(units)[2] = (units % 1200) \div 12
  BY DEF Offset
<1>2. (units \div 1200) * 1200 + ((units % 1200) \div 12) * 12 = units
  OBVIOUS
<1> QED
  BY <1>1, <1>2 DEF ReadOffset

LEMMA AxisOnTheWire ==
  ASSUME ItemInv, NEW axis \in Axes
  PROVE  LET start == Units(item[Pos[axis]], item.XRES)
             size == Units(item[Extent[axis]], item.XRES)
         IN /\ Within(start, size, Bed[axis])
            /\ start \in Nat /\ start % 12 = 0 /\ start \div 1200 <= 255
            /\ ReadOffset(Offset(start)) * item.XRES = item[Pos[axis]] * 1200
<1> DEFINE p == item[Pos[axis]]  e == item[Extent[axis]]  dpi == item.XRES
<1>1. dpi \in Resolutions /\ Fits(p, e, dpi, MaxExtent(axis, dpi))
  BY ScannableFits DEF ItemInv
<1>2. p \in Nat /\ e \in Nat /\ e > 0 /\ p + e <= MaxExtent(axis, dpi)
  BY <1>1 DEF Fits
<1>3. Units(p, dpi) % 12 = 0 /\ Units(p, dpi) < 256 * 1200
  BY DEF ItemInv, Scannable, Units
<1> HIDE DEF p, e, dpi
<1>4. /\ Units(p, dpi) = UnitsAt(dpi) * p /\ Units(p, dpi) \in Nat
      /\ Units(p, dpi) * dpi = p * 1200
      /\ Units(e, dpi) = UnitsAt(dpi) * e /\ Units(e, dpi) \in Nat
      /\ Units(p + e, dpi) = UnitsAt(dpi) * (p + e)
  BY <1>1, <1>2, UnitsExact
<1>5. UnitsAt(dpi) \in {2, 4, 6, 8, 12, 16}
  BY <1>1, ResolutionsAssumption DEF UnitsAt
<1>6. Units(p + e, dpi) <= Bed[axis]
  BY <1>1, <1>2, UnitsOnBed
<1>7. Units(p, dpi) + Units(e, dpi) <= Bed[axis] /\ Units(e, dpi) > 0
  BY <1>2, <1>4, <1>5, <1>6
<1>8. Units(p, dpi) \div 1200 <= 255
  BY <1>3, <1>4
<1>9. ReadOffset(Offset(Units(p, dpi))) * dpi = p * 1200
  BY <1>3, <1>4, OffsetIsExact
<1> QED
  BY <1>3, <1>4, <1>7, <1>8, <1>9 DEF Within, p, e, dpi

LEMMA ScannableIsSent == ItemInv => ItemIsScannable
<1> SUFFICES ASSUME ItemInv PROVE ItemIsScannable
  OBVIOUS
<1> DEFINE request == ToRequest(item)
<1>1. /\ request.x = Units(item[Pos["x"]], item.XRES)
      /\ request.width = Units(item[Extent["x"]], item.XRES)
      /\ request.y = Units(item[Pos["y"]], item.XRES)
      /\ request.height = Units(item[Extent["y"]], item.XRES)
      /\ request.dpi = item.XRES
      /\ request.mode = IF item.DATATYPE = 2 THEN "Gray" ELSE "Rgb"
  <2>1. item.YRES = item.XRES
    BY ScannableFits DEF ItemInv
  <2> QED
    BY <2>1, AxisIds DEF ToRequest
<1>2. "x" \in Axes /\ "y" \in Axes /\ Scannable(item)
  BY DEF Axes, ItemInv
<1>3. /\ Within(request.x, request.width, WidthUnits)
      /\ request.x % 12 = 0 /\ request.x \div 1200 <= 255
      /\ ReadOffset(Offset(request.x)) * item.XRES = item.XPOS * 1200
  BY <1>1, <1>2, AxisOnTheWire, AxisIds
<1>4. /\ Within(request.y, request.height, HeightUnits)
      /\ request.y % 12 = 0 /\ request.y \div 1200 <= 255
      /\ ReadOffset(Offset(request.y)) * item.YRES = item.YPOS * 1200
  BY <1>1, <1>2, AxisOnTheWire, AxisIds, ScannableFits DEF ItemInv
<1> HIDE DEF request
<1>5. Region(request, Reported)
  BY <1>3, <1>4 DEF Region, Reported, BedHeight
<1>6. Supported(request, Reported)
  <2>1. request.dpi \in Encodable \cap Resolutions
    BY <1>1, ScannableFits, ResolutionsAssumption, ZenonT(60) DEF ItemInv, Encodable
  <2>2. request.mode \in {IF t = 2 THEN "Gray" ELSE "Rgb" : t \in DataTypes}
    BY <1>1, ScannableFits DEF ItemInv
  <2> QED
    BY <2>1, <2>2 DEF Supported, Reported
<1>7. Window(request).x = Offset(request.x) /\ Window(request).y = Offset(request.y)
  BY DEF Window
<1> QED
  BY <1>2, <1>3, <1>4, <1>5, <1>6, <1>7 DEF ItemIsScannable, request

\* Whatever is written in whatever order, the item holds settings that become a window
\* command, and the scanner starts at exactly the pixel the item names.
THEOREM ItemStaysScannable == Spec => []ItemIsScannable
BY ItemInvariant, ScannableIsSent, PTL

-------------------------------------------------------------------------------
(* WHAT IS TAKEN *)

\* What resolve asks of a request before it computes: the two resolutions and the mode
\* agree with each other and with the scanner, and each axis has room for what was written.
Sound(s, r) ==
    LET current == WithIntent(Raw(s, r), r)
        written == Written(s, r)
        dpi == Resolution(current, written)
        mode == Mode(current, written)
    IN /\ ~({"XRES", "YRES"} \subseteq written /\ current.XRES # current.YRES)
       /\ "CUR_INTENT" \in DOMAIN r => r["CUR_INTENT"] \in DOMAIN Intents
       /\ dpi \in Resolutions
       /\ mode[1] \in DataTypes /\ mode[2] = DepthFor(mode[1])
       /\ \A axis \in Axes :
            /\ AxisAdmits(current[Pos[axis]], current[Extent[axis]],
                          Pos[axis] \in written, Extent[axis] \in written,
                          MaxExtent(axis, dpi))
            /\ Pos[axis] \in written /\ Extent[axis] \in written =>
                  FloorToStep(current[Pos[axis]], OffsetStep(dpi)) + current[Extent[axis]]
                     <= MaxExtent(axis, dpi)

\* Where an axis of the resolved settings comes from.
LEMMA ResolvedIds ==
  ASSUME NEW s, NEW current, NEW written, NEW dpi
  PROVE  LET resolved == Resolved(s, current, written, dpi)
         IN /\ resolved.XRES = dpi /\ resolved.YRES = dpi
            /\ resolved.DATATYPE = Mode(current, written)[1]
            /\ resolved.DEPTH = Mode(current, written)[2]
            /\ \A axis \in Axes :
                 /\ resolved[Pos[axis]] = NewPosition(s, current, written, dpi, axis)
                 /\ resolved[Extent[axis]] = NewExtent(s, current, written, dpi, axis)
<1>1. Axes = {"x", "y"}
  BY DEF Axes
<1>2. /\ Resolved(s, current, written, dpi).XPOS = NewPosition(s, current, written, dpi, "x")
      /\ Resolved(s, current, written, dpi).YPOS = NewPosition(s, current, written, dpi, "y")
      /\ Resolved(s, current, written, dpi).XEXTENT = NewExtent(s, current, written, dpi, "x")
      /\ Resolved(s, current, written, dpi).YEXTENT = NewExtent(s, current, written, dpi, "y")
  BY DEF Resolved, Ids, RegionIds
<1>3. /\ Resolved(s, current, written, dpi).XRES = dpi
      /\ Resolved(s, current, written, dpi).YRES = dpi
      /\ Resolved(s, current, written, dpi).DATATYPE = Mode(current, written)[1]
      /\ Resolved(s, current, written, dpi).DEPTH = Mode(current, written)[2]
  BY DEF Resolved, Ids
<1> QED
  BY <1>1, <1>2, <1>3, AxisIds

\* Then the last gate opens as well: what resolve computes always fits.
LEMMA SoundIsResolved ==
  ASSUME BedIsAddressable, NEW s \in Settings, Scannable(s), NEW r, IsRequest(r), Sound(s, r)
  PROVE  LET current == WithIntent(Raw(s, r), r)
             written == Written(s, r)
         IN /\ Resolve(s, r) = Resolved(s, current, written, Resolution(current, written))
            /\ Resolve(s, r) \in Settings /\ Scannable(Resolve(s, r))
<1> DEFINE current == WithIntent(Raw(s, r), r)
           written == Written(s, r)
           dpi == Resolution(current, written)
           resolved == Resolved(s, current, written, dpi)
           mode == Mode(current, written)
<1>1. /\ dpi \in Resolutions
      /\ mode[1] \in DataTypes /\ mode[2] = DepthFor(mode[1])
      /\ \A axis \in Axes :
            /\ AxisAdmits(current[Pos[axis]], current[Extent[axis]],
                          Pos[axis] \in written, Extent[axis] \in written,
                          MaxExtent(axis, dpi))
            /\ Pos[axis] \in written /\ Extent[axis] \in written =>
                  FloorToStep(current[Pos[axis]], OffsetStep(dpi)) + current[Extent[axis]]
                     <= MaxExtent(axis, dpi)
  BY DEF Sound
<1>2. current \in Settings
  BY CurrentTyped
<1>3. ASSUME NEW axis \in Axes
      PROVE  Fits(NewPosition(s, current, written, dpi, axis),
                  NewExtent(s, current, written, dpi, axis), dpi, MaxExtent(axis, dpi))
  <2> DEFINE pos == current[Pos[axis]]  extent == current[Extent[axis]]
             posWritten == Pos[axis] \in written  extentWritten == Extent[axis] \in written
             old == s[Res[axis]]  max == MaxExtent(axis, dpi)
  <2>1. pos \in Int /\ extent \in Int
    BY <1>2, AxisIds DEF Axes, Settings, Ids, RegionIds
  <2>2. old = s.XRES /\ old \in Resolutions
    BY AxisIds, ScannableFits DEF Axes
  <2>3. max \in Nat
    BY <1>1, ExtentBounds
  <2>4. /\ AxisAdmits(pos, extent, posWritten, extentWritten, max)
        /\ posWritten /\ extentWritten => FloorToStep(pos, OffsetStep(dpi)) + extent <= max
    BY <1>1
  <2>5. /\ Pos[axis] \in Ids \ {"DATATYPE"} /\ Extent[axis] \in Ids \ {"DATATYPE"}
    BY AxisIds DEF Axes, Ids, RegionIds
  <2>6. (~posWritten => pos = s[Pos[axis]]) /\ (~extentWritten => extent = s[Extent[axis]])
    BY <2>5, CurrentTyped DEF Raw
  <2>7. (~posWritten => pos >= 0 /\ pos % OffsetStep(old) = 0) /\ (~extentWritten => extent > 0)
    BY <2>2, <2>6, ScannableFits DEF Fits
  <2>8. posWritten \in BOOLEAN /\ extentWritten \in BOOLEAN
    OBVIOUS
  <2>9. /\ NewPosition(s, current, written, dpi, axis)
              = AxisPosition(pos, extent, posWritten, extentWritten, old, dpi, max)
        /\ NewExtent(s, current, written, dpi, axis)
              = AxisExtent(extent, extentWritten, old, dpi,
                           max - NewPosition(s, current, written, dpi, axis))
    BY DEF NewPosition, NewExtent
  <2> HIDE DEF pos, extent, posWritten, extentWritten, old, max, current, written, dpi
  <2> DEFINE p == AxisPosition(pos, extent, posWritten, extentWritten, old, dpi, max)
             e == AxisExtent(extent, extentWritten, old, dpi, max - p)
  <2>a. dpi \in Resolutions
    BY <1>1
  <2>b. Fits(p, e, dpi, max)
    <3> HIDE DEF p, e
    <3>1. p = AxisPosition(pos, extent, posWritten, extentWritten, old, dpi, max)
      BY DEF p
    <3>2. e = AxisExtent(extent, extentWritten, old, dpi, max - p)
      BY DEF e
    <3>3. /\ AxisAdmits(pos, extent, posWritten, extentWritten, max)
          /\ (~posWritten => pos >= 0 /\ pos % OffsetStep(old) = 0)
          /\ (~extentWritten => extent > 0)
          /\ (posWritten /\ extentWritten => FloorToStep(pos, OffsetStep(dpi)) + extent <= max)
      BY <2>4, <2>7
    <3>4. old \in Resolutions
      BY <2>2
    <3> QED
      BY <2>a, <2>1, <2>3, <2>8, <3>1, <3>2, <3>3, <3>4, AxisSettles, ZenonT(60)
  <2>10. Fits(NewPosition(s, current, written, dpi, axis),
              NewExtent(s, current, written, dpi, axis), dpi, max)
    BY <2>9, <2>b
  <2> QED
    BY <2>10 DEF max
<1>4. /\ resolved.XRES = dpi /\ resolved.YRES = dpi
      /\ resolved.DATATYPE = mode[1] /\ resolved.DEPTH = mode[2]
      /\ \A axis \in Axes :
           /\ resolved[Pos[axis]] = NewPosition(s, current, written, dpi, axis)
           /\ resolved[Extent[axis]] = NewExtent(s, current, written, dpi, axis)
  BY ResolvedIds
<1>5. Resolve(s, r) = IF /\ Scannable(s) /\ Agrees(r, current, written, dpi)
                          /\ Scannable(resolved)
                       THEN resolved ELSE Refused
  BY ResolveIs
<1> HIDE DEF resolved, mode
<1>6. "x" \in Axes /\ "y" \in Axes
  BY DEF Axes
<1>7. \A axis \in Axes :
        Fits(resolved[Pos[axis]], resolved[Extent[axis]], dpi, MaxExtent(axis, dpi))
  BY <1>3, <1>4
<1>8. dpi \in Int /\ mode[1] \in Int /\ mode[2] \in Int
  <2>1. dpi \in {75, 100, 150, 200, 300, 600} /\ mode[1] \in {2, 3}
    BY ZenonT(60), <1>1, ResolutionsAssumption, DataTypesAssumption
  <2> QED
    BY <2>1, <1>1 DEF DepthFor
<1>9. /\ resolved.XPOS \in Int /\ resolved.YPOS \in Int
      /\ resolved.XEXTENT \in Int /\ resolved.YEXTENT \in Int
  BY <1>6, <1>7, AxisIds DEF Fits
<1>10. resolved \in Settings
  <2>2. /\ resolved.XRES \in Int /\ resolved.YRES \in Int
        /\ resolved.DATATYPE \in Int /\ resolved.DEPTH \in Int
    BY <1>4, <1>8
  <2>1. \A id \in Ids : resolved[id] \in Int
    BY <2>2, <1>9 DEF Ids, RegionIds
  <2> QED
    BY <2>1 DEF resolved, Resolved, Settings
<1>11. Scannable(resolved)
  BY <1>1, <1>4, <1>7, <1>10, FitsIsScannable
<1>12. Resolve(s, r) = resolved
  <2>1. Agrees(r, current, written, dpi)
    <3>1. /\ ~({"XRES", "YRES"} \subseteq written /\ current.XRES # current.YRES)
          /\ "CUR_INTENT" \in DOMAIN r => r["CUR_INTENT"] \in DOMAIN Intents
      BY DEF Sound
    <3> HIDE DEF current, written, dpi
    <3> QED
      BY <1>1, <3>1 DEF Agrees
  <2>2. Scannable(s)
    OBVIOUS
  <2> HIDE DEF current, written, dpi
  <2> QED
    BY <1>5, <1>11, <2>1, <2>2
<1> QED
  BY <1>10, <1>11, <1>12 DEF resolved

LEMMA SettingsAreNotRefused == \A s \in Settings : s # Refused
<1>1. \A s \in Settings : DOMAIN s = Ids
  BY DEF Settings
<1>2. "XRES" \in Ids /\ DOMAIN Refused = {}
  BY DEF Ids, Refused
<1> QED
  BY <1>1, <1>2

LEMMA LowestResolution ==
  /\ Initial.XRES \in Resolutions
  /\ \A dpi \in Resolutions : Initial.XRES <= dpi
<1> DEFINE low == CHOOSE d \in Resolutions : \A e \in Resolutions : d <= e
<1>1. \E d \in Resolutions : \A e \in Resolutions : d <= e
  <2>1. CASE 75 \in Resolutions
    BY <2>1, ResolutionsAssumption
  <2>2. CASE 75 \notin Resolutions /\ 100 \in Resolutions
    BY <2>2, ResolutionsAssumption
  <2>3. CASE {75, 100} \cap Resolutions = {} /\ 150 \in Resolutions
    BY <2>3, ResolutionsAssumption
  <2>4. CASE {75, 100, 150} \cap Resolutions = {} /\ 200 \in Resolutions
    BY <2>4, ResolutionsAssumption
  <2>5. CASE {75, 100, 150, 200} \cap Resolutions = {} /\ 300 \in Resolutions
    BY <2>5, ResolutionsAssumption
  <2>6. CASE {75, 100, 150, 200, 300} \cap Resolutions = {}
    <3>1. PICK d \in Resolutions : TRUE
      BY ResolutionsAssumption
    <3>2. \A e \in Resolutions : e = 600
      BY <2>6, ResolutionsAssumption
    <3> QED
      BY <3>1, <3>2
  <2> QED
    BY <2>1, <2>2, <2>3, <2>4, <2>5, <2>6
<1>2. low \in Resolutions /\ \A e \in Resolutions : low <= e
  BY <1>1
<1>3. Initial.XRES = low
  BY DEF Initial, Ids
<1> QED
  BY <1>2, <1>3

\* A bed that shows a pixel at the lowest resolution shows one at each.
LEMMA EveryResolutionShows ==
  \A axis \in Axes, dpi \in Resolutions : MaxExtent(axis, dpi) > 0
<1> SUFFICES ASSUME NEW axis \in Axes, NEW dpi \in Resolutions
             PROVE  MaxExtent(axis, dpi) > 0
  OBVIOUS
<1> DEFINE low == Initial.XRES
<1>1. low \in {75, 100, 150, 200, 300, 600} /\ dpi \in {75, 100, 150, 200, 300, 600} /\ low <= dpi
  BY ZenonT(60), LowestResolution, ResolutionsAssumption
<1>2. Initial[Pos[axis]] = 0
  BY AxisIds DEF Initial, Ids, RegionIds, Axes
<1>3. Initial[Extent[axis]] = MaxExtent(axis, low)
  BY AxisIds DEF Initial, Ids, RegionIds, Axes
<1>4. MaxExtent(axis, low) > 0
  BY <1>3, BedIsVisible DEF Scannable
<1>5. Bed[axis] \in Nat
  BY BedAssumption DEF Bed, Axes
<1> HIDE DEF low
<1>6. (Bed[axis] * low) \div 1200 > 0
  BY <1>4 DEF MaxExtent
<1>7. (Bed[axis] * dpi) \div 1200 > 0
  BY <1>1, <1>5, <1>6
<1> QED
  BY <1>7 DEF MaxExtent

\* If a request contradicts neither itself nor the scanner it is sound: what nobody wrote
\* is never in the way.
LEMMA UncontradictedIsSound ==
  ASSUME ItemInv, NEW r, IsRequest(r), ~Contradiction(r)
  PROVE  Sound(item, r)
<1> DEFINE current == WithIntent(Raw(item, r), r)
           written == Written(item, r)
           dpi == Resolution(current, written)
           mode == Mode(current, written)
           typed == "CUR_INTENT" \in DOMAIN r /\ r["CUR_INTENT"] \in {"color", "grayscale"}
<1>1. /\ current \in Settings
      /\ \A id \in Ids \ {"DATATYPE"} : current[id] = Raw(item, r)[id]
      /\ \A id \in Ids \ {"DATATYPE"} : id \in written <=> id \in DOMAIN r
  BY CurrentTyped DEF ItemInv
<1>2. \A id \in Ids \ {"DATATYPE"} :
        current[id] = IF id \in DOMAIN r THEN r[id] ELSE item[id]
  BY <1>1 DEF Raw
<1>3. /\ "XRES" \in Ids \ {"DATATYPE"} /\ "YRES" \in Ids \ {"DATATYPE"}
      /\ "DEPTH" \in Ids \ {"DATATYPE"}
      /\ \A axis \in Axes : Pos[axis] \in Ids \ {"DATATYPE"} /\ Extent[axis] \in Ids \ {"DATATYPE"}
  BY AxisIds DEF Ids, RegionIds, Axes
<1>4. dpi = Resolution(current, DOMAIN r)
  BY <1>1, <1>3 DEF Resolution
<1>5. ~({"XRES", "YRES"} \subseteq written /\ current.XRES # current.YRES)
  BY <1>1, <1>2, <1>3 DEF Contradiction
<1>6. dpi \in Resolutions
  BY <1>4 DEF Contradiction
<1>7. "CUR_INTENT" \in DOMAIN r => r["CUR_INTENT"] \in DOMAIN Intents
  BY DEF Contradiction
<1>8. mode[1] \in DataTypes /\ mode[2] = DepthFor(mode[1])
  <2>1. "DATATYPE" \in written <=> "DATATYPE" \in DOMAIN r \/ typed
    BY DEF Written, Ids
  <2>2. current.DATATYPE \in DataTypes
    <3>1. CASE DOMAIN r \cap {"DATATYPE", "CUR_INTENT"} # {}
      BY <3>1 DEF Contradiction
    <3>2. CASE DOMAIN r \cap {"DATATYPE", "CUR_INTENT"} = {}
      <4>1. current.DATATYPE = item.DATATYPE
        BY <3>2 DEF WithIntent, Raw, Ids
      <4> QED
        BY <4>1, ScannableFits DEF ItemInv
    <3> QED
      BY <3>1, <3>2
  <2>3. current.DATATYPE \in {2, 3} /\ DataTypes \subseteq {2, 3}
    BY <2>2, DataTypesAssumption
  <2>4. CASE "DATATYPE" \in written /\ "DEPTH" \in written
    <3>1. mode[1] = current.DATATYPE /\ mode[2] = current.DEPTH
      BY <2>4 DEF Mode
    <3>2. "DEPTH" \in DOMAIN r /\ current.DEPTH = r["DEPTH"]
      BY <2>4, <1>1, <1>2, <1>3
    <3>3. DOMAIN r \cap {"DATATYPE", "CUR_INTENT"} # {}
      BY <2>1, <2>4
    <3>4. DepthFor(current.DATATYPE) = r["DEPTH"]
      BY <2>3, <3>2, <3>3 DEF Contradiction
    <3> QED
      BY <2>2, <3>1, <3>2, <3>4
  <2>5. CASE "DATATYPE" \notin written /\ "DEPTH" \in written
    <3>1. mode = <<CASE current.DEPTH = 8 -> 2 [] current.DEPTH = 24 -> 3 [] OTHER -> 0,
                   current.DEPTH>>
      BY <2>5 DEF Mode
    <3>2. "DEPTH" \in DOMAIN r /\ current.DEPTH = r["DEPTH"]
      BY <2>5, <1>1, <1>2, <1>3
    <3>3. PICK t \in DataTypes : r["DEPTH"] = DepthFor(t)
      BY <3>2 DEF Contradiction
    <3>4. (t = 2 /\ current.DEPTH = 8) \/ (t = 3 /\ current.DEPTH = 24)
      BY <2>3, <3>2, <3>3 DEF DepthFor
    <3>5. mode[1] = t /\ mode[2] = current.DEPTH
      BY <3>1, <3>4
    <3> QED
      BY <3>2, <3>3, <3>5
  <2>6. CASE "DEPTH" \notin written
    <3>1. mode[1] = current.DATATYPE /\ mode[2] = DepthFor(current.DATATYPE)
      BY <2>6 DEF Mode
    <3> QED
      BY <2>2, <3>1
  <2> QED
    BY <2>4, <2>5, <2>6
<1>9. ASSUME NEW axis \in Axes
      PROVE  /\ AxisAdmits(current[Pos[axis]], current[Extent[axis]],
                           Pos[axis] \in written, Extent[axis] \in written,
                           MaxExtent(axis, dpi))
             /\ Pos[axis] \in written /\ Extent[axis] \in written =>
                   FloorToStep(current[Pos[axis]], OffsetStep(dpi)) + current[Extent[axis]]
                      <= MaxExtent(axis, dpi)
  <2> DEFINE max == MaxExtent(axis, dpi)
             pos == IF Pos[axis] \in DOMAIN r THEN r[Pos[axis]] ELSE 0
             extent == IF Extent[axis] \in DOMAIN r THEN r[Extent[axis]] ELSE 1
             f == FloorToStep(pos, OffsetStep(dpi))
  <2>1. pos \in 0..(max - 1) /\ extent \in 1..max /\ ~(f + extent > max)
    BY <1>4 DEF Contradiction
  <2>2. max \in Nat
    BY <1>6, ExtentBounds
  <2>3. f \in Nat
    <3>1. pos \in Int
      BY <2>1, <2>2
    <3> QED
      BY <3>1, <1>6, StepRange, FloorIsBelow
  <2>4. /\ Pos[axis] \in written => current[Pos[axis]] = pos
        /\ Extent[axis] \in written => current[Extent[axis]] = extent
    BY <1>1, <1>2, <1>3
  <2> HIDE DEF max, pos, extent, f
  <2>5. max > 0 /\ f + extent <= max
    BY <2>1, <2>2, <2>3
  <2> QED
    BY <2>1, <2>4, <2>5 DEF AxisAdmits, max, f
<1> HIDE DEF current, written, dpi, mode, typed
<1> QED
  BY <1>5, <1>6, <1>7, <1>8, <1>9 DEF Sound, current, written, dpi, mode

\* A request that is accepted is sound in its resolutions and its mode.
LEMMA AcceptedRequest ==
  ASSUME NEW s \in Settings, Scannable(s), NEW r, IsRequest(r), Resolve(s, r) # Refused,
         NEW current, current = WithIntent(Raw(s, r), r),
         NEW written, written = Written(s, r),
         NEW dpi, dpi = Resolution(current, written)
  PROVE  /\ Resolve(s, r) = Resolved(s, current, written, dpi)
         /\ ~({"XRES", "YRES"} \subseteq written /\ current.XRES # current.YRES)
         /\ dpi \in Resolutions
         /\ \A axis \in Axes :
              AxisAdmits(current[Pos[axis]], current[Extent[axis]],
                         Pos[axis] \in written, Extent[axis] \in written, MaxExtent(axis, dpi))
<1>1. /\ Resolve(s, r) = Resolved(s, current, written, dpi)
      /\ ~({"XRES", "YRES"} \subseteq written /\ current.XRES # current.YRES)
      /\ Scannable(Resolved(s, current, written, dpi))
      /\ \A axis \in Axes :
            AxisAdmits(current[Pos[axis]], current[Extent[axis]],
                       Pos[axis] \in written, Extent[axis] \in written, MaxExtent(axis, dpi))
  <2>1. Resolve(s, r) # Refused
    OBVIOUS
  <2>2. Resolve(s, r) = IF /\ Scannable(s) /\ Agrees(r, current, written, dpi)
                           /\ Scannable(Resolved(s, current, written, dpi))
                        THEN Resolved(s, current, written, dpi) ELSE Refused
    BY ResolveIs
  <2>3. /\ Resolve(s, r) = Resolved(s, current, written, dpi)
        /\ Scannable(Resolved(s, current, written, dpi))
        /\ Agrees(r, current, written, dpi)
    BY <2>1, <2>2
  <2> QED
    BY <2>3 DEF Agrees
<1>2. dpi \in Resolutions
  BY <1>1, ResolvedIds DEF Scannable
<1> QED
  BY <1>1, <1>2

LEMMA AcceptedIsKept ==
  ASSUME ItemInv, NEW r, IsRequest(r), Resolve(item, r) # Refused, NEW id \in DOMAIN r \cap Ids
  PROVE  LET s == Resolve(item, r)
         IN CASE id \in {"XPOS", "YPOS"} ->
                   r[id] - s[id] < OffsetStep(s.XRES) /\ s[id] - r[id] < OffsetStep(s.XRES)
              [] id = "DATATYPE" /\ "CUR_INTENT" \in DOMAIN r -> TRUE
              [] OTHER -> s[id] = r[id]
<1> DEFINE current == WithIntent(Raw(item, r), r)
           written == Written(item, r)
           dpi == Resolution(current, written)
           s == Resolve(item, r)
<1>1. /\ s = Resolved(item, current, written, dpi)
      /\ ~({"XRES", "YRES"} \subseteq written /\ current.XRES # current.YRES)
      /\ dpi \in Resolutions
      /\ \A axis \in Axes :
            AxisAdmits(current[Pos[axis]], current[Extent[axis]],
                       Pos[axis] \in written, Extent[axis] \in written, MaxExtent(axis, dpi))
  BY AcceptedRequest DEF ItemInv
<1>2. /\ s.XRES = dpi /\ s.YRES = dpi
      /\ s.DATATYPE = Mode(current, written)[1] /\ s.DEPTH = Mode(current, written)[2]
      /\ \A axis \in Axes :
           /\ s[Pos[axis]] = NewPosition(item, current, written, dpi, axis)
           /\ s[Extent[axis]] = NewExtent(item, current, written, dpi, axis)
  BY <1>1, ResolvedIds
<1>3. current \in Settings
  BY CurrentTyped DEF ItemInv
<1>4. id \in written /\ (id # "DATATYPE" => current[id] = r[id])
  <2>1. id # "DATATYPE" => current[id] = Raw(item, r)[id]
    BY CurrentTyped DEF ItemInv
  <2> QED
    BY <2>1 DEF Written, Raw
<1>5. ASSUME NEW axis \in Axes
      PROVE  /\ Extent[axis] \in written => s[Extent[axis]] = current[Extent[axis]]
             /\ Pos[axis] \in written =>
                  /\ current[Pos[axis]] - s[Pos[axis]] < OffsetStep(dpi)
                  /\ s[Pos[axis]] - current[Pos[axis]] < OffsetStep(dpi)
  <2> DEFINE pos == current[Pos[axis]]  extent == current[Extent[axis]]
             posWritten == Pos[axis] \in written  extentWritten == Extent[axis] \in written
             old == item[Res[axis]]  max == MaxExtent(axis, dpi)
             p == AxisPosition(pos, extent, posWritten, extentWritten, old, dpi, max)
  <2>1. pos \in Int /\ extent \in Int
    BY <1>3, AxisIds DEF Axes, Settings, Ids, RegionIds
  <2>2. old \in Resolutions
    BY AxisIds, ScannableFits DEF Axes, ItemInv
  <2>3. max \in Nat
    BY <1>1, ExtentBounds
  <2>4. AxisAdmits(pos, extent, posWritten, extentWritten, max)
    BY <1>1
  <2>5. posWritten \in BOOLEAN /\ extentWritten \in BOOLEAN
    OBVIOUS
  <2>6. s[Pos[axis]] = p /\ s[Extent[axis]] = AxisExtent(extent, extentWritten, old, dpi, max - p)
    BY <1>2 DEF NewPosition, NewExtent
  <2> HIDE DEF pos, extent, posWritten, extentWritten, old, max, p, current, written, dpi, s
  <2>7. p = AxisPosition(pos, extent, posWritten, extentWritten, old, dpi, max)
    BY DEF p
  <2>8. /\ extentWritten => AxisExtent(extent, extentWritten, old, dpi, max - p) = extent
        /\ posWritten => pos - p < OffsetStep(dpi) /\ p - pos < OffsetStep(dpi)
    <3>1. dpi \in Resolutions
      BY <1>1
    <3> QED
      BY <2>1, <2>2, <2>3, <2>4, <2>5, <2>7, <3>1, AxisKeeps
  <2> QED
    BY <2>6, <2>8 DEF pos, extent, posWritten, extentWritten
<1>6. "x" \in Axes /\ "y" \in Axes
  BY DEF Axes
<1> HIDE DEF current, written, dpi, s
<1>7. id \in {"XPOS", "YPOS"} => r[id] - s[id] < OffsetStep(s.XRES) /\ s[id] - r[id] < OffsetStep(s.XRES)
  BY <1>2, <1>4, <1>5, <1>6, AxisIds
<1>8. id \in {"XEXTENT", "YEXTENT"} => s[id] = r[id]
  BY <1>4, <1>5, <1>6, AxisIds
<1>9. id = "XRES" => s[id] = r[id]
  BY <1>2, <1>4 DEF Resolution, dpi
<1>10. id = "YRES" => s[id] = r[id]
  BY <1>1, <1>2, <1>4 DEF Resolution, dpi
<1>11. id = "DEPTH" => s[id] = r[id]
  <2>1. "DEPTH" \in written => Mode(current, written)[2] = current.DEPTH
    BY DEF Mode
  <2> QED
    BY <1>2, <1>4, <2>1
<1>12. id = "DATATYPE" /\ "CUR_INTENT" \notin DOMAIN r => s[id] = r[id]
  <2> SUFFICES ASSUME id = "DATATYPE", "CUR_INTENT" \notin DOMAIN r PROVE s[id] = r[id]
    OBVIOUS
  <2>1. current.DATATYPE = r["DATATYPE"]
    BY DEF current, WithIntent, Raw
  <2>2. Mode(current, written)[1] = current.DATATYPE
    BY <1>4 DEF Mode
  <2> QED
    BY <1>2, <2>1, <2>2
<1>13. id \in {"XPOS", "YPOS", "XEXTENT", "YEXTENT", "XRES", "YRES", "DEPTH", "DATATYPE"}
  BY DEF Ids, RegionIds
<1> QED
  BY <1>7, <1>8, <1>9, <1>10, <1>11, <1>12, <1>13 DEF s

-------------------------------------------------------------------------------
(* WHAT IS OFFERED *)

LEMMA OnlyWrites ==
  ASSUME NEW s \in Settings, NEW id \in Ids, NEW value \in Int
  PROVE  /\ IsRequest(Only(id, value)) /\ DOMAIN Only(id, value) = {id}
         /\ Written(s, Only(id, value)) = {id}
         /\ WithIntent(Raw(s, Only(id, value)), Only(id, value)) = [s EXCEPT ![id] = value]
<1> DEFINE r == Only(id, value)
<1>1. DOMAIN r = {id} /\ r[id] = value
  BY DEF Only
<1>2. "CUR_INTENT" \notin Ids
  BY DEF Ids, RegionIds
<1>3. IsRequest(r)
  <2>1. DOMAIN r \subseteq WrittenIds
    BY <1>1 DEF WrittenIds
  <2>2. \A i \in DOMAIN r \cap Ids : r[i] \in Int
    BY <1>1
  <2> HIDE DEF r
  <2> QED
    BY <2>1, <2>2 DEF IsRequest
<1> HIDE DEF r
<1>4. "CUR_INTENT" \notin DOMAIN r
  BY <1>1, <1>2
<1>5. Written(s, r) = {id}
  BY <1>1, <1>4 DEF Written
<1>6. WithIntent(Raw(s, r), r) = Raw(s, r)
  BY <1>4 DEF WithIntent
<1>7. Raw(s, r) = [s EXCEPT ![id] = value]
  BY <1>1 DEF Raw, Settings
<1> QED
  BY <1>1, <1>3, <1>5, <1>6, <1>7 DEF r

\* A write of the resolution, the type or the depth alone is sound if the scanner offers it.
LEMMA OneSettingIsSound ==
  ASSUME NEW s \in Settings, Scannable(s),
         NEW id \in {"XRES", "YRES", "DATATYPE", "DEPTH"}, NEW value \in Int,
         id \in {"XRES", "YRES"} => value \in Resolutions,
         id = "DATATYPE" => value \in DataTypes,
         id = "DEPTH" => \E type \in DataTypes : value = DepthFor(type),
         NEW current, current = [s EXCEPT ![id] = value],
         NEW dpi, dpi = Resolution(current, {id})
  PROVE  Sound(s, Only(id, value))
<1> DEFINE r == Only(id, value)
<1>1. id \in Ids /\ Ids = RegionIds \cup {"XRES", "YRES", "DATATYPE", "DEPTH"}
  BY DEF Ids
<1>2. /\ DOMAIN r = {id} /\ Written(s, r) = {id} /\ WithIntent(Raw(s, r), r) = current
  BY <1>1, OnlyWrites
<1>3. /\ s.XRES \in Resolutions /\ s.YRES = s.XRES
      /\ s.DATATYPE \in DataTypes /\ s.DEPTH = DepthFor(s.DATATYPE)
  BY ScannableFits
<1>4. \A i \in Ids : current[i] = IF i = id THEN value ELSE s[i]
  BY <1>1 DEF Settings
<1>5. dpi \in Resolutions
  BY <1>1, <1>3, <1>4 DEF Resolution
<1>6. /\ Mode(current, {id})[1] \in DataTypes
      /\ Mode(current, {id})[2] = DepthFor(Mode(current, {id})[1])
  <2>1. CASE id = "DEPTH"
    <3>1. PICK type \in DataTypes : value = DepthFor(type)
      BY <2>1
    <3>2. current.DEPTH = value
      BY <1>1, <1>4, <2>1
    <3>3. Mode(current, {id}) =
            <<CASE current.DEPTH = 8 -> 2 [] current.DEPTH = 24 -> 3 [] OTHER -> 0, current.DEPTH>>
      BY <2>1 DEF Mode
    <3>4. (type = 2 /\ value = 8) \/ (type = 3 /\ value = 24)
      BY <3>1, DataTypesAssumption DEF DepthFor
    <3>5. Mode(current, {id})[1] = type /\ Mode(current, {id})[2] = value
      BY <3>2, <3>3, <3>4
    <3> QED
      BY <3>1, <3>5
  <2>2. CASE id # "DEPTH"
    <3>1. Mode(current, {id}) = <<current.DATATYPE, DepthFor(current.DATATYPE)>>
      BY <2>2 DEF Mode
    <3>2. current.DATATYPE \in DataTypes
      BY <1>1, <1>3, <1>4
    <3> QED
      BY <3>1, <3>2
  <2> QED
    BY <2>1, <2>2
<1>7. ASSUME NEW axis \in Axes
      PROVE  /\ Pos[axis] # id /\ Extent[axis] # id
             /\ AxisAdmits(current[Pos[axis]], current[Extent[axis]], FALSE, FALSE,
                           MaxExtent(axis, dpi))
  <2>1. Pos[axis] # id /\ Extent[axis] # id
    BY AxisIds DEF Axes
  <2> QED
    BY <2>1, <1>5, EveryResolutionShows DEF AxisAdmits
<1>8. "CUR_INTENT" \notin DOMAIN r
  BY <1>2
<1> HIDE DEF r
<1>9. \A axis \in Axes :
        /\ AxisAdmits(current[Pos[axis]], current[Extent[axis]],
                      Pos[axis] \in {id}, Extent[axis] \in {id}, MaxExtent(axis, dpi))
        /\ ~(Pos[axis] \in {id} /\ Extent[axis] \in {id})
  BY <1>7 DEF AxisAdmits
<1>10. ~({"XRES", "YRES"} \subseteq {id})
  OBVIOUS
<1> QED
  BY <1>2, <1>5, <1>6, <1>8, <1>9, <1>10 DEF Sound, r

\* A value of the region that fits is taken alone and moves nothing else.
LEMMA OneRegionValueIsTaken ==
  ASSUME BedIsAddressable, ItemInv, NEW axis \in Axes, NEW id \in {Pos[axis], Extent[axis]},
         NEW value \in Int, NEW s, s = [item EXCEPT ![id] = value],
         Fits(s[Pos[axis]], s[Extent[axis]], item.XRES, MaxExtent(axis, item.XRES))
  PROVE  Resolve(item, Only(id, value)) = s
<1> DEFINE r == Only(id, value)  dpi == item.XRES
<1>1. id \in RegionIds /\ RegionIds \subseteq Ids /\ item \in Settings
  BY AxisIds DEF Axes, RegionIds, Ids, ItemInv
<1>2. /\ IsRequest(r) /\ DOMAIN r = {id} /\ Written(item, r) = {id}
      /\ WithIntent(Raw(item, r), r) = s
  BY <1>1, OnlyWrites
<1>3. /\ item.XRES \in Resolutions /\ item.YRES = item.XRES
      /\ item.DATATYPE \in DataTypes /\ item.DEPTH = DepthFor(item.DATATYPE)
      /\ \A a \in Axes : Fits(item[Pos[a]], item[Extent[a]], item.XRES, MaxExtent(a, item.XRES))
  BY ScannableFits DEF ItemInv
<1>4. \A i \in Ids : s[i] = IF i = id THEN value ELSE item[i]
  BY <1>1 DEF Settings
<1>5. s \in Settings
  BY <1>1 DEF Settings
<1>6. /\ {"XRES", "YRES", "DATATYPE", "DEPTH"} \subseteq Ids
      /\ {"XRES", "YRES", "DATATYPE", "DEPTH"} \cap RegionIds = {}
  BY DEF Ids, RegionIds
<1>7. /\ s.XRES = dpi /\ s.YRES = dpi /\ s.DATATYPE = item.DATATYPE /\ s.DEPTH = item.DEPTH
  BY <1>1, <1>3, <1>4, <1>6
<1>8. ASSUME NEW a \in Axes
      PROVE  Fits(s[Pos[a]], s[Extent[a]], dpi, MaxExtent(a, dpi))
  <2>1. CASE a = axis
    BY <2>1
  <2>2. CASE a # axis
    <3>1. Pos[a] # id /\ Extent[a] # id /\ Pos[a] \in Ids /\ Extent[a] \in Ids
      BY <2>2, AxisIds DEF Axes, Ids, RegionIds
    <3> QED
      BY <1>3, <1>4, <3>1
  <2> QED
    BY <2>1, <2>2
<1>9. /\ Resolution(s, {id}) = dpi
      /\ Mode(s, {id})[1] = item.DATATYPE /\ Mode(s, {id})[2] = item.DEPTH
  <2>1. id \notin {"XRES", "YRES", "DATATYPE", "DEPTH"}
    BY <1>1, <1>6
  <2>2. Mode(s, {id}) = <<s.DATATYPE, DepthFor(s.DATATYPE)>>
    BY <2>1 DEF Mode
  <2>3. Resolution(s, {id}) = s.XRES
    BY <2>1 DEF Resolution
  <2> QED
    BY <1>3, <1>7, <2>2, <2>3
<1>10. ASSUME NEW a \in Axes
       PROVE  /\ AxisAdmits(s[Pos[a]], s[Extent[a]], Pos[a] \in {id}, Extent[a] \in {id},
                            MaxExtent(a, dpi))
              /\ NewPosition(item, s, {id}, dpi, a) = s[Pos[a]]
              /\ NewExtent(item, s, {id}, dpi, a) = s[Extent[a]]
  <2> DEFINE pos == s[Pos[a]]  extent == s[Extent[a]]  max == MaxExtent(a, dpi)
             posWritten == Pos[a] \in {id}  extentWritten == Extent[a] \in {id}
  <2>1. item[Res[a]] = dpi
    BY <1>3, AxisIds DEF Axes
  <2>2. max \in Nat /\ Fits(pos, extent, dpi, max) /\ dpi \in Resolutions
    BY <1>3, <1>8, ExtentBounds
  <2>3. posWritten \in BOOLEAN /\ extentWritten \in BOOLEAN
    OBVIOUS
  <2>4. NewPosition(item, s, {id}, dpi, a)
           = AxisPosition(pos, extent, posWritten, extentWritten, dpi, dpi, max)
    BY <2>1 DEF NewPosition
  <2>5. NewExtent(item, s, {id}, dpi, a)
           = AxisExtent(extent, extentWritten, dpi, dpi, max - NewPosition(item, s, {id}, dpi, a))
    BY <2>1 DEF NewExtent
  <2> HIDE DEF pos, extent, max, posWritten, extentWritten, dpi
  <2>6. /\ AxisAdmits(pos, extent, posWritten, extentWritten, max)
        /\ AxisPosition(pos, extent, posWritten, extentWritten, dpi, dpi, max) = pos
        /\ AxisExtent(extent, extentWritten, dpi, dpi, max - pos) = extent
    BY <2>2, <2>3, AxisStays
  <2> QED
    BY <2>4, <2>5, <2>6 DEF pos, extent, max, posWritten, extentWritten
<1>11. \A a \in Axes : ~(Pos[a] \in {id} /\ Extent[a] \in {id})
  BY AxisIds DEF Axes
<1>12. "CUR_INTENT" \notin DOMAIN r /\ ~({"XRES", "YRES"} \subseteq {id})
  BY <1>1, <1>2, <1>6 DEF Ids, RegionIds
<1>13. dpi \in Resolutions /\ item.DATATYPE \in DataTypes /\ item.DEPTH = DepthFor(item.DATATYPE)
  BY <1>3
<1> HIDE DEF r, dpi
<1>14. Sound(item, r)
  <2>1. \A a \in Axes :
          /\ AxisAdmits(s[Pos[a]], s[Extent[a]], Pos[a] \in {id}, Extent[a] \in {id},
                        MaxExtent(a, dpi))
          /\ ~(Pos[a] \in {id} /\ Extent[a] \in {id})
    BY <1>10, <1>11
  <2>2. /\ Written(item, r) = {id} /\ WithIntent(Raw(item, r), r) = s
        /\ Resolution(s, {id}) = dpi
    BY <1>2, <1>9
  <2>3. Mode(s, {id})[1] \in DataTypes /\ Mode(s, {id})[2] = DepthFor(Mode(s, {id})[1])
    BY <1>9, <1>13
  <2> QED
    BY <1>12, <1>13, <2>1, <2>2, <2>3 DEF Sound
<1>15. /\ Resolve(item, r) = Resolved(item, s, {id}, dpi)
       /\ Resolve(item, r) \in Settings
  <2>1. item \in Settings /\ Scannable(item) /\ BedIsAddressable
    BY DEF ItemInv
  <2>2. /\ s = WithIntent(Raw(item, r), r) /\ {id} = Written(item, r)
        /\ dpi = Resolution(s, {id}) /\ IsRequest(r)
    BY <1>2, <1>9
  <2> QED
    BY <1>14, <2>1, <2>2, SoundIsResolved
<1>16. /\ \A a \in Axes : /\ Resolve(item, r)[Pos[a]] = s[Pos[a]]
                          /\ Resolve(item, r)[Extent[a]] = s[Extent[a]]
       /\ Resolve(item, r).XRES = dpi /\ Resolve(item, r).YRES = dpi
       /\ Resolve(item, r).DATATYPE = item.DATATYPE /\ Resolve(item, r).DEPTH = item.DEPTH
  <2> DEFINE resolved == Resolved(item, s, {id}, dpi)
  <2>1. /\ resolved.XRES = dpi /\ resolved.YRES = dpi
        /\ resolved.DATATYPE = Mode(s, {id})[1] /\ resolved.DEPTH = Mode(s, {id})[2]
        /\ \A a \in Axes : /\ resolved[Pos[a]] = NewPosition(item, s, {id}, dpi, a)
                           /\ resolved[Extent[a]] = NewExtent(item, s, {id}, dpi, a)
    BY ResolvedIds
  <2>2. Resolve(item, r) = resolved
    BY <1>15
  <2> HIDE DEF resolved
  <2> QED
    BY <1>9, <1>10, <2>1, <2>2
<1>17. \A i \in Ids : Resolve(item, r)[i] = s[i]
  <2>1. "x" \in Axes /\ "y" \in Axes
    BY DEF Axes
  <2> QED
    BY <1>7, <1>16, <2>1, AxisIds DEF Ids, RegionIds
<1> QED
  BY <1>5, <1>15, <1>17 DEF Settings, r

LEMMA OfferedRegionIsTaken ==
  ASSUME BedIsAddressable, ItemInv, NEW axis \in Axes
  PROVE  /\ \A n \in 0..(limits[Pos[axis]] \div Step) :
               Resolve(item, Only(Pos[axis], n * Step)) = [item EXCEPT ![Pos[axis]] = n * Step]
         /\ \A n \in 1..limits[Extent[axis]] :
               Resolve(item, Only(Extent[axis], n)) = [item EXCEPT ![Extent[axis]] = n]
<1> DEFINE max == MaxExtent(axis, item.XRES)  p == item[Pos[axis]]  e == item[Extent[axis]]
           step == OffsetStep(item.XRES)
<1>1. /\ item \in Settings /\ Pos[axis] \in Ids /\ Extent[axis] \in Ids /\ Pos[axis] # Extent[axis]
  BY AxisIds DEF Axes, Ids, RegionIds, ItemInv
<1>2. /\ limits[Pos[axis]] = ((max - e) \div step) * step
      /\ limits[Extent[axis]] = max - p
  BY AxisIds DEF ItemInv, Limits, Axes, RegionIds
<1>3. Fits(p, e, item.XRES, max) /\ item.XRES \in Resolutions
  BY ScannableFits DEF ItemInv
<1>4. /\ p \in Nat /\ e \in Nat /\ e > 0 /\ p + e <= max /\ p % step = 0
      /\ step \in {1, 2, 3, 6} /\ max \in Nat
  BY <1>3, StepRange, ExtentBounds DEF Fits
<1> HIDE DEF max, p, e, step
<1>5. ASSUME NEW n \in 0..(limits[Pos[axis]] \div Step)
      PROVE  Resolve(item, Only(Pos[axis], n * Step)) = [item EXCEPT ![Pos[axis]] = n * Step]
  <2> DEFINE value == n * step
  <2>1. n \in Int /\ 0 <= n /\ n <= (((max - e) \div step) * step) \div step
    BY <1>2, <1>4 DEF Step, step
  <2>2. value \in Nat /\ value + e <= max /\ value % step = 0
    BY <1>4, <2>1
  <2> HIDE DEF value
  <2>3. /\ [item EXCEPT ![Pos[axis]] = value][Pos[axis]] = value
        /\ [item EXCEPT ![Pos[axis]] = value][Extent[axis]] = e
    BY <1>1 DEF Settings, e
  <2>4. Fits(value, e, item.XRES, max)
    BY <1>4, <2>2 DEF Fits, step
  <2>5. value \in Int
    BY <2>2
  <2>6. Resolve(item, Only(Pos[axis], value)) = [item EXCEPT ![Pos[axis]] = value]
    BY <2>3, <2>4, <2>5, OneRegionValueIsTaken DEF max
  <2> QED
    BY <2>6 DEF value, Step, step
<1>6. ASSUME NEW n \in 1..limits[Extent[axis]]
      PROVE  Resolve(item, Only(Extent[axis], n)) = [item EXCEPT ![Extent[axis]] = n]
  <2>1. n \in Nat /\ n > 0 /\ p + n <= max /\ n \in Int
    BY <1>2, <1>4
  <2>2. /\ [item EXCEPT ![Extent[axis]] = n][Pos[axis]] = p
        /\ [item EXCEPT ![Extent[axis]] = n][Extent[axis]] = n
    BY <1>1 DEF Settings, p
  <2>3. Fits(p, n, item.XRES, max)
    BY <1>4, <2>1 DEF Fits, step
  <2> QED
    BY <2>1, <2>2, <2>3, OneRegionValueIsTaken DEF max
<1> QED
  BY <1>5, <1>6

LEMMA OffersHold == BedIsAddressable /\ ItemInv => OffersAreHonest
<1> SUFFICES ASSUME BedIsAddressable, ItemInv PROVE OffersAreHonest
  OBVIOUS
<1>1. item \in Settings /\ Scannable(item)
  BY DEF ItemInv
<1>2. ASSUME NEW id \in {"XRES", "YRES"}, NEW dpi \in Resolutions
      PROVE  LET s == Resolve(item, Only(id, dpi)) IN s # Refused /\ s.XRES = dpi /\ s.YRES = dpi
  <2> DEFINE r == Only(id, dpi)  current == [item EXCEPT ![id] = dpi]
  <2>1. dpi \in Int /\ id \in Ids
    BY ResolutionsAssumption DEF Ids
  <2>2. /\ IsRequest(r) /\ Written(item, r) = {id} /\ WithIntent(Raw(item, r), r) = current
    BY <1>1, <2>1, OnlyWrites
  <2>3. Resolution(current, {id}) = dpi
    BY <1>1, <2>1 DEF Resolution, Settings, Ids
  <2>4. Sound(item, r)
    BY <1>1, <2>1, OneSettingIsSound
  <2>5. /\ Resolve(item, r) \in Settings
        /\ Resolve(item, r) = Resolved(item, current, {id}, Resolution(current, {id}))
    BY <1>1, <2>2, <2>4, SoundIsResolved
  <2>6. Resolve(item, r) # Refused
    BY <2>5, SettingsAreNotRefused
  <2> QED
    BY <2>3, <2>5, <2>6, ResolvedIds
<1>3. ASSUME NEW type \in DataTypes
      PROVE  /\ Resolve(item, Only("DATATYPE", type)).DEPTH = DepthFor(type)
             /\ Resolve(item, Only("DEPTH", DepthFor(type))).DATATYPE = type
  <2>1. /\ type \in {2, 3} /\ type \in Int /\ DepthFor(type) \in Int
        /\ "DATATYPE" \in Ids /\ "DEPTH" \in Ids
    BY DataTypesAssumption DEF DepthFor, Ids
  <2>2. ASSUME NEW id \in {"DATATYPE", "DEPTH"}, NEW value \in Int,
               id = "DATATYPE" => value = type, id = "DEPTH" => value = DepthFor(type)
        PROVE  LET current == [item EXCEPT ![id] = value]
               IN /\ Resolve(item, Only(id, value)).DATATYPE = Mode(current, {id})[1]
                  /\ Resolve(item, Only(id, value)).DEPTH = Mode(current, {id})[2]
    <3> DEFINE r == Only(id, value)  current == [item EXCEPT ![id] = value]
    <3>1. id \in Ids
      BY <2>1
    <3>2. /\ IsRequest(r) /\ Written(item, r) = {id} /\ WithIntent(Raw(item, r), r) = current
      BY <1>1, <3>1, OnlyWrites
    <3>3. Sound(item, r)
      BY <1>1, <2>2, OneSettingIsSound
    <3>4. Resolve(item, r) = Resolved(item, current, {id}, Resolution(current, {id}))
      BY <1>1, <3>2, <3>3, SoundIsResolved
    <3> QED
      BY <3>4, ResolvedIds
  <2>3. Mode([item EXCEPT !["DATATYPE"] = type], {"DATATYPE"})[2] = DepthFor(type)
    BY <1>1, <2>1 DEF Mode, Settings
  <2>4. Mode([item EXCEPT !["DEPTH"] = DepthFor(type)], {"DEPTH"})[1] = type
    BY <1>1, <2>1 DEF Mode, Settings, DepthFor
  <2> QED
    BY <2>1, <2>2, <2>3, <2>4
<1>4. AdvertisedIsTaken
  BY <1>2, <1>3, OfferedRegionIsTaken DEF AdvertisedIsTaken
<1>5. RefusedForAReason
  <2> SUFFICES ASSUME NEW r \in Requests, ~Contradiction(r) PROVE Resolve(item, r) # Refused
    BY DEF RefusedForAReason
  <2>1. IsRequest(r) /\ Sound(item, r)
    BY RequestsAssumption, UncontradictedIsSound
  <2>2. Resolve(item, r) \in Settings
    BY <1>1, <2>1, SoundIsResolved
  <2> QED
    BY <2>2, SettingsAreNotRefused
<1> QED
  BY <1>4, <1>5 DEF OffersAreHonest

\* On any bed that two offset bytes can address, every value the item advertises is taken
\* exactly, and a request is refused only for a contradiction in what was written.
THEOREM OffersStayHonest == ASSUME BedIsAddressable PROVE Spec => []OffersAreHonest
<1>1. ItemInv => OffersAreHonest
  BY OffersHold
<1> QED
  BY <1>1, ItemInvariant, PTL

\* What is written is kept, to less than an offset step: the first half of SelectionIsKept.
THEOREM WritesAreKept == Spec => []WrittenIsKept
<1>1. ItemInv => WrittenIsKept
  <2> SUFFICES ASSUME ItemInv, NEW r \in Requests, Resolve(item, r) # Refused,
                      NEW id \in DOMAIN r \cap Ids
               PROVE  LET s == Resolve(item, r)
                      IN CASE id \in {"XPOS", "YPOS"} ->
                                /\ r[id] - s[id] < OffsetStep(s.XRES)
                                /\ s[id] - r[id] < OffsetStep(s.XRES)
                           [] id = "DATATYPE" /\ "CUR_INTENT" \in DOMAIN r -> TRUE
                           [] OTHER -> s[id] = r[id]
    BY DEF WrittenIsKept
  <2> QED
    BY AcceptedIsKept, RequestsAssumption
<1> QED
  BY <1>1, ItemInvariant, PTL

-------------------------------------------------------------------------------
(* ROUND TRIPS *)

\* One axis when only the resolution changes.
TurnedPosition(pos, old, new, max) ==
    LET scaled == QuantizePosition(ScaleExtent(pos, old, new), new)
    IN IF scaled >= max THEN FloorToStep(max - 1, OffsetStep(new)) ELSE scaled

TurnedExtent(extent, old, new, available) ==
    LET scaled == AtLeastOne(ScaleExtent(extent, old, new))
    IN IF scaled > available THEN available ELSE scaled

\* A grid of offsets that is kept by the way to a finer resolution: all but 100 dpi, whose
\* steps of 1/100 inch are lost at 150 dpi, where they are 2/100.
LEMMA UpScalesExactly ==
  ASSUME NEW low \in Resolutions, NEW high \in Resolutions, low < high,
         ~(low = 100 /\ high = 150), NEW p \in Nat, p % StepAt(low) = 0
  PROVE  /\ ScaleExtent(p, low, high) * low = p * high
         /\ ScaleExtent(p, low, high) \in Nat
         /\ ScaleExtent(p, low, high) % StepAt(high) = 0
         /\ ScaleExtent(ScaleExtent(p, low, high), high, low) = p
<1>1. low \in {75, 100, 150, 200, 300, 600} /\ high \in {75, 100, 150, 200, 300, 600}
  BY ResolutionsAssumption
<1>2. CASE low = 75
  BY <1>1, <1>2 DEF ScaleExtent, StepAt
<1>3. CASE low = 100
  BY <1>1, <1>3 DEF ScaleExtent, StepAt
<1>4. CASE low = 150
  BY <1>1, <1>4 DEF ScaleExtent, StepAt
<1>5. CASE low = 200
  BY <1>1, <1>5 DEF ScaleExtent, StepAt
<1>6. CASE low = 300
  BY <1>1, <1>6 DEF ScaleExtent, StepAt
<1> QED
  BY <1>1, <1>2, <1>3, <1>4, <1>5, <1>6

LEMMA UpAndBackExtent ==
  ASSUME NEW low \in Resolutions, NEW high \in Resolutions, low < high,
         NEW e \in Nat, e > 0, NEW available \in Nat, available * low > e * high - low
  PROVE  /\ TurnedExtent(e, low, high, available) \in Nat
         /\ TurnedExtent(e, low, high, available) > 0
         /\ ScaleExtent(TurnedExtent(e, low, high, available), high, low) = e
<1>1. low \in {75, 100, 150, 200, 300, 600} /\ high \in {75, 100, 150, 200, 300, 600}
  BY ResolutionsAssumption
<1> DEFINE x == ScaleExtent(e, low, high)
           y == TurnedExtent(e, low, high, available)
<1>2. x \in Nat /\ x > 0 /\ 2 * x * low <= 2 * e * high + low
  BY <1>1 DEF ScaleExtent
<1>3. y = IF x > available THEN available ELSE x
  BY <1>2 DEF TurnedExtent, AtLeastOne
<1>4. x * low > e * high - low
  BY <1>1 DEF ScaleExtent
<1> HIDE DEF x, y
<1>5. y \in Nat /\ y * low > e * high - low /\ 2 * y * low <= 2 * e * high + low
  BY <1>1, <1>2, <1>3, <1>4
<1>6. y > 0
  BY <1>1, <1>5
<1>7. ScaleExtent(y, high, low) = e
  BY <1>1, <1>5 DEF ScaleExtent
<1> QED
  BY <1>5, <1>6, <1>7 DEF y

\* To a finer resolution and back, an axis is what it was.
LEMMA UpAndBack ==
  ASSUME NEW axis \in Axes, NEW low \in Resolutions, NEW high \in Resolutions, low < high,
         ~(low = 100 /\ high = 150),
         NEW p, NEW e, Fits(p, e, low, MaxExtent(axis, low)),
         NEW q, q = TurnedPosition(p, low, high, MaxExtent(axis, high)),
         NEW f, f = TurnedExtent(e, low, high, MaxExtent(axis, high) - q)
  PROVE  /\ TurnedPosition(q, high, low, MaxExtent(axis, low)) = p
         /\ TurnedExtent(f, high, low, MaxExtent(axis, low) - p) = e
<1> DEFINE w == Bed[axis]  mL == MaxExtent(axis, low)  mH == MaxExtent(axis, high)
           x == ScaleExtent(p, low, high)
<1>0. low \in {75, 100, 150, 200, 300, 600} /\ high \in {75, 100, 150, 200, 300, 600}
  BY ResolutionsAssumption
<1>1. w \in Nat /\ mL \in Nat /\ mH \in Nat
  BY BedAssumption, ExtentBounds DEF Axes, Bed
<1>2. mL = (w * low) \div 1200 /\ mH = (w * high) \div 1200
  BY DEF MaxExtent
<1>3. p \in Nat /\ e \in Nat /\ e > 0 /\ p + e <= mL /\ p % StepAt(low) = 0
  BY StepValue DEF Fits
<1>4. /\ x * low = p * high /\ x \in Nat /\ x % StepAt(high) = 0
      /\ ScaleExtent(x, high, low) = p
  BY <1>3, UpScalesExactly
<1>5. QuantizePosition(x, high) = x /\ QuantizePosition(p, low) = p
  BY <1>3, <1>4, QuantizedIsNear, StepValue
<1> HIDE DEF w, mL, mH, x
\* What the axis takes of the bed it takes at every resolution, but for a part of a pixel.
<1>6. x < mH /\ (mH - x) * low > e * high - low
  <2>1. (p + e) * 1200 <= w * low
    BY <1>0, <1>1, <1>2, <1>3
  <2>2. (mH + 1) * 1200 > w * high
    BY <1>0, <1>1, <1>2
  <2>3. (mH + 1) * low > (p + e) * high
    BY <1>0, <1>1, <1>3, <2>1, <2>2
  <2>4. (mH - x) * low > e * high - low
    BY <1>0, <1>1, <1>3, <1>4, <2>3
  <2>5. (mH - x) * low > 0
    BY <1>0, <1>1, <1>3, <1>4, <2>4
  <2> QED
    BY <1>0, <1>1, <1>4, <2>4, <2>5
<1>7. q = x
  BY <1>1, <1>4, <1>5, <1>6 DEF TurnedPosition, x, mH
<1>8. TurnedPosition(q, high, low, mL) = p
  BY <1>1, <1>3, <1>4, <1>5, <1>7 DEF TurnedPosition
<1>9. mH - x \in Nat
  BY <1>1, <1>4, <1>6
<1>10. f = TurnedExtent(e, low, high, mH - x)
  BY <1>7 DEF mH
<1>11. f \in Nat /\ f > 0 /\ ScaleExtent(f, high, low) = e
  BY <1>3, <1>6, <1>9, <1>10, UpAndBackExtent
<1>12. TurnedExtent(f, high, low, mL - p) = e
  BY <1>1, <1>3, <1>11 DEF TurnedExtent, AtLeastOne
<1> QED
  BY <1>8, <1>12 DEF mL

\* Between 150 and 100 dpi the first way down may cut a pixel off at the end of the bed; the
\* way up and down again then changes nothing.
LEMMA DownUpDown ==
  ASSUME NEW axis \in Axes, 100 \in Resolutions, 150 \in Resolutions,
         NEW p, NEW e, Fits(p, e, 150, MaxExtent(axis, 150)),
         NEW q, q = TurnedPosition(p, 150, 100, MaxExtent(axis, 100)),
         NEW f, f = TurnedExtent(e, 150, 100, MaxExtent(axis, 100) - q),
         NEW r, r = TurnedPosition(q, 100, 150, MaxExtent(axis, 150)),
         NEW g, g = TurnedExtent(f, 100, 150, MaxExtent(axis, 150) - r)
  PROVE  /\ TurnedPosition(r, 150, 100, MaxExtent(axis, 100)) = q
         /\ TurnedExtent(g, 150, 100, MaxExtent(axis, 100) - q) = f
<1> DEFINE w == Bed[axis]  mL == MaxExtent(axis, 100)  mH == MaxExtent(axis, 150)
<1>1. w \in Nat /\ mL \in Nat /\ mL > 0 /\ mH \in Nat
  BY BedAssumption, ExtentBounds, EveryResolutionShows DEF Axes, Bed
<1>2. mL = w \div 12 /\ mH = w \div 8
  <2>1. mL = (w * 100) \div 1200 /\ mH = (w * 150) \div 1200
    BY DEF MaxExtent
  <2> HIDE DEF w
  <2> QED
    BY <1>1, <2>1
<1>3. OffsetStep(100) = 1 /\ OffsetStep(150) = 3
  BY StepValue DEF StepAt
<1>4. p \in Nat /\ e \in Nat /\ e > 0 /\ p + e <= mH /\ p % 3 = 0
  BY <1>3 DEF Fits
<1> DEFINE m == p \div 3
<1>5. m \in Nat /\ p = 3 * m
  BY <1>4
<1> HIDE DEF w, mL, mH, m
<1>6. ScaleExtent(p, 150, 100) = 2 * m
  BY <1>5 DEF ScaleExtent
<1>7. QuantizePosition(2 * m, 100) = 2 * m
  BY <1>3, <1>5 DEF QuantizePosition
<1>8. q = IF 2 * m >= mL THEN mL - 1 ELSE 2 * m
  BY <1>1, <1>3, <1>5, <1>6, <1>7 DEF TurnedPosition, FloorToStep, mL
<1>9. ScaleExtent(e, 150, 100) = (e * 100 + 75) \div 150
  BY DEF ScaleExtent
<1>10. f \in Nat /\ f > 0 /\ f <= mL - q /\ q \in Nat /\ q < mL
  BY <1>1, <1>4, <1>5, <1>8, <1>9 DEF TurnedExtent, AtLeastOne, mL
<1>11. r = p
  <2>1. CASE 2 * m < mL
    <3>1. q = 2 * m
      BY <2>1, <1>1, <1>5, <1>8
    <3>2. ScaleExtent(q, 100, 150) = p
      BY <3>1, <1>5 DEF ScaleExtent
    <3>3. QuantizePosition(p, 150) = p
      BY <1>3, <1>5 DEF QuantizePosition
    <3>4. p < mH
      BY <1>1, <1>4
    <3> QED
      BY <3>2, <3>3, <3>4, <1>1, <1>5 DEF TurnedPosition, mH
  <2>2. CASE ~(2 * m < mL)
    <3>1. mL = 2 * m /\ m > 0
      BY <2>2, <1>1, <1>2, <1>4, <1>5
    <3>2. q = 2 * m - 1
      BY <3>1, <1>5, <1>8
    <3>3. ScaleExtent(q, 100, 150) = 3 * m - 1
      BY <3>1, <3>2, <1>5 DEF ScaleExtent
    <3>4. QuantizePosition(3 * m - 1, 150) = p
      BY <3>1, <1>3, <1>5 DEF QuantizePosition
    <3>5. p < mH
      BY <1>1, <1>4
    <3> QED
      BY <3>3, <3>4, <3>5, <1>1, <1>5 DEF TurnedPosition, mH
  <2> QED
    BY <2>1, <2>2
<1>12. TurnedPosition(r, 150, 100, mL) = q
  BY <1>1, <1>3, <1>5, <1>6, <1>7, <1>8, <1>11 DEF TurnedPosition, FloorToStep
<1>13. ScaleExtent(f, 100, 150) = (f * 150 + 50) \div 100
  BY DEF ScaleExtent
<1>14. g = IF (f * 150 + 50) \div 100 > mH - p THEN mH - p ELSE (f * 150 + 50) \div 100
  BY <1>10, <1>11, <1>13 DEF TurnedExtent, AtLeastOne, mH
<1>15. g \in Nat
  BY <1>1, <1>4, <1>10, <1>14
<1>16. TurnedExtent(g, 150, 100, mL - q) = f
  <2>1. ScaleExtent(g, 150, 100) = (g * 100 + 75) \div 150
    BY DEF ScaleExtent
  <2>2. CASE 2 * m < mL
    <3>1. q = 2 * m
      BY <2>2, <1>1, <1>5, <1>8
    <3>2. (g * 100 + 75) \div 150 = f
      BY <3>1, <1>1, <1>2, <1>4, <1>5, <1>10, <1>14
    <3> QED
      BY <2>1, <3>2, <1>1, <1>10 DEF TurnedExtent, AtLeastOne
  <2>3. CASE ~(2 * m < mL)
    <3>1. mL = 2 * m /\ m > 0 /\ mH = 3 * m + 1
      BY <2>3, <1>1, <1>2, <1>4, <1>5
    <3>2. q = mL - 1 /\ f = 1
      BY <3>1, <1>5, <1>8, <1>10
    <3>3. g = 1
      BY <3>1, <3>2, <1>5, <1>14
    <3>4. (g * 100 + 75) \div 150 = 1
      BY <3>3
    <3> QED
      BY <2>1, <3>1, <3>2, <3>4, <1>5 DEF TurnedExtent, AtLeastOne
  <2> QED
    BY <2>2, <2>3
<1> QED
  BY <1>12, <1>16 DEF mL

\* Settings that agree in all they hold are the same.
LEMMA SameSettings ==
  ASSUME NEW s \in Settings, NEW t \in Settings, t.XRES = s.XRES, t.YRES = s.YRES,
         t.DATATYPE = s.DATATYPE, t.DEPTH = s.DEPTH,
         \A axis \in Axes : t[Pos[axis]] = s[Pos[axis]] /\ t[Extent[axis]] = s[Extent[axis]]
  PROVE  t = s
<1>1. t.XPOS = s.XPOS /\ t.YPOS = s.YPOS /\ t.XEXTENT = s.XEXTENT /\ t.YEXTENT = s.YEXTENT
  BY AxisIds DEF Axes
<1>2. \A id \in Ids : t[id] = s[id]
  BY <1>1 DEF Ids, RegionIds
<1> QED
  BY <1>2 DEF Settings

\* A write of the resolution alone is taken, and each axis follows it.
LEMMA SwitchResolves ==
  ASSUME BedIsAddressable, NEW s \in Settings, Scannable(s), NEW dpi \in Resolutions
  PROVE  LET t == Resolve(s, Only("XRES", dpi))
         IN /\ t \in Settings /\ Scannable(t)
            /\ t.XRES = dpi /\ t.YRES = dpi
            /\ t.DATATYPE = s.DATATYPE /\ t.DEPTH = s.DEPTH
            /\ \A axis \in Axes :
                 /\ t[Pos[axis]] = AxisPosition(s[Pos[axis]], s[Extent[axis]], FALSE, FALSE,
                                                s.XRES, dpi, MaxExtent(axis, dpi))
                 /\ t[Extent[axis]] = AxisExtent(s[Extent[axis]], FALSE, s.XRES, dpi,
                                                 MaxExtent(axis, dpi) - t[Pos[axis]])
<1> DEFINE r == Only("XRES", dpi)
           current == [s EXCEPT !["XRES"] = dpi]
           t == Resolve(s, r)
<1>1. "XRES" \in Ids /\ dpi \in Int
  BY ResolutionsAssumption DEF Ids
<1>2. /\ IsRequest(r) /\ Written(s, r) = {"XRES"} /\ WithIntent(Raw(s, r), r) = current
  BY <1>1, OnlyWrites
<1>3. Sound(s, r)
  <2> DEFINE target == Resolution(current, {"XRES"})
  <2>1. target = Resolution(current, {"XRES"}) /\ current = [s EXCEPT !["XRES"] = dpi]
    OBVIOUS
  <2> HIDE DEF current, target
  <2> QED
    BY <1>1, <2>1, OneSettingIsSound
<1> HIDE DEF r, current
<1>4. /\ t = Resolved(s, current, {"XRES"}, Resolution(current, {"XRES"}))
      /\ t \in Settings /\ Scannable(t)
  BY <1>2, <1>3, SoundIsResolved
<1>5. \A id \in Ids : current[id] = IF id = "XRES" THEN dpi ELSE s[id]
  BY <1>1 DEF Settings, current
<1>6. Resolution(current, {"XRES"}) = dpi
  BY <1>1, <1>5 DEF Resolution
<1>7. t = Resolved(s, current, {"XRES"}, dpi)
  BY <1>4, <1>6
<1> HIDE DEF t
<1>8. /\ t.XRES = dpi /\ t.YRES = dpi
      /\ t.DATATYPE = Mode(current, {"XRES"})[1] /\ t.DEPTH = Mode(current, {"XRES"})[2]
      /\ \A axis \in Axes :
           /\ t[Pos[axis]] = NewPosition(s, current, {"XRES"}, dpi, axis)
           /\ t[Extent[axis]] = NewExtent(s, current, {"XRES"}, dpi, axis)
  BY <1>7, ResolvedIds
<1>9. t.DATATYPE = s.DATATYPE /\ t.DEPTH = s.DEPTH
  <2>1. current.DATATYPE = s.DATATYPE
    BY <1>5 DEF Ids
  <2>2. Mode(current, {"XRES"}) = <<s.DATATYPE, DepthFor(s.DATATYPE)>>
    BY <2>1 DEF Mode
  <2> QED
    BY <1>8, <2>2, ScannableFits
<1>10. ASSUME NEW axis \in Axes
       PROVE  /\ t[Pos[axis]] = AxisPosition(s[Pos[axis]], s[Extent[axis]], FALSE, FALSE,
                                             s.XRES, dpi, MaxExtent(axis, dpi))
              /\ t[Extent[axis]] = AxisExtent(s[Extent[axis]], FALSE, s.XRES, dpi,
                                              MaxExtent(axis, dpi) - t[Pos[axis]])
  <2>1. /\ Pos[axis] \in Ids /\ Extent[axis] \in Ids
        /\ (Pos[axis] \in {"XRES"}) = FALSE /\ (Extent[axis] \in {"XRES"}) = FALSE
    BY AxisIds DEF Axes, Ids, RegionIds
  <2>2. current[Pos[axis]] = s[Pos[axis]] /\ current[Extent[axis]] = s[Extent[axis]]
    BY <1>5, <2>1
  <2>3. s[Res[axis]] = s.XRES
    BY AxisIds, ScannableFits DEF Axes
  <2>4. t[Pos[axis]] = NewPosition(s, current, {"XRES"}, dpi, axis)
    BY <1>8
  <2>5. NewPosition(s, current, {"XRES"}, dpi, axis)
          = AxisPosition(s[Pos[axis]], s[Extent[axis]], FALSE, FALSE,
                         s.XRES, dpi, MaxExtent(axis, dpi))
    BY <2>1, <2>2, <2>3 DEF NewPosition
  <2>6. t[Extent[axis]] = AxisExtent(s[Extent[axis]], FALSE, s.XRES, dpi,
                                     MaxExtent(axis, dpi) - t[Pos[axis]])
    BY <1>8, <2>1, <2>2, <2>3, <2>4 DEF NewExtent
  <2> QED
    BY <2>4, <2>5, <2>6
<1> QED
  BY <1>4, <1>8, <1>9, <1>10 DEF t, r

\* Writing the resolution the item has changes nothing.
LEMMA SwitchStays ==
  ASSUME BedIsAddressable, NEW s \in Settings, Scannable(s)
  PROVE  Resolve(s, Only("XRES", s.XRES)) = s
<1> DEFINE t == Resolve(s, Only("XRES", s.XRES))
<1>1. /\ s.XRES \in Resolutions /\ s.YRES = s.XRES
      /\ \A axis \in Axes :
           Fits(s[Pos[axis]], s[Extent[axis]], s.XRES, MaxExtent(axis, s.XRES))
  BY ScannableFits
<1>2. /\ t \in Settings /\ t.XRES = s.XRES /\ t.YRES = s.XRES
      /\ t.DATATYPE = s.DATATYPE /\ t.DEPTH = s.DEPTH
      /\ \A axis \in Axes :
           /\ t[Pos[axis]] = AxisPosition(s[Pos[axis]], s[Extent[axis]], FALSE, FALSE,
                                          s.XRES, s.XRES, MaxExtent(axis, s.XRES))
           /\ t[Extent[axis]] = AxisExtent(s[Extent[axis]], FALSE, s.XRES, s.XRES,
                                           MaxExtent(axis, s.XRES) - t[Pos[axis]])
  BY <1>1, SwitchResolves
<1> HIDE DEF t
<1>3. ASSUME NEW axis \in Axes
      PROVE  t[Pos[axis]] = s[Pos[axis]] /\ t[Extent[axis]] = s[Extent[axis]]
  <2> DEFINE dpi == s.XRES  max == MaxExtent(axis, dpi)
             pos == s[Pos[axis]]  extent == s[Extent[axis]]
  <2>1. dpi \in Resolutions /\ max \in Nat /\ Fits(pos, extent, dpi, max)
    BY <1>1, ExtentBounds
  <2>2. /\ t[Pos[axis]] = AxisPosition(pos, extent, FALSE, FALSE, dpi, dpi, max)
        /\ t[Extent[axis]] = AxisExtent(extent, FALSE, dpi, dpi, max - t[Pos[axis]])
    BY <1>2
  <2>3. t[Pos[axis]] = pos /\ t[Extent[axis]] = extent
    <3> DEFINE unwritten == FALSE
    <3>1. unwritten \in BOOLEAN
      OBVIOUS
    <3> HIDE DEF dpi, max, pos, extent, unwritten
    <3>2. /\ AxisPosition(pos, extent, unwritten, unwritten, dpi, dpi, max) = pos
          /\ AxisExtent(extent, unwritten, dpi, dpi, max - pos) = extent
      BY <2>1, <3>1, AxisStays
    <3> QED
      BY <2>2, <3>2 DEF unwritten
  <2> QED
    BY <2>3
<1> QED
  BY <1>1, <1>2, <1>3, SameSettings DEF t

\* Writing another resolution turns each axis to it.
LEMMA SwitchTurns ==
  ASSUME BedIsAddressable, NEW s \in Settings, Scannable(s),
         NEW dpi \in Resolutions, dpi # s.XRES, NEW axis \in Axes
  PROVE  LET t == Resolve(s, Only("XRES", dpi))
         IN /\ t[Pos[axis]] = TurnedPosition(s[Pos[axis]], s.XRES, dpi, MaxExtent(axis, dpi))
            /\ t[Extent[axis]] = TurnedExtent(s[Extent[axis]], s.XRES, dpi,
                                              MaxExtent(axis, dpi) - t[Pos[axis]])
<1> DEFINE t == Resolve(s, Only("XRES", dpi))
<1>1. /\ t[Pos[axis]] = AxisPosition(s[Pos[axis]], s[Extent[axis]], FALSE, FALSE,
                                     s.XRES, dpi, MaxExtent(axis, dpi))
      /\ t[Extent[axis]] = AxisExtent(s[Extent[axis]], FALSE, s.XRES, dpi,
                                      MaxExtent(axis, dpi) - t[Pos[axis]])
  BY SwitchResolves
<1> HIDE DEF t
<1>2. t[Pos[axis]] = TurnedPosition(s[Pos[axis]], s.XRES, dpi, MaxExtent(axis, dpi))
  BY <1>1 DEF AxisPosition, TurnedPosition, RescaledPosition
<1>3. t[Extent[axis]] = TurnedExtent(s[Extent[axis]], s.XRES, dpi,
                                     MaxExtent(axis, dpi) - t[Pos[axis]])
  BY <1>1 DEF AxisExtent, TurnedExtent, Rescaled
<1> QED
  BY <1>2, <1>3 DEF t

\* The way to a finer resolution and back ends where it began.
LEMMA UpAndBackSwitch ==
  ASSUME BedIsAddressable, NEW s \in Settings, Scannable(s),
         NEW high \in Resolutions, s.XRES < high, ~(s.XRES = 100 /\ high = 150)
  PROVE  Resolve(Resolve(s, Only("XRES", high)), Only("XRES", s.XRES)) = s
<1> DEFINE low == s.XRES
           t == Resolve(s, Only("XRES", high))
           u == Resolve(t, Only("XRES", low))
<1>1. /\ low \in Resolutions /\ s.YRES = low
      /\ \A axis \in Axes : Fits(s[Pos[axis]], s[Extent[axis]], low, MaxExtent(axis, low))
  BY ScannableFits
<1>2. high # low
  BY <1>1, ResolutionsAssumption
<1>3. /\ t \in Settings /\ Scannable(t) /\ t.XRES = high
      /\ t.DATATYPE = s.DATATYPE /\ t.DEPTH = s.DEPTH
  BY SwitchResolves
<1>4. \A axis \in Axes :
        /\ t[Pos[axis]] = TurnedPosition(s[Pos[axis]], low, high, MaxExtent(axis, high))
        /\ t[Extent[axis]] = TurnedExtent(s[Extent[axis]], low, high,
                                          MaxExtent(axis, high) - t[Pos[axis]])
  BY <1>2, SwitchTurns
<1> HIDE DEF t
<1>5. /\ u \in Settings /\ u.XRES = low /\ u.YRES = low
      /\ u.DATATYPE = t.DATATYPE /\ u.DEPTH = t.DEPTH
  BY ZenonT(60), <1>1, <1>3, SwitchResolves
<1>6. \A axis \in Axes :
        /\ u[Pos[axis]] = TurnedPosition(t[Pos[axis]], high, low, MaxExtent(axis, low))
        /\ u[Extent[axis]] = TurnedExtent(t[Extent[axis]], high, low,
                                          MaxExtent(axis, low) - u[Pos[axis]])
  BY <1>1, <1>2, <1>3, SwitchTurns
<1> HIDE DEF u
<1>7. ASSUME NEW axis \in Axes
      PROVE  u[Pos[axis]] = s[Pos[axis]] /\ u[Extent[axis]] = s[Extent[axis]]
  <2> DEFINE p == s[Pos[axis]]  e == s[Extent[axis]]  q == t[Pos[axis]]  f == t[Extent[axis]]
  <2>1. /\ q = TurnedPosition(p, low, high, MaxExtent(axis, high))
        /\ f = TurnedExtent(e, low, high, MaxExtent(axis, high) - q)
        /\ Fits(p, e, low, MaxExtent(axis, low))
        /\ low \in Resolutions /\ low < high /\ ~(low = 100 /\ high = 150)
    BY <1>1, <1>4
  <2>2. /\ u[Pos[axis]] = TurnedPosition(q, high, low, MaxExtent(axis, low))
        /\ u[Extent[axis]] = TurnedExtent(f, high, low, MaxExtent(axis, low) - u[Pos[axis]])
    BY <1>6
  <2> HIDE DEF p, e, q, f, low
  <2>3. /\ TurnedPosition(q, high, low, MaxExtent(axis, low)) = p
        /\ TurnedExtent(f, high, low, MaxExtent(axis, low) - p) = e
    BY <2>1, UpAndBack
  <2>4. u[Pos[axis]] = p /\ u[Extent[axis]] = e
    BY <2>2, <2>3
  <2> QED
    BY <2>4 DEF p, e
<1>8. u = s
  BY <1>1, <1>3, <1>5, <1>7, SameSettings
<1> QED
  BY <1>8 DEF u, t

\* Once it has been at 100 dpi, a selection of 150 dpi returns to the same one there.
LEMMA DownUpDownSwitch ==
  ASSUME BedIsAddressable, NEW s \in Settings, Scannable(s), s.XRES = 150, 100 \in Resolutions
  PROVE  LET t == Resolve(s, Only("XRES", 100))
         IN Resolve(Resolve(t, Only("XRES", 150)), Only("XRES", 100)) = t
<1> DEFINE low == 100  high == 150
           t == Resolve(s, Only("XRES", low))
           u == Resolve(t, Only("XRES", high))
           v == Resolve(u, Only("XRES", low))
<1>0. low = 100 /\ high = 150 /\ low # high
  OBVIOUS
<1> HIDE DEF low, high
<1>1. /\ low \in Resolutions /\ high \in Resolutions /\ s.XRES = high
      /\ \A axis \in Axes : Fits(s[Pos[axis]], s[Extent[axis]], high, MaxExtent(axis, high))
  BY <1>0, ScannableFits
<1>2. t \in Settings /\ Scannable(t) /\ t.XRES = low /\ t.YRES = low
  BY ZenonT(60), <1>1, SwitchResolves
<1>3. \A axis \in Axes :
        /\ t[Pos[axis]] = TurnedPosition(s[Pos[axis]], high, low, MaxExtent(axis, low))
        /\ t[Extent[axis]] = TurnedExtent(s[Extent[axis]], high, low,
                                          MaxExtent(axis, low) - t[Pos[axis]])
  BY <1>0, <1>1, SwitchTurns
<1> HIDE DEF t
<1>4. /\ u \in Settings /\ Scannable(u) /\ u.XRES = high
      /\ u.DATATYPE = t.DATATYPE /\ u.DEPTH = t.DEPTH
  <2>1. high \in Resolutions /\ t \in Settings /\ Scannable(t)
    BY <1>1, <1>2
  <2>2. u \in Settings /\ u.XRES = high /\ u.DATATYPE = t.DATATYPE /\ u.DEPTH = t.DEPTH
    BY ZenonT(60), <2>1, SwitchResolves
  <2>3. Scannable(u)
    BY <2>1, SwitchResolves
  <2> QED
    BY <2>2, <2>3
<1>5. \A axis \in Axes :
        /\ u[Pos[axis]] = TurnedPosition(t[Pos[axis]], low, high, MaxExtent(axis, high))
        /\ u[Extent[axis]] = TurnedExtent(t[Extent[axis]], low, high,
                                          MaxExtent(axis, high) - u[Pos[axis]])
  BY <1>0, <1>1, <1>2, SwitchTurns
<1> HIDE DEF u
<1>6. /\ v \in Settings /\ v.XRES = low /\ v.YRES = low
      /\ v.DATATYPE = u.DATATYPE /\ v.DEPTH = u.DEPTH
  BY ZenonT(60), <1>1, <1>4, SwitchResolves
<1>7. \A axis \in Axes :
        /\ v[Pos[axis]] = TurnedPosition(u[Pos[axis]], high, low, MaxExtent(axis, low))
        /\ v[Extent[axis]] = TurnedExtent(u[Extent[axis]], high, low,
                                          MaxExtent(axis, low) - v[Pos[axis]])
  BY <1>0, <1>1, <1>4, SwitchTurns
<1> HIDE DEF v
<1>8. ASSUME NEW axis \in Axes
      PROVE  v[Pos[axis]] = t[Pos[axis]] /\ v[Extent[axis]] = t[Extent[axis]]
  <2> DEFINE p == s[Pos[axis]]  e == s[Extent[axis]]  q == t[Pos[axis]]  f == t[Extent[axis]]
             r == u[Pos[axis]]  g == u[Extent[axis]]
  <2>1. /\ Fits(p, e, high, MaxExtent(axis, high))
        /\ q = TurnedPosition(p, high, low, MaxExtent(axis, low))
        /\ f = TurnedExtent(e, high, low, MaxExtent(axis, low) - q)
        /\ r = TurnedPosition(q, low, high, MaxExtent(axis, high))
        /\ g = TurnedExtent(f, low, high, MaxExtent(axis, high) - r)
    BY <1>1, <1>3, <1>5
  <2>2. /\ v[Pos[axis]] = TurnedPosition(r, high, low, MaxExtent(axis, low))
        /\ v[Extent[axis]] = TurnedExtent(g, high, low, MaxExtent(axis, low) - v[Pos[axis]])
    BY <1>7
  <2> HIDE DEF p, e, q, f, r, g
  <2>3. /\ TurnedPosition(r, high, low, MaxExtent(axis, low)) = q
        /\ TurnedExtent(g, high, low, MaxExtent(axis, low) - q) = f
    BY <1>0, <1>1, <2>1, DownUpDown
  <2>4. v[Pos[axis]] = q /\ v[Extent[axis]] = f
    BY <2>2, <2>3
  <2> QED
    BY <2>4 DEF q, f
<1>9. v = t
  BY <1>2, <1>4, <1>6, <1>8, SameSettings
<1> QED
  BY <1>9 DEF v, u, t, low, high

\* One round trip settles: the one after it changes nothing.
LEMMA TripsSettle ==
  ASSUME BedIsAddressable, NEW s \in Settings, Scannable(s), NEW dpi \in Resolutions
  PROVE  LET Trip(u) == Resolve(Resolve(u, Only("XRES", dpi)), Only("XRES", u.XRES))
         IN Trip(Trip(s)) = Trip(s)
<1> DEFINE own == s.XRES
           away == Resolve(s, Only("XRES", dpi))
           back == Resolve(away, Only("XRES", own))
           again == Resolve(back, Only("XRES", dpi))
<1>1. own \in Resolutions /\ own = s.XRES
  BY ScannableFits
<1>2. away \in Settings /\ Scannable(away) /\ away.XRES = dpi
  BY SwitchResolves
<1> HIDE DEF away
<1>3. back \in Settings /\ Scannable(back) /\ back.XRES = own
  BY <1>1, <1>2, SwitchResolves
<1>4. SUFFICES Resolve(again, Only("XRES", own)) = back
  <2>1. Resolve(again, Only("XRES", back.XRES)) = Resolve(again, Only("XRES", own))
    BY <1>3
  <2> QED
    BY <2>1, Zenon DEF away
<1>5. own \in Int /\ dpi \in Int
  <2>1. \A d \in Resolutions : d \in Int
    BY ResolutionsAssumption
  <2> QED
    BY <1>1, <2>1
<1>6. CASE back = s
  BY <1>6 DEF away
<1>7. CASE again = away
  BY <1>7
\* Either the way out is exact, or the way back is, or it is the pair that settles once.
<1>8. CASE dpi = own
  <2>1. away = s
    BY <1>8, SwitchStays DEF away
  <2>2. back = s
    BY <2>1, SwitchStays
  <2> QED
    BY <1>6, <2>2
<1>9. CASE own < dpi /\ ~(own = 100 /\ dpi = 150)
  <2>1. back = s
    BY <1>9, UpAndBackSwitch DEF away
  <2> QED
    BY <1>6, <2>1
<1>10. CASE dpi < own /\ ~(dpi = 100 /\ own = 150)
  <2>1. again = away
    BY <1>1, <1>2, <1>10, UpAndBackSwitch
  <2> QED
    BY <1>7, <2>1
<1>11. CASE own = 100 /\ dpi = 150
  BY <1>1, <1>2, <1>11, DownUpDownSwitch
<1>12. CASE dpi = 100 /\ own = 150
  <2>1. again = away
    BY <1>1, <1>12, DownUpDownSwitch DEF away
  <2> QED
    BY <1>7, <2>1
<1> QED
  BY <1>5, <1>8, <1>9, <1>10, <1>11, <1>12

\* Neither one write nor a series of them loses the selection: what is written is kept, and
\* switching the resolution to and fro does not make it creep.
THEOREM SelectionStaysKept == ASSUME BedIsAddressable PROVE Spec => []SelectionIsKept
<1>1. ItemInv => RoundTripsSettle
  BY TripsSettle DEF ItemInv, RoundTripsSettle
<1>2. ItemInv /\ WrittenIsKept => SelectionIsKept
  BY <1>1 DEF SelectionIsKept
<1> QED
  BY <1>2, ItemInvariant, WritesAreKept, PTL
===============================================================================
