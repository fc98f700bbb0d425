------------------------------ MODULE FlatbedItem ------------------------------
(***************************************************************************)
(* com_server/minidrv/properties: what drvValidateItemProperties makes of  *)
(* the settings an application writes into the flatbed item.  The service  *)
(* writes the raw values first; the driver resolves the values that depend *)
(* on them, checks the result against the scanner's capabilities, and      *)
(* publishes the difference between two catalogs into the item.            *)
(*                                                                         *)
(* A position or an extent counts pixels at the selected resolution; the   *)
(* bed is measured in 1/1200 inch and an offset in 1/100 inch.  Tone,      *)
(* compression and format depend on nothing and are left out.  No value    *)
(* here comes near the width of an i32: the code refuses a position or an  *)
(* extent beyond the bed before it computes with it.                       *)
(***************************************************************************)
EXTENDS Integers, FiniteSets, ScanWire

CONSTANTS
    Resolutions,               \* offered by the scanner and known to the core
    DataTypes,                 \* 2 grayscale, 3 colour
    WidthUnits, HeightUnits,   \* the bed
    Requests                   \* what applications write: functions on some WrittenIds

Axes == {"x", "y"}
RegionIds == {"XPOS", "YPOS", "XEXTENT", "YEXTENT"}
Ids == RegionIds \cup {"XRES", "YRES", "DATATYPE", "DEPTH"}
WrittenIds == Ids \cup {"CUR_INTENT"}

ASSUME BedAssumption == WidthUnits \in Nat /\ HeightUnits \in Nat
ASSUME ResolutionsAssumption ==
    Resolutions # {} /\ Resolutions \subseteq {75, 100, 150, 200, 300, 600}
ASSUME DataTypesAssumption == DataTypes # {} /\ DataTypes \subseteq {2, 3}
\* Every property but the intent, whose bits stand for a word here, is a number.
IsRequest(r) == DOMAIN r \subseteq WrittenIds /\ \A id \in DOMAIN r \cap Ids : r[id] \in Int
ASSUME RequestsAssumption == \A r \in Requests : IsRequest(r)

VARIABLES
    item,       \* the values the service item holds
    limits      \* the ranges it advertises for a position and an extent

vars == <<item, limits>>

Pos == [x |-> "XPOS", y |-> "YPOS"]
Extent == [x |-> "XEXTENT", y |-> "YEXTENT"]
Res == [x |-> "XRES", y |-> "YRES"]
Bed == [x |-> WidthUnits, y |-> HeightUnits]

Refused == [id \in {} |-> 0]

-------------------------------------------------------------------------------
MaxExtent(axis, dpi) == IF dpi \in Resolutions THEN (Bed[axis] * dpi) \div 1200 ELSE 0

\* The smallest whole number of pixels that is a multiple of 1/100 inch.
Steps ==
    [dpi \in Resolutions |->
        CHOOSE s \in 1..dpi : (s * 100) % dpi = 0 /\ \A n \in 1..(s - 1) : (n * 100) % dpi # 0]
OffsetStep(dpi) == Steps[dpi]

FloorToStep(value, step) == IF value <= 0 THEN 0 ELSE (value \div step) * step

DepthFor(type) == CASE type = 2 -> 8 [] type = 3 -> 24 [] OTHER -> 0

\* PropertyCatalog::with_settings with to_request: the settings the core can scan.
Scannable(s) ==
    /\ s.XRES = s.YRES /\ s.XRES \in Resolutions
    /\ s.DATATYPE \in DataTypes /\ s.DEPTH = DepthFor(s.DATATYPE)
    /\ \A axis \in Axes :
        /\ s[Extent[axis]] > 0 /\ s[Pos[axis]] >= 0
        /\ ((s[Pos[axis]] * 1200) \div s.XRES) % 12 = 0
        /\ (s[Pos[axis]] * 1200) \div s.XRES < 256 * 1200
        /\ s[Pos[axis]] + s[Extent[axis]] <= MaxExtent(axis, s.XRES)

\* FlatbedSettings::to_request, in the units of the bed.
Units(pixels, dpi) == (pixels * 1200) \div dpi

ToRequest(s) ==
    [dpi |-> s.XRES, mode |-> IF s.DATATYPE = 2 THEN "Gray" ELSE "Rgb",
     x |-> Units(s.XPOS, s.XRES), y |-> Units(s.YPOS, s.YRES),
     width |-> Units(s.XEXTENT, s.XRES), height |-> Units(s.YEXTENT, s.YRES)]

\* The ranges with_settings derives: what one write may change while the rest stays.
Limits(s) ==
    [id \in RegionIds |->
        LET axis == IF id \in {"XPOS", "XEXTENT"} THEN "x" ELSE "y"
            max == MaxExtent(axis, s.XRES)
            step == OffsetStep(s.XRES)
        IN IF id = Pos[axis] THEN ((max - s[Extent[axis]]) \div step) * step
           ELSE max - s[Pos[axis]]]

-------------------------------------------------------------------------------
\* resolve_mode_and_depth: type and depth, or a pair that is not Scannable.
Mode(s, written) ==
    CASE "DATATYPE" \in written /\ "DEPTH" \in written -> <<s.DATATYPE, s.DEPTH>>
      [] "DEPTH" \in written /\ "DATATYPE" \notin written ->
             <<CASE s.DEPTH = 8 -> 2 [] s.DEPTH = 24 -> 3 [] OTHER -> 0, s.DEPTH>>
      [] OTHER -> <<s.DATATYPE, DepthFor(s.DATATYPE)>>

\* resolve_resolutions: X drives both axes unless Y alone was written.
\*
\* Seeded fault: X drives both axes always.
BugResolution(s, written) == s.XRES

Resolution(s, written) ==
    IF "XRES" \in written \/ "YRES" \notin written THEN s.XRES ELSE s.YRES

\* scale_extent rounds to the nearest pixel, quantize_position to the nearest step.
\*
\* Seeded fault: a partial pixel is rounded up, so that nothing is cut off.
BugScaleExtent(value, old, new) == (value * new + old - 1) \div old

ScaleExtent(value, old, new) == (value * new + old \div 2) \div old

QuantizePosition(value, dpi) ==
    LET step == OffsetStep(dpi)
    IN (value \div step + IF 2 * (value % step) >= step THEN 1 ELSE 0) * step

\* resolve_axis, one idea at a time.  A value the application did not write follows the
\* resolution.
Rescaled(value, old, new) == IF old = new THEN value ELSE ScaleExtent(value, old, new)

RescaledPosition(value, old, new) ==
    IF old = new THEN value ELSE QuantizePosition(ScaleExtent(value, old, new), new)

\* A written position snaps to the nearest step, or to the one below where the extent
\* would not fit; limit is the last position that leaves room.
Snapped(value, dpi, limit) ==
    IF QuantizePosition(value, dpi) > limit THEN FloorToStep(value, OffsetStep(dpi))
    ELSE QuantizePosition(value, dpi)

\* The position of an axis before its extent is settled.
\*
\* Seeded fault: a position nobody wrote does not make room for the written extent.
BugAxisPosition(pos, extent, posWritten, extentWritten, old, dpi, max) ==
    LET scaled == RescaledPosition(pos, old, dpi)
    IN CASE posWritten -> Snapped(pos, dpi, max - IF extentWritten THEN extent ELSE 1)
         [] OTHER -> IF scaled >= max THEN FloorToStep(max - 1, OffsetStep(dpi)) ELSE scaled

AxisPosition(pos, extent, posWritten, extentWritten, old, dpi, max) ==
    LET scaled == RescaledPosition(pos, old, dpi)
        room == FloorToStep(max - extent, OffsetStep(dpi))
    IN CASE posWritten -> Snapped(pos, dpi, max - IF extentWritten THEN extent ELSE 1)
         [] ~posWritten /\ extentWritten -> IF scaled < room THEN scaled ELSE room
         [] OTHER -> IF scaled >= max THEN FloorToStep(max - 1, OffsetStep(dpi)) ELSE scaled

AtLeastOne(extent) == IF extent = 0 THEN 1 ELSE extent

\* The extent once the position stands: one nobody wrote shrinks to what is left, a
\* written one stays and is refused by Scannable if it does not fit.
\*
\* Seeded fault: a written extent shrinks as well.
BugAxisExtent(extent, extentWritten, old, dpi, available) ==
    LET scaled == AtLeastOne(IF extentWritten THEN extent ELSE Rescaled(extent, old, dpi))
    IN IF scaled > available THEN available ELSE scaled

AxisExtent(extent, extentWritten, old, dpi, available) ==
    LET scaled == AtLeastOne(Rescaled(extent, old, dpi))
    IN IF extentWritten THEN extent ELSE IF scaled > available THEN available ELSE scaled

\* The ranges resolve_axis requires of a written value.
AxisAdmits(pos, extent, posWritten, extentWritten, max) ==
    /\ max > 0
    /\ posWritten => pos \in 0..(max - 1)
    /\ extentWritten => extent \in 1..max

-------------------------------------------------------------------------------
\* data_type_for_intent: 0 when the intent names no image type.
Intents == [none |-> 0, color |-> 3, grayscale |-> 2]

WithIntent(s, r) ==
    IF "CUR_INTENT" \in DOMAIN r /\ r["CUR_INTENT"] \in {"color", "grayscale"}
    THEN [s EXCEPT !.DATATYPE = Intents[r["CUR_INTENT"]]]
    ELSE s

\* What counts as written: an intent that names a type writes it.
Written(s, r) ==
    (DOMAIN r \cap Ids)
    \cup (IF "CUR_INTENT" \in DOMAIN r /\ r["CUR_INTENT"] \in {"color", "grayscale"}
          THEN {"DATATYPE"} ELSE {})

\* The item after the service wrote the raw request.
Raw(s, r) == [id \in Ids |-> IF id \in DOMAIN r THEN r[id] ELSE s[id]]

\* resolve_axis: where the axis starts and how far it reaches at the target resolution.
NewPosition(s, current, written, dpi, axis) ==
    AxisPosition(current[Pos[axis]], current[Extent[axis]],
                 Pos[axis] \in written, Extent[axis] \in written,
                 s[Res[axis]], dpi, MaxExtent(axis, dpi))

NewExtent(s, current, written, dpi, axis) ==
    AxisExtent(current[Extent[axis]], Extent[axis] \in written, s[Res[axis]], dpi,
               MaxExtent(axis, dpi) - NewPosition(s, current, written, dpi, axis))

Resolved(s, current, written, dpi) ==
    LET mode == Mode(current, written)
    IN [id \in Ids |->
           CASE id \in {"XRES", "YRES"} -> dpi
             [] id = "XPOS" -> NewPosition(s, current, written, dpi, "x")
             [] id = "YPOS" -> NewPosition(s, current, written, dpi, "y")
             [] id = "XEXTENT" -> NewExtent(s, current, written, dpi, "x")
             [] id = "YEXTENT" -> NewExtent(s, current, written, dpi, "y")
             [] id = "DATATYPE" -> mode[1] [] id = "DEPTH" -> mode[2]]

\* What the request may not do whatever the item holds: two resolutions that differ, an
\* intent nobody knows, a written value outside its axis.
Agrees(r, current, written, dpi) ==
    /\ ~({"XRES", "YRES"} \subseteq written /\ current.XRES # current.YRES)
    /\ "CUR_INTENT" \in DOMAIN r => r["CUR_INTENT"] \in DOMAIN Intents
    /\ \A axis \in Axes :
          AxisAdmits(current[Pos[axis]], current[Extent[axis]],
                     Pos[axis] \in written, Extent[axis] \in written, MaxExtent(axis, dpi))

\* resolve: Refused, or settings that are Scannable.
Resolve(s, r) ==
    LET current == WithIntent(Raw(s, r), r)
        written == Written(s, r)
        dpi == Resolution(current, written)
        resolved == Resolved(s, current, written, dpi)
    IN IF /\ Scannable(s)
          /\ Agrees(r, current, written, dpi)
          /\ Scannable(resolved)
       THEN resolved
       ELSE Refused

-------------------------------------------------------------------------------
\* The baseline of the delta: the old catalog overlaid with what the service holds now.
\*
\* Seeded fault: the delta is taken against the old settings.
BugBaseline(s, r) == s

Baseline(s, r) == Raw(s, r)

\* update: only what differs between the two catalogs is written into the item.
Published(s, r, resolved) ==
    [id \in Ids |-> IF Baseline(s, r)[id] # resolved[id] THEN resolved[id] ELSE Raw(s, r)[id]]

\* PropertyCatalog::flatbed: the whole bed at the lowest resolution.
Initial ==
    LET dpi == CHOOSE d \in Resolutions : \A e \in Resolutions : d <= e
        type == CHOOSE d \in DataTypes : \A e \in DataTypes : d <= e
    IN [id \in Ids |-> CASE id \in {"XRES", "YRES"} -> dpi
                         [] id \in {"XPOS", "YPOS"} -> 0
                         [] id = "XEXTENT" -> MaxExtent("x", dpi)
                         [] id = "YEXTENT" -> MaxExtent("y", dpi)
                         [] id = "DATATYPE" -> type
                         [] id = "DEPTH" -> DepthFor(type)]

ASSUME BedIsVisible == Scannable(Initial)

Init == item = Initial /\ limits = Limits(Initial)

\* A refused request leaves the item as it was: the service takes its writes back.
Validates(r) ==
    LET resolved == Resolve(item, r)
    IN /\ resolved # Refused
       /\ item' = Published(item, r, resolved)
       /\ limits' = Limits(resolved)

Next == \E r \in Requests : Validates(r)

Spec == Init /\ [][Next]_vars

-------------------------------------------------------------------------------
\* PROPERTIES

Only(id, value) == [i \in {id} |-> value]
Step == OffsetStep(item.XRES)

\* The scanner as the driver knows it from its reply.
Reported ==
    [resolutions |-> Resolutions, modes |-> {IF t = 2 THEN "Gray" ELSE "Rgb" : t \in DataTypes},
     uncompressed |-> TRUE, order |-> 0,
     width |-> WidthUnits, length |-> HeightUnits, flatbed |-> HeightUnits]

\* Whatever applications write, the item holds settings that become a window command, and
\* the scanner, reading the two offset bytes of each axis, starts at exactly the pixel
\* the item names (scan.rs, ScanRequest::command), also after a snap that ends at the
\* value the item had before the write.
ItemIsScannable ==
    LET request == ToRequest(item)
        window == Window(request)
    IN  /\ Scannable(item)
        /\ Supported(request, Reported) /\ Region(request, Reported)
        /\ ReadOffset(window.x) * item.XRES = item.XPOS * 1200
        /\ ReadOffset(window.y) * item.YRES = item.YPOS * 1200

\* Every value the item advertises may be written on its own: it is taken exactly, and
\* no other setting of the region moves because of it.
AdvertisedIsTaken ==
    /\ \A axis \in Axes :
        /\ \A n \in 0..(limits[Pos[axis]] \div Step) :
            Resolve(item, Only(Pos[axis], n * Step)) = [item EXCEPT ![Pos[axis]] = n * Step]
        /\ \A n \in 1..limits[Extent[axis]] :
            Resolve(item, Only(Extent[axis], n)) = [item EXCEPT ![Extent[axis]] = n]
    /\ \A id \in {"XRES", "YRES"}, dpi \in Resolutions :
        LET s == Resolve(item, Only(id, dpi)) IN s # Refused /\ s.XRES = dpi /\ s.YRES = dpi
    /\ \A type \in DataTypes :
        /\ Resolve(item, Only("DATATYPE", type)).DEPTH = DepthFor(type)
        /\ Resolve(item, Only("DEPTH", DepthFor(type))).DATATYPE = type

\* The reasons the scanner has to refuse a request, from the request alone.
Contradiction(r) ==
    LET current == WithIntent(Raw(item, r), r)
        dpi == Resolution(current, DOMAIN r)
        type == IF DOMAIN r \cap {"DATATYPE", "CUR_INTENT"} # {} THEN current.DATATYPE ELSE 0
    IN \/ {"XRES", "YRES"} \subseteq DOMAIN r /\ r["XRES"] # r["YRES"]
       \/ dpi \notin Resolutions
       \/ "DATATYPE" \in DOMAIN r /\ current.DATATYPE \notin DataTypes
       \/ "DEPTH" \in DOMAIN r /\ \A t \in DataTypes : r["DEPTH"] # DepthFor(t)
       \/ "DEPTH" \in DOMAIN r /\ type # 0 /\ DepthFor(type) # r["DEPTH"]
       \/ "CUR_INTENT" \in DOMAIN r
          /\ (r["CUR_INTENT"] \notin DOMAIN Intents \/ current.DATATYPE \notin DataTypes)
       \/ \E axis \in Axes :
            LET max == MaxExtent(axis, dpi)
                pos == IF Pos[axis] \in DOMAIN r THEN r[Pos[axis]] ELSE 0
                extent == IF Extent[axis] \in DOMAIN r THEN r[Extent[axis]] ELSE 1
            IN pos \notin 0..(max - 1) \/ extent \notin 1..max
               \/ FloorToStep(pos, OffsetStep(dpi)) + extent > max

\* A request is refused only if what was written contradicts itself or the scanner; a
\* value nobody wrote is never the reason.
RefusedForAReason == \A r \in Requests : Resolve(item, r) = Refused => Contradiction(r)

\* Both, in every state of the item: what catalog.rs offers and validation.rs takes agree.
OffersAreHonest == AdvertisedIsTaken /\ RefusedForAReason

\* What was written is kept: extents, resolution and type exactly, a position to less
\* than one offset step.
WrittenIsKept ==
    \A r \in Requests :
        LET s == Resolve(item, r)
        IN s # Refused =>
            \A id \in DOMAIN r \cap Ids :
                CASE id \in {"XPOS", "YPOS"} ->
                        r[id] - s[id] < OffsetStep(s.XRES) /\ s[id] - r[id] < OffsetStep(s.XRES)
                  [] id = "DATATYPE" /\ "CUR_INTENT" \in DOMAIN r -> TRUE
                  [] OTHER -> s[id] = r[id]

\* Switching between two resolutions and back does not make the selection creep: after
\* one round trip every further one ends where it began.
RoundTripsSettle ==
    \A dpi \in Resolutions :
        LET Trip(s) == Resolve(Resolve(s, Only("XRES", dpi)), Only("XRES", s.XRES))
        IN Trip(Trip(item)) = Trip(item)

\* Both: neither one write nor a series of them (validation.rs) loses the selection.
SelectionIsKept == WrittenIsKept /\ RoundTripsSettle
===============================================================================
