----------------------------- MODULE MCFlatbedItem -----------------------------
\* FlatbedItem for TLC: three resolutions with offset steps of 3, 1 and 3 pixels and a
\* bed of 82 by 2 pixels at the lowest one, a little wider than the inch an offset counts
\* apart.  Requests write any part of the horizontal
\* axis with a resolution of either axis, some of the vertical axis, and any mode.
EXTENDS FlatbedItem, Functions, TLC

Values ==
    [XPOS |-> {-1, 1, 80, 82}, XEXTENT |-> {0, 2, 81, 84},
     YPOS |-> {1, 2}, YEXTENT |-> {2},
     XRES |-> {75, 100, 150, 200}, YRES |-> {75, 150},
     DATATYPE |-> {2, 3, 7}, DEPTH |-> {8, 16, 24},
     CUR_INTENT |-> {"none", "color", "grayscale", "text"}]

Writes(ids) == {r \in [ids -> UNION {Values[id] : id \in ids}] : \A id \in ids : r[id] \in Values[id]}

MCRequests ==
    UNION {Writes(ids) : ids \in SUBSET {"XPOS", "XEXTENT", "XRES"}}
    \cup UNION {Writes(ids) : ids \in SUBSET {"XPOS", "XEXTENT", "YRES"}}
    \cup UNION {Writes(ids) : ids \in SUBSET {"XRES", "YRES"}}
    \cup UNION {Writes(ids) : ids \in SUBSET {"YPOS", "YEXTENT", "XRES"}}
    \cup UNION {Writes(ids) : ids \in SUBSET {"DATATYPE", "DEPTH"}}
    \cup UNION {Writes(ids) : ids \in SUBSET {"DEPTH", "XPOS"}}
    \cup {[CUR_INTENT |-> i] : i \in Values.CUR_INTENT}
    \cup {[CUR_INTENT |-> i, DEPTH |-> d] : i \in Values.CUR_INTENT, d \in Values.DEPTH}
===============================================================================
