------------------------------ MODULE BmpContract ------------------------------
(***************************************************************************)
(* What the BMP encoder promises to its caller (wia_transfer.rs): rows are *)
(* appended until one is refused, a refusal is final, and the file becomes *)
(* valid in one step, after the last row.                                  *)
(***************************************************************************)
EXTENDS Naturals

VARIABLES rows,      \* rows of the bands accepted
          poisoned,  \* the sticky error
          output     \* what the stream holds: "empty", "partial", "complete"

encoder == <<rows, poisoned, output>>

BmpInit == rows = 0 /\ poisoned = FALSE /\ output = "empty"

Unfinished == ~poisoned /\ output # "complete"

BmpAppend(r) ==
    /\ Unfinished
    /\ rows' = rows + r /\ output' = "partial"
    /\ UNCHANGED poisoned

\* A refused band, or one that a write failed for, may have reached the stream in part.
BmpRefuse ==
    /\ Unfinished
    /\ poisoned' = TRUE /\ output' \in {output, "partial"}
    /\ UNCHANGED rows

BmpTouch ==
    /\ Unfinished
    /\ output' = "partial"
    /\ UNCHANGED <<rows, poisoned>>

BmpCommit ==
    /\ Unfinished /\ rows > 0
    /\ output' = "complete"
    /\ UNCHANGED <<rows, poisoned>>

BmpNext == (\E r \in 1..rows' : BmpAppend(r)) \/ BmpRefuse \/ BmpTouch \/ BmpCommit

BmpSpec == BmpInit /\ [][BmpNext]_encoder
===============================================================================
