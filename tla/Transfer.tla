------------------------------- MODULE Transfer -------------------------------
(***************************************************************************)
(* wia_transfer.rs: one WIA stream download.  It asks the service's        *)
(* callback for a stream, runs the scan core with a sink that appends each *)
(* band to a BMP and reports progress, and commits the BMP only after the  *)
(* core has cleaned the scanner up.  The core is ScanContract - what       *)
(* ScanJob is shown to implement -, the BMP is BmpContract - what          *)
(* BmpEncoder is shown to implement -, and the callback and its stream are external: any call *)
(* on them may fail, cancel, or set the cancel flag while it runs.         *)
(***************************************************************************)
EXTENDS ScanContract, BmpContract

CONSTANTS BandRows,   \* row counts a band may have
          Expected,   \* heights that may have been selected (the estimate)
          MaxBands    \* bands of one job

ASSUME BandRowsAssumption == BandRows \subseteq Nat \ {0}
ASSUME ExpectedAssumption == Expected \subseteq Nat \ {0}
ASSUME MaxBandsAssumption == MaxBands \in Nat

VARIABLES
    stage,             \* where transfer() stands
    expected,          \* expected_rows
    percent,           \* last progress the callback was sent
    callbackCancelled, outputFailed,
    result             \* what the driver call reports

marks   == <<callbackCancelled, outputFailed>>
vars    == <<jobVars, stage, expected, encoder, percent, marks, result>>

Stages == {"enter", "greet", "create", "core", "report", "settle", "finish",
           "announce", "done"}

TypeOK ==
    /\ stage \in Stages
    /\ expected \in Expected
    /\ rows \in Nat /\ delivered \in Nat
    /\ poisoned \in BOOLEAN /\ callbackCancelled \in BOOLEAN /\ outputFailed \in BOOLEAN
    /\ cancel \in BOOLEAN /\ sinkFailed \in BOOLEAN
    /\ output \in {"empty", "partial", "complete"}
    /\ percent \in 0..100
    /\ outcome \in {"Running", "Ok", "Cancelled", "Failed"}
    /\ health \in {"Unset", "Ready", "NeedsReconnect"}
    /\ result \in {"None", "Completed", "Skipped", "Cancelled", "CoreError", "OutputError"}

Init ==
    /\ JobInit
    /\ stage = "enter"
    /\ expected \in Expected
    /\ BmpInit
    /\ percent = 0
    /\ callbackCancelled = FALSE /\ outputFailed = FALSE
    /\ result = "None"

Goes(from, to) == stage = from /\ stage' = to /\ UNCHANGED result

Returns(from, value) == stage = from /\ stage' = "done" /\ result' = value

-------------------------------------------------------------------------------
\* Before the core: GetNextStream, the first status message, an encoder on an empty
\* stream.  The scanner has not been touched, so the session stays reusable.
Untouched == UNCHANGED <<jobVars, expected, encoder, percent, marks>>

\* The service's object may not offer the transfer callback at all; a request for the
\* stream may say S_FALSE, "skip this item" or an error, S_OK without a stream being one;
\* a message may be answered S_FALSE or an error.
QueryFails == Returns("enter", "OutputError")

StreamRefusals == {"Cancelled", "Skipped", "OutputError"}

MessageRefusals == {"Cancelled", "OutputError"}

Enter ==
    /\ \/ QueryFails
       \/ cancel /\ Returns("enter", "Cancelled")
       \/ ~cancel /\ \E r \in StreamRefusals : Returns("enter", r)
       \/ ~cancel /\ Goes("enter", "greet")
    /\ Untouched

\* `cancel` is read when SendMessage has returned.
Greet ==
    /\ \/ \E r \in MessageRefusals : Returns("greet", r)
       \/ ~cancel /\ Goes("greet", "create")
    /\ Untouched

CreateEncoder ==
    /\ Returns("create", "OutputError") \/ Goes("create", "core")
    /\ Untouched

-------------------------------------------------------------------------------
\* The sink, called by the core with a decoded band: BmpEncoder::push ...
RefusesBand == outputFailed' = TRUE /\ JobDelivers /\ sinkFailed'

\* Seeded fault: the error of the encoder is recorded but not returned to the core.
BugPush(r) ==
    /\ outcome = "Running" /\ ~sinkFailed /\ delivered < MaxBands
    /\ Goes("core", "report") /\ BmpAppend(r)
    /\ outputFailed' \in BOOLEAN
    /\ UNCHANGED <<jobVars, expected, percent, callbackCancelled>>

Push(r) ==
    /\ outcome = "Running" /\ ~sinkFailed /\ delivered < MaxBands
    /\ \/ Goes("core", "report") /\ BmpAppend(r) /\ UNCHANGED <<jobVars, outputFailed>>
       \/ Goes("core", "core") /\ BmpRefuse /\ RefusesBand
    /\ UNCHANGED <<expected, percent, callbackCancelled>>

\* Seeded fault: the estimate may announce completion.
BugPercent == LET p == (rows * 100) \div expected IN IF p > 100 THEN 100 ELSE p

\* The selected height is an estimate: 100 is never reported from here.
Percent == LET p == (rows * 100) \div expected IN IF p > 99 THEN 99 ELSE p

\* ... then the progress message, which may carry the service's cancellation back.
Report ==
    /\ Goes("report", "core")
    /\ percent' = Percent
    /\ \/ JobDelivers /\ ~sinkFailed' /\ UNCHANGED marks
       \/ RefusesBand /\ callbackCancelled' \in BOOLEAN
    /\ UNCHANGED <<expected, encoder>>

\* The core has released the scanner or given the session up, and returns.
CoreReturns ==
    /\ JobEnds
    /\ Goes("core", "settle")
    /\ UNCHANGED <<expected, encoder, percent, marks>>

-------------------------------------------------------------------------------
\* Seeded fault: the health of the session is not looked at.
BugCancellation == callbackCancelled \/ (~outputFailed /\ outcome = "Cancelled")

\* What a failed core means: a cancellation only if somebody asked for it and the
\* session is reusable, otherwise the output's own error before the core's.
Cancellation ==
    /\ health = "Ready"
    /\ callbackCancelled \/ (~outputFailed /\ outcome = "Cancelled")

ErrorResult == IF outputFailed THEN "OutputError" ELSE "CoreError"

\* Seeded fault: the BMP of a cancelled job is finished too.
BugSettle ==
    /\ \/ outcome = "Failed" /\ Returns("settle", IF Cancellation THEN "Cancelled" ELSE ErrorResult)
       \/ outcome # "Failed" /\ Goes("settle", "finish")
    /\ Untouched

Settle ==
    /\ \/ /\ outcome # "Ok"
          /\ Returns("settle", IF Cancellation THEN "Cancelled" ELSE ErrorResult)
       \/ outcome = "Ok" /\ outputFailed /\ Returns("settle", "OutputError")
       \/ outcome = "Ok" /\ ~outputFailed /\ cancel /\ Returns("settle", "Cancelled")
       \/ outcome = "Ok" /\ ~outputFailed /\ ~cancel /\ Goes("settle", "finish")
    /\ Untouched

\* BmpEncoder::finish writes the sizes and, last of all, the signature; the stream may
\* have taken all of it and still fail.
Finish ==
    /\ \/ Goes("finish", "announce") /\ BmpCommit
       \/ Returns("finish", "OutputError") /\ (BmpCommit \/ UNCHANGED encoder)
    /\ UNCHANGED <<jobVars, expected, percent, marks>>

Announce ==
    /\ percent' = 100
    /\ \/ Returns("announce", "Completed") /\ UNCHANGED callbackCancelled
       \/ \E r \in MessageRefusals :
              Returns("announce", r) /\ callbackCancelled' = (callbackCancelled \/ r = "Cancelled")
    /\ UNCHANGED <<jobVars, expected, encoder, outputFailed>>

Step ==
    \/ Enter \/ Greet \/ CreateEncoder
    \/ (\E r \in BandRows : Push(r)) \/ Report \/ CoreReturns
    \/ Settle \/ Finish \/ Announce

HostCancels ==
    /\ stage # "done" /\ ~cancel
    /\ JobCancel
    /\ UNCHANGED <<stage, expected, encoder, percent, marks, result>>

Next == Step \/ HostCancels

Spec == Init /\ [][Next]_vars

-------------------------------------------------------------------------------
\* PROPERTIES

\* The BMP signature - what makes the stream a valid file - is written only when the
\* core has confirmed a whole image and a released scanner, and nothing was refused.
CommitAfterCleanup ==
    output = "complete" =>
        /\ outcome = "Ok" /\ health = "Ready" /\ delivered > 0
        /\ ~poisoned /\ ~outputFailed

\* The driver reports the outcome the caller can act on: the output's error if the
\* output was refused, the core's if not; success only for a committed BMP whose last
\* message was accepted; and a cancellation, once the core has run, only if the host or
\* the service asked for it and the session is reusable.
VerdictIsOriginal ==
    /\ (result = "Cancelled" /\ outcome # "Running") =>
          health = "Ready" /\ (cancel \/ callbackCancelled)
    /\ result = "CoreError" => ~outputFailed
    /\ result = "Completed" => output = "complete" /\ ~callbackCancelled

\* Progress reported to the service never goes back, and 100 is only ever sent for a
\* committed image, however far the estimated height was off.
ProgressIsHonest ==
    [][percent' # percent => /\ percent' > percent
                             /\ percent' = 100 => output = "complete"]_vars

\* After a refused band nothing more is written to the stream.
NothingAfterRefusal == [][outputFailed => UNCHANGED <<output, rows>>]_vars

\* ENG.md:151: no failure leaves a complete BMP.  A stream that takes the signature and
\* then reports an error is excused (com_stream.rs warns of it): the claim is checked
\* for the failures that come when finish() has succeeded and 100 has been announced.
FailureLeavesNoBmp ==
    (result \in {"CoreError", "OutputError"} /\ percent = 100) => output # "complete"
===============================================================================
