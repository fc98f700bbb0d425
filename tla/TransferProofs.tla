----------------------------- MODULE TransferProofs -----------------------------
(***************************************************************************)
(* The safety properties of Transfer for any bands, heights and limits.    *)
(***************************************************************************)
EXTENDS Transfer, TLAPS

\* What the job's contract has said, at each stage.
CoreInv ==
    /\ stage \in {"enter", "greet", "create", "core", "report"} => outcome = "Running"
    /\ stage \in {"settle", "finish", "announce"} => outcome # "Running"
    /\ outcome = "Ok" => ~sinkFailed /\ delivered > 0 /\ health = "Ready"
    /\ outcome = "Cancelled" => cancel

\* The core has been told of every refusal, and only refusals and the last message
\* bring the service's cancellation.
SinkInv ==
    /\ sinkFailed <=> outputFailed
    /\ poisoned => outputFailed
    /\ callbackCancelled => outputFailed \/ stage = "done"

\* What the stream holds, and the last progress as the rows so far allow it.
OutputInv ==
    /\ stage \in {"finish", "announce"} => outcome = "Ok" /\ ~outputFailed
    /\ output = "complete" => stage \in {"announce", "done"} /\ outcome = "Ok" /\ ~outputFailed
    /\ stage = "announce" => output = "complete"
    /\ stage # "done" => percent <= Percent

ResultInv ==
    /\ result = "None" <=> stage # "done"
    /\ VerdictIsOriginal

TransferInv == TypeOK /\ CoreInv /\ SinkInv /\ OutputInv /\ ResultInv

-------------------------------------------------------------------------------
\* Percent is a percentage that never reaches 100 and grows with the rows.
LEMMA PercentBounded ==
  ASSUME NEW n \in Nat, NEW e \in Nat \ {0}
  PROVE  (n * 100) \div e \in Nat
  OBVIOUS

LEMMA PercentGrows ==
  ASSUME NEW m \in Nat, NEW n \in Nat, NEW e \in Nat \ {0}, m <= n
  PROVE  (m * 100) \div e <= (n * 100) \div e
<1> DEFINE p == (m * 100) \div e
           q == (n * 100) \div e
<1>1. p \in Nat /\ q \in Nat
  BY PercentBounded
<1>2. e * p <= m * 100 /\ n * 100 < e * (q + 1)
  OBVIOUS
<1>3. e * p < e * (q + 1)
  BY <1>1, <1>2
<1>4. p < q + 1
  BY <1>1, <1>3
<1> QED
  BY <1>1, <1>4

LEMMA PercentInRange == TypeOK => Percent \in 0..99
  BY PercentBounded, ExpectedAssumption DEF TypeOK, Percent

LEMMA PercentKept ==
  ASSUME TypeOK, expected' = expected, rows' \in Nat, rows <= rows'
  PROVE  Percent <= Percent'
<1>1. (rows * 100) \div expected <= (rows' * 100) \div expected
  BY PercentGrows, ExpectedAssumption DEF TypeOK
<1>2. (rows * 100) \div expected \in Nat /\ (rows' * 100) \div expected \in Nat
  BY PercentBounded, ExpectedAssumption DEF TypeOK
<1> QED
  BY <1>1, <1>2 DEF Percent

-------------------------------------------------------------------------------
LEMMA InitEstablishesTransferInv == Init => TransferInv
<1> SUFFICES ASSUME Init PROVE TransferInv
  OBVIOUS
<1>1. TypeOK
  <2>1. percent \in 0..100
    BY DEF Init
  <2> QED
    BY <2>1 DEF Init, JobInit, BmpInit, TypeOK, Stages
<1>2. percent <= Percent
  BY <1>1, PercentInRange DEF Init, BmpInit, TypeOK
<1> QED
  BY <1>1, <1>2
     DEF Init, JobInit, BmpInit, TransferInv, CoreInv, SinkInv, OutputInv, ResultInv, VerdictIsOriginal

LEMMA NextKeepsTransferInv == TransferInv /\ [Next]_vars => TransferInv'
<1> SUFFICES ASSUME TransferInv, [Next]_vars PROVE TransferInv'
  OBVIOUS
<1> USE DEF TransferInv, TypeOK, CoreInv, SinkInv, OutputInv, ResultInv,
        VerdictIsOriginal, Stages, Goes, Returns, encoder
<1>1. ASSUME UNCHANGED <<rows, expected>> PROVE Percent' = Percent
  BY <1>1 DEF Percent
<1>2. Percent \in 0..99
  BY PercentInRange
<1>3. CASE UNCHANGED vars
  BY <1>3, <1>1 DEF vars, marks, jobVars
<1>4. CASE Enter
  BY <1>4, <1>1 DEF Enter, QueryFails, StreamRefusals, Untouched, marks, jobVars
<1>5. CASE Greet
  BY <1>5, <1>1 DEF Greet, MessageRefusals, Untouched, marks, jobVars
<1>6. CASE CreateEncoder
  BY <1>6, <1>1 DEF CreateEncoder, Untouched, marks, jobVars
<1>7. ASSUME NEW r \in BandRows, Push(r) PROVE TransferInv'
  <2>1. rows' \in Nat /\ rows <= rows' /\ expected' = expected
    BY <1>7, BandRowsAssumption DEF Push, BmpAppend, BmpRefuse
  <2>2. Percent <= Percent' /\ Percent' \in 0..99
    <3>1. (rows' * 100) \div expected' \in Nat
      BY <2>1, PercentBounded, ExpectedAssumption
    <3> QED
      BY <2>1, <3>1, PercentKept DEF Percent
  <2>3. TypeOK'
    BY <1>7, <2>1 DEF Push, BmpAppend, BmpRefuse, RefusesBand, JobDelivers, jobVars
  <2>4. (CoreInv /\ SinkInv /\ ResultInv)'
    BY <1>7, <2>1 DEF Push, BmpAppend, BmpRefuse, RefusesBand, JobDelivers, jobVars
  <2>5. OutputInv'
    <3>1. percent' = percent /\ output' # "complete" /\ stage = "core" /\ stage' \in {"core", "report"}
      BY <1>7 DEF Push, BmpAppend, BmpRefuse
    <3>2. percent' <= Percent'
      BY <1>2, <2>2, <3>1
    <3> QED
      BY <3>1, <3>2
  <2> QED
    BY <2>3, <2>4, <2>5
<1>8. CASE Report
  <2>1. CASE JobDelivers /\ ~sinkFailed' /\ UNCHANGED marks
    BY <1>8, <1>1, <1>2, <2>1 DEF Report, JobDelivers, encoder, marks
  <2>2. CASE RefusesBand /\ callbackCancelled' \in BOOLEAN
    <3>1. TypeOK'
      <4>1. percent' \in 0..100
        BY <1>8, <1>2 DEF Report
      <4> QED
        BY <1>8, <2>2, <4>1 DEF Report, RefusesBand, JobDelivers, encoder
    <3>2. (CoreInv /\ SinkInv /\ ResultInv)'
      BY <1>8, <2>2 DEF Report, RefusesBand, JobDelivers, encoder
    <3>3. OutputInv'
      BY <1>8, <1>1, <1>2, <2>2 DEF Report, RefusesBand, JobDelivers, encoder
    <3> QED
      BY <3>1, <3>2, <3>3
  <2> QED
    BY <1>8, <2>1, <2>2 DEF Report
<1>9. CASE CoreReturns
  BY <1>9, <1>1 DEF CoreReturns, JobEnds, encoder, marks
<1>10. CASE Settle
  BY <1>10, <1>1 DEF Settle, Cancellation, ErrorResult, Untouched, marks, jobVars
<1>11. CASE Finish
  BY <1>11, <1>1 DEF Finish, BmpCommit, marks, jobVars
<1>12. CASE Announce
  <2> HIDE DEF TypeOK, CoreInv, SinkInv, OutputInv, ResultInv, VerdictIsOriginal
  <2>1. /\ stage = "announce" /\ stage' = "done" /\ percent' = 100
        /\ UNCHANGED <<cancel, delivered, sinkFailed, outcome, health, expected, rows,
                       poisoned, output, outputFailed>>
    BY <1>12 DEF Announce, MessageRefusals, encoder, jobVars
  <2>2. outcome = "Ok" /\ health = "Ready" /\ output = "complete" /\ ~outputFailed
    BY <2>1 DEF CoreInv, OutputInv
  <2>3. callbackCancelled = FALSE
    BY <2>1, <2>2 DEF SinkInv, TypeOK
  <2>4. /\ result' \in {"Completed", "Cancelled", "OutputError"}
        /\ callbackCancelled' \in BOOLEAN
        /\ result' = "Completed" => ~callbackCancelled'
        /\ result' = "Cancelled" => callbackCancelled'
    BY <1>12, <2>3 DEF Announce, MessageRefusals
  <2>5. percent' \in 0..100
    BY <2>1
  <2>6. TypeOK'
    BY <2>1, <2>4, <2>5 DEF TypeOK
  <2>7. CoreInv' /\ SinkInv'
    BY <2>1, <2>2 DEF CoreInv, SinkInv
  <2>8. OutputInv' /\ ResultInv'
    BY <2>1, <2>2, <2>4 DEF OutputInv, ResultInv, VerdictIsOriginal
  <2> QED
    BY <2>6, <2>7, <2>8
<1>13. CASE HostCancels
  BY <1>13, <1>1 DEF HostCancels, JobCancel, marks
<1> QED
  BY <1>3, <1>4, <1>5, <1>6, <1>7, <1>8, <1>9, <1>10, <1>11, <1>12, <1>13 DEF Next, Step

LEMMA TransferInvariant == Spec => []TransferInv
  BY InitEstablishesTransferInv, NextKeepsTransferInv, PTL DEF Spec

-------------------------------------------------------------------------------
\* The type invariant of the transfer.
THEOREM TransferTypeCorrect == Spec => []TypeOK
<1>1. TransferInv => TypeOK
  BY DEF TransferInv
<1> QED
  BY <1>1, TransferInvariant, PTL

\* Whatever the core, the callback, the stream and the host do, the BMP is made valid
\* only for a whole image of a released scanner that nobody refused.
THEOREM CommitsAfterCleanup == Spec => []CommitAfterCleanup
<1>1. TransferInv => CommitAfterCleanup
  BY DEF TransferInv, CoreInv, SinkInv, OutputInv, CommitAfterCleanup
<1> QED
  BY <1>1, TransferInvariant, PTL

\* The driver reports the first failure in the order the caller can act on, success
\* only for an accepted file, and a cancellation only of a reusable session.
THEOREM VerdictCorrect == Spec => []VerdictIsOriginal
<1>1. TransferInv => VerdictIsOriginal
  BY DEF TransferInv, ResultInv
<1> QED
  BY <1>1, TransferInvariant, PTL

\* For any selected height, reached, missed or exceeded, progress only grows and 100
\* stands for a committed file.
THEOREM ProgressHonest == Spec => ProgressIsHonest
<1> DEFINE Honest == percent' # percent => /\ percent' > percent
                                           /\ percent' = 100 => output = "complete"
<1>1. TransferInv /\ [Next]_vars => [Honest]_vars
  <2> SUFFICES ASSUME TransferInv, Next, percent' # percent PROVE Honest
    BY DEF vars
  <2>1. Percent \in 0..99
    BY PercentInRange DEF TransferInv
  <2>2. CASE Report
    BY <2>1, <2>2 DEF Report, Goes, TransferInv, TypeOK, OutputInv
  <2>3. CASE Announce
    BY <2>1, <2>3 DEF Announce, Returns, TransferInv, TypeOK, OutputInv
  <2>4. CASE \/ Enter \/ Greet \/ CreateEncoder \/ (\E r \in BandRows : Push(r))
             \/ CoreReturns \/ Settle \/ Finish \/ HostCancels
    BY <2>4 DEF Enter, Greet, CreateEncoder, Push, CoreReturns, Settle, Finish,
                HostCancels, Untouched
  <2> QED
    BY <2>2, <2>3, <2>4 DEF Next, Step
<1> QED
  BY <1>1, TransferInvariant, PTL DEF Spec, ProgressIsHonest

\* After a refusal the core is told to stop and no later stage of the driver writes.
THEOREM RefusalIsLast == Spec => NothingAfterRefusal
<1> DEFINE Quiet == outputFailed => UNCHANGED <<output, rows>>
<1>1. TransferInv /\ [Next]_vars => [Quiet]_vars
  <2> SUFFICES ASSUME TransferInv, Next, outputFailed PROVE UNCHANGED <<output, rows>>
    BY DEF vars
  <2> USE DEF TransferInv, SinkInv, OutputInv, encoder
  <2>1. ASSUME NEW r \in BandRows, Push(r) PROVE FALSE
    BY <2>1 DEF Push
  <2>2. CASE Finish
    BY <2>2 DEF Finish, Goes, Returns
  <2>3. CASE \/ Enter \/ Greet \/ CreateEncoder \/ Report \/ CoreReturns \/ Settle
             \/ Announce \/ HostCancels
    BY <2>3 DEF Enter, Greet, CreateEncoder, Report, CoreReturns, Settle, Announce,
                HostCancels, Untouched
  <2> QED
    BY <2>1, <2>2, <2>3 DEF Next, Step
<1> QED
  BY <1>1, TransferInvariant, PTL DEF Spec, NothingAfterRefusal
===============================================================================
