---------------------------- MODULE ScanJobProofs ----------------------------
(***************************************************************************)
(* Theorems of ScanJob, for every set of band lengths and widths and every *)
(* pair of job limits.  They rest on one inductive invariant that says, of *)
(* each stage of the job, whether the reply stream is at a boundary, whose *)
(* reservation it is, whether the scanner acquires, and how the images     *)
(* drained relate to the bands delivered.                                  *)
(***************************************************************************)
EXTENDS ScanJob, TLAPS

Early   == {"Preflight", "Inquiry", "Prepare", "Reserve"}
Working == {"Window", "Start", "Meta", "Fetch", "Image", "Deliver", "Checkpoint"}
Cleanup == {"Abort", "Release"}

\* The stream is at a command boundary outside the image loop and a failed stage.
StreamInv ==
    /\ pc \in (Early \cup Working) \ {"Image"} => sync
    /\ pc = "Image" => ~sync /\ pipe = img.left /\ img.empty < 2
    /\ pc \in {"Fetch", "Image", "Deliver", "Checkpoint"} => band \in Bands
    /\ sync => pipe = 0

\* Whose reservation it is, and what the scanner still does, at each stage.
DeviceInv ==
    /\ pc \in Early => owner # "us" /\ ~acquiring
    /\ pc \in Working \cup Cleanup => owner = "us"
    /\ pc \in {"Window", "Start"} => ~acquiring
    /\ (pc = "Image" /\ band.final /\ img.left = 0) => ~acquiring
    /\ (pc \in {"Deliver", "Checkpoint"} /\ band.final) => ~acquiring
    /\ (pc = "Release" /\ ~unclean) => ~acquiring
    /\ health = "Ready" => pc = "Done" /\ pipe = 0 /\ ~acquiring /\ owner # "us"

\* How far the image is, and that nothing has failed while bands are still fetched.
ImageInv ==
    /\ pc \in Early \cup Working => error = "none" /\ ~sinkFailed /\ ~deferred /\ ~unclean
    /\ pc \in (Early \cup Working) \ {"Deliver"} => drained = sum.bands
    /\ pc = "Deliver" => drained = sum.bands + 1
    /\ pc = "Checkpoint" => sum.bands > 0
    /\ pc = "Abort" => error # "none"
    /\ (pc = "Release" /\ error = "none") =>
           band.final /\ drained = sum.bands /\ sum.bands > 0 /\ ~sinkFailed /\ ~deferred
    /\ pc # "Done" => outcome = "Running" /\ health = "Unset"
    /\ SuccessIsComplete

\* A host cancellation that the job remembers is one the host asked for.
CancelInv ==
    /\ img.failure = "host" => cancel
    /\ error = "host" => cancel /\ ~sinkFailed

JobInv == TypeOK /\ StreamInv /\ DeviceInv /\ ImageInv /\ CancelInv

\* The three parts TypeOK is proved in.
FlagTypes ==
    /\ cancel \in BOOLEAN /\ expired \in BOOLEAN /\ sync \in BOOLEAN
    /\ attempted \in BOOLEAN /\ deferred \in BOOLEAN /\ unclean \in BOOLEAN
    /\ sinkFailed \in BOOLEAN /\ beat \in BOOLEAN /\ acquiring \in BOOLEAN

StageTypes ==
    /\ pc \in Stages
    /\ error \in Errors
    /\ outcome \in {"Running", "Ok", "Cancelled", "Failed"}
    /\ health \in {"Unset", "Ready", "NeedsReconnect"}
    /\ wrote \in Commands \cup {"-"}
    /\ owner \in {"none", "us", "other"}

ImageLocals ==
    [left : Nat, failure : Errors, drain : {"off", "on", "over"}, empty : 0..2]

DataTypes ==
    /\ band \in Bands \cup {NoBand}
    /\ img \in ImageLocals
    /\ sum \in [bands : Nat, units : Nat, width : Nat]
    /\ drained \in Nat
    /\ pipe \in Nat

LEMMA TypeParts == TypeOK <=> FlagTypes /\ StageTypes /\ DataTypes
BY DEF TypeOK, FlagTypes, StageTypes, DataTypes, ImageLocals

\* What the checkpoints may return.
LEMMA CheckpointValues ==
    ASSUME TypeOK
    PROVE  /\ CheckpointHost \in {"none", "host", "other"}
           /\ CheckpointDeadline \in {"none", "other"}
           /\ CheckpointHost = "host" => cancel
           /\ MetaCheckpoint = "host" => cancel
           /\ Failing \in Errors
           /\ MetaCheckpoint \in {"none", "host", "other"}
           /\ Draining \in {"off", "on", "over"}
BY DEF TypeOK, CheckpointHost, CheckpointDeadline, Failing, MetaCheckpoint, Draining, Errors

\* An exchange ends at a command boundary unless its reply was lost.
LEMMA ExchangeEffect ==
    ASSUME TypeOK, NEW op \in Commands, NEW reply \in Replies, Exchange(op, reply)
    PROVE  /\ wrote' = op
           /\ beat' \in BOOLEAN /\ sync' \in BOOLEAN /\ acquiring' \in BOOLEAN
           /\ pipe' \in Nat /\ owner' \in {"none", "us", "other"}
           /\ sync' => pipe' = 0
           /\ reply # "Lost" <=> sync'
<1>1. beat' \in BOOLEAN /\ sync' \in BOOLEAN /\ (reply # "Lost" <=> sync')
  BY Zenon DEF Exchange, TypeOK
<1>2. acquiring' \in BOOLEAN BY DEF Exchange, DeviceHandles, Performs, TypeOK
<1>3. pipe' \in Nat /\ (reply # "Lost" => pipe' = 0) BY DEF Exchange, TypeOK
<1>4. owner' \in {"none", "us", "other"} BY DEF Exchange, DeviceHandles, Performs, TypeOK
<1> QED BY <1>1, <1>2, <1>3, <1>4 DEF Exchange

LEMMA InitEstablishesJobInv == Init => JobInv
<1> SUFFICES ASSUME Init PROVE JobInv
  OBVIOUS
<1> USE DEF Init
<1>1. FlagTypes BY DEF FlagTypes
<1>2. StageTypes BY DEF StageTypes, Stages, Errors
<1>3. DataTypes BY DEF DataTypes, ImageLocals, Errors, NoBand
<1>4. StreamInv BY DEF StreamInv, Early, Working
<1>5. DeviceInv BY DEF DeviceInv, Early, Working, Cleanup
<1>6. ImageInv BY DEF ImageInv, Early, Working, SuccessIsComplete
<1>7. CancelInv BY DEF CancelInv
<1> QED BY <1>1, <1>2, <1>3, <1>4, <1>5, <1>6, <1>7, TypeParts DEF JobInv

LEMMA NextKeepsTypeOK == ASSUME JobInv, [Next]_vars PROVE TypeOK'
<1> SUFFICES FlagTypes' /\ StageTypes' /\ DataTypes'
  BY TypeParts DEF TypeOK, FlagTypes, StageTypes, DataTypes, ImageLocals
<1> USE DEF Quiet, Silent, device, verdict, flags, env, Fails, Ends, ErrorOutcome,
            Stages, Errors, Commands, Replies
<1>1. TypeOK /\ FlagTypes /\ StageTypes /\ DataTypes BY TypeParts DEF JobInv
<1>2. CASE Preflight
  <2>1. FlagTypes' BY <1>1, <1>2 DEF Preflight, FlagTypes
  <2>2. StageTypes' BY <1>1, <1>2 DEF Preflight, StageTypes
  <2>3. DataTypes' BY <1>1, <1>2 DEF Preflight, DataTypes, ImageLocals
  <2> QED BY <2>1, <2>2, <2>3
<1>3. CASE Inquiry
  <2>1. FlagTypes' BY <1>1, <1>3, ExchangeEffect, CheckpointValues DEF Inquiry, FlagTypes
  <2>2. StageTypes' BY <1>1, <1>3, ExchangeEffect, CheckpointValues DEF Inquiry, StageTypes
  <2>3. DataTypes'
    BY <1>1, <1>3, ExchangeEffect, CheckpointValues DEF Inquiry, DataTypes, ImageLocals
  <2> QED BY <2>1, <2>2, <2>3
<1>4. CASE Prepare
  <2>1. FlagTypes' BY <1>1, <1>4 DEF Prepare, FlagTypes
  <2>2. StageTypes' BY <1>1, <1>4 DEF Prepare, StageTypes
  <2>3. DataTypes' BY <1>1, <1>4 DEF Prepare, DataTypes, ImageLocals
  <2> QED BY <2>1, <2>2, <2>3
<1>5. CASE Reserve
  <2>1. FlagTypes' BY <1>1, <1>5, ExchangeEffect, CheckpointValues DEF Reserve, FlagTypes
  <2>2. StageTypes' BY <1>1, <1>5, ExchangeEffect, CheckpointValues DEF Reserve, StageTypes
  <2>3. DataTypes'
    BY <1>1, <1>5, ExchangeEffect, CheckpointValues DEF Reserve, DataTypes, ImageLocals
  <2> QED BY <2>1, <2>2, <2>3
<1>6. CASE Window
  <2>1. FlagTypes' BY <1>1, <1>6, ExchangeEffect, CheckpointValues DEF Window, FlagTypes
  <2>2. StageTypes' BY <1>1, <1>6, ExchangeEffect, CheckpointValues DEF Window, StageTypes
  <2>3. DataTypes'
    BY <1>1, <1>6, ExchangeEffect, CheckpointValues DEF Window, DataTypes, ImageLocals
  <2> QED BY <2>1, <2>2, <2>3
<1>7. CASE Start
  <2>1. FlagTypes' BY <1>1, <1>7, ExchangeEffect, CheckpointValues DEF Start, FlagTypes
  <2>2. StageTypes' BY <1>1, <1>7, ExchangeEffect, CheckpointValues DEF Start, StageTypes
  <2>3. DataTypes'
    BY <1>1, <1>7, ExchangeEffect, CheckpointValues DEF Start, DataTypes, ImageLocals
  <2> QED BY <2>1, <2>2, <2>3
<1>8. CASE Meta
  <2>1. FlagTypes' BY <1>1, <1>8, ExchangeEffect, CheckpointValues DEF Meta, MetaFails, FlagTypes
  <2>2. StageTypes'
    BY <1>1, <1>8, ExchangeEffect, CheckpointValues DEF Meta, MetaFails, StageTypes
  <2>3. DataTypes'
    BY <1>1, <1>8, ExchangeEffect, CheckpointValues DEF Meta, MetaFails, DataTypes, ImageLocals
  <2> QED BY <2>1, <2>2, <2>3
<1>9. CASE Fetch
  <2> band.len \in Nat BY <1>1, <1>9, BandSizesAssumption DEF Fetch, StreamInv, JobInv, Bands
  <2>1. FlagTypes' BY <1>1, <1>9 DEF Fetch, FlagTypes
  <2>2. StageTypes' BY <1>1, <1>9 DEF Fetch, StageTypes
  <2>3. DataTypes' BY <1>1, <1>9 DEF Fetch, DataTypes, ImageLocals
  <2> QED BY <2>1, <2>2, <2>3
<1>10. CASE ImageRead
  <2>a. img.left \in Nat /\ pipe = img.left /\ img \in ImageLocals /\ img.empty < 2
    BY <1>1, <1>10 DEF ImageRead, JobInv, StreamInv, DataTypes, ImageLocals
  <2>d. Failing \in Errors /\ Draining \in {"off", "on", "over"}
    BY <1>1, CheckpointValues
  <2>b. ASSUME NEW k \in 1..img.left, ReadsUnits(k) PROVE img' \in ImageLocals /\ pipe' \in Nat
    <3>1. img' = [img EXCEPT !.left = img.left - k, !.failure = Failing, !.drain = Draining]
      BY <2>b DEF ReadsUnits
    <3>2. img.left - k \in Nat BY <2>a
    <3>3. img' \in ImageLocals BY <2>a, <2>d, <3>1, <3>2 DEF ImageLocals
    <3> QED BY <2>a, <2>b, <3>2, <3>3 DEF ReadsUnits
  <2>c. ASSUME ReadsNothing PROVE img' \in ImageLocals
    <3> DEFINE failure == IF Failing = "none" THEN "other" ELSE Failing
    <3>1. img' = [img EXCEPT !.failure = failure, !.drain = Draining, !.empty = img.empty + 1]
      BY <2>c DEF ReadsNothing
    <3>2. failure \in Errors BY <2>d
    <3>3. img.empty + 1 \in 0..2 BY <2>a DEF ImageLocals
    <3> HIDE DEF failure
    <3> QED BY <2>a, <2>d, <3>1, <3>2, <3>3 DEF ImageLocals
  <2>1. FlagTypes'
    BY <1>1, <1>10 DEF ImageRead, ReadsUnits, ReadsNothing, ReadBreaks, FlagTypes
  <2>2. StageTypes'
    BY <1>1, <1>10 DEF ImageRead, ReadsUnits, ReadsNothing, ReadBreaks, StageTypes
  <2>3. DataTypes'
    BY <1>1, <1>10, <2>a, <2>b, <2>c DEF ImageRead, ReadsNothing, ReadBreaks, DataTypes
  <2> QED BY <2>1, <2>2, <2>3
<1>11. CASE ImageDone
  <2>1. FlagTypes' BY <1>1, <1>11, CheckpointValues DEF ImageDone, FlagTypes
  <2>2. StageTypes' BY <1>1, <1>11, CheckpointValues DEF ImageDone, StageTypes
  <2>3. DataTypes' BY <1>1, <1>11, CheckpointValues DEF ImageDone, DataTypes, ImageLocals
  <2> QED BY <2>1, <2>2, <2>3
<1>12. CASE Deliver
  <2> band.len \in Nat /\ band.width \in Nat
    BY <1>1, <1>12, BandSizesAssumption, WidthsAssumption DEF Deliver, StreamInv, JobInv, Bands
  <2>1. FlagTypes' BY <1>1, <1>12 DEF Deliver, FlagTypes
  <2>2. StageTypes' BY <1>1, <1>12 DEF Deliver, StageTypes
  <2>3. DataTypes' BY <1>1, <1>12 DEF Deliver, DataTypes, ImageLocals
  <2> QED BY <2>1, <2>2, <2>3
<1>13. CASE AfterConsumer
  <2>1. FlagTypes' BY <1>1, <1>13, CheckpointValues DEF AfterConsumer, FlagTypes
  <2>2. StageTypes' BY <1>1, <1>13, CheckpointValues DEF AfterConsumer, StageTypes
  <2>3. DataTypes' BY <1>1, <1>13, CheckpointValues DEF AfterConsumer, DataTypes, ImageLocals
  <2> QED BY <2>1, <2>2, <2>3
<1>14. CASE CleanupSkipped
  <2>1. FlagTypes' BY <1>1, <1>14 DEF CleanupSkipped, FlagTypes
  <2>2. StageTypes' BY <1>1, <1>14 DEF CleanupSkipped, StageTypes
  <2>3. DataTypes' BY <1>1, <1>14 DEF CleanupSkipped, DataTypes, ImageLocals
  <2> QED BY <2>1, <2>2, <2>3
<1>15. CASE Abort
  <2>1. FlagTypes' BY <1>1, <1>15, ExchangeEffect DEF Abort, FlagTypes
  <2>2. StageTypes' BY <1>1, <1>15, ExchangeEffect DEF Abort, StageTypes
  <2>3. DataTypes' BY <1>1, <1>15, ExchangeEffect DEF Abort, DataTypes, ImageLocals
  <2> QED BY <2>1, <2>2, <2>3
<1>16. CASE Release
  <2>1. FlagTypes' BY <1>1, <1>16, ExchangeEffect DEF Release, FlagTypes
  <2>2. StageTypes' BY <1>1, <1>16, ExchangeEffect DEF Release, StageTypes
  <2>3. DataTypes' BY <1>1, <1>16, ExchangeEffect DEF Release, DataTypes, ImageLocals
  <2> QED BY <2>1, <2>2, <2>3
<1>17. CASE HostCancels
  BY <1>1, <1>17 DEF HostCancels, Unwatched, FlagTypes, StageTypes, DataTypes, ImageLocals
<1>18. CASE DeadlinePasses
  BY <1>1, <1>18 DEF DeadlinePasses, Unwatched, FlagTypes, StageTypes, DataTypes, ImageLocals
<1>19. CASE DrainDeadlinePasses
  BY <1>1, <1>19 DEF DrainDeadlinePasses, Unwatched, FlagTypes, StageTypes, DataTypes, ImageLocals
<1>20. CASE OtherOwner
  BY <1>1, <1>20 DEF OtherOwner, Unwatched, FlagTypes, StageTypes, DataTypes, ImageLocals
<1>21. CASE UNCHANGED vars
  BY <1>1, <1>21 DEF vars, FlagTypes, StageTypes, DataTypes
<1> QED BY <1>2, <1>3, <1>4, <1>5, <1>6, <1>7, <1>8, <1>9, <1>10, <1>11, <1>12, <1>13,
           <1>14, <1>15, <1>16, <1>17, <1>18, <1>19, <1>20, <1>21 DEF Next, HostStep

LEMMA NextKeepsStreamInv == ASSUME JobInv, [Next]_vars PROVE StreamInv'
<1> USE DEF Quiet, Silent, device, verdict, flags, env, Fails, Ends, ErrorOutcome,
            Early, Working, Cleanup, TypeOK
<1>1. TypeOK /\ StreamInv /\ DeviceInv /\ ImageInv /\ CancelInv BY DEF JobInv
<1>2. CASE Preflight BY <1>1, <1>2 DEF Preflight, StreamInv
<1>3. CASE Inquiry
  BY <1>1, <1>3, ExchangeEffect, CheckpointValues DEF Inquiry, Commands, Replies, StreamInv
<1>4. CASE Prepare BY <1>1, <1>4 DEF Prepare, StreamInv
<1>5. CASE Reserve
  BY <1>1, <1>5, ExchangeEffect, CheckpointValues DEF Reserve, Commands, Replies, StreamInv
<1>6. CASE Window
  BY <1>1, <1>6, ExchangeEffect, CheckpointValues DEF Window, Commands, Replies, StreamInv
<1>7. CASE Start
  BY <1>1, <1>7, ExchangeEffect, CheckpointValues DEF Start, Commands, Replies, StreamInv
<1>8. CASE Meta
  BY <1>1, <1>8, ExchangeEffect, CheckpointValues
     DEF Meta, Commands, Replies, MetaFails, StreamInv
<1>9. CASE Fetch
  <2>1. pipe = 0 /\ band \in Bands BY <1>1, <1>9 DEF Fetch, StreamInv
  <2>2. band.len \in Nat BY <2>1, BandSizesAssumption DEF Bands
  <2>3. sync' = FALSE /\ img'.left = band.len /\ img'.empty = 0 BY <1>9 DEF Fetch
  <2>4. pc' = "Image" => pipe' = band.len BY <2>1, <2>2, <1>9 DEF Fetch
  <2> QED BY <2>1, <2>3, <2>4, <1>9 DEF Fetch, StreamInv
<1>10. CASE ImageRead
  <2>1. /\ pipe = img.left /\ img.left \in Nat /\ img \in ImageLocals /\ img.empty < 2
        /\ ~sync /\ band \in Bands /\ pc = "Image" /\ sync' = sync /\ band' = band
    BY <1>1, <1>10 DEF ImageRead, StreamInv, ImageLocals
  <2>2. CASE pc' = "Abort" BY <2>1, <2>2 DEF StreamInv
  <2>3. ASSUME NEW k \in 1..img.left, ReadsUnits(k)
        PROVE  pipe' = img'.left /\ img'.empty < 2 /\ pc' = pc
    BY <2>1, <2>3 DEF ReadsUnits, ImageLocals
  <2>4. ASSUME ReadsNothing, pc' # "Abort" PROVE pipe' = img'.left /\ img'.empty < 2 /\ pc' = pc
    BY <2>1, <2>4 DEF ReadsNothing, ImageLocals
  <2>5. CASE pc' # "Abort"
    <3>1. pipe' = img'.left /\ img'.empty < 2 /\ pc' = pc
      BY <2>3, <2>4, <2>5, <1>10 DEF ImageRead, ReadBreaks
    <3> QED BY <2>1, <3>1 DEF StreamInv
  <2> QED BY <2>2, <2>5
<1>11. CASE ImageDone
  <2>1. pipe' = 0 /\ sync' /\ band' = band /\ band \in Bands
    BY <1>1, <1>11 DEF ImageDone, StreamInv
  <2>2. pc' \in {"Abort", "Deliver"} BY <1>11 DEF ImageDone
  <2> QED BY <2>1, <2>2 DEF StreamInv
<1>12. CASE Deliver BY <1>1, <1>12 DEF Deliver, StreamInv
<1>13. CASE AfterConsumer BY <1>1, <1>13, CheckpointValues DEF AfterConsumer, StreamInv
<1>14. CASE CleanupSkipped BY <1>1, <1>14 DEF CleanupSkipped, StreamInv
<1>15. CASE Abort BY <1>1, <1>15, ExchangeEffect DEF Abort, Commands, Replies, StreamInv
<1>16. CASE Release BY <1>1, <1>16, ExchangeEffect DEF Release, Commands, Replies, StreamInv
<1>17. CASE HostCancels BY <1>1, <1>17 DEF HostCancels, Unwatched, StreamInv
<1>18. CASE DeadlinePasses BY <1>1, <1>18 DEF DeadlinePasses, Unwatched, StreamInv
<1>19. CASE DrainDeadlinePasses BY <1>1, <1>19 DEF DrainDeadlinePasses, Unwatched, StreamInv
<1>20. CASE OtherOwner BY <1>1, <1>20 DEF OtherOwner, Unwatched, StreamInv
<1>21. CASE UNCHANGED vars BY <1>1, <1>21 DEF vars, StreamInv
<1> QED BY <1>2, <1>3, <1>4, <1>5, <1>6, <1>7, <1>8, <1>9, <1>10, <1>11, <1>12, <1>13,
           <1>14, <1>15, <1>16, <1>17, <1>18, <1>19, <1>20, <1>21 DEF Next, HostStep

LEMMA NextKeepsDeviceInv == ASSUME JobInv, [Next]_vars PROVE DeviceInv'
<1> USE DEF Quiet, Silent, device, verdict, flags, env, Fails, Ends, ErrorOutcome,
            Early, Working, Cleanup, TypeOK, StreamInv
<1>1. TypeOK /\ StreamInv /\ DeviceInv /\ ImageInv /\ CancelInv BY DEF JobInv
<1>2. CASE Preflight BY <1>1, <1>2 DEF Preflight, DeviceInv
<1>3. CASE Inquiry
  BY <1>1, <1>3, ExchangeEffect, CheckpointValues
     DEF Inquiry, Commands, Replies, Exchange, DeviceHandles, Performs, DeviceInv
<1>4. CASE Prepare BY <1>1, <1>4 DEF Prepare, DeviceInv
<1>5. CASE Reserve
  <2>1. owner # "us" /\ ~acquiring /\ sync /\ pipe = 0 /\ health = "Unset" /\ pc = "Reserve"
    BY <1>1, <1>5 DEF Reserve, DeviceInv, StreamInv, ImageInv
  <2>2. CASE CheckpointHost # "none"
    <3>1. pc' = "Done" /\ owner' = owner /\ acquiring' = acquiring /\ pipe' = pipe
      BY <2>2, <1>5 DEF Reserve
    <3> QED BY <2>1, <3>1 DEF DeviceInv
  <2>3. ASSUME NEW reply \in Replies, Exchange("RESERVE", reply) PROVE
           /\ ~acquiring'
           /\ reply = "Good" => owner' = "us"
           /\ reply = "Busy" => owner' = owner
    BY <2>1, <2>3 DEF Exchange, DeviceHandles, Performs
  <2>4. CASE CheckpointHost = "none"
    <3>1. PICK reply \in Replies :
            /\ Exchange("RESERVE", reply)
            /\ CASE reply = "Good" -> pc' = "Window" /\ UNCHANGED verdict
                 [] reply = "Busy" -> UNCHANGED <<pc, verdict>>
                 [] OTHER          -> Ends("Failed", "NeedsReconnect")
      BY <2>4, <1>5 DEF Reserve
    <3> QED BY <2>1, <2>3, <3>1 DEF DeviceInv
  <2> QED BY <2>2, <2>4
<1>6. CASE Window
  BY <1>1, <1>6, ExchangeEffect, CheckpointValues
     DEF Window, Commands, Replies, Exchange, DeviceHandles, Performs, DeviceInv
<1>7. CASE Start
  BY <1>1, <1>7, ExchangeEffect, CheckpointValues
     DEF Start, Commands, Replies, Exchange, DeviceHandles, Performs, DeviceInv
<1>8. CASE Meta
  BY <1>1, <1>8, ExchangeEffect, CheckpointValues
     DEF Meta, Commands, Replies, Exchange, DeviceHandles, Performs, MetaFails, DeviceInv
<1>9. CASE Fetch
  <2>1. band \in Bands BY <1>1, <1>9 DEF Fetch, StreamInv
  <2>2. img'.left # 0 BY <2>1, <1>9, BandSizesAssumption DEF Fetch, Bands
  <2> QED BY <1>1, <2>2, <1>9 DEF Fetch, DeviceInv, ImageInv
<1>10. CASE ImageRead
  <2>1. /\ img.left \in Nat /\ img \in ImageLocals /\ img.left > 0
        /\ pc = "Image" /\ owner = "us" /\ health = "Unset"
        /\ owner' = owner /\ health' = health /\ band' = band
   
      BY <1>1, <1>10
         DEF ImageRead, DeviceInv, ImageInv, ImageLocals, ReadsUnits, ReadsNothing, ReadBreaks
  <2>2. CASE pc' = "Abort" BY <2>1, <2>2 DEF DeviceInv
  <2>3. ASSUME NEW k \in 1..img.left, ReadsUnits(k)
        PROVE  pc' = pc /\ ((band.final /\ img'.left = 0) => ~acquiring')
    <3>1. img'.left = img.left - k BY <2>1, <2>3 DEF ReadsUnits, ImageLocals
    <3>2. CASE img'.left = 0
      <4>1. k = img.left BY <2>1, <3>1, <3>2
      <4> QED BY <2>3, <4>1 DEF ReadsUnits
    <3> QED BY <2>3, <3>2 DEF ReadsUnits
  <2>4. ASSUME ReadsNothing PROVE img'.left > 0 /\ (pc' = pc \/ pc' = "Abort")
    BY <2>1, <2>4 DEF ReadsNothing, ImageLocals
  <2>5. CASE pc' # "Abort"
    <3>1. pc' = pc /\ ((band.final /\ img'.left = 0) => ~acquiring')
      BY <2>3, <2>4, <2>5, <1>10 DEF ImageRead, ReadBreaks
    <3> QED BY <2>1, <3>1 DEF DeviceInv
  <2> QED BY <2>2, <2>5
<1>11. CASE ImageDone BY <1>1, <1>11, CheckpointValues DEF ImageDone, DeviceInv
<1>12. CASE Deliver BY <1>1, <1>12 DEF Deliver, DeviceInv
<1>13. CASE AfterConsumer BY <1>1, <1>13, CheckpointValues DEF AfterConsumer, DeviceInv
<1>14. CASE CleanupSkipped BY <1>1, <1>14 DEF CleanupSkipped, DeviceInv
<1>15. CASE Abort
  BY <1>1, <1>15, ExchangeEffect
     DEF Abort, Commands, Replies, Exchange, DeviceHandles, Performs, DeviceInv
<1>16. CASE Release
  BY <1>1, <1>16, ExchangeEffect
     DEF Release, Commands, Replies, Exchange, DeviceHandles, Performs, DeviceInv
<1>17. CASE HostCancels BY <1>1, <1>17 DEF HostCancels, Unwatched, DeviceInv
<1>18. CASE DeadlinePasses BY <1>1, <1>18 DEF DeadlinePasses, Unwatched, DeviceInv
<1>19. CASE DrainDeadlinePasses BY <1>1, <1>19 DEF DrainDeadlinePasses, Unwatched, DeviceInv
<1>20. CASE OtherOwner BY <1>1, <1>20 DEF OtherOwner, Unwatched, DeviceInv
<1>21. CASE UNCHANGED vars BY <1>1, <1>21 DEF vars, DeviceInv
<1> QED BY <1>2, <1>3, <1>4, <1>5, <1>6, <1>7, <1>8, <1>9, <1>10, <1>11, <1>12, <1>13,
           <1>14, <1>15, <1>16, <1>17, <1>18, <1>19, <1>20, <1>21 DEF Next, HostStep

LEMMA NextKeepsImageInv == ASSUME JobInv, [Next]_vars PROVE ImageInv'
<1> USE DEF Quiet, Silent, device, verdict, flags, env, Fails, Ends, ErrorOutcome,
            Early, Working, Cleanup, SuccessIsComplete, TypeOK
<1>1. TypeOK /\ StreamInv /\ DeviceInv /\ ImageInv /\ CancelInv BY DEF JobInv
<1>2. CASE Preflight BY <1>1, <1>2 DEF Preflight, ImageInv
<1>3. CASE Inquiry
  BY <1>1, <1>3, ExchangeEffect, CheckpointValues DEF Inquiry, Commands, Replies, ImageInv
<1>4. CASE Prepare BY <1>1, <1>4 DEF Prepare, ImageInv
<1>5. CASE Reserve
  BY <1>1, <1>5, ExchangeEffect, CheckpointValues DEF Reserve, Commands, Replies, ImageInv
<1>6. CASE Window
  BY <1>1, <1>6, ExchangeEffect, CheckpointValues DEF Window, Commands, Replies, ImageInv
<1>7. CASE Start
  <2>1. \/ pc' \in {"Start", "Meta"} /\ error' = error
        \/ pc' = "Abort" /\ error' # "none"
    BY <1>1, <1>7 DEF Start
  <2>2. drained = sum.bands \/ pc' # "Meta" BY <1>1, <1>7 DEF Start, ImageInv
  <2> QED BY <1>1, <2>1, <2>2, <1>7 DEF Start, ImageInv, SuccessIsComplete
<1>8. CASE Meta
  BY <1>1, <1>8, ExchangeEffect, CheckpointValues DEF Meta, Commands, Replies, MetaFails, ImageInv
<1>9. CASE Fetch BY <1>1, <1>9 DEF Fetch, ImageInv
<1>10. CASE ImageRead
  BY <1>1, <1>10, CheckpointValues DEF ImageRead, ReadsUnits, ReadsNothing, ReadBreaks, ImageInv
<1>11. CASE ImageDone BY <1>1, <1>11, CheckpointValues DEF ImageDone, ImageInv
<1>12. CASE Deliver BY <1>1, <1>12 DEF Deliver, ImageInv
<1>13. CASE AfterConsumer BY <1>1, <1>13, CheckpointValues DEF AfterConsumer, ImageInv
<1>14. CASE CleanupSkipped BY <1>1, <1>14 DEF CleanupSkipped, ImageInv
<1>15. CASE Abort BY <1>1, <1>15, ExchangeEffect DEF Abort, Commands, Replies, ImageInv
<1>16. CASE Release
  <2>1. \/ outcome' = "Failed"
        \/ outcome' = "Cancelled"
        \/ outcome' = "Ok" /\ error = "none" /\ owner' # "us"
    BY <1>1, <1>16 DEF Release, Exchange, DeviceHandles, Performs
  <2>2. pc' = "Done" /\ UNCHANGED <<error, sinkFailed, band, sum, drained>>
    BY <1>16 DEF Release
  <2> QED BY <1>1, <2>1, <2>2, <1>16 DEF Release, ImageInv, SuccessIsComplete
<1>17. CASE HostCancels BY <1>1, <1>17 DEF HostCancels, Unwatched, ImageInv
<1>18. CASE DeadlinePasses BY <1>1, <1>18 DEF DeadlinePasses, Unwatched, ImageInv
<1>19. CASE DrainDeadlinePasses BY <1>1, <1>19 DEF DrainDeadlinePasses, Unwatched, ImageInv
<1>20. CASE OtherOwner BY <1>1, <1>20 DEF OtherOwner, Unwatched, ImageInv
<1>21. CASE UNCHANGED vars BY <1>1, <1>21 DEF vars, ImageInv
<1> QED BY <1>2, <1>3, <1>4, <1>5, <1>6, <1>7, <1>8, <1>9, <1>10, <1>11, <1>12, <1>13,
           <1>14, <1>15, <1>16, <1>17, <1>18, <1>19, <1>20, <1>21 DEF Next, HostStep

LEMMA NextKeepsCancelInv == ASSUME JobInv, [Next]_vars PROVE CancelInv'
<1> USE DEF Quiet, Silent, device, verdict, flags, env, Fails, Ends, ErrorOutcome,
            Early, Working, Cleanup, TypeOK, ImageInv
<1>1. TypeOK /\ StreamInv /\ DeviceInv /\ ImageInv /\ CancelInv BY DEF JobInv
<1>2. CASE Preflight BY <1>1, <1>2 DEF Preflight, CancelInv
<1>3. CASE Inquiry
  BY <1>1, <1>3, ExchangeEffect, CheckpointValues DEF Inquiry, Commands, Replies, CancelInv
<1>4. CASE Prepare BY <1>1, <1>4 DEF Prepare, CancelInv
<1>5. CASE Reserve
  BY <1>1, <1>5, ExchangeEffect, CheckpointValues DEF Reserve, Commands, Replies, CancelInv
<1>6. CASE Window
  BY <1>1, <1>6, ExchangeEffect, CheckpointValues DEF Window, Commands, Replies, CancelInv
<1>7. CASE Start
  BY <1>1, <1>7, ExchangeEffect, CheckpointValues DEF Start, Commands, Replies, CancelInv
<1>8. CASE Meta
  <2>1. ~sinkFailed /\ error = "none" /\ UNCHANGED <<cancel, sinkFailed, img>>
    BY <1>1, <1>8 DEF Meta, ImageInv
  <2>2. error' = "host" => cancel
    BY <1>1, <2>1, <1>8, CheckpointValues DEF Meta, MetaFails
  <2> QED BY <1>1, <2>1, <2>2 DEF CancelInv
<1>9. CASE Fetch BY <1>1, <1>9 DEF Fetch, CancelInv
<1>10. CASE ImageRead
  <2>1. /\ error = "none" /\ UNCHANGED <<cancel, sinkFailed>> /\ img \in ImageLocals
        /\ error' # "host"
    BY <1>1, <1>10 DEF ImageRead, ImageInv, ImageLocals, ReadsUnits, ReadsNothing, ReadBreaks
  <2>2. Failing = "host" => cancel BY <1>1, CheckpointValues DEF Failing, CancelInv
  <2>3. img'.failure \in {img.failure, Failing, "other"}
    BY <2>1, <1>10 DEF ImageRead, ReadsUnits, ReadsNothing, ReadBreaks, ImageLocals
  <2> QED BY <1>1, <2>1, <2>2, <2>3 DEF CancelInv
<1>11. CASE ImageDone
  <2>1. Failing = "host" => cancel BY <1>1, CheckpointValues DEF Failing, CancelInv
  <2>2. ~sinkFailed /\ error = "none" BY <1>1, <1>11 DEF ImageDone, ImageInv
  <2> QED BY <1>1, <2>1, <2>2, <1>11 DEF ImageDone, CancelInv
<1>12. CASE Deliver BY <1>1, <1>12 DEF Deliver, CancelInv
<1>13. CASE AfterConsumer BY <1>1, <1>13, CheckpointValues DEF AfterConsumer, CancelInv
<1>14. CASE CleanupSkipped BY <1>1, <1>14 DEF CleanupSkipped, CancelInv
<1>15. CASE Abort BY <1>1, <1>15, ExchangeEffect DEF Abort, Commands, Replies, CancelInv
<1>16. CASE Release BY <1>1, <1>16, ExchangeEffect DEF Release, Commands, Replies, CancelInv
<1>17. CASE HostCancels BY <1>1, <1>17 DEF HostCancels, Unwatched, CancelInv
<1>18. CASE DeadlinePasses BY <1>1, <1>18 DEF DeadlinePasses, Unwatched, CancelInv
<1>19. CASE DrainDeadlinePasses BY <1>1, <1>19 DEF DrainDeadlinePasses, Unwatched, CancelInv
<1>20. CASE OtherOwner BY <1>1, <1>20 DEF OtherOwner, Unwatched, CancelInv
<1>21. CASE UNCHANGED vars BY <1>1, <1>21 DEF vars, CancelInv
<1> QED BY <1>2, <1>3, <1>4, <1>5, <1>6, <1>7, <1>8, <1>9, <1>10, <1>11, <1>12, <1>13,
           <1>14, <1>15, <1>16, <1>17, <1>18, <1>19, <1>20, <1>21 DEF Next, HostStep

\* ScanJob's inductive invariant.
THEOREM JobInvariant == Spec => []JobInv
<1>1. Init => JobInv BY InitEstablishesJobInv
<1>2. JobInv /\ [Next]_vars => JobInv'
  BY NextKeepsTypeOK, NextKeepsStreamInv, NextKeepsDeviceInv, NextKeepsImageInv,
     NextKeepsCancelInv DEF JobInv
<1> QED BY <1>1, <1>2, PTL DEF Spec

-------------------------------------------------------------------------------
\* Every variable of the job keeps its type.
THEOREM JobTypeCorrect == Spec => []TypeOK
<1>1. JobInv => TypeOK BY DEF JobInv
<1> QED BY <1>1, JobInvariant, PTL

\* While the synchronized flag is up no reply byte is outstanding.
THEOREM SyncFlagIsSound == Spec => []SyncIsSound
<1>1. JobInv => SyncIsSound BY DEF JobInv, StreamInv, SyncIsSound
<1> QED BY <1>1, JobInvariant, PTL

\* A session reported Ready has an empty pipe, an idle scanner and no reservation.
THEOREM ReadyIsReusable == Spec => []ReadyMeansReusable
<1>1. JobInv => ReadyMeansReusable BY DEF JobInv, DeviceInv, ReadyMeansReusable
<1> QED BY <1>1, JobInvariant, PTL

\* A job that reports success has delivered its whole image and released the scanner.
THEOREM SuccessIsWhole == Spec => []SuccessIsComplete
<1>1. JobInv => SuccessIsComplete BY DEF JobInv, ImageInv
<1> QED BY <1>1, JobInvariant, PTL

\* No step puts a command on the bus while a reply byte is outstanding.
THEOREM CommandsAreAtBoundaries == Spec => CommandsAtBoundary
<1>1. JobInv /\ [Next]_vars => [wrote' # "-" => sync /\ pipe = 0]_vars
  <2> SUFFICES ASSUME JobInv, Next, wrote' # "-" PROVE sync /\ pipe = 0
    OBVIOUS
  <2>1. StreamInv BY DEF JobInv
  <2>2. pc \in (Early \cup Working) \ {"Image"} \/ sync
    BY DEF Next, HostStep, Quiet, Silent, Preflight, Inquiry, Prepare, Reserve, Window, Start,
           Meta, Fetch, ImageRead, ImageDone, Deliver, AfterConsumer, CleanupSkipped, Abort,
           Release, HostCancels, DeadlinePasses, DrainDeadlinePasses, OtherOwner,
           Early, Working
  <2> QED BY <2>1, <2>2 DEF StreamInv
<1> QED BY <1>1, JobInvariant, PTL DEF Spec, CommandsAtBoundary

\* Every command after RESERVE is written by the owner of the reservation.
THEOREM CommandsAreOwned == Spec => CommandsOnlyByOwner
<1>1. JobInv /\ [Next]_vars =>
          [wrote' \in Commands \ {"INQUIRY", "RESERVE"} => owner = "us"]_vars
  <2> SUFFICES ASSUME JobInv, Next, wrote' \in Commands \ {"INQUIRY", "RESERVE"}
               PROVE  owner = "us"
    OBVIOUS
  <2>1. DeviceInv BY DEF JobInv
  <2>2. wrote' \notin {"-", "INQUIRY", "RESERVE"} BY DEF Commands
  <2>3. pc \in Working \cup Cleanup
    BY <2>2 DEF Next, HostStep, Quiet, Silent, Preflight, Inquiry, Prepare, Reserve, Window,
           Start, Meta, Fetch, ImageRead, ImageDone, Deliver, AfterConsumer, CleanupSkipped,
           Abort, Release, HostCancels, DeadlinePasses, DrainDeadlinePasses, OtherOwner,
           Working, Cleanup, Exchange
  <2> QED BY <2>1, <2>3 DEF DeviceInv
<1> QED BY <1>1, JobInvariant, PTL DEF Spec, CommandsOnlyByOwner

\* A band reaches the consumer only as the next drained image of a job in which
\* nothing has failed.
THEOREM DeliveriesAreDrained == Spec => DeliversDrainedBands
<1>1. JobInv /\ [Next]_vars =>
          [sum.bands' > sum.bands => drained = sum.bands + 1 /\ error = "none" /\ ~sinkFailed]_vars
  <2> SUFFICES ASSUME JobInv, Next, sum.bands' > sum.bands
               PROVE  drained = sum.bands + 1 /\ error = "none" /\ ~sinkFailed
    OBVIOUS
  <2>1. ImageInv /\ sum.bands \in Nat BY DEF JobInv, TypeOK
  <2>2. sum' # sum BY <2>1
  <2>3. pc = "Deliver"
    BY <2>2 DEF Next, HostStep, Preflight, Inquiry, Prepare, Reserve, Window,
           Start, Meta, Fetch, ImageRead, ImageDone, Deliver, AfterConsumer, CleanupSkipped,
           Abort, Release, HostCancels, DeadlinePasses, DrainDeadlinePasses, OtherOwner,
           Unwatched
  <2> QED BY <2>1, <2>3 DEF ImageInv, Working
<1> QED BY <1>1, JobInvariant, PTL DEF Spec, DeliversDrainedBands

\* After START only a drained image lets a host cancellation reach ABORT.
THEOREM CancelDrains == Spec => CancelDrainsFirstImage
<1>1. JobInv /\ [Next]_vars =>
          [(/\ pc \in {"Meta", "Fetch", "Image", "Deliver", "Checkpoint"}
            /\ pc' = "Abort" /\ error' = "host") => drained' > 0]_vars
  <2> SUFFICES ASSUME JobInv, Next, pc' = "Abort", error' = "host",
                      pc \in {"Meta", "Fetch", "Image", "Deliver", "Checkpoint"}
               PROVE  drained' > 0
    OBVIOUS
  <2>1. ImageInv /\ TypeOK /\ drained \in Nat /\ sum.bands \in Nat /\ error = "none"
    BY DEF JobInv, TypeOK, ImageInv, Early, Working
  <2>2. Meta \/ ImageDone \/ AfterConsumer
    BY <2>1 DEF Next, HostStep, Preflight, Inquiry, Prepare, Reserve, Window, Start, Fetch,
           ImageRead, ReadsUnits, ReadsNothing, ReadBreaks, Deliver, CleanupSkipped, Abort,
           Release, HostCancels, DeadlinePasses, DrainDeadlinePasses, OtherOwner, Unwatched, Fails
  <2>3. CASE Meta
    <3>1. MetaCheckpoint = "host" BY <2>1, <2>3 DEF Meta, MetaFails, Fails
    <3>2. sum.bands > 0
      BY <2>1, <3>1 DEF MetaCheckpoint, CheckpointDeadline
    <3> QED BY <2>1, <2>3, <3>2 DEF Meta, ImageInv, Early, Working
  <2>4. CASE ImageDone BY <2>1, <2>4 DEF ImageDone
  <2>5. CASE AfterConsumer BY <2>1, <2>5 DEF AfterConsumer, ImageInv, Early, Working
  <2> QED BY <2>2, <2>3, <2>4, <2>5
<1> QED BY <1>1, JobInvariant, PTL DEF Spec, CancelDrainsFirstImage

-------------------------------------------------------------------------------
\* The whole job, with every command, poll, drain and cleanup, refines ScanContract:
\* bands one at a time and none after a failed consumer, then one verdict.
THEOREM JobImplementsContract == Spec => ImplementsContract
<1>1. Init => Contract!JobInit BY DEF Init, Contract!JobInit
<1>2. JobInv /\ [Next]_vars => [Contract!JobNext]_(Contract!jobVars)
  <2> SUFFICES ASSUME JobInv, [Next]_vars
               PROVE  Contract!JobNext \/ UNCHANGED Contract!jobVars
    OBVIOUS
  <2> USE DEF Contract!JobNext, Contract!JobCancel, Contract!JobDelivers, Contract!JobEnds,
              Contract!jobVars, Quiet, Silent, device, verdict, flags, env, Fails, Ends,
              ErrorOutcome, Early, Working, Cleanup
  <2>1. TypeOK /\ ImageInv /\ CancelInv BY DEF JobInv
  <2>2. CASE Preflight BY <2>1, <2>2 DEF Preflight, ImageInv
  <2>3. CASE Inquiry BY <2>1, <2>3, CheckpointValues DEF Inquiry, ImageInv
  <2>4. CASE Prepare BY <2>1, <2>4 DEF Prepare, ImageInv
  <2>5. CASE Reserve BY <2>1, <2>5, CheckpointValues DEF Reserve, ImageInv
  <2>6. CASE Window BY <2>6 DEF Window
  <2>7. CASE Start BY <2>7 DEF Start
  <2>8. CASE Meta BY <2>8 DEF Meta
  <2>9. CASE Fetch BY <2>9 DEF Fetch
  <2>10. CASE ImageRead BY <2>10 DEF ImageRead
  <2>11. CASE ImageDone BY <2>11 DEF ImageDone
  <2>12. CASE Deliver BY <2>1, <2>12 DEF Deliver, ImageInv, TypeOK
  <2>13. CASE AfterConsumer BY <2>13 DEF AfterConsumer
  <2>14. CASE CleanupSkipped BY <2>1, <2>14 DEF CleanupSkipped, ImageInv
  <2>15. CASE Abort BY <2>15 DEF Abort
  <2>16. CASE Release BY <2>1, <2>16 DEF Release, ImageInv, CancelInv, TypeOK, Errors
  <2>17. CASE HostCancels BY <2>17 DEF HostCancels, Unwatched
  <2>18. CASE DeadlinePasses BY <2>18 DEF DeadlinePasses, Unwatched
  <2>19. CASE DrainDeadlinePasses BY <2>19 DEF DrainDeadlinePasses, Unwatched
  <2>20. CASE OtherOwner BY <2>20 DEF OtherOwner, Unwatched
  <2>21. CASE UNCHANGED vars BY <2>21 DEF vars
  <2> QED BY <2>2, <2>3, <2>4, <2>5, <2>6, <2>7, <2>8, <2>9, <2>10, <2>11, <2>12, <2>13, <2>14,
             <2>15, <2>16, <2>17, <2>18, <2>19, <2>20, <2>21 DEF Next, HostStep
<1> QED BY <1>1, <1>2, JobInvariant, PTL DEF Spec, ImplementsContract, Contract!JobSpec

\* Every command is sent at a boundary of the stream, and past RESERVE as owner.
THEOREM CommandsAreAllowed == Spec => CommandsAllowed
BY CommandsAreAtBoundaries, CommandsAreOwned DEF CommandsAllowed
===============================================================================
