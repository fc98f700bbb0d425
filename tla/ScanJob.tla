------------------------------- MODULE ScanJob -------------------------------
(***************************************************************************)
(* scan.rs: one scan job over an exclusively borrowed USB session, from    *)
(* scan_in_session to the verdict on the session's health.                 *)
(*                                                                         *)
(* The host thread is sequential, so a command and its reply (exchange)    *)
(* are one action: what runs beside it - the host's cancel flag, the       *)
(* clock, other owners of the scanner - is read by the code only at the    *)
(* checkpoints, each of which begins an action.  The scanner is external:  *)
(* it does what a Good reply says, nothing for a Busy one, and either for  *)
(* an error or a reply that was lost on the way.  `pipe` is the truth the  *)
(* host's `synchronized` flag estimates: units of earlier replies that are *)
(* still to come out of bulk IN.                                           *)
(***************************************************************************)
EXTENDS Naturals, FiniteSets

CONSTANTS
    BandSizes,  \* lengths a band may have, in units of one USB transfer
    Widths,     \* row widths a band may have
    MaxBands,   \* stands for the 4096 bands of one job
    MaxUnits    \* stands for the 256 MiB of one job

ASSUME BandSizesAssumption == BandSizes \subseteq Nat \ {0}
ASSUME WidthsAssumption == Widths \subseteq Nat \ {0}
ASSUME LimitsAssumption == MaxBands \in Nat /\ MaxUnits \in Nat

VARIABLES
    pc,         \* the stage the job is in
    cancel,     \* the caller's AtomicBool
    expired,    \* the 120 s deadline has passed
    sync,       \* `synchronized`
    attempted,  \* `reservation_attempted`
    band,       \* the BandInfo being fetched
    img,        \* read_image_band's locals
    sum,        \* the ScanSummary so far
    error,      \* how the acquisition ended: "none", the host's request, unusable
                \* band metadata ("data"), or anything else
    deferred,   \* `first_metadata_failed_after_deferred_cancel`
    unclean,    \* finish() has collected an error
    outcome, health,
    sinkFailed, \* history: the consumer refused a band
    drained,    \* history: images read to their last byte
    wrote,      \* history: the command this step put on the bus
    beat,       \* history: flips with each command, so that a repeated poll is a step
    owner,      \* scanner: who holds the reservation
    acquiring,  \* scanner: an acquisition is running
    pipe        \* scanner: unread units of earlier replies

device  == <<owner, acquiring, pipe>>
verdict == <<outcome, health>>
flags   == <<attempted, deferred, unclean, sinkFailed>>
env     == <<cancel, expired>>
vars    == <<pc, env, sync, flags, band, img, sum, error, verdict, drained, wrote, beat,
          device>>

Stages == {"Preflight", "Inquiry", "Prepare", "Reserve", "Window", "Start", "Meta",
           "Fetch", "Image", "Deliver", "Checkpoint", "Abort", "Release", "Done"}
Bands  == [len : BandSizes, width : Widths, final : BOOLEAN]
Errors == {"none", "host", "data", "other"}
NoBand == [len |-> 0, width |-> 0, final |-> FALSE]
Replies == {"Good", "Busy", "Error", "Lost"}
Commands == {"INQUIRY", "RESERVE", "SET_WINDOW", "START", "READ", "READ_IMAGE",
             "ABORT", "RELEASE"}

TypeOK ==
    /\ pc \in Stages
    /\ cancel \in BOOLEAN /\ expired \in BOOLEAN /\ sync \in BOOLEAN
    /\ attempted \in BOOLEAN /\ deferred \in BOOLEAN /\ unclean \in BOOLEAN
    /\ sinkFailed \in BOOLEAN
    /\ band \in Bands \cup {NoBand}
    /\ img \in [left : Nat, failure : Errors, drain : {"off", "on", "over"}, empty : 0..2]
    /\ sum \in [bands : Nat, units : Nat, width : Nat]
    /\ error \in Errors
    /\ outcome \in {"Running", "Ok", "Cancelled", "Failed"}
    /\ health \in {"Unset", "Ready", "NeedsReconnect"}
    /\ drained \in Nat
    /\ wrote \in Commands \cup {"-"} /\ beat \in BOOLEAN
    /\ owner \in {"none", "us", "other"} /\ acquiring \in BOOLEAN /\ pipe \in Nat

Init ==
    /\ pc = "Preflight"
    /\ cancel \in BOOLEAN /\ expired = FALSE
    /\ sync = TRUE
    /\ attempted = FALSE /\ deferred = FALSE /\ unclean = FALSE /\ sinkFailed = FALSE
    /\ band = NoBand
    /\ img = [left |-> 0, failure |-> "none", drain |-> "off", empty |-> 0]
    /\ sum = [bands |-> 0, units |-> 0, width |-> 0]
    /\ error = "none"
    /\ outcome = "Running" /\ health = "Unset"
    /\ drained = 0 /\ wrote = "-" /\ beat = FALSE
    /\ owner \in {"none", "other"} /\ acquiring = FALSE /\ pipe = 0

-------------------------------------------------------------------------------
\* checkpoint and checkpoint_deadline: what they return now.
CheckpointDeadline == IF expired THEN "other" ELSE "none"
CheckpointHost     == IF cancel THEN "host" ELSE CheckpointDeadline

\* Seeded fault: any error of the acquisition is reported as the host's cancellation.
BugErrorOutcome(e) == "Cancelled"

ErrorOutcome(e) == IF e = "host" THEN "Cancelled" ELSE "Failed"

\* The job returns.
Ends(o, h) ==
    /\ pc' = "Done"
    /\ outcome' = o
    /\ health' = h

\* The acquisition closure returns an error and control passes to finish(abort).
Fails(e) ==
    /\ pc' = "Abort"
    /\ error' = e

Silent == wrote' = "-" /\ UNCHANGED beat
Quiet  == Silent /\ UNCHANGED device

-------------------------------------------------------------------------------
\* The scanner's side of a command: it performs it, or it does not.
Performs(op) ==
    /\ op = "RESERVE" => owner # "other"
    /\ owner' = CASE op = "RESERVE" -> "us" [] op = "RELEASE" -> "none" [] OTHER -> owner
    /\ acquiring' = CASE op = "START" -> TRUE [] op = "ABORT" -> FALSE [] OTHER -> acquiring

DeviceHandles(op, reply) ==
    \/ reply # "Busy" /\ Performs(op)
    \/ reply # "Good" /\ UNCHANGED <<owner, acquiring>>

\* exchange: after anything but a complete, well-formed and related reply the stream
\* stays unsynchronized, and part of that reply may still be on its way.
Exchange(op, reply) ==
    /\ wrote' = op /\ beat' = ~beat
    /\ sync' = (reply # "Lost")
    /\ reply # "Lost" => pipe = 0 /\ pipe' = 0
    /\ reply = "Lost" => pipe' \in {pipe, pipe + 1}
    /\ DeviceHandles(op, reply)

-------------------------------------------------------------------------------
\* scan_in_session's own checks: the cancel flag and the live pipe limit.
Preflight ==
    /\ pc = "Preflight"
    /\ Quiet
    /\ \/ cancel /\ Ends("Cancelled", "Ready")
       \/ ~cancel /\ Ends("Failed", "Ready")
       \/ ~cancel /\ pc' = "Inquiry" /\ UNCHANGED verdict
    /\ UNCHANGED <<env, sync, flags, band, img, sum, error, drained>>

\* INQUIRY: nothing but a parsed capability reply lets the job go on.
Inquiry ==
    /\ pc = "Inquiry"
    /\ \/ /\ CheckpointHost # "none"
          /\ Ends(ErrorOutcome(CheckpointHost), "Ready")
          /\ Quiet /\ UNCHANGED sync
       \/ /\ CheckpointHost = "none"
          /\ \E reply \in {"Good", "Lost"} : Exchange("INQUIRY", reply)
          /\ \/ sync' /\ pc' = "Prepare" /\ UNCHANGED verdict
             \/ Ends("Failed", "NeedsReconnect")
    /\ UNCHANGED <<env, flags, band, img, sum, error, drained>>

\* prepare() and ScanRequest::command; a panicking prepare is not trusted.
Prepare ==
    /\ pc = "Prepare"
    /\ Quiet
    /\ \/ pc' = "Reserve" /\ UNCHANGED verdict
       \/ \E h \in {"Ready", "NeedsReconnect"} : Ends("Failed", h)
    /\ UNCHANGED <<env, sync, flags, band, img, sum, error, drained>>

\* Seeded fault: a refused RESERVE runs the cleanup.
BugReserve ==
    /\ pc = "Reserve"
    /\ CheckpointHost = "none"
    /\ attempted' = TRUE
    /\ \E reply \in Replies :
         /\ Exchange("RESERVE", reply)
         /\ CASE reply = "Good" -> pc' = "Window" /\ UNCHANGED error
              [] reply = "Busy" -> UNCHANGED <<pc, error>>
              [] OTHER          -> Fails("other")
    /\ UNCHANGED <<env, deferred, unclean, sinkFailed, band, img, sum, verdict, drained>>

\* RESERVE through ready_with_attempt, until it is Good.  The device is ours only
\* then; any other end leaves it alone.
Reserve ==
    /\ pc = "Reserve"
    /\ \/ /\ CheckpointHost # "none"
          /\ Ends(ErrorOutcome(CheckpointHost),
                  IF attempted THEN "NeedsReconnect" ELSE "Ready")
          /\ Quiet /\ UNCHANGED <<sync, attempted>>
       \/ /\ CheckpointHost = "none"
          /\ attempted' = TRUE
          /\ \E reply \in Replies :
               /\ Exchange("RESERVE", reply)
               /\ CASE reply = "Good" -> pc' = "Window" /\ UNCHANGED verdict
                    [] reply = "Busy" -> UNCHANGED <<pc, verdict>>
                    [] OTHER          -> Ends("Failed", "NeedsReconnect")
    /\ UNCHANGED <<env, deferred, unclean, sinkFailed, band, img, sum, error, drained>>

\* SET_WINDOW is sent once; a Busy reply is as good as a Good one.
Window ==
    /\ pc = "Window"
    /\ \/ /\ CheckpointHost # "none"
          /\ Fails(CheckpointHost)
          /\ Quiet /\ UNCHANGED sync
       \/ /\ CheckpointHost = "none"
          /\ \E reply \in Replies :
               /\ Exchange("SET_WINDOW", reply)
               /\ IF reply \in {"Good", "Busy"}
                  THEN pc' = "Start" /\ UNCHANGED error
                  ELSE Fails("other")
    /\ UNCHANGED <<env, flags, band, img, sum, verdict, drained>>

\* START through ready, which still observes the host's cancel flag.
Start ==
    /\ pc = "Start"
    /\ \/ /\ CheckpointHost # "none"
          /\ Fails(CheckpointHost)
          /\ Quiet /\ UNCHANGED sync
       \/ /\ CheckpointHost = "none"
          /\ \E reply \in Replies :
               /\ Exchange("START", reply)
               /\ CASE reply = "Good" -> pc' = "Meta" /\ UNCHANGED error
                    [] reply = "Busy" -> UNCHANGED <<pc, error>>
                    [] OTHER          -> Fails("other")
    /\ UNCHANGED <<env, flags, band, img, sum, verdict, drained>>

-------------------------------------------------------------------------------
\* READ metadata.  Until the first band has been delivered the wait ignores the
\* host's cancel flag (the deadline still counts), so that the image can be drained.
\* Seeded faults: the first wait observes the cancel flag; it observes nothing at all.
BugMetaCheckpointHost == CheckpointHost
BugMetaCheckpointNone == IF sum.bands = 0 THEN "none" ELSE CheckpointHost

MetaCheckpoint == IF sum.bands = 0 THEN CheckpointDeadline ELSE CheckpointHost

\* Seeded fault: the pending cancellation is not remembered.
BugMetaFails(e) == Fails(e) /\ UNCHANGED deferred

MetaFails(e) ==
    /\ Fails(e)
    /\ deferred' = (sum.bands = 0 /\ cancel)

WithinLimits(b) ==
    /\ sum.bands < MaxBands
    /\ sum.units + b.len <= MaxUnits
    /\ sum.width \in {0, b.width}

Meta ==
    /\ pc = "Meta"
    /\ \/ /\ MetaCheckpoint # "none"
          /\ MetaFails(MetaCheckpoint)
          /\ Quiet /\ UNCHANGED <<sync, band>>
       \/ /\ MetaCheckpoint = "none"
          /\ \/ Exchange("READ", "Busy") /\ UNCHANGED <<pc, error, deferred, band>>
             \/ \E reply \in {"Error", "Lost"} :
                  Exchange("READ", reply) /\ MetaFails("other") /\ UNCHANGED band
             \/ \* BandInfo::parse rejects the reply
                Exchange("READ", "Good") /\ Fails("data") /\ UNCHANGED <<deferred, band>>
             \/ \E b \in Bands :
                  /\ Exchange("READ", "Good")
                  /\ band' = b
                  /\ IF WithinLimits(b) THEN pc' = "Fetch" /\ UNCHANGED error
                                        ELSE Fails("data")
                  /\ UNCHANGED deferred
    /\ UNCHANGED <<env, attempted, unclean, sinkFailed, img, sum, verdict, drained>>

\* Seeded fault: the stream is not marked unsynchronized before READ_IMAGE.
BugFetch ==
    /\ pc = "Fetch"
    /\ wrote' = "READ_IMAGE" /\ beat' = ~beat
    /\ img' = [left |-> band.len, failure |-> "none", drain |-> "off", empty |-> 0]
    /\ \/ pipe' = pipe + band.len /\ pc' = "Image" /\ UNCHANGED error
       \/ pipe' \in {pipe, pipe + band.len} /\ Fails("other")
    /\ UNCHANGED <<env, sync, flags, band, sum, verdict, drained, owner, acquiring>>

\* READ_IMAGE is written and answered by exactly band.len units.
Fetch ==
    /\ pc = "Fetch"
    /\ wrote' = "READ_IMAGE" /\ beat' = ~beat
    /\ sync' = FALSE
    /\ img' = [left |-> band.len, failure |-> "none", drain |-> "off", empty |-> 0]
    /\ \/ pipe' = pipe + band.len /\ pc' = "Image" /\ UNCHANGED error
       \/ pipe' \in {pipe, pipe + band.len} /\ Fails("other")
    /\ UNCHANGED <<env, flags, band, sum, verdict, drained, owner, acquiring>>

-------------------------------------------------------------------------------
\* One round of read_image_band's loop.  A checkpoint failure does not stop it: the
\* rest of the band is drained, within ten seconds, before the error is returned.
Failing == IF img.failure # "none" THEN img.failure ELSE CheckpointHost
Draining == IF Failing # "none" /\ img.drain = "off" THEN "on" ELSE img.drain

\* The last byte of the last band ends the scanner's acquisition.
ReadsUnits(k) ==
    /\ img' = [img EXCEPT !.left = @ - k, !.failure = Failing, !.drain = Draining]
    /\ pipe' = pipe - k
    /\ acquiring' = (acquiring /\ ~(band.final /\ k = img.left))
    /\ UNCHANGED <<pc, error, owner>>

\* A transfer without data is tolerated once, as a failure of its own.
ReadsNothing ==
    /\ img' = [img EXCEPT !.failure = IF Failing = "none" THEN "other" ELSE Failing,
                          !.drain = Draining, !.empty = @ + 1]
    /\ IF img'.empty >= 2 THEN Fails("other") ELSE UNCHANGED <<pc, error>>
    /\ UNCHANGED device

\* A USB error, or more data than the band has left: what was consumed is unknown.
ReadBreaks ==
    /\ Fails("other")
    /\ pipe' \in 0..pipe
    /\ UNCHANGED <<img, owner, acquiring>>

ImageRead ==
    /\ pc = "Image" /\ img.left > 0
    /\ Silent
    /\ \/ Draining = "over" /\ Fails("other") /\ UNCHANGED <<img, device>>
       \/ Draining # "over" /\ \E k \in 1..img.left : ReadsUnits(k)
       \/ Draining # "over" /\ (ReadsNothing \/ ReadBreaks)
    /\ UNCHANGED <<env, sync, flags, band, sum, verdict, drained>>

\* The band is complete: the stream is at a boundary again, whatever happened.
ImageDone ==
    /\ pc = "Image" /\ img.left = 0
    /\ sync' = TRUE
    /\ drained' = drained + 1
    /\ IF Failing # "none" THEN Fails(Failing) ELSE pc' = "Deliver" /\ UNCHANGED error
    /\ Quiet
    /\ UNCHANGED <<env, flags, band, img, sum, verdict>>

\* Seeded fault: the job goes on after the consumer has refused a band.
BugDeliver ==
    /\ pc = "Deliver"
    /\ \/ sinkFailed' = TRUE /\ UNCHANGED sum
       \/ /\ sum' = [bands |-> sum.bands + 1, units |-> sum.units + band.len,
                     width |-> band.width]
          /\ UNCHANGED sinkFailed
    /\ pc' = "Checkpoint"
    /\ Quiet
    /\ UNCHANGED <<env, sync, attempted, deferred, unclean, band, img, error, verdict, drained>>

\* decode, then the consumer behind catch_unwind; the summary grows only on success.
Deliver ==
    /\ pc = "Deliver"
    /\ \/ Fails("other") /\ sinkFailed' \in BOOLEAN /\ UNCHANGED sum
       \/ /\ sum' = [bands |-> sum.bands + 1, units |-> sum.units + band.len,
                     width |-> band.width]
          /\ pc' = "Checkpoint"
          /\ UNCHANGED <<error, sinkFailed>>
    /\ Quiet
    /\ UNCHANGED <<env, sync, attempted, deferred, unclean, band, img, verdict, drained>>

\* Seeded fault: the band limit ends the image as if it were the final band.
BugAfterConsumer ==
    /\ pc = "Checkpoint"
    /\ CASE CheckpointHost # "none" -> Fails(CheckpointHost)
         [] CheckpointHost = "none" /\ (band.final \/ sum.bands = MaxBands) ->
                pc' = "Release" /\ UNCHANGED error
         [] OTHER -> pc' = "Meta" /\ UNCHANGED error
    /\ Quiet
    /\ UNCHANGED <<env, sync, flags, band, img, sum, verdict, drained>>

AfterConsumer ==
    /\ pc = "Checkpoint"
    /\ CASE CheckpointHost # "none" -> Fails(CheckpointHost)
         [] CheckpointHost = "none" /\ band.final -> pc' = "Release" /\ UNCHANGED error
         [] OTHER -> pc' = "Meta" /\ UNCHANGED error
    /\ Quiet
    /\ UNCHANGED <<env, sync, flags, band, img, sum, verdict, drained>>

-------------------------------------------------------------------------------
\* finish(abort): nothing is sent on an uncertain stream; otherwise ABORT (after an
\* error) and RELEASE, each of which must be answered Good.
CleanupSkipped ==
    /\ pc \in {"Abort", "Release"} /\ ~sync
    /\ Ends("Failed", "NeedsReconnect")
    /\ Quiet
    /\ UNCHANGED <<env, sync, flags, band, img, sum, error, drained>>

Abort ==
    /\ pc = "Abort" /\ sync
    /\ \E reply \in Replies :
         /\ Exchange("ABORT", reply)
         /\ unclean' = (reply # "Good")
    /\ pc' = "Release"
    /\ UNCHANGED <<env, attempted, deferred, sinkFailed, band, img, sum, error, verdict, drained>>

\* Seeded fault: only the last cleanup command decides about the session.
BugRelease ==
    /\ pc = "Release" /\ sync
    /\ \E reply \in Replies :
         /\ Exchange("RELEASE", reply)
         /\ IF reply = "Good"
            THEN Ends(IF error = "none" THEN "Ok" ELSE ErrorOutcome(error),
                      IF deferred THEN "NeedsReconnect" ELSE "Ready")
            ELSE Ends("Failed", "NeedsReconnect")
    /\ UNCHANGED <<env, flags, band, img, sum, error, drained>>

Release ==
    /\ pc = "Release" /\ sync
    /\ \E reply \in Replies :
         /\ Exchange("RELEASE", reply)
         /\ IF reply = "Good" /\ ~unclean
            THEN Ends(IF error = "none" THEN "Ok" ELSE ErrorOutcome(error),
                      IF deferred THEN "NeedsReconnect" ELSE "Ready")
            ELSE Ends("Failed", "NeedsReconnect")
    /\ UNCHANGED <<env, flags, band, img, sum, error, drained>>

HostStep ==
    \/ Preflight \/ Inquiry \/ Prepare \/ Reserve \/ Window \/ Start
    \/ Meta \/ Fetch \/ ImageRead \/ ImageDone \/ Deliver \/ AfterConsumer
    \/ CleanupSkipped \/ Abort \/ Release

-------------------------------------------------------------------------------
\* What happens beside the job.
Unwatched == <<pc, sync, flags, band, sum, error, verdict, drained, acquiring, pipe>>

HostCancels ==
    /\ pc # "Done" /\ ~cancel
    /\ cancel' = TRUE /\ Silent
    /\ UNCHANGED <<Unwatched, expired, img, owner>>

DeadlinePasses ==
    /\ pc # "Done" /\ ~expired
    /\ expired' = TRUE /\ Silent
    /\ UNCHANGED <<Unwatched, cancel, img, owner>>

DrainDeadlinePasses ==
    /\ img.drain = "on"
    /\ img' = [img EXCEPT !.drain = "over"] /\ Silent
    /\ UNCHANGED <<Unwatched, env, owner>>

\* Another host or the front panel takes or gives back a free scanner.
OtherOwner ==
    /\ pc # "Done"
    /\ \/ owner = "none" /\ owner' = "other"
       \/ owner = "other" /\ owner' = "none"
    /\ Silent
    /\ UNCHANGED <<Unwatched, env, img>>

Next == HostStep \/ HostCancels \/ DeadlinePasses \/ DrainDeadlinePasses \/ OtherOwner

Spec == Init /\ [][Next]_vars

\* The job's thread runs (every USB call and the consumer return) and time passes;
\* nobody has to cancel and no other owner has to give the scanner back.
Fairness == WF_vars(HostStep) /\ WF_vars(DeadlinePasses) /\ WF_vars(DrainDeadlinePasses)

FairSpec == Spec /\ Fairness

-------------------------------------------------------------------------------
\* PROPERTIES

\* "Ready" is the licence to send the next job over the same session (sti.rs returns
\* the resource on it): then no reply is left in the pipe, the scanner acquires
\* nothing, and our reservation is gone.
ReadyMeansReusable ==
    health = "Ready" => pipe = 0 /\ ~acquiring /\ owner # "us"

\* The synchronized flag never overestimates: when it is up, no byte of an earlier
\* reply is outstanding.
SyncIsSound == sync => pipe = 0

\* No command is ever written while part of an earlier reply may still arrive.
CommandsAtBoundary == [][wrote' # "-" => sync /\ pipe = 0]_vars

\* Everything after RESERVE is sent only while the reservation is ours: the cleanup
\* never aborts or releases another owner's job.
CommandsOnlyByOwner ==
    [][wrote' \in Commands \ {"INQUIRY", "RESERVE"} => owner = "us"]_vars

\* Both, for every command of a job (scan.rs, exchange): a command neither meets the rest
\* of an earlier reply nor reaches into a job of another host.
CommandsAllowed == CommandsAtBoundary /\ CommandsOnlyByOwner

\* Success is a whole image: the final band was drained and accepted like all the
\* others, nothing failed, and the scanner has been released.
SuccessIsComplete ==
    outcome = "Ok" =>
        /\ band.final /\ sum.bands = drained /\ sum.bands > 0
        /\ error = "none" /\ ~sinkFailed /\ owner # "us"

\* The consumer sees each drained image once and in order, and is never called again
\* after the acquisition has failed.
DeliversDrainedBands ==
    [][sum.bands' > sum.bands => /\ drained = sum.bands + 1
                                 /\ error = "none" /\ ~sinkFailed]_vars

\* Once START is confirmed a host cancellation reaches ABORT only through a drained
\* image: aborting while the first metadata is awaited left the scanner reserved.
CancelDrainsFirstImage ==
    [][(/\ pc \in {"Meta", "Fetch", "Image", "Deliver", "Checkpoint"}
        /\ pc' = "Abort" /\ error' = "host") => drained' > 0]_vars

\* A cancellation that finds the job waiting for its first metadata ends in a drained
\* image or in a session that is not reused, even if ABORT and RELEASE are answered
\* Good; metadata that arrives but is unusable is the exception the code makes.
CancelledFirstWait ==
    (pc = "Meta" /\ sum.bands = 0 /\ cancel)
        ~> (drained > 0 \/ error = "data" \/ health = "NeedsReconnect")

\* ENG.md:59 makes no exception: once the cancellation is pending and the wait for the
\* first metadata ends in an error, cleanup replies do not make the session reusable.
CancelledFirstBandNotReused ==
    (pc = "Meta" /\ sum.bands = 0 /\ cancel)
        ~> (drained > 0 \/ health = "NeedsReconnect")

\* Every job ends, whatever the scanner answers and whoever holds it: Busy waits stop
\* at the deadline, drains at theirs, and empty reads are counted.
JobReturns == <>(pc = "Done")

\* The job keeps the contract its callers are written against.
Contract == INSTANCE ScanContract WITH delivered <- sum.bands

ImplementsContract == Contract!JobSpec
===============================================================================
