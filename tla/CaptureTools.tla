----------------------------- MODULE CaptureTools -----------------------------
(***************************************************************************)
(* examples/capture_scan.rs, examples/scan_stability.rs and the entry they *)
(* use, scan_with_profile of scan.rs.  Both tools leave a directory behind *)
(* that somebody judges a scanner by: nothing may look complete that is    *)
(* not.  USB is UsbTransport, the job any that keeps ScanContract, the BMP *)
(* any that keeps BmpContract; every file operation may fail.              *)
(***************************************************************************)
EXTENDS UsbTransport, ScanContract, BmpContract, ScanWire

CONSTANTS Count,      \* runs of a stability check
          MaxBands,   \* bands of one job
          Replies,    \* capability replies, framed or not
          Bands       \* bands on the wire: width, rows, mode, order, wire

ASSUME CountAssumption == Count \in Nat \ {0}
ASSUME MaxBandsAssumption == MaxBands \in Nat
\* A band comes to a sink only with the bytes that its description asks for.
ASSUME BandsAssumption ==
    \A band \in Bands :
        /\ band.width \in Nat \ {0} /\ band.rows \in Nat \ {0} /\ band.mode \in {"Gray", "Rgb"}
        /\ band.order \in Nat /\ Len(band.wire) \in Nat /\ Len(band.wire) >= Pixels(band)

VARIABLES
    capAt,      \* where capture() stands
    tool,       \* "capture" or "stability"
    option,     \* "none", "afterBand", "afterMs"; "bad" for arguments that do not parse
    dir,        \* the directory: "none", "ours", "theirs"
    log,        \* evidence.txt or diagnostics.log: "none", "open", "incomplete", "complete"
    timer,      \* "off", "armed", "fired", "joined"
    reply,      \* the INQUIRY reply of this job
    counted,    \* bands the sink has counted
    raster,     \* bands in pixels.partial
    copied,     \* the raster has been copied behind an image header
    successes,  \* runs that were logged as successes
    mismatch,   \* history: verify_band refused a decoded band
    marker,     \* complete.txt: "none", "created", "written"
    capExit     \* exit code, 99 while it runs

files   == <<log, counted, raster, copied, successes, marker>>
capVars == <<capAt, tool, option, dir, files, timer, reply, mismatch, capExit, jobVars, encoder>>

CapStages == {"idle", "directory", "log", "prepare", "start", "opening", "limit", "inquiry", "job",
              "band", "accept", "drop", "dropping", "returned", "finish", "copy", "report",
              "marker", "fails", "exit"}

CapTypeOK ==
    /\ capAt \in CapStages /\ tool \in {"capture", "stability"}
    /\ option \in {"none", "afterBand", "afterMs", "bad"}
    /\ dir \in {"none", "ours", "theirs"}
    /\ log \in {"none", "open", "incomplete", "complete"}
    /\ timer \in {"off", "armed", "fired", "joined"}
    /\ counted \in Nat /\ raster \in Nat /\ successes \in 0..Count /\ copied \in BOOLEAN
    /\ mismatch \in BOOLEAN /\ marker \in {"none", "created", "written"}
    /\ capExit \in {0, 1, 99}

CapInit ==
    /\ JobInit /\ cancel = FALSE /\ BmpInit
    /\ capAt = "idle" /\ tool \in {"capture", "stability"}
    /\ option \in {"none", "afterBand", "afterMs", "bad"}
    /\ tool = "stability" => option \in {"none", "bad"}
    /\ dir \in {"none", "theirs"} /\ log = "none" /\ timer = "off"
    /\ reply \in Replies
    /\ counted = 0 /\ raster = 0 /\ copied = FALSE /\ successes = 0
    /\ mismatch = FALSE /\ marker = "none" /\ capExit = 99

CapGoes(from, to) == capAt = from /\ capAt' = to /\ UNCHANGED capExit

CapExits(from, code) == capAt = from /\ capAt' = "exit" /\ capExit' = code

\* Each of them may fail; an error inside the closure is logged, one before it is not.
OrFails(from, to) == CapGoes(from, to) \/ CapGoes(from, "fails")

Still(v) == UNCHANGED <<tool, option, reply, mismatch, v>>

-------------------------------------------------------------------------------
ParsesSettings ==
    /\ \/ option = "bad" /\ CapExits("idle", 1)
       \/ option # "bad" /\ CapGoes("idle", "directory")
    /\ Still(<<usbVars, jobVars, encoder, dir, files, timer>>) /\ Unlooked

\* Seeded fault: a directory that exists is used.
BugMakesDirectory ==
    /\ CapGoes("directory", "log")
    /\ dir' = IF dir = "none" THEN "ours" ELSE dir
    /\ Still(<<usbVars, jobVars, encoder, files, timer>>) /\ Unlooked

\* create_dir is the one operation that decides who owns the name.
MakesDirectory ==
    /\ \/ CapExits("directory", 1) /\ UNCHANGED dir
       \/ dir = "none" /\ CapGoes("directory", "log") /\ dir' = "ours"
    /\ Still(<<usbVars, jobVars, encoder, files, timer>>) /\ Unlooked

\* Another program may make it first.
OtherTakesDirectory ==
    /\ capAt \in {"idle", "directory"} /\ dir = "none" /\ dir' = "theirs"
    /\ Still(<<usbVars, jobVars, encoder, files, timer, capAt, capExit>>) /\ Unlooked

OpensLog ==
    /\ \/ CapExits("log", 1) /\ UNCHANGED log
       \/ CapGoes("log", "prepare") /\ log' = "open"
    /\ Still(<<usbVars, jobVars, encoder, dir, counted, raster, copied, successes, marker, timer>>) /\ Unlooked

\* The header of the log; for a capture also the files and the encoder.
PreparesFiles ==
    /\ OrFails("prepare", "start")
    /\ Still(<<usbVars, jobVars, encoder, dir, files, timer>>) /\ Unlooked

-------------------------------------------------------------------------------
\* One job.  Nothing of an earlier run is left: cancel flag, counters, session.
StartsJob ==
    /\ CapGoes("start", "opening")
    /\ timer' = IF option = "afterMs" THEN "armed" ELSE "off"
    /\ counted' = 0
    /\ cancel' = FALSE /\ delivered' = 0 /\ sinkFailed' = FALSE
    /\ outcome' = "Running" /\ health' = "Unset"
    /\ usbAt' = "idle" /\ want' = "auto" /\ why' = "None"
    /\ listed' = {} /\ active' = {} /\ seen' = {} /\ UNCHANGED <<file, usb>>
    /\ Still(<<encoder, dir, log, raster, copied, successes, marker>>) /\ Unlooked

\* scan_with_profile looks at the cancel flag before it opens USB.
OpensUsb ==
    /\ capAt = "opening" /\ usbAt = "idle"
    /\ \/ cancel /\ JobEnds /\ outcome' = "Cancelled" /\ CapGoes("opening", "returned") /\ UNCHANGED usbVars
       \/ ~cancel /\ Opens("auto") /\ UNCHANGED <<capAt, capExit, jobVars>>
    /\ Still(<<encoder, dir, files, timer>>) /\ Unlooked

UsbOpened ==
    /\ capAt = "opening"
    /\ \/ usbAt = "open" /\ CapGoes("opening", "limit") /\ UNCHANGED jobVars
       \/ usbAt = "closed" /\ CapGoes("opening", "returned") /\ JobEnds /\ outcome' = "Failed"
    /\ Still(<<usbVars, encoder, dir, files, timer>>) /\ Unlooked

\* The read buffer must fit the limit of the pipe.
ChecksLimit ==
    /\ \/ CapGoes("limit", "inquiry") /\ UNCHANGED jobVars
       \/ CapGoes("limit", "drop") /\ JobEnds /\ outcome' = "Failed"
    /\ Still(<<usbVars, encoder, dir, files, timer>>) /\ Unlooked

\* prepare: the reply is recorded, parsed and made the request of the whole bed.
Prepared ==
    /\ Parses(reply)
    /\ \E mode \in {"Gray", "Rgb"}, dpi \in Encodable :
          /\ Supported(FullBed(reply, mode, dpi), reply)
          /\ Region(FullBed(reply, mode, dpi), reply)

PreparesJob ==
    /\ \/ Prepared /\ CapGoes("inquiry", "job") /\ UNCHANGED jobVars
       \/ CapGoes("inquiry", "drop") /\ JobEnds /\ outcome' # "Ok"
    /\ Still(<<usbVars, encoder, dir, files, timer>>) /\ Unlooked

\* The sink of the capture: the encoder first, then the count ...
PushesBand ==
    /\ tool = "capture" /\ outcome = "Running" /\ ~sinkFailed /\ delivered < MaxBands
    /\ \/ /\ CapGoes("job", "band")
          /\ BmpAppend(1) /\ counted' = counted + 1 /\ UNCHANGED jobVars
       \/ CapGoes("job", "job") /\ BmpRefuse /\ JobDelivers /\ sinkFailed' /\ UNCHANGED counted
    /\ Still(<<usbVars, dir, log, raster, copied, successes, marker, timer>>) /\ Unlooked

\* ... then the band file, the raster and the log, ...
StoresBand ==
    /\ \/ CapGoes("band", "accept") /\ raster' = raster + 1 /\ UNCHANGED jobVars
       \/ CapGoes("band", "job") /\ raster' \in {raster, raster + 1} /\ JobDelivers /\ sinkFailed'
    /\ Still(<<usbVars, encoder, dir, log, counted, copied, successes, marker, timer>>) /\ Unlooked

\* ... and last, if asked to, the cancel flag.
AcceptsBand ==
    /\ capAt = "accept"
    /\ \/ option = "afterBand" /\ ~cancel /\ JobCancel /\ CapGoes("accept", "accept")
       \/ /\ option # "afterBand" \/ cancel
          /\ JobDelivers /\ ~sinkFailed' /\ CapGoes("accept", "job")
    /\ Still(<<usbVars, encoder, dir, files, timer>>) /\ Unlooked

\* The sink of the stability check: the pixels against the wire, the counts, the log.
VerifiesBand(band) ==
    /\ tool = "stability" /\ outcome = "Running" /\ ~sinkFailed /\ delivered < MaxBands
    /\ band.order <= 1
    /\ CapGoes("job", "job")
    /\ JobDelivers
    /\ IF Verified(band, band.mode, Decode(band))
       THEN counted' = counted + 1 /\ UNCHANGED mismatch
       ELSE sinkFailed' /\ mismatch' = TRUE /\ UNCHANGED counted
    /\ UNCHANGED <<tool, option, reply, usbVars, encoder, dir, log, raster, copied, successes, marker, timer>>
    /\ Unlooked

JobReturns ==
    /\ JobEnds /\ CapGoes("job", "drop")
    /\ Still(<<usbVars, encoder, dir, files, timer>>) /\ Unlooked

\* The session goes out of scope before the result is looked at.
Drops ==
    /\ capAt = "drop"
    /\ CapGoes("drop", "dropping") /\ DropsSession
    /\ Still(<<jobVars, encoder, dir, files, timer>>)

Dropped ==
    /\ usbAt = "closed" /\ CapGoes("dropping", "returned")
    /\ Still(<<usbVars, jobVars, encoder, dir, files, timer>>) /\ Unlooked

TimerFires ==
    /\ timer = "armed" /\ timer' = "fired"
    /\ JobCancel
    /\ Still(<<usbVars, encoder, dir, files, capAt, capExit>>) /\ Unlooked

-------------------------------------------------------------------------------
\* Seeded fault: a timer that fired as the job returned is not looked at.
BugSettlesCapture ==
    /\ tool = "capture" /\ capAt = "returned"
    /\ timer' = IF timer = "off" THEN "off" ELSE "joined"
    /\ IF outcome = "Ok" THEN CapGoes("returned", "finish") ELSE CapGoes("returned", "fails")
    /\ Still(<<usbVars, jobVars, encoder, dir, files>>) /\ Unlooked

\* run_with_timer joins its timer, and a cancellation it caused takes the success away.
SettlesCapture ==
    /\ tool = "capture" /\ capAt = "returned"
    /\ timer' = IF timer = "off" THEN "off" ELSE "joined"
    /\ IF outcome = "Ok" /\ ~(option = "afterMs" /\ cancel)
       THEN CapGoes("returned", "finish") ELSE CapGoes("returned", "fails")
    /\ Still(<<usbVars, jobVars, encoder, dir, files>>) /\ Unlooked

FinishesBmp ==
    /\ \/ CapGoes("finish", "copy") /\ BmpCommit
       \/ CapGoes("finish", "fails") /\ (BmpCommit \/ UNCHANGED encoder)
    /\ Still(<<usbVars, jobVars, dir, files, timer>>) /\ Unlooked

\* PGM or PPM from the raster, whose length must be that of the summary.
CopiesRaster ==
    /\ \/ CapGoes("copy", "report") /\ raster = delivered /\ copied' = TRUE
       \/ CapGoes("copy", "fails") /\ copied' = FALSE
    /\ Still(<<usbVars, jobVars, encoder, dir, log, counted, raster, successes, marker, timer>>) /\ Unlooked

\* Seeded fault: a failed run of the check is logged and the next one started.
BugSettlesRun ==
    /\ tool = "stability" /\ capAt = "returned"
    /\ IF outcome = "Ok" /\ counted = delivered
       THEN \/ /\ successes' = successes + 1
               /\ CapGoes("returned", IF successes' = Count THEN "report" ELSE "start")
            \/ CapGoes("returned", "fails") /\ UNCHANGED successes
       ELSE successes' = successes + 1 /\ CapGoes("returned", IF successes' = Count THEN "report" ELSE "start")
    /\ Still(<<usbVars, jobVars, encoder, dir, log, counted, raster, copied, marker, timer>>) /\ Unlooked

\* One run of the check: its profile is logged whatever happened; then the summary must
\* say what the sink counted, and the success be logged.  The first failure ends it all.
SettlesRun ==
    /\ tool = "stability" /\ capAt = "returned"
    /\ \/ CapGoes("returned", "fails") /\ UNCHANGED successes
       \/ /\ outcome = "Ok" /\ counted = delivered
          /\ successes' = successes + 1
          /\ CapGoes("returned", IF successes' = Count THEN "report" ELSE "start")
    /\ Still(<<usbVars, jobVars, encoder, dir, log, counted, raster, copied, marker, timer>>) /\ Unlooked

ReportsComplete ==
    /\ OrFails("report", "marker")
    /\ log' \in (IF tool = "capture" THEN {"complete"} ELSE {log})
    /\ Still(<<usbVars, jobVars, encoder, dir, counted, raster, copied, successes, marker, timer>>) /\ Unlooked

\* complete.txt is made, written and synced, and only then is the tool done.
WritesMarker ==
    /\ \/ CapGoes("marker", "marker") /\ marker = "none" /\ marker' = "created"
       \/ CapExits("marker", 0) /\ marker = "created" /\ marker' = "written"
       \/ CapGoes("marker", "fails") /\ UNCHANGED marker
    /\ Still(<<usbVars, jobVars, encoder, dir, log, counted, raster, copied, successes, timer>>) /\ Unlooked

\* A last line of the log, if it can still be written.
LogsFailure ==
    /\ CapExits("fails", 1)
    /\ log' \in {log, "incomplete"}
    /\ Still(<<usbVars, jobVars, encoder, dir, counted, raster, copied, successes, marker, timer>>) /\ Unlooked

CapRuns ==
    \/ ParsesSettings \/ MakesDirectory \/ OpensLog \/ PreparesFiles
    \/ StartsJob \/ OpensUsb \/ UsbOpened \/ ChecksLimit \/ PreparesJob
    \/ PushesBand \/ StoresBand \/ AcceptsBand \/ (\E band \in Bands : VerifiesBand(band))
    \/ JobReturns \/ Drops \/ Dropped \/ SettlesCapture \/ FinishesBmp \/ CopiesRaster
    \/ SettlesRun \/ ReportsComplete \/ WritesMarker \/ LogsFailure
    \/ capAt \in {"opening", "dropping"} /\ UsbRuns /\ UNCHANGED capVars

CapEnvironment == OtherTakesDirectory \/ TimerFires
===============================================================================
