----------------------------- MODULE UsbPrograms -----------------------------
(***************************************************************************)
(* The programs that look for the scanner on the USB bus, each run alone   *)
(* against a bus that may change between any two of its calls: the doctor  *)
(* and inquiry commands, the WinUSB setup, the two capture tools, and the  *)
(* driver opening its session for a port.                                  *)
(***************************************************************************)
EXTENDS Discovery, WinusbSetup, CaptureTools

Programs == {"doctor", "inquiry", "setup", "tools", "driver"}

VARIABLES program,  \* the one that runs
          askAt,    \* where an inquiry, or the driver's open_scanner, stands
          askExit   \* its result: 99 while it runs

vars == <<busVars, usbVars, docVars, setupVars, capVars, program, askAt, askExit>>

AskStages == {"start", "opening", "write", "read", "drop", "dropping", "exit"}

TypeOK ==
    /\ node \in [Nodes -> NodeStates] /\ quiet \in BOOLEAN
    /\ UsbTypeOK /\ DocTypeOK /\ SetupTypeOK /\ CapTypeOK
    /\ program \in Programs /\ askAt \in AskStages /\ askExit \in {0, 1, 99}

\* A program that does not run keeps one initial state.
Resting(name, init, state, first) == init /\ (program # name => state = first)

Init ==
    /\ BusInit /\ UsbInit /\ DocInit /\ program \in Programs
    /\ Resting("setup", SetupInit, expected, NoNode)
    /\ Resting("tools", CapInit, <<tool, option, dir, reply>>,
               <<"capture", "none", "none", CHOOSE r \in Replies : TRUE>>)
    /\ askAt = "start" /\ askExit = 99

-------------------------------------------------------------------------------
\* usb::inquiry with its caller, and open_scanner of the STI object, share their stages.
AskGoes(from, to) == askAt = from /\ askAt' = to /\ UNCHANGED askExit

AskEnds(from, code) == askAt = from /\ askAt' = "exit" /\ askExit' = code

\* open_scanner: AUTO leaves the choice to the driver, anything else is a path.
Wanted == IF program = "driver" THEN Nodes \cup {"auto", "malformed"} ELSE {"auto"}

AskOpens ==
    /\ AskGoes("start", "opening")
    /\ \E w \in Wanted : Opens(w)
    /\ Unlooked

AskOpened ==
    /\ \/ usbAt = "closed" /\ AskEnds("opening", 1)
       \/ usbAt = "open" /\ program = "inquiry" /\ AskGoes("opening", "write")
       \/ usbAt = "open" /\ program = "driver" /\ AskGoes("opening", "drop")
    /\ UNCHANGED usbVars /\ Unlooked

\* The command is sent once: whole, or the inquiry has failed.
AskWrites ==
    /\ \/ AskGoes("write", "drop")
       \/ \E sent \in 0..4 : WriteWhole(4, sent) /\ AskGoes("write", "read")
    /\ UNCHANGED usbVars /\ Unlooked

\* One bounded read; an empty answer fails the inquiry.
AskReads ==
    /\ askAt = "read" /\ askAt' = "drop"
    /\ \/ UNCHANGED askExit
       \/ \E length \in 1..2 : ReadBounded(1, length) /\ askExit' = 0
    /\ UNCHANGED usbVars /\ Unlooked

AskDrops == AskGoes("drop", "dropping") /\ DropsSession

\* The session is gone before the reply is parsed.
AskAnswers ==
    /\ usbAt = "closed"
    /\ \/ askExit = 0 /\ (\E r \in Replies : Parses(r)) /\ AskEnds("dropping", 0)
       \/ AskEnds("dropping", IF program = "driver" THEN 0 ELSE 1)
    /\ UNCHANGED usbVars /\ Unlooked

AskRuns ==
    \/ AskOpens \/ AskOpened \/ AskWrites \/ AskReads \/ AskDrops \/ AskAnswers
    \/ askAt \in {"opening", "dropping"} /\ UsbRuns /\ UNCHANGED <<askAt, askExit>>

-------------------------------------------------------------------------------
ProgramRuns ==
    /\ \/ program = "doctor" /\ DocRuns /\ UNCHANGED <<usbVars, setupVars, capVars, askAt, askExit>>
       \/ program = "setup" /\ SetupRuns /\ UNCHANGED <<usbVars, docVars, capVars, askAt, askExit>>
       \/ program = "tools" /\ CapRuns /\ UNCHANGED <<docVars, setupVars, askAt, askExit>>
       \/ program \in {"inquiry", "driver"} /\ AskRuns /\ UNCHANGED <<docVars, setupVars, capVars>>
    /\ UNCHANGED program

Environment ==
    /\ \/ BusChanges /\ UNCHANGED <<usbVars, capVars>>
       \/ program = "tools" /\ CapEnvironment
    /\ UNCHANGED <<docVars, setupVars, askAt, askExit, program>>

Next == ProgramRuns \/ Environment

Spec == Init /\ [][Next]_vars

\* A program that can make a step makes one: every call of it returns, with an error if
\* it must, whatever the bus does.
FairSpec == Spec /\ WF_vars(ProgramRuns)

-------------------------------------------------------------------------------
\* PROPERTIES

Scanners == {n \in Present : KindOf[n] = "Scanner"}

Ended ==
    \/ program = "doctor" /\ docAt = "exit"
    \/ program = "setup" /\ setupAt = "exit"
    \/ program = "tools" /\ capAt = "exit"
    \/ program \in {"inquiry", "driver"} /\ askAt = "exit"

\* An open session belongs to the scanner half of the machine (usb.rs, open_with_path): the
\* one whose path was asked for, or, if the choice was left to the driver and the bus did
\* not change meanwhile, the only one registered.
OpensTheOnlyScanner ==
    usbAt = "open" =>
        /\ usb = file /\ KindOf[usb] = "Scanner"
        /\ want \in Nodes => usb = want
        /\ want = "auto" /\ quiet => Registered = {usb}

\* Whatever fails while a session is opened or used, the interface handle never outlives
\* the file it was made from, and a program that has ended owns neither (usb.rs, the
\* destructors and the order of UsbSession's fields).
HandlesUnwound ==
    /\ usb # NoNode => file = usb
    /\ usbAt \in {"idle", "closed"} \/ Ended => file = NoNode /\ usb = NoNode

\* The setup (winusb_setup.rs) comes to DiInstallDevice only for the scanner it was told to
\* install, seen alone in two lists; if nothing changed since the second, that scanner
\* still has no driver and is still the only one.  A precheck that found a driver never
\* installs it.
InstallsOnlyTheNamedUnbound ==
    /\ setupAt = "install" =>
          /\ target = expected /\ target = again /\ KindOf[target] = "Scanner" /\ drivers = "One"
          /\ quiet => Scanners = {target} /\ node[target] = "bare"
    /\ installed => expected # NoNode
    /\ setupExit = 0 /\ ~installed /\ quiet => node[target] = "bare"

\* The doctor's exit code (main.rs) is a fact about one bus, although it was put together
\* from a list and two readings of each node: 0 if there is exactly one scanner and WinUSB
\* has started it, 2 if not, as long as nothing changed since the list.
DoctorTellsTheBus ==
    docExit \in {0, 2} /\ quiet =>
        (docExit = 0 <=> Cardinality(Scanners) = 1 /\ Scanners \subseteq Active)

\* A directory with a completion marker (capture_scan.rs, scan_stability.rs) is evidence of
\* a whole scan: the last job succeeded and left the scanner reusable, its handles are gone,
\* every band that was delivered is in the files, and no timer had asked to stop.  Every
\* run of a stability check succeeded, with pixels that are the bytes of the wire.
CompleteMeansComplete ==
    /\ marker # "none" =>
          /\ outcome = "Ok" /\ health = "Ready" /\ file = NoNode /\ usb = NoNode
          /\ counted = delivered /\ counted > 0
          /\ IF tool = "capture"
             THEN /\ output = "complete" /\ rows = delivered /\ raster = delivered /\ copied
                  /\ option = "afterMs" => ~cancel
             ELSE successes = Count
    /\ capExit = 0 => marker = "written"
    /\ ~mismatch

\* A tool writes, and asks the scanner for anything, only once it has made its directory
\* itself, even if another program takes the name at the last moment.
OnlyItsOwnDirectory ==
    log # "none" \/ marker # "none" \/ raster > 0 \/ (program = "tools" /\ usbAt # "idle") => dir = "ours"

\* Every program ends, although the bus may change for ever under its two-call reads.
ProgramsEnd == <>Ended
===============================================================================
