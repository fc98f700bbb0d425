--------------------------- MODULE UsbProgramsProofs ---------------------------
(***************************************************************************)
(* The safety properties of UsbPrograms for any nodes, states and limits.  *)
(***************************************************************************)
EXTENDS UsbPrograms, FiniteSetTheorems, TLAPS

\* Which handles there are at each call of the transport.
FileInv ==
    /\ usbAt \in {"idle", "list", "details", "file", "closed"} => file = NoNode /\ usb = NoNode
    /\ usbAt \in {"init", "close"} => file # NoNode /\ usb = NoNode
    /\ usbAt \in {"device", "interface", "pipes", "policy", "open", "free"} =>
           file # NoNode /\ usb = file
    /\ usbAt \in UsbStages

Chosen == {"file", "init", "device", "interface", "pipes", "policy", "open"}

\* What the snapshot says, and how it led to the node that is opened.
ChoiceInv ==
    /\ listed \subseteq Nodes /\ active \subseteq listed /\ seen \subseteq listed
    /\ \A n \in seen : IsScanner(n)
    /\ file # NoNode => file \in seen
    /\ usbAt \in Chosen => \E n \in listed : seen = {n} /\ (want = "auto" => listed = {n})
    /\ usbAt \in Chosen /\ want \in Nodes => seen = {want}
    /\ quiet /\ usbAt \in Chosen \cup {"details"} => listed = Registered

\* Which calls of the transport each program is at.
StageInv ==
    /\ program \in Programs
    /\ program # "tools" => capAt = "idle"
    /\ program \in {"doctor", "setup"} => usbAt = "idle"
    /\ program = "tools" =>
          /\ capAt \in CapStages
          /\ capAt \in {"idle", "directory", "log", "prepare"} => usbAt = "idle"
          /\ capAt \in {"limit", "inquiry", "job", "band", "accept", "drop"} => usbAt = "open"
          /\ capAt = "dropping" => usbAt \in {"free", "close", "closed"}
          /\ capAt \in {"start", "returned", "finish", "copy", "report", "marker", "fails", "exit"}
                => usbAt \in {"idle", "closed"}
    /\ program \in {"inquiry", "driver"} =>
          /\ askAt \in AskStages
          /\ askAt = "start" => usbAt = "idle"
          /\ askAt = "opening" => usbAt # "idle"
          /\ askAt \in {"write", "read", "drop"} => usbAt = "open"
          /\ askAt = "dropping" => usbAt \in {"free", "close", "closed"}
          /\ askAt = "exit" => usbAt = "closed"

\* Whose directory it is from the stage that makes it.
DirectoryInv ==
    /\ capAt \in {"idle", "directory"} => log = "none" /\ marker = "none" /\ raster = 0
    /\ capAt \notin {"idle", "directory", "exit"} => dir = "ours"
    /\ OnlyItsOwnDirectory

UsbInv == FileInv /\ ChoiceInv

-------------------------------------------------------------------------------
\* The transport, whoever runs it: each of its steps keeps what it knows.
LEMMA InitEstablishesUsbInv == UsbInit => UsbInv
BY DEF UsbInit, UsbInv, FileInv, ChoiceInv, Chosen, UsbStages

LEMMA RestKeepsUsbInv == UsbInv /\ UNCHANGED <<usbVars, busVars>> => UsbInv'
BY DEF UsbInv, FileInv, ChoiceInv, Chosen, UsbStages, usbVars, busVars, Registered

LEMMA OneChoice == \A S \in SUBSET Nodes : Cardinality(S) = 1 => \E n \in Nodes : S = {n}
BY NodesAssumption, FS_Subset, FS_Singleton

LEMMA OpensKeepsUsbInv ==
  ASSUME UsbInv, NEW w, Opens(w), Unlooked
  PROVE  UsbInv' /\ usbAt = "idle" /\ usbAt' = "list"
BY DEF UsbInv, FileInv, ChoiceInv, Chosen, UsbStages, Opens, UsbGoes, Unlooked, busVars

LEMMA DropsKeepsUsbInv ==
  ASSUME UsbInv, DropsSession
  PROVE  UsbInv' /\ usbAt = "open" /\ usbAt' = "free"
BY DEF UsbInv, FileInv, ChoiceInv, Chosen, UsbStages, DropsSession, DropOrder, Unlooked, busVars

\* A failure leaves the choice alone; it goes to whichever handle is to be released first.
LEMMA FailsKeepsUsbInv ==
  ASSUME UsbInv, NEW error, UsbFails(error),
         usbAt \in {"list", "details", "file", "init", "device", "interface", "pipes", "policy"},
         usbAt # "list" => Unlooked, usbAt = "list" => Looks
  PROVE  UsbInv' /\ usbAt' \in {"free", "close", "closed"}
BY DEF UsbInv, FileInv, ChoiceInv, Chosen, UsbStages, UsbFails, Unlooked, Looks, busVars

LEMMA RunsKeepsUsbInv ==
  ASSUME UsbInv, UsbRuns
  PROVE  /\ UsbInv'
         /\ usbAt \notin {"idle", "open", "closed"} /\ usbAt' # "idle"
         /\ usbAt \in {"free", "close"} => usbAt' \in {"close", "closed"}
<1> DEFINE Goal == /\ UsbInv'
                   /\ usbAt \notin {"idle", "open", "closed"} /\ usbAt' # "idle"
                   /\ usbAt \in {"free", "close"} => usbAt' \in {"close", "closed"}
<1>1. CASE ListsInterfaces
  <2>1. CASE UsbFails("Invalid") \/ UsbFails("System")
    BY <1>1, <2>1, FailsKeepsUsbInv DEF ListsInterfaces
  <2>2. CASE /\ usbAt' = "details" /\ listed' = Registered /\ active' = Active /\ seen' = {}
             /\ UNCHANGED <<want, file, usb, why>>
    BY <1>1, <2>2 DEF ListsInterfaces, UsbInv, FileInv, ChoiceInv, Chosen, UsbStages, Looks,
                      Registered, Active
  <2> QED
    BY <1>1, <2>1, <2>2 DEF ListsInterfaces
<1>2. ASSUME NEW n \in listed, ReadsDetail(n) PROVE Goal
  <2>1. CASE UsbFails("Invalid") \/ UsbFails("System")
    BY <1>2, <2>1, FailsKeepsUsbInv DEF ReadsDetail
  <2>2. CASE /\ IsScanner(n) /\ seen' = seen \cup {n}
             /\ UNCHANGED <<usbAt, want, listed, active, file, usb, why>>
    BY <1>2, <2>2 DEF ReadsDetail, UsbInv, FileInv, ChoiceInv, Chosen, UsbStages, Unlooked,
                      busVars, Registered, IsScanner, Identify
  <2> QED
    BY <1>2, <2>1, <2>2 DEF ReadsDetail
<1>3. CASE ChoosesPath
  <2>1. CASE \E error : UsbFails(error)
    BY <1>3, <2>1, FailsKeepsUsbInv DEF ChoosesPath
  <2>2. CASE /\ Cardinality(Choices) = 1 /\ Choices \subseteq active
             /\ usbAt' = "file" /\ seen' = Choices
             /\ UNCHANGED <<want, listed, active, file, usb, why>>
    <3>1. /\ usbAt = "details" /\ seen = listed /\ UNCHANGED <<node, quiet>>
          /\ listed \subseteq Nodes /\ active \subseteq listed
      BY <1>3 DEF ChoosesPath, Unlooked, busVars, UsbInv, ChoiceInv
    <3>2. Choices \in SUBSET Nodes
      BY <2>2, <3>1
    <3>3. PICK n \in Nodes : Choices = {n}
      BY <2>2, <3>2, OneChoice
    <3>4. n \in listed /\ (want = "auto" => listed = {n}) /\ (want \in Nodes => n = want)
      BY <2>2, <3>1, <3>3, PathsAssumption DEF Choices
    <3>5. FileInv'
      BY <2>2, <3>1 DEF UsbInv, FileInv, UsbStages
    <3>6. ChoiceInv'
      BY <2>2, <3>1, <3>3, <3>4 DEF UsbInv, FileInv, ChoiceInv, Chosen, Registered, IsScanner,
                                    Identify
    <3> QED
      BY <2>2, <3>1, <3>5, <3>6 DEF UsbInv
  <2> QED
    BY <1>3, <2>1, <2>2 DEF ChoosesPath
<1>4. CASE CreatesFile
  <2>1. CASE UsbFails("System")
    BY <1>4, <2>1, FailsKeepsUsbInv DEF CreatesFile
  <2>2. CASE /\ usbAt' = "init" /\ file' \in seen \cap Active
             /\ UNCHANGED <<want, listed, active, seen, usb, why>>
    BY <1>4, <2>2, NoNodeAssumption
       DEF CreatesFile, UsbInv, FileInv, ChoiceInv, Chosen, UsbStages, Unlooked, busVars,
           Registered, IsScanner, Identify
  <2> QED
    BY <1>4, <2>1, <2>2 DEF CreatesFile
<1>5. CASE Initializes
  <2>1. CASE UsbFails("Invalid") \/ UsbFails("System")
    BY <1>5, <2>1, FailsKeepsUsbInv DEF Initializes
  <2>2. CASE usbAt' = "device" /\ usb' = file /\ UNCHANGED <<want, listed, active, seen, file, why>>
    BY <1>5, <2>2 DEF Initializes, UsbInv, FileInv, ChoiceInv, Chosen, UsbStages, Unlooked,
                      busVars, Registered, IsScanner, Identify
  <2> QED
    BY <1>5, <2>1, <2>2 DEF Initializes
<1>6. ASSUME NEW from \in {"device", "interface", "pipes", "policy"},
             NEW to \in {"interface", "pipes", "policy", "open"}, NEW valid, Reads(from, to, valid)
      PROVE  Goal
  <2>1. CASE UsbFails("Invalid") \/ UsbFails("System")
    BY <1>6, <2>1, FailsKeepsUsbInv DEF Reads
  <2>2. CASE usbAt' = to /\ UNCHANGED <<want, listed, active, seen, file, usb, why>>
    BY <1>6, <2>2 DEF Reads, UsbInv, FileInv, ChoiceInv, Chosen, UsbStages, Unlooked,
                      busVars, Registered, IsScanner, Identify
  <2> QED
    BY <1>6, <2>1, <2>2 DEF Reads
<1>7. CASE FreesUsb \/ ClosesFile
  BY <1>7 DEF FreesUsb, ClosesFile, UsbInv, FileInv, ChoiceInv, Chosen, UsbStages, Unlooked, busVars
<1>8. CASE ReadsDevice \/ ReadsInterface \/ ReadsPipes \/ SetsPolicies
  BY <1>6, <1>8 DEF ReadsDevice, ReadsInterface, ReadsPipes, SetsPolicies
<1> QED
  BY <1>1, <1>2, <1>3, <1>4, <1>5, <1>7, <1>8 DEF UsbRuns

-------------------------------------------------------------------------------
\* The programs over the transport.
TransportInv == UsbInv /\ StageInv /\ DirectoryInv

LEMMA InitEstablishesTransportInv == Init => TransportInv
<1> SUFFICES ASSUME Init PROVE TransportInv
  OBVIOUS
<1>1. UsbInv /\ usbAt = "idle"
  BY InitEstablishesUsbInv DEF Init, UsbInit
<1>2. capAt = "idle" /\ log = "none" /\ marker = "none" /\ raster = 0
  BY DEF Init, Resting, CapInit
<1>3. program \in Programs /\ askAt = "start"
  BY DEF Init
<1> QED
  BY <1>1, <1>2, <1>3 DEF TransportInv, StageInv, DirectoryInv, OnlyItsOwnDirectory, CapStages,
                          AskStages

\* An inquiry, or the driver's open.
LEMMA AskKeepsTransportInv ==
  ASSUME TransportInv, program \in {"inquiry", "driver"}, AskRuns, UNCHANGED <<program, capVars>>
  PROVE  TransportInv'
<1> USE DEF TransportInv
<1>1. DirectoryInv'
  BY DEF DirectoryInv, OnlyItsOwnDirectory, capVars, files
<1>2. StageInv /\ capAt' = capAt /\ program' = program
  BY DEF capVars
<1>3. CASE AskOpens
  BY <1>1, <1>2, <1>3, OpensKeepsUsbInv DEF AskOpens, AskGoes, StageInv, AskStages
<1>4. CASE AskOpened \/ AskWrites \/ AskReads \/ AskAnswers
  <2>1. UNCHANGED <<usbVars, busVars>>
    BY <1>4 DEF AskOpened, AskWrites, AskReads, AskAnswers, Unlooked
  <2>2. UsbInv' /\ usbAt' = usbAt
    BY <2>1, RestKeepsUsbInv DEF usbVars
  <2>3. \/ usbAt = "closed" /\ askAt = "opening" /\ askAt' = "exit"
        \/ usbAt = "open" /\ askAt = "opening" /\ askAt' \in {"write", "drop"}
        \/ askAt = "write" /\ askAt' \in {"read", "drop"}
        \/ askAt = "read" /\ askAt' = "drop"
        \/ usbAt = "closed" /\ askAt = "dropping" /\ askAt' = "exit"
    BY <1>4 DEF AskOpened, AskWrites, AskReads, AskAnswers, AskGoes, AskEnds
  <2> QED
    BY <1>1, <1>2, <2>2, <2>3 DEF StageInv, AskStages
<1>5. CASE AskDrops
  BY <1>1, <1>2, <1>5, DropsKeepsUsbInv DEF AskDrops, AskGoes, StageInv, AskStages
<1>6. CASE askAt \in {"opening", "dropping"} /\ UsbRuns /\ UNCHANGED <<askAt, askExit>>
  BY <1>1, <1>2, <1>6, RunsKeepsUsbInv DEF StageInv
<1> QED
  BY <1>3, <1>4, <1>5, <1>6 DEF AskRuns

-------------------------------------------------------------------------------
\* The stages of a capture by what the transport does meanwhile: nothing yet, an open
\* session, nothing any more.
Before  == {"idle", "directory", "log", "prepare"}
Session == {"limit", "inquiry", "job", "band", "accept", "drop"}
After   == {"start", "returned", "finish", "copy", "report", "marker", "fails", "exit"}

CapRests ==
    \/ ParsesSettings \/ MakesDirectory \/ OpensLog \/ PreparesFiles
    \/ ChecksLimit \/ PreparesJob
    \/ PushesBand \/ StoresBand \/ AcceptsBand \/ (\E band \in Bands : VerifiesBand(band))
    \/ JobReturns \/ SettlesCapture \/ FinishesBmp \/ CopiesRaster
    \/ SettlesRun \/ ReportsComplete \/ WritesMarker \/ LogsFailure \/ CapEnvironment

Moves ==
    \/ capAt' = capAt
    \/ capAt \in Before /\ capAt' \in Before \cup After
    \/ capAt \in Session /\ capAt' \in Session
    \/ capAt \in After /\ capAt' \in After

\* A step and the directory: nothing is written before it is ours.
KeepsDirectory ==
    /\ capAt \in {"idle", "directory", "exit"} => UNCHANGED <<log, marker, raster, usbAt>>
    /\ capAt = "exit" => capAt' = "exit"
    /\ capAt' \in {"idle", "directory"} => capAt \in {"idle", "directory"}
    /\ capAt \in {"idle", "directory"} /\ capAt' \notin {"idle", "directory", "exit"} => dir' = "ours"
    /\ dir = "ours" => dir' = "ours"

LEMMA DirectoryKept ==
  ASSUME DirectoryInv, StageInv, KeepsDirectory, UNCHANGED program
  PROVE  DirectoryInv'
<1>1. CASE capAt \in {"idle", "directory"}
  <2>1. log' = "none" /\ marker' = "none" /\ raster' = 0
    BY <1>1 DEF DirectoryInv, KeepsDirectory
  <2>2. program = "tools" => usbAt' = "idle"
    BY <1>1 DEF StageInv, KeepsDirectory
  <2> QED
    BY <1>1, <2>1, <2>2 DEF DirectoryInv, OnlyItsOwnDirectory, KeepsDirectory
<1>2. CASE capAt = "exit"
  BY <1>2 DEF DirectoryInv, OnlyItsOwnDirectory, KeepsDirectory
<1>3. CASE capAt \notin {"idle", "directory", "exit"}
  BY <1>3 DEF DirectoryInv, OnlyItsOwnDirectory, KeepsDirectory
<1> QED
  BY <1>1, <1>2, <1>3

\* The steps of the tools that leave the transport alone.
LEMMA RestsMove ==
  ASSUME CapRests
  PROVE  UNCHANGED <<usbVars, busVars>> /\ Moves /\ KeepsDirectory
<1> USE DEF Moves, KeepsDirectory, Before, Session, After, CapGoes, CapExits, OrFails, Still, Unlooked,
            usbVars, files
<1>1. CASE ParsesSettings \/ MakesDirectory \/ OpensLog \/ PreparesFiles
  BY <1>1 DEF ParsesSettings, MakesDirectory, OpensLog, PreparesFiles
<1>2. CASE ChecksLimit \/ PreparesJob \/ AcceptsBand \/ JobReturns
  BY <1>2 DEF ChecksLimit, PreparesJob, AcceptsBand, JobReturns
<1>3. CASE PushesBand \/ StoresBand
  BY <1>3 DEF PushesBand, StoresBand
<1>4. ASSUME NEW band \in Bands, VerifiesBand(band)
      PROVE  UNCHANGED <<usbVars, busVars>> /\ Moves /\ KeepsDirectory
  BY <1>4 DEF VerifiesBand
<1>5. CASE SettlesCapture \/ FinishesBmp \/ CopiesRaster
  BY <1>5 DEF SettlesCapture, FinishesBmp, CopiesRaster
<1>6. CASE SettlesRun
  BY <1>6 DEF SettlesRun
<1>7. CASE ReportsComplete \/ WritesMarker \/ LogsFailure
  BY <1>7 DEF ReportsComplete, WritesMarker, LogsFailure
<1>8. CASE CapEnvironment
  BY <1>8 DEF CapEnvironment, OtherTakesDirectory, TimerFires
<1> QED
  BY <1>1, <1>2, <1>3, <1>4, <1>5, <1>6, <1>7, <1>8 DEF CapRests

LEMMA CapKeepsTransportInv ==
  ASSUME TransportInv, program = "tools", CapRuns \/ CapEnvironment, UNCHANGED <<program, askAt>>
  PROVE  TransportInv'
<1> USE DEF TransportInv
<1>1. ASSUME KeepsDirectory PROVE DirectoryInv'
  BY <1>1, DirectoryKept
<1>2. CASE CapRests
  <2>1. UNCHANGED <<usbVars, busVars>> /\ Moves /\ KeepsDirectory
    BY <1>2, RestsMove
  <2>2. UsbInv' /\ usbAt' = usbAt
    BY <2>1, RestKeepsUsbInv DEF usbVars
  <2>3. StageInv'
    BY <2>1, <2>2 DEF StageInv, Moves, Before, Session, After, CapStages
  <2> QED
    BY <1>1, <2>1, <2>2, <2>3
<1>3. CASE StartsJob
  <2>1. KeepsDirectory
    BY <1>3 DEF StartsJob, CapGoes, KeepsDirectory, Still
  <2>2. StageInv'
    BY <1>3 DEF StartsJob, CapGoes, StageInv, CapStages
  <2>3. usbAt \in {"idle", "closed"}
    BY <1>3 DEF StartsJob, CapGoes, StageInv
  <2>4. UsbInv'
    BY <1>3, <2>3 DEF StartsJob, Still, Unlooked, busVars, UsbInv, FileInv, ChoiceInv, Chosen, UsbStages
  <2> QED
    BY <1>1, <2>1, <2>2, <2>4
<1>4. CASE OpensUsb
  <2>1. KeepsDirectory
    BY <1>4 DEF OpensUsb, CapGoes, KeepsDirectory, Still, files
  <2>2. CASE cancel
    <3>1. UNCHANGED <<usbVars, busVars>> /\ capAt' = "returned" /\ usbAt = "idle"
      BY <1>4, <2>2 DEF OpensUsb, CapGoes, Unlooked
    <3>2. UsbInv' /\ usbAt' = usbAt
      BY <3>1, RestKeepsUsbInv DEF usbVars
    <3> QED
      BY <1>1, <2>1, <3>1, <3>2 DEF StageInv, CapStages
  <2>3. CASE ~cancel
    <3>1. Opens("auto") /\ Unlooked /\ capAt' = "opening"
      BY <1>4, <2>3 DEF OpensUsb
    <3>2. UsbInv' /\ usbAt' = "list"
      BY <3>1, OpensKeepsUsbInv
    <3> QED
      BY <1>1, <2>1, <3>1, <3>2 DEF StageInv, CapStages
  <2> QED
    BY <2>2, <2>3
<1>5. CASE UsbOpened \/ Dropped
  <2>1. KeepsDirectory
    BY <1>5 DEF UsbOpened, Dropped, CapGoes, KeepsDirectory, Still, files, usbVars
  <2>2. UNCHANGED <<usbVars, busVars>>
    BY <1>5 DEF UsbOpened, Dropped, Still, Unlooked
  <2>3. UsbInv' /\ usbAt' = usbAt
    BY <2>2, RestKeepsUsbInv DEF usbVars
  <2>4. StageInv'
    BY <1>5, <2>3 DEF UsbOpened, Dropped, CapGoes, StageInv, CapStages
  <2> QED
    BY <1>1, <2>1, <2>3, <2>4
<1>6. CASE Drops
  <2>1. KeepsDirectory
    BY <1>6 DEF Drops, CapGoes, KeepsDirectory, Still, files
  <2>2. UsbInv' /\ usbAt' = "free"
    BY <1>6, DropsKeepsUsbInv DEF Drops
  <2>3. StageInv'
    BY <1>6, <2>2 DEF Drops, CapGoes, StageInv, CapStages
  <2> QED
    BY <1>1, <2>1, <2>2, <2>3
<1>7. CASE capAt \in {"opening", "dropping"} /\ UsbRuns /\ UNCHANGED capVars
  <2>1. KeepsDirectory
    BY <1>7 DEF KeepsDirectory, capVars, files
  <2>2. /\ UsbInv' /\ usbAt # "closed"
        /\ usbAt \in {"free", "close"} => usbAt' \in {"close", "closed"}
    BY <1>7, RunsKeepsUsbInv
  <2>3. StageInv'
    BY <1>7, <2>2 DEF StageInv, CapStages, capVars
  <2> QED
    BY <1>1, <2>1, <2>2, <2>3
<1> QED
  BY <1>2, <1>3, <1>4, <1>5, <1>6, <1>7 DEF CapRuns, CapRests

\* A program that leaves the transport alone, and the bus.
LEMMA OthersKeepTransportInv ==
  ASSUME TransportInv, UNCHANGED <<usbVars, capVars, program, askAt>>,
         program \in {"doctor", "setup"} \/ quiet' = FALSE
  PROVE  TransportInv'
<1>1. DirectoryInv'
  BY DEF TransportInv, DirectoryInv, OnlyItsOwnDirectory, capVars, files, usbVars
<1>2. StageInv'
  BY DEF TransportInv, StageInv, capVars, usbVars
<1>3. UsbInv'
  BY DEF TransportInv, UsbInv, FileInv, ChoiceInv, StageInv, Chosen, UsbStages, usbVars, IsScanner, Identify
<1> QED
  BY <1>1, <1>2, <1>3 DEF TransportInv

LEMMA TransportInvariant == Spec => []TransportInv
<1>1. TransportInv /\ [Next]_vars => TransportInv'
  <2> SUFFICES ASSUME TransportInv, [Next]_vars PROVE TransportInv'
    OBVIOUS
  <2>1. CASE ProgramRuns /\ program = "doctor"
    <3>1. UNCHANGED <<usbVars, capVars, program, askAt>>
      BY <2>1 DEF ProgramRuns
    <3> QED
      BY <2>1, <3>1, OthersKeepTransportInv
  <2>2. CASE ProgramRuns /\ program = "setup"
    <3>1. UNCHANGED <<usbVars, capVars, program, askAt>>
      BY <2>2 DEF ProgramRuns
    <3> QED
      BY <2>2, <3>1, OthersKeepTransportInv
  <2>3. CASE ProgramRuns /\ program = "tools"
    <3>1. CapRuns /\ UNCHANGED <<program, askAt>>
      BY <2>3 DEF ProgramRuns
    <3> QED
      BY <2>3, <3>1, CapKeepsTransportInv
  <2>4. CASE ProgramRuns /\ program \in {"inquiry", "driver"}
    <3>1. AskRuns /\ UNCHANGED <<program, capVars>>
      BY <2>4 DEF ProgramRuns
    <3> QED
      BY <2>4, <3>1, AskKeepsTransportInv
  <2>5. CASE Environment
    <3>1. CASE BusChanges /\ UNCHANGED <<usbVars, capVars>>
      BY <2>5, <3>1, OthersKeepTransportInv DEF Environment, BusChanges
    <3>2. CASE program = "tools" /\ CapEnvironment
      BY <2>5, <3>2, CapKeepsTransportInv DEF Environment
    <3> QED
      BY <2>5, <3>1, <3>2 DEF Environment
  <2>6. CASE UNCHANGED vars
    <3>1. UNCHANGED <<usbVars, busVars, program, askAt>> /\ UNCHANGED capVars
      BY <2>6 DEF vars
    <3>2. UsbInv'
      BY <3>1, RestKeepsUsbInv DEF TransportInv
    <3>3. DirectoryInv' /\ StageInv'
      BY <3>1 DEF TransportInv, DirectoryInv, StageInv, OnlyItsOwnDirectory, capVars, files, usbVars
    <3> QED
      BY <3>2, <3>3 DEF TransportInv
  <2>7. ProgramRuns => program \in {"doctor", "setup", "tools", "inquiry", "driver"}
    BY DEF ProgramRuns
  <2> QED
    BY <2>1, <2>2, <2>3, <2>4, <2>5, <2>6, <2>7 DEF Next
<1> QED
  BY <1>1, InitEstablishesTransportInv, PTL DEF Spec

\* Whatever fails and whatever is plugged or unplugged meanwhile, the interface handle never
\* outlives its file, and a program that has ended owns neither (usb.rs).
THEOREM NoHandleOutlivesItsProgram == Spec => []HandlesUnwound
<1>1. TransportInv => HandlesUnwound
  BY NoNodeAssumption
     DEF TransportInv, UsbInv, FileInv, ChoiceInv, StageInv, Programs, HandlesUnwound, Ended, UsbStages
<1> QED
  BY <1>1, TransportInvariant, PTL

\* An open session is with the scanner asked for, or with the only one of a quiet bus
\* (usb.rs, unique_scanner_path and select_matching_scanner_path).
THEOREM OpenedIsTheScanner == Spec => []OpensTheOnlyScanner
<1>1. TransportInv => OpensTheOnlyScanner
  <2> SUFFICES ASSUME TransportInv, usbAt = "open"
               PROVE  /\ usb = file /\ KindOf[usb] = "Scanner"
                      /\ want \in Nodes => usb = want
                      /\ want = "auto" /\ quiet => Registered = {usb}
    BY DEF OpensTheOnlyScanner
  <2>1. usb = file /\ file # NoNode
    BY DEF TransportInv, UsbInv, FileInv
  <2>2. /\ file \in seen /\ IsScanner(file)
        /\ \E n \in listed : seen = {n} /\ (want = "auto" => listed = {n})
        /\ want \in Nodes => seen = {want}
        /\ quiet => listed = Registered
    BY <2>1 DEF TransportInv, UsbInv, ChoiceInv, Chosen
  <2> QED
    BY <2>1, <2>2 DEF IsScanner, Identify
<1> QED
  BY <1>1, TransportInvariant, PTL

\* No capture tool writes into a directory it did not make (capture_scan.rs and
\* scan_stability.rs, create_dir).
THEOREM EvidenceIsItsOwn == Spec => []OnlyItsOwnDirectory
BY TransportInvariant, PTL DEF TransportInv, DirectoryInv

-------------------------------------------------------------------------------
\* The setup.  Which scanner the two lists showed, by stage.
CheckStages == {"identity", "status", "service", "driver", "infPath"}

TargetInv ==
    /\ round \in {1, 2} /\ unread \subseteq Nodes
    /\ target # NoNode => target \in Nodes /\ IsScanner(target)
    /\ again # NoNode => again \in Nodes /\ IsScanner(again)
    /\ round = 1 => again = NoNode
    /\ round = 2 => target # NoNode
    /\ setupAt = "idle" => round = 1
    /\ setupAt \in {"idle", "present"} /\ round = 1 => target = NoNode
    /\ setupAt = "present" => again = NoNode
    /\ setupAt \in {"name", "candidates"} => round = 1
    /\ setupAt \in CheckStages \cup {"name", "candidates"} => target # NoNode
    /\ setupAt = "candidates" => expected \in {NoNode, target}
    /\ setupAt \in {"global", "conclude"} => round = 2 /\ expected = NoNode
    /\ setupAt \in {"detail", "install"} => round = 2
    /\ setupAt \in {"present", "enumerate", "detail", "install"} /\ round = 2 => expected # NoNode
    /\ setupAt # "exit" /\ round = 2 /\ expected # NoNode => drivers = "One" /\ expected = target
    /\ setupAt \in CheckStages \cup {"detail", "install"} /\ round = 2 /\ expected # NoNode => again = target
    /\ installed => expected # NoNode
    /\ setupAt # "exit" => ~installed /\ setupExit = 99

\* What the last list and the last readings say of a bus that has not changed since.
FreshInv ==
    quiet =>
        /\ setupAt = "enumerate" =>
              /\ unread \subseteq Present
              /\ \A n \in Present \ unread : IsScanner(n) => n = Found
              /\ Found # NoNode => Found \in Present \ unread
        /\ setupAt \in CheckStages \cup {"detail", "install"} /\ round = 2 /\ expected # NoNode =>
              Scanners = {target}
        /\ setupAt \in {"service", "driver", "infPath", "install", "conclude"} /\ round = 2 =>
              node[target] = "bare"
        /\ setupExit = 0 /\ ~installed => node[target] = "bare"

SetupInv ==
    /\ program # "setup" => setupAt = "idle"
    /\ TargetInv /\ FreshInv

LEMMA InitEstablishesSetupInv == Init => SetupInv
BY DEF Init, Resting, SetupInit, SetupInv, TargetInv, FreshInv, CheckStages

\* The five readings of verify_unbound in their order, and what follows the last.
LEMMA ChecksInOrder ==
  \A i \in DOMAIN Checks :
     \/ Checks[i] = "identity" /\ NextCheck(i) = "status"
     \/ Checks[i] = "status"   /\ NextCheck(i) = "service"
     \/ Checks[i] = "service"  /\ NextCheck(i) = "driver"
     \/ Checks[i] = "driver"   /\ NextCheck(i) = "infPath"
     \/ Checks[i] = "infPath"  /\ NextCheck(i) = AfterChecks
<1>1. DOMAIN Checks = 1..5 /\ Len(Checks) = 5
  BY DEF Checks
<1>2. /\ Checks[1] = "identity" /\ Checks[2] = "status" /\ Checks[3] = "service"
      /\ Checks[4] = "driver" /\ Checks[5] = "infPath"
  BY DEF Checks
<1> QED
  BY <1>1, <1>2 DEF NextCheck

LEMMA FirstCheck == Checks[1] = "identity"
BY DEF Checks

LEMMA SetupKeepsSetupInv ==
  ASSUME SetupInv, SetupRuns, program = "setup", UNCHANGED program
  PROVE  SetupInv'
<1> DEFINE Goal == TargetInv' /\ FreshInv'
<1> SUFFICES Goal
  BY DEF SetupInv, TargetInv
<1> USE DEF SetupGoes, SetupExits, Unlooked, busVars, Looks, Found, IsScanner, Identify, Present, Scanners
<1>1. CASE ParsesArgs
  <2>1. TargetInv'
    BY <1>1 DEF ParsesArgs, SetupInv, TargetInv, CheckStages
  <2>2. FreshInv'
    BY <1>1 DEF ParsesArgs, SetupInv, TargetInv, FreshInv, CheckStages
  <2> QED
    BY <2>1, <2>2
<1>2. CASE ListsPresent
  <2>1. TargetInv'
    BY <1>2 DEF ListsPresent, SetupInv, TargetInv, CheckStages
  <2>2. FreshInv'
    BY <1>2 DEF ListsPresent, SetupInv, TargetInv, FreshInv, CheckStages, Present
  <2> QED
    BY <2>1, <2>2
<1>3. ASSUME NEW n \in unread, Enumerates(n) PROVE Goal
  <2>1. TargetInv'
    BY <1>3, NoNodeAssumption DEF Enumerates, SetupInv, TargetInv, CheckStages
  <2>2. FreshInv'
    BY <1>3, NoNodeAssumption DEF Enumerates, SetupInv, TargetInv, FreshInv, CheckStages, IsScanner, Identify, Present
  <2> QED
    BY <2>1, <2>2
<1>4. CASE IdGrows
  <2>1. TargetInv'
    BY <1>4 DEF IdGrows, SetupInv, TargetInv, CheckStages
  <2>2. FreshInv'
    BY <1>4 DEF IdGrows, SetupInv, TargetInv, FreshInv, CheckStages, IsScanner, Identify, Present
  <2> QED
    BY <2>1, <2>2
<1>5. CASE EndsEnumeration
  <2>1. TargetInv'
    BY <1>5, FirstCheck DEF EndsEnumeration, SetupInv, TargetInv, CheckStages
  <2>2. FreshInv'
    BY <1>5, FirstCheck
       DEF EndsEnumeration, SetupInv, TargetInv, FreshInv, CheckStages, IsScanner, Identify, Present, Scanners
  <2> QED
    BY <2>1, <2>2
<1>6. ASSUME NEW i \in DOMAIN Checks, Verifies(i) PROVE Goal
  <2>1. CASE SetupExits(1)
    <3>1. TargetInv'
      BY <1>6, <2>1 DEF Verifies, SetupInv, TargetInv, CheckStages
    <3>2. FreshInv'
      BY <1>6, <2>1 DEF Verifies, FreshInv, CheckStages
    <3> QED
      BY <3>1, <3>2
  <2>2. CASE Unbound(Checks[i]) /\ SetupGoes(Checks[i], NextCheck(i))
    <3>1. \/ setupAt = "identity" /\ setupAt' = "status"
          \/ setupAt = "status"   /\ setupAt' = "service"
          \/ setupAt = "service"  /\ setupAt' = "driver"
          \/ setupAt = "driver"   /\ setupAt' = "infPath"
          \/ setupAt = "infPath"  /\ setupAt' = AfterChecks
      BY <2>2, ChecksInOrder
    <3>2. UNCHANGED <<node, quiet, expected, round, unread, target, again, drivers, installed, setupExit>>
      BY <1>6, <2>2 DEF Verifies
    <3>3. setupAt = "status" => node[target] = "bare"
      BY <2>2 DEF Unbound, Problem
    <3>4. /\ round = 1 => AfterChecks = "name"
          /\ round # 1 /\ expected # NoNode => AfterChecks = "install"
          /\ round # 1 /\ expected = NoNode => AfterChecks = "conclude"
      BY DEF AfterChecks
    <3>5. TargetInv'
      BY <3>1, <3>2, <3>4 DEF SetupInv, TargetInv, CheckStages
    <3>6. FreshInv'
      BY <3>1, <3>2, <3>3, <3>4 DEF SetupInv, TargetInv, FreshInv, CheckStages
    <3> QED
      BY <3>5, <3>6
  <2> QED
    BY <1>6, <2>1, <2>2 DEF Verifies
<1>7. CASE ComparesName
  <2>1. TargetInv'
    BY <1>7 DEF ComparesName, SetupInv, TargetInv, CheckStages
  <2>2. FreshInv'
    BY <1>7 DEF ComparesName, SetupInv, TargetInv, FreshInv, CheckStages
  <2> QED
    BY <2>1, <2>2
<1>8. CASE SearchesDevice
  <2>1. PICK list \in CandidateLists :
           /\ drivers' = list
           /\ \/ expected = NoNode /\ setupAt' = "global" /\ UNCHANGED setupExit
              \/ expected # NoNode /\ list = "One" /\ setupAt' = "present" /\ UNCHANGED setupExit
              \/ expected # NoNode /\ list # "One" /\ setupAt' = "exit" /\ setupExit' = 1
    BY <1>8 DEF SearchesDevice
  <2>2. \/ expected = NoNode /\ setupAt' = "global" /\ setupExit' = setupExit
        \/ expected # NoNode /\ drivers' = "One" /\ setupAt' = "present" /\ setupExit' = setupExit
        \/ expected # NoNode /\ setupAt' = "exit" /\ setupExit' = 1
    BY <2>1
  <2>3. /\ setupAt = "candidates" /\ round' = 2
        /\ UNCHANGED <<expected, unread, target, again, installed, node, quiet>>
    BY <1>8 DEF SearchesDevice
  <2>4. TargetInv'
    BY <2>2, <2>3 DEF SetupInv, TargetInv, CheckStages
  <2>5. FreshInv'
    BY <2>2, <2>3 DEF SetupInv, TargetInv, FreshInv, CheckStages
  <2> QED
    BY <2>4, <2>5
<1>9. CASE SearchesGlobal
  <2>1. TargetInv'
    BY <1>9, FirstCheck DEF SearchesGlobal, SetupInv, TargetInv, CheckStages
  <2>2. FreshInv'
    BY <1>9, FirstCheck DEF SearchesGlobal, SetupInv, TargetInv, FreshInv, CheckStages
  <2> QED
    BY <2>1, <2>2
<1>10. CASE Concludes
  <2>1. TargetInv'
    BY <1>10 DEF Concludes, SetupInv, TargetInv, CheckStages
  <2>2. FreshInv'
    BY <1>10 DEF Concludes, SetupInv, TargetInv, FreshInv, CheckStages
  <2> QED
    BY <2>1, <2>2
<1>11. CASE ReadsDetailAgain
  <2>1. TargetInv'
    BY <1>11, FirstCheck DEF ReadsDetailAgain, SetupInv, TargetInv, CheckStages
  <2>2. FreshInv'
    BY <1>11, FirstCheck DEF ReadsDetailAgain, SetupInv, TargetInv, FreshInv, CheckStages, Scanners, Present
  <2> QED
    BY <2>1, <2>2
<1>12. CASE Installs
  <2>1. TargetInv'
    BY <1>12 DEF Installs, SetupInv, TargetInv, CheckStages
  <2>2. FreshInv'
    BY <1>12 DEF Installs, FreshInv, CheckStages
  <2> QED
    BY <2>1, <2>2
<1> QED
  BY <1>1, <1>2, <1>3, <1>4, <1>5, <1>6, <1>7, <1>8, <1>9, <1>10, <1>11, <1>12 DEF SetupRuns

LEMMA SetupInvariant == Spec => []SetupInv
<1>1. SetupInv /\ [Next]_vars => SetupInv'
  <2> SUFFICES ASSUME SetupInv, [Next]_vars PROVE SetupInv'
    OBVIOUS
  <2>1. CASE ProgramRuns /\ program = "setup"
    BY <2>1, SetupKeepsSetupInv DEF ProgramRuns
  <2>2. ASSUME UNCHANGED <<setupVars, program>>, quiet' = FALSE \/ setupAt = "idle" \/ UNCHANGED busVars
        PROVE  SetupInv'
    <3>1. TargetInv'
      BY <2>2 DEF SetupInv, TargetInv, setupVars, CheckStages, IsScanner, Identify
    <3>2. FreshInv'
      <4>1. CASE quiet' = FALSE
        BY <4>1 DEF FreshInv
      <4>2. CASE setupAt = "idle"
        BY <2>2, <4>2 DEF SetupInv, TargetInv, FreshInv, setupVars, CheckStages
      <4>3. CASE UNCHANGED busVars
        BY <2>2, <4>3 DEF SetupInv, FreshInv, setupVars, busVars, CheckStages, Present, Scanners, Found
      <4> QED
        BY <2>2, <4>1, <4>2, <4>3
    <3> QED
      BY <2>2, <3>1, <3>2 DEF SetupInv, setupVars
  <2>3. CASE ProgramRuns /\ program # "setup"
    <3>1. UNCHANGED <<setupVars, program>> /\ setupAt = "idle"
      BY <2>3 DEF ProgramRuns, SetupInv
    <3> QED
      BY <2>2, <3>1
  <2>4. CASE Environment
    <3>1. UNCHANGED <<setupVars, program>>
      BY <2>4 DEF Environment
    <3>2. quiet' = FALSE \/ UNCHANGED busVars
      BY <2>4 DEF Environment, BusChanges, CapEnvironment, OtherTakesDirectory, TimerFires, Unlooked
    <3> QED
      BY <2>2, <3>1, <3>2
  <2>5. CASE UNCHANGED vars
    <3>1. UNCHANGED <<setupVars, program>> /\ UNCHANGED busVars
      BY <2>5 DEF vars
    <3> QED
      BY <2>2, <3>1
  <2> QED
    BY <2>1, <2>3, <2>4, <2>5 DEF Next
<1> QED
  BY <1>1, InitEstablishesSetupInv, PTL DEF Spec

\* winusb_setup.rs installs only for the scanner it was told of, still alone and without a
\* driver if nothing changed since it last looked; a precheck installs nothing.
THEOREM OnlyTheNamedIsInstalled == Spec => []InstallsOnlyTheNamedUnbound
<1>1. SetupInv => InstallsOnlyTheNamedUnbound
  BY DEF SetupInv, TargetInv, FreshInv, CheckStages, InstallsOnlyTheNamedUnbound, IsScanner, Identify
<1> QED
  BY <1>1, SetupInvariant, PTL

-------------------------------------------------------------------------------
\* The doctor.  Where it has a node in hand, and what the nodes it has looked at say of a
\* bus that has not changed since the list.
Looking == {"locate", "status", "serviceSize", "service"}

WalkInv ==
    /\ program # "doctor" => docAt = "idle"
    /\ docAt \in {"idle", "listSize", "list"} => DOMAIN found = {} /\ current = NoNode
    /\ docAt = "locate" => current = NoNode
    /\ docAt \in {"status", "serviceSize", "service"} => current \in Nodes
    /\ docAt # "exit" => docExit = 99

ReadInv ==
    quiet =>
        /\ docAt \in Looking =>
              /\ ids \cup DOMAIN found \cup ({current} \ {NoNode}) = {n \in Present : Identify(n) # "Other"}
              /\ \A n \in DOMAIN found : IsScanner(n) => (found[n] = "DriverStarted" <=> n \in Active)
        /\ docAt \in {"serviceSize", "service"} =>
              /\ status.problem = Problem(current)
              /\ status.started <=> Started(current)

DocInv == WalkInv /\ ReadInv /\ DoctorTellsTheBus

LEMMA InitEstablishesDocInv == Init => DocInv
<1> SUFFICES ASSUME Init PROVE DocInv
  OBVIOUS
<1>1. DOMAIN found = {}
  BY DEF Init, DocInit
<1> QED
  BY <1>1 DEF Init, DocInit, DocInv, WalkInv, ReadInv, DoctorTellsTheBus, Looking

\* Only a node that WinUSB has started is read as ready.
LEMMA ReadinessOfQuietBus ==
  ASSUME NEW n \in Nodes, IsScanner(n), status.problem = Problem(n), status.started <=> Started(n)
  PROVE  Readiness(n, ServiceLength(n)) = "DriverStarted" <=> n \in Active
<1>1. CASE node[n] \in {"ready"}
  BY <1>1 DEF Readiness, Active, Problem, Started, ServiceLength, Registered
<1>2. CASE node[n] \in {"bare", "faulty"}
  BY <1>2 DEF Readiness, Active, Problem
<1>3. CASE node[n] = "foreign"
  BY <1>3 DEF Readiness, Active, Problem, Started, ServiceLength, Registered
<1>4. CASE node[n] \notin {"ready", "bare", "faulty", "foreign"}
  BY <1>4 DEF Readiness, Active, Problem, Started
<1> QED
  BY <1>1, <1>2, <1>3, <1>4

LEMMA RecordsKeepsDocInv ==
  ASSUME DocInv, docAt \in {"serviceSize", "service"}, Records(ServiceLength(current)), Unlooked,
         UNCHANGED program
  PROVE  DocInv'
<1>1. /\ docAt' = "locate" /\ current' = NoNode /\ docExit' = docExit /\ ids' = ids
      /\ DOMAIN found' = DOMAIN found \cup {current}
      /\ \A n \in DOMAIN found' :
            found'[n] = IF n = current THEN Readiness(n, ServiceLength(current)) ELSE found[n]
      /\ node' = node /\ quiet' = quiet
  BY DEF Records, Unlooked, busVars
<1>2. docExit = 99 /\ current \in Nodes
  BY DEF DocInv, WalkInv
<1>3. WalkInv' /\ DoctorTellsTheBus'
  BY <1>1, <1>2 DEF DocInv, WalkInv, DoctorTellsTheBus
<1>4. ASSUME quiet PROVE /\ (ids \cup DOMAIN found \cup {current}) = {n \in Present : Identify(n) # "Other"}
                         /\ \A n \in DOMAIN found' : IsScanner(n) => (found'[n] = "DriverStarted" <=> n \in Active)
  <2>1. /\ ids \cup DOMAIN found \cup ({current} \ {NoNode}) = {n \in Present : Identify(n) # "Other"}
        /\ \A n \in DOMAIN found : IsScanner(n) => (found[n] = "DriverStarted" <=> n \in Active)
        /\ status.problem = Problem(current)
        /\ status.started <=> Started(current)
    BY <1>4 DEF DocInv, ReadInv, Looking
  <2>2. IsScanner(current) => (Readiness(current, ServiceLength(current)) = "DriverStarted" <=> current \in Active)
    BY <1>2, <2>1, ReadinessOfQuietBus
  <2> QED
    BY <1>1, <1>2, <2>1, <2>2, NoNodeAssumption
<1>5. ReadInv'
  BY <1>1, <1>4 DEF ReadInv, Looking, Present, Active, IsScanner, Identify
<1> QED
  BY <1>3, <1>5 DEF DocInv

LEMMA DoctorKeepsDocInv ==
  ASSUME DocInv, DocRuns, program = "doctor", UNCHANGED program
  PROVE  DocInv'
<1> DEFINE Goal == WalkInv' /\ ReadInv' /\ DoctorTellsTheBus'
<1> SUFFICES Goal
  BY DEF DocInv
<1>1. ASSUME NEW code \in {1}, DocExits(code), Unlooked \/ Looks PROVE Goal
  BY <1>1 DEF DocExits, DocInv, WalkInv, ReadInv, DoctorTellsTheBus, Looking
<1>2. ASSUME NEW stage \in {"listSize", "serviceSize"}, Retries(stage), Unlooked \/ (Looks /\ stage = "listSize"),
             stage = "listSize" => docAt = "list", stage = "serviceSize" => docAt = "service"
      PROVE  Goal
  <2>1. /\ \/ docAt' = stage /\ docExit' = docExit
           \/ docAt' = "exit" /\ docExit' = 1
        /\ UNCHANGED <<ids, current, status, found>>
    BY <1>2 DEF Retries
  <2>2. /\ node' = node
        /\ stage = "serviceSize" => quiet' = quiet
    BY <1>2 DEF Unlooked, Looks, busVars
  <2>3. WalkInv' /\ DoctorTellsTheBus'
    BY <1>2, <2>1 DEF DocInv, WalkInv, DoctorTellsTheBus
  <2>4. ReadInv'
    BY <1>2, <2>1, <2>2 DEF DocInv, ReadInv, Looking, Present, Active, IsScanner, Identify, Problem, Started
  <2> QED
    BY <2>3, <2>4
<1>3. CASE DocStarts \/ SizesList
  <2>1. CASE DocExits(1)
    BY <1>1, <1>3, <2>1 DEF DocStarts, SizesList
  <2>2. CASE /\ docAt \in {"idle", "listSize"} /\ docAt' \in {"listSize", "list"}
             /\ UNCHANGED <<current, found, docExit>>
    BY <2>2 DEF DocInv, WalkInv, ReadInv, DoctorTellsTheBus, Looking
  <2> QED
    BY <1>3, <2>1, <2>2 DEF DocStarts, SizesList
<1>4. CASE ReadsList
  <2>1. CASE DocExits(1)
    BY <1>1, <1>4, <2>1 DEF ReadsList
  <2>2. CASE Retries("listSize")
    BY <1>2, <1>4, <2>2 DEF ReadsList
  <2>3. CASE /\ docAt' = "locate" /\ ids' = {n \in Present : Identify(n) # "Other"}
             /\ UNCHANGED <<current, status, found, docExit>>
    BY <1>4, <2>3 DEF ReadsList, Looks, DocInv, WalkInv, ReadInv, DoctorTellsTheBus, Looking, Present, Identify
  <2> QED
    BY <1>4, <2>1, <2>2, <2>3 DEF ReadsList
<1>5. ASSUME NEW n \in ids, Locates(n) PROVE Goal
  <2>1. CASE DocExits(1)
    BY <1>1, <1>5, <2>1 DEF Locates
  <2>2. CASE /\ n \in Present /\ docAt' = "status" /\ current' = n /\ ids' = ids \ {n}
             /\ UNCHANGED <<status, found, docExit>>
    <3>1. docAt = "locate" /\ node' = node /\ quiet' = quiet /\ n \in Nodes
      BY <1>5, <2>2 DEF Locates, Unlooked, busVars, Present
    <3>2. WalkInv' /\ DoctorTellsTheBus'
      BY <2>2, <3>1 DEF DocInv, WalkInv, DoctorTellsTheBus
    <3>3. ReadInv'
      BY <2>2, <3>1, NoNodeAssumption DEF DocInv, WalkInv, ReadInv, Looking, Present, Active, IsScanner, Identify
    <3> QED
      BY <3>2, <3>3
  <2> QED
    BY <1>5, <2>1, <2>2 DEF Locates
<1>6. CASE ReadsStatus
  <2>1. CASE DocExits(1)
    BY <1>1, <1>6, <2>1 DEF ReadsStatus
  <2>2. CASE /\ docAt' = "serviceSize"
             /\ status' = [problem |-> Problem(current), started |-> Started(current)]
             /\ UNCHANGED <<ids, current, found, docExit>>
    <3>1. docAt = "status" /\ node' = node /\ quiet' = quiet
      BY <1>6 DEF ReadsStatus, Unlooked, busVars
    <3>2. status'.problem = Problem(current) /\ (status'.started <=> Started(current))
      BY <2>2
    <3>3. WalkInv' /\ DoctorTellsTheBus'
      BY <2>2, <3>1 DEF DocInv, WalkInv, DoctorTellsTheBus
    <3>4. ReadInv'
      BY <2>2, <3>1, <3>2
         DEF DocInv, ReadInv, Looking, Present, Active, IsScanner, Identify, Problem, Started
    <3> QED
      BY <3>3, <3>4
  <2> QED
    BY <1>6, <2>1, <2>2 DEF ReadsStatus
<1>7. CASE SizesService
  <2>1. CASE DocExits(1)
    BY <1>1, <1>7, <2>1 DEF SizesService
  <2>2. CASE ServiceLength(current) = 0 /\ Records(0)
    BY <1>7, <2>2, RecordsKeepsDocInv DEF SizesService, DocInv
  <2>3. CASE docAt' = "service" /\ UNCHANGED <<ids, current, status, found, docExit>>
    <3>1. docAt = "serviceSize" /\ node' = node /\ quiet' = quiet
      BY <1>7 DEF SizesService, Unlooked, busVars
    <3>2. WalkInv' /\ DoctorTellsTheBus'
      BY <2>3, <3>1 DEF DocInv, WalkInv, DoctorTellsTheBus
    <3>3. ReadInv'
      BY <2>3, <3>1 DEF DocInv, ReadInv, Looking, Present, Active, IsScanner, Identify, Problem, Started
    <3> QED
      BY <3>2, <3>3
  <2> QED
    BY <1>7, <2>1, <2>2, <2>3 DEF SizesService
<1>8. CASE ReadsService
  <2>1. CASE DocExits(1)
    BY <1>1, <1>8, <2>1 DEF ReadsService
  <2>2. CASE Retries("serviceSize")
    BY <1>2, <1>8, <2>2 DEF ReadsService
  <2>3. CASE Records(ServiceLength(current))
    BY <1>8, <2>3, RecordsKeepsDocInv DEF ReadsService, DocInv
  <2> QED
    BY <1>8, <2>1, <2>2, <2>3 DEF ReadsService
<1>9. CASE Answers
  <2>1. /\ docAt = "locate" /\ ids = {} /\ docAt' = "exit" /\ docExit' = Verdict
        /\ node' = node /\ quiet' = quiet /\ found' = found /\ current = NoNode
    BY <1>9 DEF Answers, DocExits, Unlooked, busVars, DocInv, WalkInv
  <2>2. ASSUME quiet PROVE docExit' = 0 <=> Cardinality(Scanners) = 1 /\ Scanners \subseteq Active
    <3>1. /\ DOMAIN found = {n \in Present : Identify(n) # "Other"}
          /\ \A n \in DOMAIN found : IsScanner(n) => (found[n] = "DriverStarted" <=> n \in Active)
      BY <2>1, <2>2 DEF DocInv, ReadInv, Looking
    <3>2. FoundScanners = Scanners
      BY <3>1 DEF FoundScanners, Scanners, IsScanner, Identify
    <3>3. (\A n \in FoundScanners : found[n] = "DriverStarted") <=> Scanners \subseteq Active
      BY <3>1, <3>2 DEF FoundScanners
    <3> QED
      BY <2>1, <3>2, <3>3 DEF Verdict
  <2>3. DoctorTellsTheBus'
    BY <2>1, <2>2 DEF DoctorTellsTheBus, Scanners, Present, Active
  <2>4. WalkInv' /\ ReadInv'
    BY <2>1 DEF WalkInv, ReadInv, Looking, DocInv
  <2> QED
    BY <2>3, <2>4
<1> QED
  BY <1>3, <1>4, <1>5, <1>6, <1>7, <1>8, <1>9 DEF DocRuns

LEMMA DocInvariant == Spec => []DocInv
<1>1. DocInv /\ [Next]_vars => DocInv'
  <2> SUFFICES ASSUME DocInv, [Next]_vars PROVE DocInv'
    OBVIOUS
  <2>1. CASE ProgramRuns /\ program = "doctor"
    BY <2>1, DoctorKeepsDocInv DEF ProgramRuns
  <2>2. ASSUME UNCHANGED <<docVars, program>>, quiet' = FALSE \/ docAt = "idle" \/ UNCHANGED busVars
        PROVE  DocInv'
    <3>1. WalkInv'
      BY <2>2 DEF DocInv, WalkInv, docVars
    <3>2. CASE quiet' = FALSE
      BY <3>1, <3>2 DEF DocInv, ReadInv, DoctorTellsTheBus
    <3>3. CASE docAt = "idle"
      BY <2>2, <3>1, <3>3 DEF DocInv, WalkInv, ReadInv, DoctorTellsTheBus, docVars, Looking
    <3>4. CASE UNCHANGED busVars
      BY <2>2, <3>1, <3>4
         DEF DocInv, ReadInv, DoctorTellsTheBus, docVars, busVars, Looking, Present, Active, Scanners,
             IsScanner, Identify, Problem, Started
    <3> QED
      BY <2>2, <3>2, <3>3, <3>4
  <2>3. CASE ProgramRuns /\ program # "doctor"
    <3>1. UNCHANGED <<docVars, program>> /\ docAt = "idle"
      BY <2>3 DEF ProgramRuns, DocInv, WalkInv
    <3> QED
      BY <2>2, <3>1
  <2>4. CASE Environment
    <3>1. UNCHANGED <<docVars, program>>
      BY <2>4 DEF Environment
    <3>2. quiet' = FALSE \/ UNCHANGED busVars
      BY <2>4 DEF Environment, BusChanges, CapEnvironment, OtherTakesDirectory, TimerFires, Unlooked
    <3> QED
      BY <2>2, <3>1, <3>2
  <2>5. CASE UNCHANGED vars
    <3>1. UNCHANGED <<docVars, program>> /\ UNCHANGED busVars
      BY <2>5 DEF vars
    <3> QED
      BY <2>2, <3>1
  <2> QED
    BY <2>1, <2>3, <2>4, <2>5 DEF Next
<1> QED
  BY <1>1, InitEstablishesDocInv, PTL DEF Spec

\* The exit code of the doctor (main.rs), put together from a list and two readings of each
\* node, is a fact about a bus that did not change since the list (windows.rs).
THEOREM DoctorIsRight == Spec => []DoctorTellsTheBus
BY DocInvariant, PTL DEF DocInv

-------------------------------------------------------------------------------
\* The pixels of a band.
LEMMA DivUnique ==
  ASSUME NEW m \in Nat \ {0}, NEW q \in Nat, NEW r \in Nat, r < m
  PROVE  (q * m + r) \div m = q /\ (q * m + r) % m = r
OBVIOUS

LEMMA DivThree ==
  ASSUME NEW x \in Nat, NEW c \in 0..2
  PROVE  (x * 3 + c) \div 3 = x /\ (x * 3 + c) % 3 = c
OBVIOUS

LEMMA PixelInRange ==
  ASSUME NEW w \in Nat \ {0}, NEW h \in Nat \ {0}, NEW row \in 0..(h - 1), NEW x \in 0..(w - 1),
         NEW c \in 0..2
  PROVE  (row * w + x) * 3 + c + 1 \in 1..(w * h * 3)
<1>1. row * w \in Nat /\ w * h \in Nat
  OBVIOUS
<1>2. (row + 1) * w <= h * w
  OBVIOUS
<1>3. row * w + w <= w * h
  BY <1>2
<1> QED
  BY <1>1, <1>3

\* The decoder walks the pixels, the check walks rows, columns and channels: they meet at
\* the same byte of the wire.
LEMMA DecodedIsVerified ==
  ASSUME NEW band \in Bands, band.order <= 1
  PROVE  Verified(band, band.mode, Decode(band))
<1> DEFINE w == band.width
           h == band.rows
           d == Decode(band)
<1>1. /\ w \in Nat \ {0} /\ h \in Nat \ {0} /\ band.mode \in {"Gray", "Rgb"}
      /\ Len(band.wire) >= Pixels(band)
  BY BandsAssumption
<1>2. /\ band.mode = "Rgb" => Pixels(band) = w * h * 3
      /\ Pixels(band) \in Nat
  BY <1>1 DEF Pixels, Channels
<1>3. d = [i \in 1..Pixels(band) |->
             IF band.mode = "Rgb" /\ band.order = 1 THEN band.wire[Source(band, i)] ELSE band.wire[i]]
  BY DEF Decode
<1>4. Len(d) = Pixels(band)
  BY <1>2, <1>3
<1>5. ASSUME band.mode = "Rgb", band.order = 1, NEW row \in 0..(h - 1), NEW x \in 0..(w - 1), NEW c \in 0..2
      PROVE  d[(row * w + x) * 3 + c + 1] = band.wire[row * w * 3 + c * w + x + 1]
  <2> DEFINE i == (row * w + x) * 3 + c + 1
  <2>1. i \in 1..Pixels(band)
    BY <1>1, <1>2, <1>5, PixelInRange
  <2>2. d[i] = band.wire[Source(band, i)]
    BY <1>3, <1>5, <2>1
  <2>3. x * 3 + c \in Nat /\ x * 3 + c < w * 3 /\ w * 3 \in Nat \ {0} /\ row \in Nat
    BY <1>1
  <2>4. i - 1 = row * (w * 3) + (x * 3 + c)
    BY <1>1
  <2>5. (i - 1) \div (w * 3) = row /\ (i - 1) % (w * 3) = x * 3 + c
    BY <2>3, <2>4, DivUnique
  <2>6. (x * 3 + c) % 3 = c /\ (x * 3 + c) \div 3 = x
    BY <1>1, DivThree
  <2>7. Source(band, i) = row * w * 3 + c * w + x + 1
    BY <2>5, <2>6 DEF Source
  <2> QED
    BY <2>2, <2>7
<1>6. ASSUME ~(band.mode = "Rgb" /\ band.order = 1), NEW i \in 1..Pixels(band)
      PROVE  d[i] = band.wire[i]
  BY <1>3, <1>6
<1>7. band.mode = "Rgb" /\ band.order = 1 =>
        \A row \in 0..(band.rows - 1), x \in 0..(band.width - 1), c \in 0..2 :
           Decode(band)[(row * band.width + x) * 3 + c + 1]
              = band.wire[row * band.width * 3 + c * band.width + x + 1]
  BY <1>5
<1>8. ~(band.mode = "Rgb" /\ band.order = 1) => \A i \in 1..Pixels(band) : Decode(band)[i] = band.wire[i]
  BY <1>6
<1>9. band.width > 0 /\ band.rows > 0 /\ Len(Decode(band)) = Pixels(band)
  BY <1>1, <1>4
<1> HIDE DEF d, w, h
<1> QED
  BY <1>1, <1>7, <1>8, <1>9 DEF Verified

-------------------------------------------------------------------------------
\* The evidence of the capture tools.
Counted == counted = delivered /\ (tool = "capture" => rows = delivered /\ raster = delivered)

Whole ==
    /\ outcome = "Ok" /\ health = "Ready" /\ delivered > 0 /\ Counted
    /\ tool = "capture" /\ option = "afterMs" => ~cancel

Filed == IF tool = "capture" THEN output = "complete" /\ copied ELSE successes = Count

Untouched == tool = "capture" => rows = 0 /\ raster = 0

\* How much of the image has arrived where, by stage.
EvidenceInv ==
    /\ tool \in {"capture", "stability"} /\ ~mismatch
    /\ capAt \in Before \cup {"start", "opening", "limit", "inquiry"} => Untouched
    /\ capAt \in {"opening", "limit", "inquiry", "job", "band", "accept"} => outcome = "Running"
    /\ capAt \in {"opening", "limit", "inquiry"} => delivered = 0 /\ counted = 0 /\ ~sinkFailed
    /\ capAt = "job" /\ ~sinkFailed => Counted
    /\ capAt \in {"band", "accept"} =>
          /\ tool = "capture" /\ ~sinkFailed
          /\ counted = delivered + 1 /\ rows = delivered + 1
          /\ raster = IF capAt = "band" THEN delivered ELSE delivered + 1
    /\ capAt \in {"drop", "dropping", "returned"} /\ outcome = "Ok" =>
          health = "Ready" /\ delivered > 0 /\ Counted
    /\ capAt \in {"finish", "copy"} => tool = "capture"
    /\ capAt \in {"finish", "copy", "report", "marker"} => Whole
    /\ capAt = "copy" => output = "complete"
    /\ capAt \in {"report", "marker"} => Filed

\* A timer that could still fire is one whose job has not been settled.
TimerInv ==
    /\ capAt \in Before => timer = "off"
    /\ tool = "capture" /\ capAt \in {"finish", "copy", "report", "marker", "fails", "exit"} =>
          timer # "armed"

MarkerInv ==
    /\ marker # "none" => capAt \in {"marker", "fails", "exit"} /\ Whole /\ Filed
    /\ capExit = 0 => capAt = "exit" /\ marker = "written"

CaptureInv == EvidenceInv /\ TimerInv /\ MarkerInv

LEMMA InitEstablishesCaptureInv == Init => CaptureInv
BY DEF Init, Resting, CapInit, BmpInit, JobInit, CaptureInv, EvidenceInv, TimerInv, MarkerInv,
       Before, Untouched

LEMMA CapKeepsCaptureInv ==
  ASSUME CaptureInv, CapRuns \/ CapEnvironment
  PROVE  CaptureInv'
<1> USE DEF CapGoes, CapExits, OrFails, Still, files, jobVars, encoder,
            JobDelivers, JobEnds, JobCancel, BmpAppend, BmpRefuse, BmpCommit,
            CaptureInv, EvidenceInv, TimerInv, MarkerInv, Counted, Whole, Filed, Untouched, Before
<1>1. CASE ParsesSettings
  <2>1. EvidenceInv'
    BY <1>1 DEF ParsesSettings
  <2>2. TimerInv'
    BY <1>1 DEF ParsesSettings
  <2>3. MarkerInv'
    BY <1>1 DEF ParsesSettings
  <2> QED
    BY <2>1, <2>2, <2>3
<1>2. CASE MakesDirectory
  <2>1. EvidenceInv'
    BY <1>2 DEF MakesDirectory
  <2>2. TimerInv'
    BY <1>2 DEF MakesDirectory
  <2>3. MarkerInv'
    BY <1>2 DEF MakesDirectory
  <2> QED
    BY <2>1, <2>2, <2>3
<1>3. CASE OpensLog
  <2>1. EvidenceInv'
    BY <1>3 DEF OpensLog
  <2>2. TimerInv'
    BY <1>3 DEF OpensLog
  <2>3. MarkerInv'
    BY <1>3 DEF OpensLog
  <2> QED
    BY <2>1, <2>2, <2>3
<1>4. CASE PreparesFiles
  <2>1. EvidenceInv'
    BY <1>4 DEF PreparesFiles
  <2>2. TimerInv'
    BY <1>4 DEF PreparesFiles
  <2>3. MarkerInv'
    BY <1>4 DEF PreparesFiles
  <2> QED
    BY <2>1, <2>2, <2>3
<1>5. CASE StartsJob
  <2>1. EvidenceInv'
    BY <1>5 DEF StartsJob
  <2>2. TimerInv'
    BY <1>5 DEF StartsJob
  <2>3. MarkerInv'
    BY <1>5 DEF StartsJob
  <2> QED
    BY <2>1, <2>2, <2>3
<1>6. CASE OpensUsb
  <2>1. EvidenceInv'
    BY <1>6 DEF OpensUsb
  <2>2. TimerInv'
    BY <1>6 DEF OpensUsb
  <2>3. MarkerInv'
    BY <1>6 DEF OpensUsb
  <2> QED
    BY <2>1, <2>2, <2>3
<1>7. CASE UsbOpened
  <2>1. EvidenceInv'
    BY <1>7 DEF UsbOpened
  <2>2. TimerInv'
    BY <1>7 DEF UsbOpened
  <2>3. MarkerInv'
    BY <1>7 DEF UsbOpened
  <2> QED
    BY <2>1, <2>2, <2>3
<1>8. CASE ChecksLimit
  <2>1. EvidenceInv'
    BY <1>8 DEF ChecksLimit
  <2>2. TimerInv'
    BY <1>8 DEF ChecksLimit
  <2>3. MarkerInv'
    BY <1>8 DEF ChecksLimit
  <2> QED
    BY <2>1, <2>2, <2>3
<1>9. CASE PreparesJob
  <2>1. EvidenceInv'
    BY <1>9 DEF PreparesJob
  <2>2. TimerInv'
    BY <1>9 DEF PreparesJob
  <2>3. MarkerInv'
    BY <1>9 DEF PreparesJob
  <2> QED
    BY <2>1, <2>2, <2>3
<1>10. CASE PushesBand
  <2>1. EvidenceInv'
    BY <1>10 DEF PushesBand
  <2>2. TimerInv'
    BY <1>10 DEF PushesBand
  <2>3. MarkerInv'
    BY <1>10 DEF PushesBand
  <2> QED
    BY <2>1, <2>2, <2>3
<1>11. CASE StoresBand
  <2>1. EvidenceInv'
    BY <1>11 DEF StoresBand
  <2>2. TimerInv'
    BY <1>11 DEF StoresBand
  <2>3. MarkerInv'
    BY <1>11 DEF StoresBand
  <2> QED
    BY <2>1, <2>2, <2>3
<1>12. CASE AcceptsBand
  <2>1. EvidenceInv'
    BY <1>12 DEF AcceptsBand
  <2>2. TimerInv'
    BY <1>12 DEF AcceptsBand
  <2>3. MarkerInv'
    BY <1>12 DEF AcceptsBand
  <2> QED
    BY <2>1, <2>2, <2>3
<1>13. CASE JobReturns
  <2>1. EvidenceInv'
    BY <1>13 DEF JobReturns
  <2>2. TimerInv'
    BY <1>13 DEF JobReturns
  <2>3. MarkerInv'
    BY <1>13 DEF JobReturns
  <2> QED
    BY <2>1, <2>2, <2>3
<1>14. CASE Drops
  <2>1. EvidenceInv'
    BY <1>14 DEF Drops
  <2>2. TimerInv'
    BY <1>14 DEF Drops
  <2>3. MarkerInv'
    BY <1>14 DEF Drops
  <2> QED
    BY <2>1, <2>2, <2>3
<1>15. CASE Dropped
  <2>1. EvidenceInv'
    BY <1>15 DEF Dropped
  <2>2. TimerInv'
    BY <1>15 DEF Dropped
  <2>3. MarkerInv'
    BY <1>15 DEF Dropped
  <2> QED
    BY <2>1, <2>2, <2>3
<1>16. CASE SettlesCapture
  <2>1. EvidenceInv'
    BY <1>16 DEF SettlesCapture
  <2>2. TimerInv'
    BY <1>16 DEF SettlesCapture
  <2>3. MarkerInv'
    BY <1>16 DEF SettlesCapture
  <2> QED
    BY <2>1, <2>2, <2>3
<1>17. CASE FinishesBmp
  <2>1. EvidenceInv'
    BY <1>17 DEF FinishesBmp
  <2>2. TimerInv'
    BY <1>17 DEF FinishesBmp
  <2>3. MarkerInv'
    BY <1>17 DEF FinishesBmp
  <2> QED
    BY <2>1, <2>2, <2>3
<1>18. CASE CopiesRaster
  <2>1. EvidenceInv'
    BY <1>18 DEF CopiesRaster
  <2>2. TimerInv'
    BY <1>18 DEF CopiesRaster
  <2>3. MarkerInv'
    BY <1>18 DEF CopiesRaster
  <2> QED
    BY <2>1, <2>2, <2>3
<1>19. CASE SettlesRun
  <2>1. EvidenceInv'
    BY <1>19 DEF SettlesRun
  <2>2. TimerInv'
    BY <1>19 DEF SettlesRun
  <2>3. MarkerInv'
    BY <1>19 DEF SettlesRun
  <2> QED
    BY <2>1, <2>2, <2>3
<1>20. CASE ReportsComplete
  <2>1. EvidenceInv'
    BY <1>20 DEF ReportsComplete
  <2>2. TimerInv'
    BY <1>20 DEF ReportsComplete
  <2>3. MarkerInv'
    BY <1>20 DEF ReportsComplete
  <2> QED
    BY <2>1, <2>2, <2>3
<1>21. CASE WritesMarker
  <2>1. EvidenceInv'
    BY <1>21 DEF WritesMarker
  <2>2. TimerInv'
    BY <1>21 DEF WritesMarker
  <2>3. MarkerInv'
    BY <1>21 DEF WritesMarker
  <2> QED
    BY <2>1, <2>2, <2>3
<1>22. CASE LogsFailure
  <2>1. EvidenceInv'
    BY <1>22 DEF LogsFailure
  <2>2. TimerInv'
    BY <1>22 DEF LogsFailure
  <2>3. MarkerInv'
    BY <1>22 DEF LogsFailure
  <2> QED
    BY <2>1, <2>2, <2>3
<1>23. ASSUME NEW band \in Bands, VerifiesBand(band) PROVE CaptureInv'
  <2>1. Verified(band, band.mode, Decode(band))
    BY <1>23, DecodedIsVerified DEF VerifiesBand
  <2>2. /\ tool = "stability" /\ capAt = "job" /\ capAt' = "job" /\ JobDelivers
        /\ counted' = counted + 1
        /\ UNCHANGED <<tool, option, mismatch, rows, poisoned, output, raster, copied, successes, marker,
                       timer, capExit>>
    BY <1>23, <2>1 DEF VerifiesBand
  <2>3. EvidenceInv'
    BY <2>2
  <2>4. TimerInv' /\ MarkerInv'
    BY <2>2
  <2> QED
    BY <2>3, <2>4
<1>24. CASE OtherTakesDirectory
  BY <1>24 DEF OtherTakesDirectory
<1>25. CASE TimerFires
  BY <1>25 DEF TimerFires
<1>26. CASE UNCHANGED capVars
  BY <1>26 DEF capVars
<1> QED
  BY <1>1, <1>2, <1>3, <1>4, <1>5, <1>6, <1>7, <1>8, <1>9, <1>10, <1>11, <1>12, <1>13, <1>14, <1>15, <1>16, <1>17, <1>18, <1>19, <1>20, <1>21, <1>22, <1>23, <1>24, <1>25, <1>26 DEF CapRuns, CapEnvironment

LEMMA CaptureInvariant == Spec => []CaptureInv
<1>1. CaptureInv /\ [Next]_vars => CaptureInv'
  <2> SUFFICES ASSUME CaptureInv, [Next]_vars PROVE CaptureInv'
    OBVIOUS
  <2>1. CASE CapRuns \/ CapEnvironment
    BY <2>1, CapKeepsCaptureInv
  <2>2. CASE UNCHANGED capVars
    BY <2>2 DEF capVars, files, jobVars, encoder, CaptureInv, EvidenceInv, TimerInv, MarkerInv, Counted,
                Whole, Filed, Untouched, Before
  <2>3. CapRuns \/ CapEnvironment \/ UNCHANGED capVars
    BY DEF Next, ProgramRuns, Environment, vars
  <2> QED
    BY <2>1, <2>2, <2>3
<1> QED
  BY <1>1, InitEstablishesCaptureInv, PTL DEF Spec

\* A completion marker, and exit code 0, are evidence of a whole scan whose handles are gone
\* (capture_scan.rs, scan_stability.rs), whatever fails and whenever the timer fires; the
\* pixels of a checked band are always the bytes of its wire.
THEOREM MarkerIsEvidence == Spec => []CompleteMeansComplete
<1>1. CaptureInv /\ TransportInv => CompleteMeansComplete
  <2> SUFFICES ASSUME CaptureInv, TransportInv PROVE CompleteMeansComplete
    OBVIOUS
  <2>1. ASSUME marker # "none" PROVE file = NoNode /\ usb = NoNode
    <3>1. capAt \in {"marker", "fails", "exit"}
      BY <2>1 DEF CaptureInv, MarkerInv
    <3>2. program = "tools"
      BY <3>1 DEF TransportInv, StageInv
    <3>3. usbAt \in {"idle", "closed"}
      BY <3>1, <3>2 DEF TransportInv, StageInv
    <3> QED
      BY <3>3 DEF TransportInv, UsbInv, FileInv
  <2>2. marker # "none" => Whole /\ Filed
    BY DEF CaptureInv, MarkerInv
  <2>3. /\ capExit = 0 => marker = "written"
        /\ ~mismatch /\ tool \in {"capture", "stability"}
    BY DEF CaptureInv, MarkerInv, EvidenceInv
  <2> QED
    BY <2>1, <2>2, <2>3 DEF CompleteMeansComplete, Whole, Counted, Filed
<1> QED
  BY <1>1, CaptureInvariant, TransportInvariant, PTL
===============================================================================
