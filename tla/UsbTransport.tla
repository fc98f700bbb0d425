----------------------------- MODULE UsbTransport -----------------------------
(***************************************************************************)
(* usb.rs: from the registered interfaces to an open WinUSB session, and   *)
(* back.  One action per call into SetupAPI, Kernel32 and WinUSB; each may *)
(* fail, and the bus may change between any two of them.                   *)
(***************************************************************************)
EXTENDS PnpBus, Sequences

CONSTANTS PipeLists,      \* endpoint lists an interface may describe
          MaxInterfaces   \* the 256 of scanner_candidate_paths

ASSUME MaxInterfacesAssumption == MaxInterfaces \in Nat
ASSUME PathsAssumption == {"auto", "malformed"} \cap Nodes = {}   \* no path is either

VARIABLES
    usbAt,     \* where UsbSession::open, its owner or its destructor stands
    want,      \* "auto", "malformed", or the node whose path was asked for
    listed,    \* the snapshot of the device set: registered interfaces
    active,    \* those of the snapshot that are flagged active and not removed
    seen,      \* those whose path and identity have been read
    file, usb, \* the handles owned: a node or NoNode
    why        \* the error of a failed open

usbVars == <<usbAt, want, listed, active, seen, file, usb, why>>

UsbStages == {"idle", "list", "details", "file", "init", "device", "interface",
              "pipes", "policy", "open", "free", "close", "closed"}

Errors == {"None", "NotFound", "NotConnected", "Ambiguous", "Invalid", "System"}

UsbTypeOK ==
    /\ usbAt \in UsbStages
    /\ want \in Nodes \cup {"auto", "malformed"}
    /\ active \subseteq listed /\ seen \subseteq listed /\ listed \subseteq Nodes
    /\ file \in Nodes \cup {NoNode} /\ usb \in Nodes \cup {NoNode}
    /\ why \in Errors

UsbInit ==
    /\ usbAt = "idle" /\ want = "auto" /\ why = "None"
    /\ listed = {} /\ active = {} /\ seen = {}
    /\ file = NoNode /\ usb = NoNode

UsbGoes(from, to) == usbAt = from /\ usbAt' = to

\* An error unwinds: the interface handle is dropped before the file under it.
UsbFails(error) ==
    /\ usbAt' = IF usb # NoNode THEN "free" ELSE IF file # NoNode THEN "close" ELSE "closed"
    /\ why' = error
    /\ UNCHANGED <<want, listed, active, seen, file, usb>>

-------------------------------------------------------------------------------
\* open(), or open_matching_path(), which first looks at the path it was given.
Opens(w) ==
    /\ UsbGoes("idle", "list")
    /\ want' = w
    /\ UNCHANGED <<listed, active, seen, file, usb, why>>

ListsInterfaces ==
    /\ usbAt = "list"
    /\ \/ want = "malformed" /\ UsbFails("Invalid")
       \/ want # "malformed" /\ UsbFails("System")
       \/ /\ want # "malformed" /\ usbAt' = "details"
          /\ listed' = Registered /\ active' = Active /\ seen' = {}
          /\ UNCHANGED <<want, file, usb, why>>
    /\ Looks

\* Seeded fault: an interface that does not answer, or is not MI_00, is passed over.
BugReadsDetail(n) ==
    /\ usbAt = "details" /\ n \in listed \ seen
    /\ \/ UsbFails("System")
       \/ IsScanner(n) /\ seen' = seen \cup {n} /\ UNCHANGED <<usbAt, want, listed, active, file, usb, why>>
       \/ /\ listed' = listed \ {n} /\ active' = active \ {n}
          /\ UNCHANGED <<usbAt, want, seen, file, usb, why>>
    /\ Unlooked

\* Path and identity of one interface of the snapshot, in whatever order it lists them.
\* One that cannot be read, or belongs to no MI_00, spoils the whole list.
ReadsDetail(n) ==
    /\ usbAt = "details" /\ n \in listed \ seen
    /\ \/ UsbFails("System")
       \/ (Cardinality(seen) >= MaxInterfaces \/ ~IsScanner(n)) /\ UsbFails("Invalid")
       \/ /\ Cardinality(seen) < MaxInterfaces /\ IsScanner(n)
          /\ seen' = seen \cup {n}
          /\ UNCHANGED <<usbAt, want, listed, active, file, usb, why>>
    /\ Unlooked

\* Seeded fault: only the active interfaces count when the choice is made.
BugChoices == IF want = "auto" THEN active ELSE active \cap {want}

\* unique_scanner_path refuses to choose between interfaces, active or not;
\* select_matching_scanner_path looks for the one active path it was given.
Choices == IF want = "auto" THEN listed ELSE active \cap {want}

ChoosesPath ==
    /\ usbAt = "details" /\ seen = listed
    /\ \/ want # "auto" /\ UsbFails("System")
       \/ Choices = {} /\ UsbFails("NotFound")
       \/ Cardinality(Choices) > 1 /\ UsbFails("Ambiguous")
       \/ Cardinality(Choices) = 1 /\ Choices \cap active = {} /\ UsbFails("NotConnected")
       \/ /\ Cardinality(Choices) = 1 /\ Choices \subseteq active
          /\ usbAt' = "file" /\ seen' = Choices
          /\ UNCHANGED <<want, listed, active, file, usb, why>>
    /\ Unlooked

-------------------------------------------------------------------------------
\* open_with_path.  The path names one node; the file is opened shared.
CreatesFile ==
    /\ usbAt = "file"
    /\ \/ UsbFails("System")
       \/ /\ usbAt' = "init"
          /\ file' \in seen \cap Active
          /\ UNCHANGED <<want, listed, active, seen, usb, why>>
    /\ Unlooked

Initializes ==
    /\ usbAt = "init"
    /\ \/ UsbFails("System") \/ UsbFails("Invalid")
       \/ usbAt' = "device" /\ usb' = file /\ UNCHANGED <<want, listed, active, seen, file, why>>
    /\ Unlooked

\* One validated answer: it can fail, be unusable, or be as it must.
Reads(from, to, valid) ==
    /\ usbAt = from
    /\ \/ UsbFails("System")
       \/ ~valid /\ UsbFails("Invalid")
       \/ valid /\ usbAt' = to /\ UNCHANGED <<want, listed, active, seen, file, usb, why>>
    /\ Unlooked

\* The device descriptor is common to all functions of the machine; the interface
\* descriptor is the scanner's own.
ReadsDevice == Reads("device", "interface", KindOf[usb] # "Other")

ReadsInterface == Reads("interface", "pipes", IsScanner(usb))

Bulk(pipes, direction) == {i \in DOMAIN pipes : pipes[i].bulk /\ pipes[i].dir = direction}

\* select_bulk_pipes: endpoints valid and distinct, one bulk endpoint each way.
ValidPipes(pipes) ==
    /\ Len(pipes) \in 2..30
    /\ \A i \in DOMAIN pipes :
          /\ pipes[i].number # 0 /\ pipes[i].packet \in 1..1024
          /\ pipes[i].bulk => pipes[i].packet \in {8, 16, 32, 64, 512, 1024}
          /\ \A j \in DOMAIN pipes \ {i} : <<pipes[j].dir, pipes[j].number>> # <<pipes[i].dir, pipes[i].number>>
    /\ \A d \in {"in", "out"} : Cardinality(Bulk(pipes, d)) = 1

ReadsPipes == \E pipes \in PipeLists : Reads("pipes", "policy", ValidPipes(pipes))

\* Timeouts on, every automatic recovery and lenient read off.
SetsPolicies == Reads("policy", "open", TRUE)

-------------------------------------------------------------------------------
\* Seeded fault: the fields of the session are declared the other way round.
BugDropOrder == IF file # NoNode THEN "close" ELSE "free"

\* A session that goes out of scope drops its fields in the order of declaration.
DropOrder == IF usb # NoNode THEN "free" ELSE "close"

DropsSession ==
    /\ usbAt = "open" /\ usbAt' = DropOrder
    /\ UNCHANGED <<want, listed, active, seen, file, usb, why>>
    /\ Unlooked

FreesUsb ==
    /\ usbAt = "free"
    /\ usb' = NoNode
    /\ usbAt' = IF file # NoNode THEN "close" ELSE "closed"
    /\ UNCHANGED <<want, listed, active, seen, file, why>>
    /\ Unlooked

ClosesFile ==
    /\ usbAt = "close"
    /\ file' = NoNode
    /\ usbAt' = IF usb # NoNode THEN "free" ELSE "closed"
    /\ UNCHANGED <<want, listed, active, seen, usb, why>>
    /\ Unlooked

\* The calls made by open itself and by the destructors.
UsbRuns ==
    \/ ListsInterfaces \/ (\E n \in listed : ReadsDetail(n)) \/ ChoosesPath
    \/ CreatesFile \/ Initializes \/ ReadsDevice \/ ReadsInterface \/ ReadsPipes
    \/ SetsPolicies \/ FreesUsb \/ ClosesFile

-------------------------------------------------------------------------------
\* What a transfer of an open session reports, by the count WinUSB returns: a command is
\* whole or an error, never sent again; a read is bounded and may be empty.
WriteWhole(bytes, transferred) == bytes > 0 /\ transferred = bytes

ReadBounded(capacity, transferred) == transferred <= capacity
===============================================================================
