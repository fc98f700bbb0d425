------------------------------ MODULE WinusbSetup ------------------------------
(***************************************************************************)
(* examples/winusb_setup.rs: find the one scanner without a driver, see    *)
(* that Windows' own WinUSB driver fits it, and install it - or, without   *)
(* arguments, only look.  Everything read may be stale by the next call,   *)
(* so the bus is listed a second time and the target read again before     *)
(* the one call that changes anything.                                     *)
(***************************************************************************)
EXTENDS PnpBus, Sequences

CONSTANTS MaxIdTries,   \* the 3 of instance_id
          MaxDevices,   \* the 65536 of unique_target
          MaxCandidates \* the 256 of candidates

ASSUME MaxIdTriesAssumption == MaxIdTries \in Nat
ASSUME MaxCandidatesAssumption == MaxCandidates \in Nat
ASSUME MaxDevicesAssumption == MaxDevices \in Nat

VARIABLES
    setupAt,    \* where run() stands
    expected,   \* the instance ID given with --install-mi00, or NoNode for a precheck
    round,      \* 1: the set everything is read from; 2: the fresh one before installing
    unread,     \* nodes of the present set not yet enumerated
    enumerated, \* how many were
    target,     \* the scanner of the first set
    again,      \* the scanner of the fresh set
    idTries,    \* attempts at the present instance ID
    drivers,    \* the driver list of the target: "None" | "One" (exact match) | "Error"
    globals,    \* the one without a device
    installed,  \* DiInstallDevice has been called
    setupExit   \* exit code, 99 while it runs

setupVars == <<setupAt, expected, round, unread, enumerated, target, again, idTries,
               drivers, globals, installed, setupExit>>

\* The properties verify_unbound reads one after the other.
Checks == <<"identity", "status", "service", "driver", "infPath">>

SetupStages == {"idle", "present", "enumerate", "name", "candidates", "global", "detail",
                "install", "conclude", "exit"} \cup {Checks[i] : i \in DOMAIN Checks}

Lists == {"None", "One", "Error"}

SetupTypeOK ==
    /\ setupAt \in SetupStages /\ round \in {1, 2}
    /\ expected \in Nodes \cup {NoNode}
    /\ unread \subseteq Nodes /\ enumerated \in Nat /\ idTries \in 0..MaxIdTries
    /\ target \in Nodes \cup {NoNode} /\ again \in Nodes \cup {NoNode}
    /\ drivers \in Lists /\ globals \in Lists /\ installed \in BOOLEAN
    /\ setupExit \in {0, 1, 99, 3010}

SetupInit ==
    /\ setupAt = "idle" /\ round = 1 /\ unread = {} /\ enumerated = 0 /\ idTries = 0
    /\ expected \in Nodes \cup {NoNode}
    /\ target = NoNode /\ again = NoNode /\ drivers = "None" /\ globals = "None" /\ installed = FALSE
    /\ setupExit = 99

SetupGoes(from, to) ==
    /\ setupAt = from /\ setupAt' = to
    /\ UNCHANGED <<expected, round, unread, enumerated, target, again, idTries, drivers, globals, installed, setupExit>>

SetupExits(code) ==
    /\ setupAt' = "exit" /\ setupExit' = code
    /\ UNCHANGED <<expected, round, unread, enumerated, target, again, idTries, drivers, globals, installed>>

\* parse_args admits no ID but a scanner's.
ParsesArgs ==
    /\ setupAt = "idle"
    /\ LET admitted == {NoNode} \cup {n \in Nodes : IsScanner(n)}
       IN \/ expected \notin admitted /\ SetupExits(1)
          \/ expected \in admitted /\ SetupGoes("idle", "present")
    /\ Unlooked

-------------------------------------------------------------------------------
\* present_usb, then unique_target over the nodes of that set in any order.
ListsPresent ==
    /\ setupAt = "present"
    /\ \/ SetupExits(1)
       \/ /\ setupAt' = "enumerate" /\ unread' = Present /\ enumerated' = 0 /\ idTries' = 0
          /\ UNCHANGED <<expected, round, target, again, drivers, globals, installed, setupExit>>
    /\ Looks

Found == IF round = 1 THEN target ELSE again

\* Seeded fault: of two scanners the last one enumerated is taken.
BugEnumerates(n) ==
    /\ setupAt = "enumerate" /\ n \in unread
    /\ \/ SetupExits(1)
       \/ /\ unread' = unread \ {n} /\ enumerated' = enumerated + 1 /\ idTries' = 0
          /\ target' = IF IsScanner(n) /\ round = 1 THEN n ELSE target
          /\ again' = IF IsScanner(n) /\ round = 2 THEN n ELSE again
          /\ UNCHANGED <<setupAt, expected, round, drivers, globals, installed, setupExit>>
    /\ Unlooked

Enumerates(n) ==
    /\ setupAt = "enumerate" /\ n \in unread
    /\ \/ SetupExits(1)
       \/ (enumerated >= MaxDevices \/ (IsScanner(n) /\ Found # NoNode)) /\ SetupExits(1)
       \/ /\ enumerated < MaxDevices /\ ~(IsScanner(n) /\ Found # NoNode)
          /\ unread' = unread \ {n} /\ enumerated' = enumerated + 1 /\ idTries' = 0
          /\ target' = IF IsScanner(n) /\ round = 1 THEN n ELSE target
          /\ again' = IF IsScanner(n) /\ round = 2 THEN n ELSE again
          /\ UNCHANGED <<setupAt, expected, round, drivers, globals, installed, setupExit>>
    /\ Unlooked

\* instance_id: the ID outgrew the size just reported for it.
IdGrows ==
    /\ setupAt = "enumerate" /\ unread # {}
    /\ \/ idTries + 1 >= MaxIdTries /\ SetupExits(1)
       \/ /\ idTries + 1 < MaxIdTries /\ idTries' = idTries + 1
          /\ UNCHANGED <<setupAt, expected, round, unread, enumerated, target, again, drivers, globals, installed, setupExit>>
    /\ Unlooked

\* A first target is verified; a fresh one must be the same node, and the one named.
EndsEnumeration ==
    /\ setupAt = "enumerate" /\ unread = {}
    /\ \/ Found = NoNode /\ SetupExits(1)
       \/ Found # NoNode /\ round = 1 /\ SetupGoes("enumerate", Checks[1])
       \/ round = 2 /\ again # NoNode /\ (again # target \/ again # expected) /\ SetupExits(1)
       \/ round = 2 /\ again # NoNode /\ again = target /\ again = expected /\ SetupGoes("enumerate", "detail")
    /\ Unlooked

-------------------------------------------------------------------------------
\* What each check of verify_unbound asks of the target at the moment it reads it.
Unbound(check) ==
    CASE check = "identity" -> IsScanner(target)
      [] check = "status"   -> target \in Present /\ ~Started(target) /\ Problem(target) = 28
      [] OTHER              -> ServiceLength(target) = 0

\* Once at the start and once more at the end: before installing, or before a precheck's
\* answer.
AfterChecks ==
    IF round = 1 THEN "name" ELSE IF expected # NoNode THEN "install" ELSE "conclude"

NextCheck(i) == IF i < Len(Checks) THEN Checks[i + 1] ELSE AfterChecks

\* Seeded fault: what was read of the target the first time is not read again.
BugVerifies(i) ==
    /\ setupAt = Checks[i]
    /\ \/ SetupExits(1)
       \/ round = 1 /\ Unbound(Checks[i]) /\ SetupGoes(Checks[i], NextCheck(i))
       \/ round = 2 /\ SetupGoes(Checks[i], NextCheck(i))
    /\ Unlooked

Verifies(i) ==
    /\ setupAt = Checks[i]
    /\ \/ SetupExits(1)
       \/ Unbound(Checks[i]) /\ SetupGoes(Checks[i], NextCheck(i))
    /\ Unlooked

ComparesName ==
    /\ setupAt = "name"
    /\ \/ expected # NoNode /\ SetupExits(1)
       \/ expected \in {NoNode, target} /\ SetupGoes("name", "candidates")
    /\ Unlooked

\* candidates(): one exact entry among few enough, or no choice; any call may fail.
CandidateList(total, exact) ==
    IF total >= MaxCandidates THEN "Error" ELSE IF exact = 1 THEN "One" ELSE "None"

CandidateLists ==
    {"Error"} \cup {CandidateList(total, exact) : total \in 0..MaxCandidates, exact \in 0..2}

\* The list of the device itself: an install needs the entry, a precheck goes on.
SearchesDevice ==
    /\ setupAt = "candidates"
    /\ \E list \in CandidateLists :
          /\ drivers' = list
          /\ \/ expected = NoNode /\ setupAt' = "global" /\ UNCHANGED setupExit
             \/ expected # NoNode /\ list = "One" /\ setupAt' = "present" /\ UNCHANGED setupExit
             \/ expected # NoNode /\ list # "One" /\ setupAt' = "exit" /\ setupExit' = 1
          /\ round' = 2
    /\ UNCHANGED <<expected, unread, enumerated, target, again, idTries, globals, installed>>
    /\ Unlooked

SearchesGlobal ==
    /\ setupAt = "global"
    /\ \/ SetupExits(1)
       \/ /\ setupAt' = Checks[1]
          /\ globals' \in CandidateLists
          /\ UNCHANGED <<expected, round, unread, enumerated, target, again, idTries, drivers, installed, setupExit>>
    /\ Looks

Concludes ==
    /\ setupAt = "conclude"
    /\ SetupExits(IF drivers = "One" /\ globals = "One" THEN 0 ELSE 1)
    /\ Unlooked

\* The chosen entry of the first set, read once more.
ReadsDetailAgain ==
    /\ setupAt = "detail"
    /\ SetupExits(1) \/ SetupGoes("detail", Checks[1])
    /\ Unlooked

\* DiInstallDevice, for the target of the first set: bound and started, bound until the
\* next start of Windows, or failed with the target perhaps changed in part.
Installs ==
    /\ setupAt = "install" /\ setupAt' = "exit"
    /\ installed' = TRUE
    /\ \E s \in StatesOf[target] :
          /\ node' = [node EXCEPT ![target] = s]
          /\ \/ s = "ready" /\ node[target] # "absent" /\ setupExit' = 0
             \/ s = "stopped" /\ node[target] # "absent" /\ setupExit' = 3010
             \/ s \in {node[target], "stopped", "faulty"} /\ setupExit' = 1
    /\ UNCHANGED <<expected, round, unread, enumerated, target, again, idTries, drivers, globals, quiet>>

SetupRuns ==
    \/ ParsesArgs \/ ListsPresent \/ (\E n \in unread : Enumerates(n)) \/ IdGrows
    \/ EndsEnumeration \/ (\E i \in DOMAIN Checks : Verifies(i)) \/ ComparesName
    \/ SearchesDevice \/ SearchesGlobal \/ Concludes \/ ReadsDetailAgain \/ Installs
===============================================================================
