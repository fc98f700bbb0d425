------------------------------- MODULE Discovery -------------------------------
(***************************************************************************)
(* windows.rs and the doctor command of main.rs: a list of the bus, then   *)
(* the status and the service of each node of ours, each asked for in a    *)
(* call of its own while the bus may change.  Lists and properties are     *)
(* read in two calls, size and content, and again if they grew in between. *)
(***************************************************************************)
EXTENDS PnpBus

CONSTANT MaxTries   \* the 3 of present_ids and service

ASSUME MaxTriesAssumption == MaxTries \in Nat

VARIABLES
    docAt,     \* where discover() stands
    tries,     \* attempts made at the present list or property
    room,      \* the size that the first call of the pair reported
    ids,       \* nodes of the list still to be looked at
    current,   \* the node being looked at
    status,    \* the problem code and started flag read of it
    found,     \* readiness of each node of ours that was looked at
    docExit    \* exit code of the command, 99 while it runs

docVars == <<docAt, tries, room, ids, current, status, found, docExit>>

DocStages == {"idle", "listSize", "list", "locate", "status", "serviceSize", "service", "exit"}

Readings == {"NotScanner", "DriverMissing", "DeviceProblem", "NotStarted", "OtherDriver",
             "DriverStarted"}

DocTypeOK ==
    /\ docAt \in DocStages
    /\ tries \in 0..MaxTries /\ room \in Nat
    /\ ids \subseteq Nodes /\ current \in Nodes \cup {NoNode}
    /\ status \in [problem : Nat, started : BOOLEAN]
    /\ DOMAIN found \subseteq Nodes /\ \A n \in DOMAIN found : found[n] \in Readings
    /\ docExit \in {0, 1, 2, 99}

DocInit ==
    /\ docAt = "idle" /\ tries = 0 /\ room = 0 /\ ids = {} /\ current = NoNode
    /\ status = [problem |-> 0, started |-> FALSE]
    /\ found = << >> /\ docExit = 99

DocExits(code) ==
    /\ docAt' = "exit" /\ docExit' = code
    /\ UNCHANGED <<tries, room, ids, current, status, found>>

\* A second call finds more than the first one reported: once more, a few times.
Retries(stage) ==
    /\ IF tries + 1 < MaxTries THEN docAt' = stage /\ tries' = tries + 1 ELSE docAt' = "exit" /\ tries' = 0
    /\ docExit' = IF tries + 1 < MaxTries THEN docExit ELSE 1
    /\ UNCHANGED <<room, ids, current, status, found>>

-------------------------------------------------------------------------------
\* present_ids, for a list as long as it has nodes.
SizesList ==
    /\ docAt = "listSize"
    /\ \/ DocExits(1)
       \/ docAt' = "list" /\ room' = Cardinality(Present) /\ UNCHANGED <<tries, ids, current, status, found, docExit>>
    /\ Unlooked

\* Nodes that identify() does not know are passed over.
ReadsList ==
    /\ docAt = "list"
    /\ \/ DocExits(1)
       \/ Cardinality(Present) > room /\ Retries("listSize")
       \/ /\ Cardinality(Present) <= room
          /\ docAt' = "locate" /\ tries' = 0
          /\ ids' = {n \in Present : Identify(n) # "Other"}
          /\ UNCHANGED <<room, current, status, found, docExit>>
    /\ Looks

\* A node of the list that has gone by now fails the whole discovery.
Locates(n) ==
    /\ docAt = "locate" /\ n \in ids
    /\ \/ DocExits(1)
       \/ /\ n \in Present
          /\ docAt' = "status" /\ current' = n /\ ids' = ids \ {n}
          /\ UNCHANGED <<tries, room, status, found, docExit>>
    /\ Unlooked

ReadsStatus ==
    /\ docAt = "status"
    /\ \/ DocExits(1)
       \/ /\ current \in Present
          /\ docAt' = "serviceSize"
          /\ status' = [problem |-> Problem(current), started |-> Started(current)]
          /\ UNCHANGED <<tries, room, ids, current, found, docExit>>
    /\ Unlooked

\* Seeded fault: a service of any name is taken for WinUSB.
BugReadiness(n, service) ==
    IF ~IsScanner(n) THEN "NotScanner"
    ELSE IF status.problem = 28 THEN "DriverMissing"
    ELSE IF status.problem # 0 THEN "DeviceProblem"
    ELSE IF ~status.started THEN "NotStarted" ELSE "DriverStarted"

\* Device::readiness, of a status and of a service read after it.
Readiness(n, service) ==
    IF ~IsScanner(n) THEN "NotScanner"
    ELSE IF status.problem = 28 THEN "DriverMissing"
    ELSE IF status.problem # 0 THEN "DeviceProblem"
    ELSE IF ~status.started THEN "NotStarted"
    ELSE IF service = 1 THEN "DriverStarted" ELSE "OtherDriver"

Records(service) ==
    /\ docAt' = "locate" /\ tries' = 0 /\ current' = NoNode
    /\ found' = [n \in DOMAIN found \cup {current} |->
                   IF n = current THEN Readiness(n, service) ELSE found[n]]
    /\ UNCHANGED <<room, ids, status, docExit>>

SizesService ==
    /\ docAt = "serviceSize"
    /\ \/ DocExits(1)
       \/ current \in Present /\ ServiceLength(current) = 0 /\ Records(0)
       \/ /\ current \in Present /\ ServiceLength(current) > 0
          /\ docAt' = "service" /\ room' = ServiceLength(current)
          /\ UNCHANGED <<tries, ids, current, status, found, docExit>>
    /\ Unlooked

\* Seeded fault: the property is asked for until it fits.
BugReadsService ==
    /\ docAt = "service"
    /\ \/ DocExits(1)
       \/ /\ current \in Present /\ ServiceLength(current) > room
          /\ docAt' = "serviceSize" /\ UNCHANGED <<tries, room, ids, current, status, found, docExit>>
       \/ current \in Present /\ ServiceLength(current) <= room /\ Records(ServiceLength(current))
    /\ Unlooked

ReadsService ==
    /\ docAt = "service"
    /\ \/ DocExits(1)
       \/ current \in Present /\ ServiceLength(current) > room /\ Retries("serviceSize")
       \/ current \in Present /\ ServiceLength(current) <= room /\ Records(ServiceLength(current))
    /\ Unlooked

-------------------------------------------------------------------------------
FoundScanners == {n \in DOMAIN found : IsScanner(n)}

\* main.rs: 0 only for the one scanner there is, ready; 2 for anything less.
Verdict ==
    IF Cardinality(FoundScanners) = 1 /\ \A n \in FoundScanners : found[n] = "DriverStarted"
    THEN 0 ELSE 2

Answers == docAt = "locate" /\ ids = {} /\ DocExits(Verdict) /\ Unlooked

DocStarts ==
    /\ docAt = "idle" /\ docAt' = "listSize"
    /\ UNCHANGED <<tries, room, ids, current, status, found, docExit>>
    /\ Unlooked

DocRuns ==
    \/ DocStarts \/ SizesList \/ ReadsList \/ (\E n \in ids : Locates(n))
    \/ ReadsStatus \/ SizesService \/ ReadsService \/ Answers
===============================================================================
