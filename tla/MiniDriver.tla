------------------------------ MODULE MiniDriver ------------------------------
(***************************************************************************)
(* com_server/minidrv: the IWiaMiniDrv object.  The lifecycle mutex guards *)
(* one enum; an entry point that needs the connection moves it out of the  *)
(* enum (locking::Borrow), leaves Busy behind, calls Windows without the   *)
(* mutex and moves it back or quarantines it.  A second, smaller mutex     *)
(* guards the registry of the running acquisition, which the cancel event  *)
(* reaches while the lifecycle is Busy.                                    *)
(*                                                                         *)
(* A call that is refused (Busy, wrong device, unexpected) changes nothing *)
(* and is not an action.  A thread may enter while its own call is under   *)
(* way in Windows - a reentrant callback - and then sees what any other    *)
(* thread sees.                                                            *)
(***************************************************************************)
EXTENDS Naturals, FiniteSets

CONSTANTS
    Threads, Devices,
    MaxClients,          \* u32::MAX, the bound of the client counter
    NoConnection, NoJob

ASSUME NoConnectionAssumption == NoConnection \notin [device : Devices, clients : Nat]
ASSUME NoJobAssumption == NoJob \notin [job : Threads, device : Devices]
ASSUME MaxClientsAssumption == MaxClients \in Nat \ {0}

VARIABLES
    lifecycle,   \* Idle, Busy, Connected or Failed
    stored,      \* the connection inside Connected
    held,        \* the connection each call has moved out
    at,          \* how far each call is
    active,      \* the acquisition the cancel registry knows
    flag,        \* its cancellation flag, one per job
    transfer,    \* what the transfer of each acquisition returned
    outcome,     \* what each acquisition told Windows
    stiLock,     \* external: who holds the lock of the retained IStiDevice
    refs,        \* external: references the driver keeps on that IStiDevice
    partial,     \* external: a service item was written in part
    clients,     \* history: application sessions Windows has open
    notified     \* history: acquisitions a cancel event of their device met

lifeVars == <<lifecycle, stored, held, clients>>
jobVars == <<active, flag, transfer, outcome, notified>>
outerVars == <<stiLock, refs, partial>>
vars == <<lifeVars, at, jobVars, outerVars>>

Connections == [device : Devices, clients : 1..MaxClients]

Stages == {"idle", "creates", "closes", "locks", "unlocks", "queries", "locked",
           "queried", "refused", "panicked", "publishes", "writes",
           "begins", "reads", "transfers", "finishes", "abandons", "unwinds",
           "returns", "releases", "fails", "drops"}

TypeOK ==
    /\ lifecycle \in {"Idle", "Busy", "Connected", "Failed"}
    /\ stored \in Connections \cup {NoConnection}
    /\ held \in [Threads -> Connections \cup {NoConnection}]
    /\ at \in [Threads -> Stages]
    /\ active \in [job : Threads, device : Devices] \cup {NoJob}
    /\ flag \in [Threads -> BOOLEAN]
    /\ transfer \in [Threads -> {"none", "completed", "stopped", "cancelled", "error"}]
    /\ outcome \in [Threads -> {"none", "S_OK", "S_FALSE", "error"}]
    /\ stiLock \in {"free", "service", "driver"}
    /\ refs \in 0..1 /\ partial \in BOOLEAN
    /\ clients \in 0..MaxClients
    /\ notified \subseteq Threads

Init ==
    /\ lifecycle = "Idle" /\ stored = NoConnection
    /\ held = [t \in Threads |-> NoConnection]
    /\ at = [t \in Threads |-> "idle"]
    /\ active = NoJob
    /\ flag = [t \in Threads |-> FALSE]
    /\ transfer = [t \in Threads |-> "none"]
    /\ outcome = [t \in Threads |-> "none"]
    /\ stiLock = "free" /\ refs = 0 /\ partial = FALSE
    /\ clients = 0 /\ notified = {}

Acquiring == {"reads", "transfers", "finishes", "abandons", "unwinds"}

Moves(t, from, to) == at[t] = from /\ at' = [at EXCEPT ![t] = to]

\* Busy from now on; the connection is with thread t alone.
MovesOut(t) ==
    /\ lifecycle = "Connected"
    /\ lifecycle' = "Busy"
    /\ held' = [held EXCEPT ![t] = stored]
    /\ stored' = NoConnection

\* The connection of t is destroyed, and with it the helper reference.
Discards(t) ==
    /\ refs' = IF held[t] = NoConnection THEN refs ELSE refs - 1
    /\ held' = [held EXCEPT ![t] = NoConnection]

-------------------------------------------------------------------------------
\* drvInitializeWia: a further session of the same device joins the connection, the
\* first one claims the lifecycle and builds the tree without the mutex.
InitializeJoins(t, d) ==
    /\ at[t] = "idle" /\ lifecycle = "Connected" /\ stored.device = d
    /\ stored.clients < MaxClients
    /\ stored' = [stored EXCEPT !.clients = @ + 1]
    /\ clients' = clients + 1
    /\ UNCHANGED <<lifecycle, held, at, jobVars, outerVars>>

\* Seeded fault: the lifecycle is still Idle while the tree is built.
BugInitializeClaims(t) ==
    /\ lifecycle = "Idle"
    /\ Moves(t, "idle", "creates")
    /\ UNCHANGED <<lifeVars, jobVars, outerVars>>

InitializeClaims(t) ==
    /\ lifecycle = "Idle"
    /\ lifecycle' = "Busy"
    /\ Moves(t, "idle", "creates")
    /\ UNCHANGED <<stored, held, clients, jobVars, outerVars>>

\* Seeded fault: the error path returns without giving the lifecycle back.
BugInitializeCreates(t, d) ==
    /\ \/ /\ lifecycle' = "Connected"
          /\ stored' = [device |-> d, clients |-> 1]
          /\ refs' = refs + 1 /\ clients' = clients + 1
       \/ UNCHANGED <<lifecycle, stored, refs, clients>>
    /\ Moves(t, "creates", "idle")
    /\ UNCHANGED <<held, jobVars, stiLock, partial>>

InitializeCreates(t, d) ==
    /\ \/ /\ lifecycle' = "Connected"
          /\ stored' = [device |-> d, clients |-> 1]
          /\ refs' = refs + 1 /\ clients' = clients + 1
       \/ /\ lifecycle' = "Idle"
          /\ UNCHANGED <<stored, refs, clients>>
    /\ Moves(t, "creates", "idle")
    /\ UNCHANGED <<held, jobVars, stiLock, partial>>

-------------------------------------------------------------------------------
\* drvUnInitializeWia: the last session closes the tree and releases the helper.
DisconnectLeaves(t) ==
    /\ at[t] = "idle" /\ lifecycle = "Connected" /\ stored.clients > 1
    /\ stored' = [stored EXCEPT !.clients = @ - 1]
    /\ clients' = clients - 1
    /\ UNCHANGED <<lifecycle, held, at, jobVars, outerVars>>

\* Seeded fault: any leaving session closes the connection of the others.
BugDisconnectTakes(t) ==
    /\ MovesOut(t)
    /\ Moves(t, "idle", "closes")
    /\ clients' = clients - 1
    /\ UNCHANGED <<jobVars, outerVars>>

DisconnectTakes(t) ==
    /\ stored # NoConnection /\ stored.clients = 1
    /\ MovesOut(t)
    /\ Moves(t, "idle", "closes")
    /\ clients' = clients - 1
    /\ UNCHANGED <<jobVars, outerVars>>

DisconnectCloses(t) ==
    /\ Moves(t, "closes", "idle")
    /\ Discards(t)
    /\ lifecycle' \in {"Idle", "Failed"}
    /\ UNCHANGED <<stored, clients, jobVars, stiLock, partial>>

-------------------------------------------------------------------------------
\* locking::Borrow: taken by every other entry point; what it does next is its stage.
Takes(t, stage) ==
    /\ MovesOut(t)
    /\ Moves(t, "idle", stage)
    /\ UNCHANGED <<clients, jobVars, outerVars>>

\* Drop without a failure.
Returns(t) ==
    /\ Moves(t, "returns", "idle")
    /\ lifecycle' = "Connected"
    /\ stored' = held[t]
    /\ held' = [held EXCEPT ![t] = NoConnection]
    /\ UNCHANGED <<clients, jobVars, outerVars>>

\* quarantine: the resources are released while Busy, then the lifecycle fails; the Drop
\* of the same Borrow writes Failed once more.  A Borrow dropped by a panic releases and
\* fails without that second write, which then has no effect here.
Releases(t) ==
    /\ Moves(t, "releases", "fails")
    /\ Discards(t)
    /\ UNCHANGED <<lifecycle, stored, clients, jobVars, stiLock, partial>>

Fails(t) ==
    /\ Moves(t, "fails", "drops")
    /\ lifecycle' = "Failed"
    /\ UNCHANGED <<stored, held, clients, jobVars, outerVars>>

Drops(t) ==
    /\ Moves(t, "drops", "idle")
    /\ lifecycle' = "Failed"
    /\ UNCHANGED <<stored, held, clients, jobVars, outerVars>>

-------------------------------------------------------------------------------
\* External: the IStiDevice the connection retains.  LockDevice gives up after
\* LOCK_TIMEOUT_MS; either call may fail and then leaves the lock as it was.
HelperLocks(owner) == stiLock = "free" /\ stiLock' = owner
HelperUnlocks == stiLock # "free" /\ stiLock' = "free"

\* drvLockWiaDevice and drvUnLockWiaDevice.
ServiceLocks(t) ==
    /\ Moves(t, "locks", "returns")
    /\ HelperLocks("service") \/ UNCHANGED stiLock
    /\ UNCHANGED <<lifeVars, jobVars, refs, partial>>

ServiceUnlocks(t) ==
    /\ \/ HelperUnlocks /\ Moves(t, "unlocks", "returns")
       \/ UNCHANGED stiLock /\ Moves(t, "unlocks", "releases")
    /\ UNCHANGED <<lifeVars, jobVars, refs, partial>>

\* with_live_capabilities_guarded: lock, query the scanner, unlock whatever the query
\* did, then publish the answer into the service item.
\*
\* Seeded fault: a refused lock is ignored, as the port is this driver's anyway.
BugQueryLocks(t) ==
    /\ HelperLocks("driver") \/ UNCHANGED stiLock
    /\ Moves(t, "queries", "locked")
    /\ UNCHANGED <<lifeVars, jobVars, refs, partial>>

QueryLocks(t) ==
    /\ \/ HelperLocks("driver") /\ Moves(t, "queries", "locked")
       \/ UNCHANGED stiLock /\ Moves(t, "queries", "returns")
    /\ UNCHANGED <<lifeVars, jobVars, refs, partial>>

\* Seeded fault: an error of the query skips the unlock.
BugQueryRuns(t) ==
    /\ \E to \in {"queried", "returns", "panicked"} : Moves(t, "locked", to)
    /\ UNCHANGED <<lifeVars, jobVars, outerVars>>

QueryRuns(t) ==
    /\ \E to \in {"queried", "refused", "panicked"} : Moves(t, "locked", to)
    /\ UNCHANGED <<lifeVars, jobVars, outerVars>>

\* Seeded fault: the cleanup of a failed query ignores that the unlock failed.
BugQueryUnlocks(t) ==
    /\ \/ /\ HelperUnlocks
          /\ \/ Moves(t, "queried", "publishes")
             \/ Moves(t, "refused", "returns")
             \/ Moves(t, "panicked", "releases")
       \/ /\ UNCHANGED stiLock
          /\ \/ Moves(t, "queried", "releases")
             \/ Moves(t, "refused", "returns")
             \/ Moves(t, "panicked", "releases")
    /\ UNCHANGED <<lifeVars, jobVars, refs, partial>>

QueryUnlocks(t) ==
    /\ \/ /\ HelperUnlocks
          /\ \/ Moves(t, "queried", "publishes")
             \/ Moves(t, "refused", "returns")
             \/ Moves(t, "panicked", "releases")
       \/ /\ UNCHANGED stiLock
          /\ \E from \in {"queried", "refused", "panicked"} : Moves(t, from, "releases")
    /\ UNCHANGED <<lifeVars, jobVars, refs, partial>>

\* The publisher validates first and asks for quarantine before its first write.
Publishes(t) ==
    /\ \E to \in {"writes", "returns", "releases"} : Moves(t, "publishes", to)
    /\ UNCHANGED <<lifeVars, jobVars, outerVars>>

\* Seeded fault: the publisher asks for quarantine only after its writes.
BugWrites(t) ==
    /\ Moves(t, "writes", "returns")
    /\ partial' \in {TRUE, partial}
    /\ UNCHANGED <<lifeVars, jobVars, stiLock, refs>>

Writes(t) ==
    /\ \/ Moves(t, "writes", "returns") /\ UNCHANGED partial
       \/ Moves(t, "writes", "releases") /\ partial' \in {TRUE, partial}
    /\ UNCHANGED <<lifeVars, jobVars, stiLock, refs>>

-------------------------------------------------------------------------------
\* acquire::dispatch: register with the cancel registry, read the item, transfer.
Begins(t) ==
    /\ Moves(t, "begins", IF active = NoJob THEN "reads" ELSE "returns")
    /\ IF active = NoJob
       THEN /\ active' = [job |-> t, device |-> held[t].device]
            /\ flag' = [flag EXCEPT ![t] = FALSE]
            /\ transfer' = [transfer EXCEPT ![t] = "none"]
            /\ outcome' = [outcome EXCEPT ![t] = "none"]
            /\ notified' = notified \ {t}
       ELSE UNCHANGED jobVars
    /\ UNCHANGED <<lifeVars, outerVars>>

Reads(t) ==
    /\ \E to \in {"transfers", "abandons", "unwinds"} : Moves(t, "reads", to)
    /\ UNCHANGED <<lifeVars, jobVars, outerVars>>

\* The transfer sees its flag or is stopped by the callback; it may also see neither.
Transfers(t) ==
    /\ \/ /\ \E r \in {"completed", "stopped", "error"} \cup (IF flag[t] THEN {"cancelled"} ELSE {}) :
                transfer' = [transfer EXCEPT ![t] = r]
          /\ Moves(t, "transfers", "finishes")
       \/ Moves(t, "transfers", "unwinds") /\ UNCHANGED transfer
    /\ UNCHANGED <<lifeVars, active, flag, outcome, notified, outerVars>>

\* What the acquisition answers: a flag that was raised before completion wins over
\* success, an error over everything.
Answer(result, cancelled) ==
    CASE result = "error" -> "error"
      [] result = "completed" /\ ~cancelled -> "S_OK"
      [] OTHER -> "S_FALSE"

\* Job::remove, one critical section of the registry.
Registered(t) == active # NoJob /\ active.job = t
Removes(t) == active' = IF Registered(t) THEN NoJob ELSE active

\* Seeded fault: the answer is settled before the job leaves the registry.
BugFinishes(t) ==
    /\ Moves(t, "finishes", "abandons")
    /\ outcome' = [outcome EXCEPT ![t] = Answer(transfer[t], flag[t])]
    /\ UNCHANGED <<lifeVars, active, flag, transfer, notified, outerVars>>

Finishes(t) ==
    /\ Moves(t, "finishes", "returns")
    /\ outcome' = [outcome EXCEPT ![t] = Answer(transfer[t], Registered(t) /\ flag[t])]
    /\ Removes(t)
    /\ UNCHANGED <<lifeVars, flag, transfer, notified, outerVars>>

\* The job's Drop, on an error of the read or a panic; it comes before that of the
\* Borrow.
Abandons(t) ==
    /\ Moves(t, "abandons", "returns") \/ Moves(t, "unwinds", "releases")
    /\ Removes(t)
    /\ UNCHANGED <<lifeVars, flag, transfer, outcome, notified, outerVars>>

\* drvNotifyPnpEvent with WIA_EVENT_CANCEL_IO for device d.
Notifies(d) ==
    /\ active # NoJob /\ active.device = d
    /\ flag' = [flag EXCEPT ![active.job] = TRUE]
    /\ notified' = notified \cup {t \in Threads : at[t] \in Acquiring /\ held[t].device = d}
    /\ UNCHANGED <<lifeVars, at, active, transfer, outcome, outerVars>>

-------------------------------------------------------------------------------
Enters(t) ==
    \/ \E d \in Devices : InitializeJoins(t, d)
    \/ InitializeClaims(t)
    \/ DisconnectLeaves(t) \/ DisconnectTakes(t)
    \/ \E stage \in {"locks", "unlocks", "queries", "begins", "returns"} : Takes(t, stage)

\* The steps that leave the item tree alone.
Runs(t) ==
    \/ Returns(t) \/ Fails(t) \/ Drops(t)
    \/ ServiceLocks(t) \/ ServiceUnlocks(t)
    \/ QueryLocks(t) \/ QueryRuns(t) \/ QueryUnlocks(t) \/ Publishes(t) \/ Writes(t)
    \/ Begins(t) \/ Reads(t) \/ Transfers(t) \/ Finishes(t) \/ Abandons(t)

Continues(t) ==
    \/ \E d \in Devices : InitializeCreates(t, d)
    \/ DisconnectCloses(t) \/ Releases(t)
    \/ Runs(t)

Next ==
    \/ \E t \in Threads : Enters(t) \/ Continues(t)
    \/ \E d \in Devices : Notifies(d)

Spec == Init /\ [][Next]_vars

\* The calls into Windows return: the lock has a timeout, a transfer ends (ScanJob).
Fairness == \A t \in Threads : WF_vars(Continues(t))

FairSpec == Spec /\ Fairness

-------------------------------------------------------------------------------
\* PROPERTIES

\* A Busy lifecycle is some running call's to give back, and it is one call's alone;
\* a connection is in the enum exactly while the lifecycle says Connected.
OneOwner ==
    /\ Cardinality({t \in Threads : at[t] \notin {"idle", "drops"}})
           = (IF lifecycle = "Busy" THEN 1 ELSE 0)
    /\ (stored # NoConnection) = (lifecycle = "Connected")

\* The driver counts the application sessions Windows has open, and keeps exactly one
\* reference on the STI object while it has a connection: it does not close the tree
\* under a session still open, nor keep the object after the last one left.
SessionsCounted ==
    /\ lifecycle = "Connected" => stored.clients = clients
    /\ lifecycle = "Idle" => clients = 0
    /\ refs = Cardinality({t \in Threads : held[t] # NoConnection})
              + (IF stored # NoConnection THEN 1 ELSE 0)

\* Both: the connection (minidrv.rs) has one place, and what it counts is there.
ConnectionAccounted == OneOwner /\ SessionsCounted

\* A lock the driver takes for its own query is given back before the connection is:
\* the service never finds the device locked by a call that has returned, unless the
\* connection is quarantined.
OwnLockGivenBack == stiLock = "driver" => lifecycle \in {"Busy", "Failed"}

\* An acquisition never reads settings that a failed update wrote in part.
PartialNeverScanned ==
    partial => \A t \in Threads : at[t] \notin {"begins", "reads", "transfers", "finishes"}

\* A cancel event that met the running acquisition of its device keeps it from
\* answering S_OK; one that came later, or for another device, cancels nothing.  The
\* registry holds nothing but the acquisition that owns the connection, so that none is
\* refused because of an earlier one that failed or panicked.
CancelAnswered ==
    /\ active # NoJob => at[active.job] \in Acquiring
    /\ \A t \in Threads :
         /\ outcome[t] = "S_OK" => t \notin notified
         /\ outcome[t] = "S_FALSE" => t \in notified \/ transfer[t] = "stopped"

\* A lock Windows asked for is given up by drvUnLockWiaDevice only.
ServiceLockKept ==
    [][stiLock = "service" /\ stiLock' # "service" => \E t \in Threads : at[t] = "unlocks"]_vars

\* Both: whoever took the lock (locking.rs), it is given back by the one who asked for it.
LocksGivenBack == []OwnLockGivenBack /\ ServiceLockKept

\* A failed lifecycle stays failed, although two writers record the same failure.
FailedIsFinal == [][lifecycle = "Failed" => lifecycle' = "Failed"]_lifecycle

\* Busy is always given up: no entry point answers Busy for ever.
BusyResolves == lifecycle = "Busy" ~> lifecycle # "Busy"
===============================================================================
