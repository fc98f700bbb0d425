------------------------------ MODULE SessionSlot ------------------------------
(***************************************************************************)
(* com_server/session.rs: the slot that owns the driver's single USB       *)
(* session.  A mutex guards the tag only; opening the device, running an   *)
(* operation and dropping the resource all happen outside it, so every     *)
(* critical section below is one action and calls interleave between them. *)
(*                                                                         *)
(* A re-entrant call made by a running operation behaves like the call of  *)
(* another thread: it meets a busy slot and returns without a state change.*)
(***************************************************************************)
EXTENDS Naturals, FiniteSets

CONSTANTS Threads,   \* callers that may be inside the slot at the same time
          Handles,   \* identities an opened USB session can have
          NoHandle,
          NoThread   \* "nobody", for the holder of HandleContract

ASSUME NoHandleAssumption == NoHandle \notin Handles
ASSUME NoThreadAssumption == NoThread \notin Threads

VARIABLES
    slot,     \* tag of the Connection enum
    stored,   \* the T inside Connection::Locked(T)
    at,       \* where each caller stands
    lease,    \* the resource a caller has moved out of the slot (or just opened)
    live,     \* handles open at the operating system
    result    \* what each caller's last call returned

slotVars == <<slot, stored, at, lease, live, result>>

Tags    == {"Unlocked", "Opening", "Closing", "Locked", "InUse", "Quarantined"}
Points  == {"idle", "opening", "publishing", "closing", "closed", "using",
            "failed", "unwinding"}
Results == {"None", "Ok", "Busy", "NotLocked", "Quarantined", "OpenError", "Panic"}

SlotTypeOK ==
    /\ slot \in Tags
    /\ stored \in Handles \cup {NoHandle}
    /\ at \in [Threads -> Points]
    /\ lease \in [Threads -> Handles \cup {NoHandle}]
    /\ live \subseteq Handles
    /\ result \in [Threads -> Results]

SlotInit ==
    /\ slot = "Unlocked"
    /\ stored = NoHandle
    /\ at = [t \in Threads |-> "idle"]
    /\ lease = [t \in Threads |-> NoHandle]
    /\ live = {}
    /\ result = [t \in Threads |-> "None"]

-------------------------------------------------------------------------------
\* SessionSlot::status, and the error a call gets when the tag is not the one it needs.
Transient == {"Opening", "Closing", "InUse"}

Status == IF slot \in Transient THEN "Busy" ELSE slot

RefusalOf == CASE slot = "Quarantined" -> "Quarantined"
               [] slot = "Unlocked"    -> "NotLocked"
               [] OTHER                -> "Busy"

Goes(t, from, to) == at[t] = from /\ at' = [at EXCEPT ![t] = to]

Returns(t, from, value) ==
    /\ Goes(t, from, "idle")
    /\ result' = [result EXCEPT ![t] = value]

\* The early returns of open, unlock and with_session.
Refuse(t, needed) ==
    /\ slot # needed
    /\ Returns(t, "idle", RefusalOf)
    /\ UNCHANGED <<slot, stored, lease, live>>

-------------------------------------------------------------------------------
\* open: claim the slot, call the opener without the mutex, publish its resource.
\* Seeded fault: the claim is not exclusive.
BugOpenJoins(t) ==
    /\ slot \in {"Unlocked", "Opening"}
    /\ Goes(t, "idle", "opening")
    /\ slot' = "Opening"
    /\ UNCHANGED <<stored, lease, live, result>>

OpenClaims(t) ==
    /\ slot = "Unlocked"
    /\ Goes(t, "idle", "opening")
    /\ slot' = "Opening"
    /\ UNCHANGED <<stored, lease, live, result>>

OpenReturns(t, h) ==
    /\ h \notin live
    /\ Goes(t, "opening", "publishing")
    /\ live' = live \cup {h}
    /\ lease' = [lease EXCEPT ![t] = h]
    /\ UNCHANGED <<slot, stored, result>>

\* An error or an unwinding opener: the guard puts Unlocked back (the seeded fault
\* before it forgets to).
BugOpenFailsNoGuard(t) ==
    /\ \E why \in {"OpenError", "Panic"} : Returns(t, "opening", why)
    /\ UNCHANGED <<slot, stored, lease, live>>

OpenFails(t) ==
    /\ \E why \in {"OpenError", "Panic"} : Returns(t, "opening", why)
    /\ slot' = "Unlocked"
    /\ UNCHANGED <<stored, lease, live>>

\* The guard is disarmed in the critical section that publishes the resource; the
\* seeded fault publishes with the guard still armed, so OpenFails can follow.
BugPublishesArmed(t) ==
    /\ Goes(t, "publishing", "opening")
    /\ slot' = "Locked"
    /\ stored' = lease[t]
    /\ lease' = [lease EXCEPT ![t] = NoHandle]
    /\ UNCHANGED <<live, result>>

OpenPublishes(t) ==
    /\ Returns(t, "publishing", "Ok")
    /\ slot' = "Locked"
    /\ stored' = lease[t]
    /\ lease' = [lease EXCEPT ![t] = NoHandle]
    /\ UNCHANGED live

-------------------------------------------------------------------------------
\* unlock: move the resource out, drop it without the mutex, then free the slot.
TakeResource(t, tag, point) ==
    /\ slot = "Locked"
    /\ Goes(t, "idle", point)
    /\ slot' = tag
    /\ lease' = [lease EXCEPT ![t] = stored]
    /\ stored' = NoHandle
    /\ UNCHANGED <<live, result>>

\* Seeded fault: the slot is free again before the resource is dropped.
BugUnlockFreesFirst(t) == TakeResource(t, "Unlocked", "closing")

UnlockTakes(t) == TakeResource(t, "Closing", "closing")

UnlockDrops(t) ==
    /\ Goes(t, "closing", "closed")
    /\ live' = live \ {lease[t]}
    /\ lease' = [lease EXCEPT ![t] = NoHandle]
    /\ UNCHANGED <<slot, stored, result>>

\* A panicking drop may or may not have closed the handle; the guard quarantines.
UnlockDropPanics(t) ==
    /\ Returns(t, "closing", "Panic")
    /\ live' \in {live, live \ {lease[t]}}
    /\ lease' = [lease EXCEPT ![t] = NoHandle]
    /\ slot' = "Quarantined"
    /\ UNCHANGED stored

UnlockPublishes(t) ==
    /\ Returns(t, "closed", "Ok")
    /\ slot' = "Unlocked"
    /\ UNCHANGED <<stored, lease, live>>

-------------------------------------------------------------------------------
\* with_session: lend the resource to one operation.
SessionTakes(t) == TakeResource(t, "InUse", "using")

\* The operation reports a safe command boundary and the lease puts the resource back.
SessionReusable(t) ==
    /\ Returns(t, "using", "Ok")
    /\ slot' = "Locked"
    /\ stored' = lease[t]
    /\ lease' = [lease EXCEPT ![t] = NoHandle]
    /\ UNCHANGED live

\* Any other end of the operation, unwinding included, quarantines the slot first.
SessionSpoiled(t) ==
    /\ \E point \in {"failed", "unwinding"} : Goes(t, "using", point)
    /\ slot' = "Quarantined"
    /\ UNCHANGED <<stored, lease, live, result>>

\* ... and drops the resource after the mutex has been released.
LeaseDrops(t) ==
    /\ \/ Returns(t, "failed", "Ok")
       \/ Returns(t, "unwinding", "Panic")
    /\ live' = live \ {lease[t]}
    /\ lease' = [lease EXCEPT ![t] = NoHandle]
    /\ UNCHANGED <<slot, stored>>

-------------------------------------------------------------------------------
\* What a caller may start, and the steps a started call still has to take.
SlotCall(t) ==
    \/ OpenClaims(t) \/ Refuse(t, "Unlocked")
    \/ UnlockTakes(t) \/ SessionTakes(t) \/ Refuse(t, "Locked")

SlotRuns(t) ==
    \/ (\E h \in Handles : OpenReturns(t, h)) \/ OpenFails(t) \/ OpenPublishes(t)
    \/ UnlockDrops(t) \/ UnlockDropPanics(t) \/ UnlockPublishes(t)
    \/ SessionReusable(t) \/ SessionSpoiled(t) \/ LeaseDrops(t)

SlotNext == \E t \in Threads : SlotCall(t) \/ SlotRuns(t)

SlotSpec == SlotInit /\ [][SlotNext]_slotVars

\* Openers, drops and operations return: every USB call has a timeout and every
\* scan a deadline.  Nobody is obliged to start a call.
SlotFairness == \A t \in Threads : WF_slotVars(SlotRuns(t))

FairSlotSpec == SlotSpec /\ SlotFairness

-------------------------------------------------------------------------------
\* PROPERTIES

Owned == ({stored} \cup {lease[t] : t \in Threads}) \ {NoHandle}

\* WinUSB admits one open handle per device: whatever calls race through open,
\* unlock, failed openers and panicking drops, the slot never has two open.
ExclusiveHandle == \A g, h \in live : g = h

\* A handle the slot stores or a call works on is open (never used or stored after
\* its drop), belongs to one of them only, and outside quarantine none is leaked.
HandlesAccounted ==
    /\ Owned \subseteq live
    /\ \A t \in Threads : lease[t] # NoHandle =>
          /\ lease[t] # stored
          /\ \A s \in Threads \ {t} : lease[s] # lease[t]
    /\ slot # "Quarantined" => live = Owned

\* What session.rs owes its callers for a handle: there is one, and it is accounted for.
HandlesKept == ExclusiveHandle /\ HandlesAccounted

\* "Quarantined" is final: no later call opens the device or borrows the resource.
QuarantineIsFinal ==
    [][slot = "Quarantined" =>
          /\ slot' = "Quarantined"
          /\ live' \subseteq live
          /\ \A t \in Threads : at'[t] = "using" => at[t] = "using"]_slotVars

\* A slot that is opening, closing or lent comes back to a resting tag: no failed
\* opener, refused call or panic leaves every later caller with Busy for ever.
TransientResolves == (slot \in Transient) ~> (slot \notin Transient)

-------------------------------------------------------------------------------
\* The slot implements HandleContract.
ActivePoints == {"opening", "publishing", "closing", "closed", "using"}

PhaseOf ==
    CASE slot = "Unlocked"                 -> "closed"
      [] slot \in {"Opening", "Closing"}   -> "moving"
      [] slot = "Locked"                   -> "free"
      [] slot = "InUse"                    -> "lent"
      [] slot = "Quarantined"              -> "retired"

HolderOf == IF \E t \in Threads : at[t] \in ActivePoints
            THEN CHOOSE t \in Threads : at[t] \in ActivePoints
            ELSE NoThread

Contract == INSTANCE HandleContract WITH phase <- PhaseOf, holder <- HolderOf

\* Every step of the slot is a step of the exclusive-loan contract or invisible in it:
\* only the call that took the slot brings it back to rest.
ImplementsContract == Contract!ContractSpec
===============================================================================
