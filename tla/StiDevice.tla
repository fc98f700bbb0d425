------------------------------- MODULE StiDevice -------------------------------
(***************************************************************************)
(* com_server/sti.rs: the IStiUSD object.  Its own mutex guards the flags  *)
(* below and is never held across a call of the session slot, of the STI   *)
(* helper or of the scanner, so an entry point checks the flags, asks the  *)
(* slot and sets the flags in separate critical sections - one action      *)
(* each - and the other entry points run in between.                       *)
(*                                                                         *)
(* The slot is SessionSlot, step by step; what an operation does with the  *)
(* lent session (a scan, a presence check) is its verdict on reusability.  *)
(***************************************************************************)
EXTENDS SessionSlot

CONSTANT NoHelper

ASSUME NoHelperAssumption == NoHelper \notin Threads

VARIABLES
    initialized, stiLocked,
    helper,   \* whose IStiDeviceControl the object keeps (one per Initialize call)
    refs,     \* references taken on each caller's IStiDeviceControl
    call      \* how far each caller's entry point is

stiVars == <<initialized, stiLocked, helper, refs, call>>
vars == <<slotVars, stiVars>>

Calls == {"none", "reads", "publishes", "initOpens", "initOpening",
          "lockAsks", "lockOpens", "lockOpening", "lockSets",
          "unlockAsks", "unlockSets", "takes", "operates", "drops", "dropping", "gone"}

TypeOK ==
    /\ SlotTypeOK
    /\ initialized \in BOOLEAN /\ stiLocked \in BOOLEAN
    /\ helper \in Threads \cup {NoHelper}
    /\ refs \in [Threads -> 0..2]
    /\ call \in [Threads -> Calls]

Init ==
    /\ SlotInit
    /\ initialized = FALSE /\ stiLocked = FALSE
    /\ helper = NoHelper
    /\ refs = [t \in Threads |-> 0]
    /\ call = [t \in Threads |-> "none"]

Moves(t, from, to) == call[t] = from /\ call' = [call EXCEPT ![t] = to]

\* Runs a step of the slot and moves this entry point.
Via(step, t, from, to) ==
    /\ step
    /\ Moves(t, from, to)
    /\ UNCHANGED <<initialized, stiLocked, helper, refs>>

\* The object's last reference is still held by somebody: no Drop has begun.
Alive == \A t \in Threads : call[t] \notin {"drops", "dropping", "gone"}

-------------------------------------------------------------------------------
\* Initialize: check the flag, retain the helper and read its port name without the
\* mutex, then check again and publish; the loser of the race gives its reference back.
InitializeChecks(t) ==
    /\ Alive /\ ~initialized
    /\ Moves(t, "none", "reads")
    /\ refs' = [refs EXCEPT ![t] = @ + 1]
    /\ UNCHANGED <<slotVars, initialized, stiLocked, helper>>

InitializeReads(t) ==
    /\ \/ Moves(t, "reads", "publishes") /\ UNCHANGED refs
       \/ Moves(t, "reads", "none") /\ refs' = [refs EXCEPT ![t] = @ - 1]
    /\ UNCHANGED <<slotVars, initialized, stiLocked, helper>>

\* Seeded fault: the flag is not checked again before the helper is published.
BugInitializePublishes(t) ==
    /\ initialized' = TRUE /\ helper' = t /\ UNCHANGED refs
    /\ Moves(t, "publishes", "initOpens")
    /\ UNCHANGED <<slotVars, stiLocked>>

InitializePublishes(t) ==
    /\ \/ /\ initialized
          /\ refs' = [refs EXCEPT ![t] = @ - 1]
          /\ Moves(t, "publishes", "none")
          /\ UNCHANGED <<initialized, helper>>
       \/ /\ ~initialized
          /\ initialized' = TRUE /\ helper' = t
          /\ Moves(t, "publishes", "initOpens")
          /\ UNCHANGED refs
    /\ UNCHANGED <<slotVars, stiLocked>>

\* The first open of the USB session; its result is ignored.
InitializeOpens(t) == Via(OpenClaims(t) \/ Refuse(t, "Unlocked"), t, "initOpens", "initOpening")
InitializeReturns(t) ==
    at[t] = "idle" /\ Via(UNCHANGED slotVars, t, "initOpening", "none")

-------------------------------------------------------------------------------
\* LockDevice: the STI lock is a flag of its own; the session is opened if it is not.
LockChecks(t) ==
    Alive /\ initialized /\ ~stiLocked /\ Via(UNCHANGED slotVars, t, "none", "lockAsks")

LockAsks(t) ==
    /\ \/ Status = "Locked" /\ Moves(t, "lockAsks", "lockSets")
       \/ Status = "Unlocked" /\ Moves(t, "lockAsks", "lockOpens")
       \/ Status \in {"Busy", "Quarantined"} /\ Moves(t, "lockAsks", "none")
    /\ UNCHANGED <<slotVars, initialized, stiLocked, helper, refs>>

\* Seeded fault: LockDevice waits for the slot instead of reporting that it is busy.
BugLockOpens(t) == Via(OpenClaims(t), t, "lockOpens", "lockOpening")

LockOpens(t) == Via(OpenClaims(t) \/ Refuse(t, "Unlocked"), t, "lockOpens", "lockOpening")

\* Seeded fault: the outcome of the open is ignored, as in Initialize.
BugLockOpened(t) == at[t] = "idle" /\ Via(UNCHANGED slotVars, t, "lockOpening", "lockSets")

LockOpened(t) ==
    /\ at[t] = "idle"
    /\ Via(UNCHANGED slotVars, t, "lockOpening", IF result[t] = "Ok" THEN "lockSets" ELSE "none")

LockSets(t) ==
    /\ Moves(t, "lockSets", "none")
    /\ stiLocked' = TRUE
    /\ UNCHANGED <<slotVars, initialized, helper, refs>>

-------------------------------------------------------------------------------
\* UnLockDevice clears the flag only; the USB session stays open.
UnlockChecks(t) ==
    Alive /\ initialized /\ stiLocked /\ Via(UNCHANGED slotVars, t, "none", "unlockAsks")

UnlockAsks(t) ==
    Via(UNCHANGED slotVars, t, "unlockAsks",
        IF Status \in {"Busy", "Quarantined"} THEN "none" ELSE "unlockSets")

\* Seeded fault: unlocking closes the session as well.
BugUnlockSets(t) ==
    /\ UnlockTakes(t) \/ Refuse(t, "Locked")
    /\ Moves(t, "unlockSets", "initOpening")
    /\ stiLocked' = FALSE
    /\ UNCHANGED <<initialized, helper, refs>>

UnlockSets(t) ==
    /\ Moves(t, "unlockSets", "none")
    /\ stiLocked' = FALSE
    /\ UNCHANGED <<slotVars, initialized, helper, refs>>

-------------------------------------------------------------------------------
\* with_scan_session and presence_capabilities: both flags, then the loan.
OperationChecks(t) ==
    Alive /\ initialized /\ stiLocked /\ Via(UNCHANGED slotVars, t, "none", "takes")

OperationTakes(t) == Via(SessionTakes(t) \/ Refuse(t, "Locked"), t, "takes", "operates")

OperationReturns(t) ==
    at[t] = "idle" /\ Via(UNCHANGED slotVars, t, "operates", "none")

-------------------------------------------------------------------------------
\* Drop, by the caller of the final Release: the session is unlocked, then the helper
\* released.
FinalRelease(t) ==
    /\ \A s \in Threads : call[s] = "none"
    /\ Via(UNCHANGED slotVars, t, "none", "drops")

DropUnlocks(t) == Via(UnlockTakes(t) \/ Refuse(t, "Locked"), t, "drops", "dropping")

\* Seeded fault: the helper reference is forgotten.
BugDropReleases(t) ==
    /\ at[t] = "idle"
    /\ Moves(t, "dropping", "gone")
    /\ helper' = NoHelper
    /\ UNCHANGED <<slotVars, initialized, stiLocked, refs>>

DropReleases(t) ==
    /\ at[t] = "idle"
    /\ Moves(t, "dropping", "gone")
    /\ refs' = [s \in Threads |-> IF s = helper THEN refs[s] - 1 ELSE refs[s]]
    /\ helper' = NoHelper
    /\ UNCHANGED <<slotVars, initialized, stiLocked>>

-------------------------------------------------------------------------------
Enters(t) ==
    \/ InitializeChecks(t) \/ LockChecks(t) \/ UnlockChecks(t) \/ OperationChecks(t)
    \/ FinalRelease(t)

Continues(t) ==
    \/ InitializeReads(t) \/ InitializePublishes(t) \/ InitializeOpens(t) \/ InitializeReturns(t)
    \/ LockAsks(t) \/ LockOpens(t) \/ LockOpened(t) \/ LockSets(t)
    \/ UnlockAsks(t) \/ UnlockSets(t)
    \/ OperationTakes(t) \/ OperationReturns(t)
    \/ DropUnlocks(t) \/ DropReleases(t)
    \/ SlotRuns(t) /\ UNCHANGED stiVars

Next == \E t \in Threads : Enters(t) \/ Continues(t)

Spec == Init /\ [][Next]_vars

\* A started entry point runs on: the helper, the opener and the operation return.
Fairness == \A t \in Threads : WF_vars(Continues(t))

FairSpec == Spec /\ Fairness

-------------------------------------------------------------------------------
\* PROPERTIES

\* However Initialize calls race, fail and retry, the object keeps exactly one
\* reference on the one helper it published, and none after its Drop.
HelperBalanced ==
    \A t \in Threads :
        refs[t] = (IF helper = t THEN 1 ELSE 0)
                  + (IF call[t] \in {"reads", "publishes"} THEN 1 ELSE 0)

\* While the STI lock is set the USB session has been opened: it is at rest, lent or
\* quarantined, so no operation of the lock's owner is refused with NotLocked.
LockedHasSession ==
    (stiLocked /\ Alive) => slot \in {"Locked", "InUse", "Quarantined"}

\* Both: what the object's flags say (sti.rs, State) is so, however calls interleave.
FlagsAreTrue == HelperBalanced /\ LockedHasSession

\* The USB handle is given up only by quarantine or by the final Release, whatever is
\* locked and unlocked meanwhile: closing it lets the WIA service take the device.
HandleKept ==
    [][(Alive /\ slot \in {"Locked", "InUse"}) =>
           live \subseteq live' /\ slot' \in {"Locked", "InUse", "Quarantined"}]_vars

\* Every entry point returns: none waits for another one.
CallsReturn == \A t \in Threads : call[t] \notin {"none", "gone"} ~> call[t] \in {"none", "gone"}

\* sti.rs:999 and ENG.md:149: an operation in flight keeps the STI lock, UnLockDevice
\* answers Busy.
UnlockRefusedWhileLent == [][stiLocked /\ ~stiLocked' => slot # "InUse"]_vars
===============================================================================
