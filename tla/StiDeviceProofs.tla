---------------------------- MODULE StiDeviceProofs ----------------------------
(***************************************************************************)
(* The safety properties of SessionSlot, StiDevice and StiEntries for any  *)
(* set of callers and handles.  The slot comes first and is proved by      *)
(* itself.  Every step of the device is a step of the slot or leaves the   *)
(* slot alone - so SlotInv is an invariant of the device too.              *)
(***************************************************************************)
EXTENDS StiEntries, TLAPS

-------------------------------------------------------------------------------
(* THE SLOT *)

\* Where a call stands determines the tag.
TagInv ==
    \A t \in Threads :
        /\ at[t] \in {"opening", "publishing"} => slot = "Opening"
        /\ at[t] \in {"closing", "closed"} => slot = "Closing"
        /\ at[t] = "using" => slot = "InUse"
        /\ at[t] \in {"failed", "unwinding"} => slot = "Quarantined"

\* At most one call is past its claim, and a transient tag has such a call behind it.
ActorInv ==
    /\ \A s, t \in Threads : at[s] # "idle" /\ at[t] # "idle" => s = t
    /\ slot \in Transient => \E t \in Threads : at[t] \in ActivePoints

Holding == {"publishing", "closing", "using", "failed", "unwinding"}

\* Who holds the handle, and that it is then the only one open.
HandleInv ==
    /\ slot = "Locked" <=> stored # NoHandle
    /\ stored # NoHandle => live = {stored}
    /\ slot = "Unlocked" => live = {}
    /\ \A t \in Threads :
         /\ lease[t] # NoHandle <=> at[t] \in Holding
         /\ lease[t] # NoHandle => live = {lease[t]}
         /\ at[t] \in {"opening", "closed"} => live = {}
    /\ \A g, h \in live : g = h

SlotInv == SlotTypeOK /\ TagInv /\ ActorInv /\ HandleInv

-------------------------------------------------------------------------------
LEMMA InitEstablishesSlotInv == SlotInit => SlotInv
  BY NoHandleAssumption
     DEF SlotInit, SlotInv, SlotTypeOK, TagInv, ActorInv, HandleInv, Tags, Points,
         Results, Transient, Holding

LEMMA NextKeepsSlotInv == SlotInv /\ [SlotNext]_slotVars => SlotInv'
<1> SUFFICES ASSUME SlotInv, [SlotNext]_slotVars PROVE SlotInv'
  OBVIOUS
<1> USE NoHandleAssumption
    DEF SlotInv, SlotTypeOK, TagInv, ActorInv, HandleInv, Tags, Points, Results,
        Transient, Holding, ActivePoints, Goes, Returns
<1>1. CASE UNCHANGED slotVars
  BY <1>1 DEF slotVars
<1>2. ASSUME NEW t \in Threads, SlotCall(t) PROVE SlotInv'
  <2>1. CASE OpenClaims(t)
    BY <2>1 DEF OpenClaims
  <2>2. CASE Refuse(t, "Unlocked") \/ Refuse(t, "Locked")
    BY <2>2 DEF Refuse, RefusalOf
  <2>3. CASE UnlockTakes(t)
    BY <2>3 DEF UnlockTakes, TakeResource
  <2>4. CASE SessionTakes(t)
    BY <2>4 DEF SessionTakes, TakeResource
  <2>5. QED
    BY <1>2, <2>1, <2>2, <2>3, <2>4 DEF SlotCall
<1>3. ASSUME NEW t \in Threads, SlotRuns(t) PROVE SlotInv'
  <2>1. ASSUME NEW h \in Handles, OpenReturns(t, h) PROVE SlotInv'
    BY <2>1 DEF OpenReturns
  <2>2. CASE OpenFails(t)
    BY <2>2 DEF OpenFails
  <2>3. CASE OpenPublishes(t)
    BY <2>3 DEF OpenPublishes
  <2>4. CASE UnlockDrops(t)
    BY <2>4 DEF UnlockDrops
  <2>5. CASE UnlockDropPanics(t)
    BY <2>5 DEF UnlockDropPanics
  <2>6. CASE UnlockPublishes(t)
    BY <2>6 DEF UnlockPublishes
  <2>7. CASE SessionReusable(t)
    BY <2>7 DEF SessionReusable
  <2>8. CASE SessionSpoiled(t)
    BY <2>8 DEF SessionSpoiled
  <2>9. CASE LeaseDrops(t)
    BY <2>9 DEF LeaseDrops
  <2>10. QED
    BY <1>3, <2>1, <2>2, <2>3, <2>4, <2>5, <2>6, <2>7, <2>8, <2>9 DEF SlotRuns
<1>4. QED
  BY <1>1, <1>2, <1>3 DEF SlotNext

LEMMA SlotInvariant == SlotSpec => []SlotInv
  BY InitEstablishesSlotInv, NextKeepsSlotInv, PTL DEF SlotSpec

-------------------------------------------------------------------------------
\* The type invariant of the slot.
THEOREM SlotTypeCorrect == SlotSpec => []SlotTypeOK
<1>1. SlotInv => SlotTypeOK
  BY DEF SlotInv
<1>2. QED
  BY <1>1, SlotInvariant, PTL

\* However open, unlock, with_session, failed openers and panics interleave, the
\* slot never has two USB handles open.
THEOREM HandleIsExclusive == SlotSpec => []ExclusiveHandle
<1>1. SlotInv => ExclusiveHandle
  BY DEF SlotInv, HandleInv, ExclusiveHandle
<1>2. QED
  BY <1>1, SlotInvariant, PTL

\* No handle is used after its drop, owned twice, or leaked outside quarantine.
THEOREM HandlesAreAccounted == SlotSpec => []HandlesAccounted
<1>1. SlotInv => HandlesAccounted
  <2> SUFFICES ASSUME SlotInv PROVE HandlesAccounted
    OBVIOUS
  <2> USE DEF SlotInv, SlotTypeOK, TagInv, ActorInv, HandleInv, Owned, Holding
  <2>1. Owned \subseteq live
    OBVIOUS
  <2>2. ASSUME NEW t \in Threads, lease[t] # NoHandle
        PROVE  /\ lease[t] # stored
               /\ \A s \in Threads \ {t} : lease[s] # lease[t]
    BY <2>2
  <2>3. ASSUME slot # "Quarantined" PROVE live = Owned
    <3>1. CASE slot = "Unlocked"
      BY <3>1, <2>1
    <3>2. CASE slot = "Locked"
      BY <3>2
    <3>3. CASE slot \in Transient
      BY <3>3, <2>1 DEF Transient, ActivePoints
    <3>4. QED
      BY <2>3, <3>1, <3>2, <3>3 DEF Tags, Transient
  <2>4. QED
    BY <2>1, <2>2, <2>3 DEF HandlesAccounted
<1>2. QED
  BY <1>1, SlotInvariant, PTL

\* Quarantine is final: nothing reopens the device or borrows the resource again.
THEOREM QuarantineStays == SlotSpec => QuarantineIsFinal
<1> DEFINE Final == slot = "Quarantined" =>
                      /\ slot' = "Quarantined"
                      /\ live' \subseteq live
                      /\ \A t \in Threads : at'[t] = "using" => at[t] = "using"
<1>1. SlotInv /\ [SlotNext]_slotVars => [Final]_slotVars
  <2> SUFFICES ASSUME SlotInv, SlotNext, slot = "Quarantined" PROVE Final
    BY DEF slotVars
  <2> USE DEF SlotInv, SlotTypeOK, TagInv, Goes, Returns
  <2>1. PICK t \in Threads : SlotCall(t) \/ SlotRuns(t)
    BY DEF SlotNext
  <2>2. CASE Refuse(t, "Unlocked") \/ Refuse(t, "Locked")
    BY <2>2 DEF Refuse
  <2>3. CASE LeaseDrops(t)
    BY <2>3 DEF LeaseDrops
  <2>4. QED
    BY <2>1, <2>2, <2>3
       DEF SlotCall, SlotRuns, OpenClaims, UnlockTakes, SessionTakes, TakeResource,
           OpenReturns, OpenFails, OpenPublishes, UnlockDrops, UnlockDropPanics,
           UnlockPublishes, SessionReusable, SessionSpoiled
<1>2. QED
  BY <1>1, SlotInvariant, PTL DEF SlotSpec, QuarantineIsFinal

-------------------------------------------------------------------------------
\* The slot implements the exclusive-loan contract: only the call that took the slot
\* out of a resting phase brings it back, and "retired" is never left.
THEOREM SlotImplementsContract == SlotSpec => ImplementsContract
<1> USE DEF SlotInv, SlotTypeOK, TagInv, ActorInv
<1>1. SlotInit => Contract!ContractInit
  BY DEF SlotInit, Contract!ContractInit, PhaseOf, HolderOf, ActivePoints
<1>2. SlotInv /\ SlotInv' /\ [SlotNext]_slotVars => [Contract!ContractNext]_(Contract!contractVars)
  <2> SUFFICES ASSUME SlotInv, SlotInv', [SlotNext]_slotVars
               PROVE  [Contract!ContractNext]_(Contract!contractVars)
    OBVIOUS
  <2>1. CASE UNCHANGED slotVars
    BY <2>1 DEF slotVars, Contract!contractVars, PhaseOf, HolderOf, ActivePoints
  <2>2. ASSUME NEW t \in Threads, SlotCall(t) \/ SlotRuns(t)
        PROVE  [Contract!ContractNext]_(Contract!contractVars)
    <3> USE DEF Goes, Returns
    <3>1. ASSUME at[t] \in ActivePoints PROVE HolderOf = t
      BY <3>1 DEF HolderOf, ActivePoints
    <3>2. ASSUME \A s \in Threads : at[s] \notin ActivePoints PROVE HolderOf = NoThread
      BY <3>2 DEF HolderOf
    <3>3. ASSUME at'[t] \in ActivePoints PROVE HolderOf' = t
      BY <3>3 DEF HolderOf, ActivePoints
    <3>4. ASSUME \A s \in Threads : at'[s] \notin ActivePoints PROVE HolderOf' = NoThread
      BY <3>4 DEF HolderOf
    <3>5. CASE OpenClaims(t)
      <4>1. PhaseOf = "closed" /\ PhaseOf' = "moving" /\ HolderOf' = t
        BY <3>5, <3>3 DEF OpenClaims, PhaseOf, ActivePoints
      <4>2. QED
        BY <4>1 DEF Contract!ContractNext, Contract!Take
    <3>6. CASE UnlockTakes(t)
      <4>1. PhaseOf = "free" /\ PhaseOf' = "moving" /\ HolderOf' = t
        BY <3>6, <3>3 DEF UnlockTakes, TakeResource, PhaseOf, ActivePoints
      <4>2. QED
        BY <4>1 DEF Contract!ContractNext, Contract!Take
    <3>7. CASE SessionTakes(t)
      <4>1. PhaseOf = "free" /\ PhaseOf' = "lent" /\ HolderOf' = t
        BY <3>7, <3>3 DEF SessionTakes, TakeResource, PhaseOf, ActivePoints
      <4>2. QED
        BY <4>1 DEF Contract!ContractNext, Contract!Take
    <3>8. CASE OpenFails(t) \/ OpenPublishes(t) \/ UnlockDropPanics(t) \/ UnlockPublishes(t)
      <4>1. /\ PhaseOf = "moving" /\ HolderOf = t /\ HolderOf' = NoThread
            /\ PhaseOf' \in {"closed", "free", "retired"}
        BY <3>8, <3>1, <3>4
           DEF OpenFails, OpenPublishes, UnlockDropPanics, UnlockPublishes, PhaseOf,
               ActivePoints
      <4>2. QED
        BY <4>1 DEF Contract!ContractNext, Contract!Give
    <3>9. CASE SessionReusable(t) \/ SessionSpoiled(t)
      <4>1. /\ PhaseOf = "lent" /\ HolderOf = t /\ HolderOf' = NoThread
            /\ PhaseOf' \in {"free", "retired"}
        BY <3>9, <3>1, <3>4
           DEF SessionReusable, SessionSpoiled, PhaseOf, ActivePoints
      <4>2. QED
        BY <4>1 DEF Contract!ContractNext, Contract!Give
    <3>10. CASE \/ Refuse(t, "Unlocked") \/ Refuse(t, "Locked")
                \/ (\E h \in Handles : OpenReturns(t, h))
                \/ UnlockDrops(t) \/ LeaseDrops(t)
      <4>1. slot' = slot
        BY <3>10 DEF Refuse, OpenReturns, UnlockDrops, LeaseDrops
      <4>2. \A s \in Threads : at'[s] \in ActivePoints <=> at[s] \in ActivePoints
        BY <3>10 DEF Refuse, OpenReturns, UnlockDrops, LeaseDrops, ActivePoints
      <4>3. PhaseOf' = PhaseOf
        BY <4>1 DEF PhaseOf
      <4>4. HolderOf' = HolderOf
        BY <4>2 DEF HolderOf
      <4>5. QED
        BY <4>3, <4>4 DEF Contract!contractVars
    <3>11. QED
      BY <2>2, <3>5, <3>6, <3>7, <3>8, <3>9, <3>10 DEF SlotCall, SlotRuns
  <2>3. QED
    BY <2>1, <2>2 DEF SlotNext
<1>3. QED
  BY <1>1, <1>2, SlotInvariant, PTL DEF SlotSpec, ImplementsContract, Contract!ContractSpec

\* At most one handle is open, and it is accounted for.
THEOREM HandlesAreKept == SlotSpec => []HandlesKept
<1>1. HandlesKept <=> ExclusiveHandle /\ HandlesAccounted
  BY DEF HandlesKept
<1> QED
  BY <1>1, HandleIsExclusive, HandlesAreAccounted, PTL

-------------------------------------------------------------------------------
(* THE DEVICE *)

Opened == {"Locked", "InUse", "Quarantined"}

\* The helper is published once, and each caller's references follow from where it is.
HelperInv ==
    /\ ~initialized => helper = NoHelper
    /\ HelperBalanced

\* Which entry point a caller inside the slot came from: only the final Release unlocks.
PathInv ==
    \A t \in Threads :
        /\ at[t] \in {"opening", "publishing"} => call[t] \in {"initOpening", "lockOpening"}
        /\ at[t] \in {"using", "failed", "unwinding"} => call[t] = "operates"
        /\ at[t] \in {"closing", "closed"} => call[t] = "dropping"
        /\ call[t] \in {"drops", "dropping", "gone"} =>
              \A s \in Threads \ {t} : call[s] = "none"

\* Whoever sets the STI lock has seen the session open.
LockInv ==
    /\ \A t \in Threads :
         /\ call[t] = "lockSets" => slot \in Opened
         /\ call[t] = "lockOpening" /\ at[t] = "idle" /\ result[t] = "Ok" => slot \in Opened
    /\ LockedHasSession

StiInv == SlotInv /\ TypeOK /\ HelperInv /\ PathInv /\ LockInv

-------------------------------------------------------------------------------
LEMMA InitEstablishesStiInv == Init => StiInv
<1> SUFFICES ASSUME Init PROVE StiInv
  OBVIOUS
<1>1. SlotInv
  BY InitEstablishesSlotInv DEF Init
<1>2. TypeOK
  <2>1. SlotTypeOK
    BY <1>1 DEF SlotInv
  <2>2. refs \in [Threads -> 0..2] /\ call \in [Threads -> Calls]
    BY DEF Init, Calls
  <2> QED
    BY <2>1, <2>2 DEF Init, TypeOK
<1>3. HelperInv
  BY NoHelperAssumption DEF Init, HelperInv, HelperBalanced
<1>4. PathInv /\ LockInv
  BY DEF Init, SlotInit, PathInv, LockInv, LockedHasSession
<1> QED
  BY <1>1, <1>2, <1>3, <1>4 DEF StiInv

LEMMA DeviceStepIsSlotStep ==
  ASSUME NEW t \in Threads, Enters(t) \/ Continues(t)
  PROVE  SlotCall(t) \/ SlotRuns(t) \/ UNCHANGED slotVars
  BY DEF Enters, Continues, Via, SlotCall,
         InitializeChecks, InitializeReads, InitializePublishes, InitializeOpens,
         InitializeReturns, LockChecks, LockAsks, LockOpens, LockOpened, LockSets,
         UnlockChecks, UnlockAsks, UnlockSets, OperationChecks, OperationTakes,
         OperationReturns, FinalRelease, DropUnlocks, DropReleases

LEMMA NextKeepsSlotPart == SlotInv /\ [Next]_vars => SlotInv'
<1> SUFFICES ASSUME SlotInv, [Next]_vars PROVE [SlotNext]_slotVars
  BY NextKeepsSlotInv
<1> QED
  BY DeviceStepIsSlotStep DEF Next, SlotNext, vars

-------------------------------------------------------------------------------
\* The flags, the helper and its references: no slot step is concerned.
LEMMA NextKeepsHelperInv == StiInv /\ SlotInv' /\ [Next]_vars => TypeOK' /\ HelperInv'
<1> SUFFICES ASSUME StiInv, SlotInv', [Next]_vars PROVE TypeOK' /\ HelperInv'
  OBVIOUS
<1> USE NoHelperAssumption DEF StiInv, SlotInv, TypeOK, HelperInv, HelperBalanced, Calls, Moves
<1> HIDE DEF SlotInv
<1>1. SlotTypeOK'
  BY DEF SlotInv
<1>2. CASE UNCHANGED vars
  BY <1>1, <1>2 DEF vars, stiVars
<1>3. ASSUME NEW t \in Threads, Enters(t) \/ Continues(t) PROVE TypeOK' /\ HelperInv'
  <2>1. CASE InitializeChecks(t)
    BY <1>1, <2>1 DEF InitializeChecks
  <2>2. CASE InitializeReads(t)
    BY <1>1, <2>2 DEF InitializeReads
  <2>3. CASE InitializePublishes(t)
    <3>1. refs[t] \in 1..2 /\ (helper = t <=> refs[t] = 2)
      BY <2>3 DEF InitializePublishes
    <3>2. CASE initialized
      BY <1>1, <2>3, <3>1, <3>2 DEF InitializePublishes
    <3>3. CASE ~initialized
      <4>1. /\ call' = [call EXCEPT ![t] = "initOpens"]
            /\ initialized' = TRUE /\ helper = NoHelper /\ helper' = t
            /\ UNCHANGED <<stiLocked, refs>>
        BY <2>3, <3>3 DEF InitializePublishes
      <4> QED
        BY <1>1, <3>1, <4>1
    <3> QED
      BY <3>2, <3>3
  <2>4. CASE InitializeOpens(t) \/ InitializeReturns(t)
    BY <1>1, <2>4 DEF InitializeOpens, InitializeReturns, Via
  <2>5. CASE LockChecks(t) \/ LockOpens(t) \/ LockOpened(t)
    BY <1>1, <2>5 DEF LockChecks, LockOpens, LockOpened, Via
  <2>6. CASE LockAsks(t)
    <3>1. PICK to \in {"lockSets", "lockOpens", "none"} : Moves(t, "lockAsks", to)
      BY <2>6 DEF LockAsks
    <3> QED
      BY <1>1, <2>6, <3>1 DEF LockAsks
  <2>7. CASE LockSets(t) \/ UnlockSets(t)
    BY <1>1, <2>7 DEF LockSets, UnlockSets
  <2>8. CASE UnlockChecks(t) \/ UnlockAsks(t)
    BY <1>1, <2>8 DEF UnlockChecks, UnlockAsks, Via
  <2>9. CASE OperationChecks(t) \/ OperationTakes(t) \/ OperationReturns(t)
    BY <1>1, <2>9 DEF OperationChecks, OperationTakes, OperationReturns, Via
  <2>10. CASE FinalRelease(t) \/ DropUnlocks(t)
    BY <1>1, <2>10 DEF FinalRelease, DropUnlocks, Via
  <2>11. CASE DropReleases(t)
    BY <1>1, <2>11 DEF DropReleases, PathInv
  <2>12. CASE SlotRuns(t) /\ UNCHANGED stiVars
    BY <1>1, <2>12 DEF stiVars
  <2> QED
    BY <1>3, <2>1, <2>2, <2>3, <2>4, <2>5, <2>6, <2>7, <2>8, <2>9, <2>10, <2>11, <2>12
       DEF Enters, Continues
<1> QED
  BY <1>2, <1>3 DEF Next

-------------------------------------------------------------------------------
LEMMA NextKeepsPathInv == StiInv /\ [Next]_vars => PathInv'
<1> SUFFICES ASSUME StiInv, [Next]_vars PROVE PathInv'
  OBVIOUS
<1> USE DEF StiInv, TypeOK, SlotTypeOK, PathInv, Moves, Goes, Returns, Alive, Calls, Points
<1>1. CASE UNCHANGED vars
  BY <1>1 DEF vars, stiVars, slotVars
<1>2. ASSUME NEW t \in Threads, Enters(t) \/ Continues(t) PROVE PathInv'
  <2>1. CASE InitializeChecks(t) \/ LockChecks(t) \/ UnlockChecks(t) \/ OperationChecks(t)
    BY <2>1 DEF InitializeChecks, LockChecks, UnlockChecks, OperationChecks, Via, slotVars
  <2>2. CASE FinalRelease(t)
    BY <2>2 DEF FinalRelease, Via, slotVars
  <2>3. CASE InitializeReads(t) \/ InitializePublishes(t)
    BY <2>3 DEF InitializeReads, InitializePublishes, slotVars
  <2>4. CASE InitializeOpens(t) \/ LockOpens(t)
    BY <2>4 DEF InitializeOpens, LockOpens, Via, OpenClaims, Refuse
  <2>5. CASE InitializeReturns(t) \/ LockOpened(t) \/ OperationReturns(t) \/ UnlockAsks(t)
    BY <2>5 DEF InitializeReturns, LockOpened, OperationReturns, UnlockAsks, Via, slotVars
  <2>6. CASE LockAsks(t) \/ LockSets(t) \/ UnlockSets(t)
    BY <2>6 DEF LockAsks, LockSets, UnlockSets, slotVars
  <2>7. CASE OperationTakes(t)
    BY <2>7 DEF OperationTakes, Via, SessionTakes, TakeResource, Refuse
  <2>8. CASE DropUnlocks(t)
    BY <2>8 DEF DropUnlocks, Via, UnlockTakes, TakeResource, Refuse
  <2>9. CASE DropReleases(t)
    BY <2>9 DEF DropReleases, slotVars
  <2>10. CASE SlotRuns(t) /\ UNCHANGED stiVars
    BY <2>10
       DEF stiVars, SlotRuns, OpenReturns, OpenFails, OpenPublishes, UnlockDrops,
           UnlockDropPanics, UnlockPublishes, SessionReusable, SessionSpoiled, LeaseDrops
  <2> QED
    BY <1>2, <2>1, <2>2, <2>3, <2>4, <2>5, <2>6, <2>7, <2>8, <2>9, <2>10
       DEF Enters, Continues
<1> QED
  BY <1>1, <1>2 DEF Next

\* An opened session stays open until the final Release takes it out.
LEMMA OpenedStays ==
  ASSUME StiInv, NEW t \in Threads, Enters(t) \/ Continues(t), slot \in Opened,
         ~DropUnlocks(t)
  PROVE  slot' \in Opened
<1> USE DEF StiInv, SlotInv, TagInv, Opened, Goes, Returns
<1>1. CASE SlotRuns(t)
  BY <1>1 DEF SlotRuns, OpenReturns, OpenFails, OpenPublishes, UnlockDrops,
              UnlockDropPanics, UnlockPublishes, SessionReusable, SessionSpoiled, LeaseDrops
<1>2. CASE OpenClaims(t) \/ SessionTakes(t) \/ UNCHANGED slotVars
  BY <1>2 DEF OpenClaims, SessionTakes, TakeResource, slotVars
<1>3. CASE Refuse(t, "Unlocked") \/ Refuse(t, "Locked")
  BY <1>3 DEF Refuse
<1>4. SlotRuns(t) \/ OpenClaims(t) \/ SessionTakes(t) \/ (UNCHANGED slotVars)
      \/ Refuse(t, "Unlocked") \/ Refuse(t, "Locked")
  BY DEF Enters, Continues, Via,
         InitializeChecks, InitializeReads, InitializePublishes, InitializeOpens,
         InitializeReturns, LockChecks, LockAsks, LockOpens, LockOpened, LockSets,
         UnlockChecks, UnlockAsks, UnlockSets, OperationChecks, OperationTakes,
         OperationReturns, FinalRelease, DropReleases
<1> QED
  BY <1>1, <1>2, <1>3, <1>4

LEMMA NextKeepsLockInv == StiInv /\ PathInv' /\ [Next]_vars => LockInv'
<1> SUFFICES ASSUME StiInv, PathInv', [Next]_vars PROVE LockInv'
  OBVIOUS
<1> USE DEF StiInv, TypeOK, SlotTypeOK, LockInv, LockedHasSession, Moves, Goes, Returns
<1>1. CASE UNCHANGED vars
  BY <1>1 DEF vars, stiVars, slotVars, Alive
<1>2. ASSUME NEW t \in Threads, Enters(t) \/ Continues(t) PROVE LockInv'
  <2>1. CASE \E s \in Threads : call'[s] \in {"drops", "dropping", "gone"}
    BY <2>1 DEF PathInv, Alive
  <2>2. CASE \A s \in Threads : call'[s] \notin {"drops", "dropping", "gone"}
    <3>1. ~DropUnlocks(t) /\ ~DropReleases(t) /\ ~FinalRelease(t)
      BY <2>2 DEF DropUnlocks, DropReleases, FinalRelease, Via
    <3>2. Alive
      BY <1>2, <2>2 DEF Alive, Enters, Continues, Via, stiVars,
         InitializeChecks, InitializeReads, InitializePublishes, InitializeOpens,
         InitializeReturns, LockChecks, LockAsks, LockOpens, LockOpened, LockSets,
         UnlockChecks, UnlockAsks, UnlockSets, OperationChecks, OperationTakes,
         OperationReturns, FinalRelease, DropUnlocks, DropReleases
    <3>3. slot \in Opened => slot' \in Opened
      BY <1>2, <3>1, OpenedStays
    <3> USE DEF Opened
    <3>4. CASE \/ InitializeChecks(t) \/ InitializeReads(t) \/ InitializePublishes(t)
               \/ LockChecks(t) \/ UnlockChecks(t) \/ UnlockAsks(t) \/ UnlockSets(t)
               \/ OperationChecks(t) \/ InitializeReturns(t) \/ OperationReturns(t)
      BY <3>2, <3>4
         DEF InitializeChecks, InitializeReads, InitializePublishes, LockChecks, UnlockChecks,
             UnlockAsks, UnlockSets, OperationChecks, InitializeReturns, OperationReturns,
             Via, slotVars
    <3>5. CASE InitializeOpens(t) \/ LockOpens(t) \/ OperationTakes(t)
      <4>1. RefusalOf # "Ok"
        <5>1. CASE slot = "Quarantined"
          BY <5>1 DEF RefusalOf
        <5>2. CASE slot = "Unlocked"
          BY <5>2 DEF RefusalOf
        <5>3. CASE slot \notin {"Quarantined", "Unlocked"}
          BY <5>3 DEF RefusalOf
        <5> QED
          BY <5>1, <5>2, <5>3
      <4> QED
        BY <3>2, <3>3, <3>5, <4>1
           DEF InitializeOpens, LockOpens, OperationTakes, Via, OpenClaims, SessionTakes,
               TakeResource, Refuse
    <3>6. CASE LockAsks(t)
      BY <3>2, <3>6 DEF LockAsks, Status, slotVars
    <3>7. CASE LockOpened(t) \/ LockSets(t)
      BY <3>2, <3>7 DEF LockOpened, LockSets, Via, slotVars
    <3>8. CASE SlotRuns(t) /\ UNCHANGED stiVars
      BY <3>2, <3>3, <3>8
         DEF PathInv, stiVars, SlotRuns, OpenReturns, OpenFails, OpenPublishes, UnlockDrops,
             UnlockDropPanics, UnlockPublishes, SessionReusable, SessionSpoiled, LeaseDrops
    <3> QED
      BY <1>2, <3>1, <3>4, <3>5, <3>6, <3>7, <3>8 DEF Enters, Continues
  <2> QED
    BY <2>1, <2>2
<1> QED
  BY <1>1, <1>2 DEF Next

LEMMA StiInvariant == Spec => []StiInv
<1>1. StiInv /\ [Next]_vars => StiInv'
  BY NextKeepsSlotPart, NextKeepsHelperInv, NextKeepsPathInv, NextKeepsLockInv DEF StiInv
<1> QED
  BY <1>1, InitEstablishesStiInv, PTL DEF Spec

-------------------------------------------------------------------------------
\* The type invariant of the STI object.
THEOREM StiTypeCorrect == Spec => []TypeOK
<1>1. StiInv => TypeOK
  BY DEF StiInv
<1> QED
  BY <1>1, StiInvariant, PTL

\* However many callers race through Initialize, one reference on one helper is kept,
\* and the final Release gives it back.
THEOREM HelperStaysBalanced == Spec => []HelperBalanced
<1>1. StiInv => HelperBalanced
  BY DEF StiInv, HelperInv
<1> QED
  BY <1>1, StiInvariant, PTL

\* The STI lock is never set over a session that is not open.
THEOREM LockImpliesSession == Spec => []LockedHasSession
<1>1. StiInv => LockedHasSession
  BY DEF StiInv, LockInv
<1> QED
  BY <1>1, StiInvariant, PTL

\* The object's callers never have two USB handles open between them.
THEOREM DeviceHandleExclusive == Spec => []ExclusiveHandle
<1>1. StiInv => ExclusiveHandle
  BY DEF StiInv, SlotInv, HandleInv, ExclusiveHandle
<1> QED
  BY <1>1, StiInvariant, PTL

\* Between Initialize and the final Release nothing but quarantine closes the handle.
THEOREM HandleStaysOpen == Spec => HandleKept
<1> DEFINE Kept == (Alive /\ slot \in {"Locked", "InUse"}) =>
                       live \subseteq live' /\ slot' \in Opened
<1>1. StiInv /\ [Next]_vars => [Kept]_vars
  <2> SUFFICES ASSUME StiInv, Next, Alive, slot \in {"Locked", "InUse"} PROVE Kept
    BY DEF vars
  <2>1. PICK t \in Threads : Enters(t) \/ Continues(t)
    BY DEF Next
  <2>2. ~DropUnlocks(t)
    BY DEF Alive, DropUnlocks, Via, Moves
  <2>3. slot' \in Opened
    BY <2>1, <2>2, OpenedStays DEF Opened
  <2>4. live \subseteq live'
    <3> USE DEF StiInv, SlotInv, SlotTypeOK, TagInv, Goes, Returns
    <3>1. CASE SlotRuns(t)
      BY <3>1 DEF SlotRuns, OpenReturns, OpenFails, OpenPublishes, UnlockDrops,
                  UnlockDropPanics, UnlockPublishes, SessionReusable, SessionSpoiled, LeaseDrops
    <3>2. CASE SlotCall(t) \/ UNCHANGED slotVars
      BY <3>2 DEF SlotCall, OpenClaims, Refuse, UnlockTakes, SessionTakes, TakeResource, slotVars
    <3> QED
      BY <2>1, <3>1, <3>2, DeviceStepIsSlotStep
  <2> QED
    BY <2>3, <2>4
<1> QED
  BY <1>1, StiInvariant, PTL DEF Spec, HandleKept, Opened

\* The device's flags say what is so.
THEOREM FlagsStayTrue == Spec => []FlagsAreTrue
<1>1. FlagsAreTrue <=> HelperBalanced /\ LockedHasSession
  BY DEF FlagsAreTrue
<1> QED
  BY <1>1, HelperStaysBalanced, LockImpliesSession, PTL

-------------------------------------------------------------------------------
\* The entry points: what they do to the device is StiDevice's doing.
LEMMA EntryStepIsDeviceStep == [EntriesNext]_entryVars => [Next]_vars
<1> SUFFICES ASSUME EntriesNext PROVE [Next]_vars
  BY DEF entryVars, vars, slotVars, stiVars
<1>1. PICK t \in Threads :
         \/ InitializeEnters(t) \/ LockEnters(t) \/ UnlockEnters(t) \/ OperationEnters(t)
         \/ ScanRefusedEarly(t) \/ StatusEnters(t) \/ UnsupportedEnters(t) \/ TellsLastError(t)
         \/ Destroys(t) \/ EntryContinues(t)
  BY DEF EntriesNext
<1> SUFFICES Enters(t) \/ Continues(t) \/ UNCHANGED vars
  BY DEF Next
<1>2. CASE InitializeEnters(t) \/ LockEnters(t) \/ UnlockEnters(t) \/ OperationEnters(t)
  <2>1. CASE InitializeChecks(t) \/ LockChecks(t) \/ UnlockChecks(t) \/ OperationChecks(t)
    BY <2>1 DEF Enters
  <2>2. CASE \E code \in Codes, n \in {1, 2} : Answers(t, code, n)
    BY <2>2 DEF Answers
  <2> QED
    BY <1>2, <2>1, <2>2 DEF InitializeEnters, LockEnters, UnlockEnters, OperationEnters, Codes
<1>3. CASE ScanRefusedEarly(t) \/ StatusEnters(t) \/ UnsupportedEnters(t) \/ TellsLastError(t)
  BY <1>3 DEF ScanRefusedEarly, StatusEnters, UnsupportedEnters, TellsLastError, Answers
<1>4. CASE Destroys(t)
  BY <1>4 DEF Destroys, Enters, Continues
<1>5. CASE EntryContinues(t)
  <2>1. CASE RecordsAnswer(t)
    BY <2>1 DEF RecordsAnswer
  <2>2. CASE InitializeReadsPort(t) \/ InitializeRecords(t) \/ InitializeEnds(t)
    BY <2>2 DEF InitializeReadsPort, InitializeRecords, InitializeEnds, Continues
  <2>3. CASE \/ LockFinds(t) \/ LockTries(t) \/ LockSucceeds(t)
             \/ UnlockFinds(t) \/ UnlockSucceeds(t)
    BY <2>3 DEF LockFinds, LockTries, LockSucceeds, UnlockFinds, UnlockSucceeds, Continues
  <2>4. CASE OperationTakes(t) \/ OperationEnds(t) \/ OperationAnswers(t) \/ SlotSteps(t)
    BY <2>4 DEF OperationEnds, OperationAnswers, SlotSteps, Continues
  <2>5. CASE Destroys(t)
    BY <1>4, <2>5 DEF Destroys, Enters, Continues
  <2> QED
    BY <1>5, <2>1, <2>2, <2>3, <2>4, <2>5 DEF EntryContinues
<1> QED
  BY <1>1, <1>2, <1>3, <1>4, <1>5

\* What callers do through the entry points, the device was shown to bear: every theorem
\* about Spec is one about EntriesSpec.
THEOREM EntriesImplementDevice == EntriesSpec => Spec
<1>1. EntriesInit => Init
  BY DEF EntriesInit
<1> QED
  BY <1>1, EntryStepIsDeviceStep, PTL DEF EntriesSpec, Spec

-------------------------------------------------------------------------------
\* Where a call of an entry point stands in the device; a call that records its answer, or
\* has not begun, stands nowhere.
Stands(e, c) ==
    \/ e = "Initialize" /\ c \in {"reads", "publishes", "initOpens", "initOpening"}
    \/ e = "LockDevice" /\ c \in {"lockAsks", "lockOpens", "lockOpening", "lockSets"}
    \/ e = "UnLockDevice" /\ c \in {"unlockAsks", "unlockSets"}
    \/ e \in {"Presence", "Scan"} /\ c \in {"takes", "operates"}
    \/ e = "records" /\ c = "none"
    \/ e = "-" /\ c \in {"none", "drops", "dropping", "gone"}

EntryInv ==
    /\ EntryTypeOK
    /\ \A t \in Threads : Stands(entry[t], call[t])
    /\ \A t \in Threads : due[t] > 0 <=> entry[t] = "records"
    /\ \A t \in Threads : entry[t] = "records" => answer[t] # "-"

\* Why nobody is misled: what a caller may rely on is what the device remembers, and the
\* one path of Initialize that returns without recording has recorded before.
OwnInv ==
    /\ \A t \in Threads : own[t] \in Codes => own[t] = lastError
    /\ \A t \in Threads : entry[t] = "-" => own[t] # "quiet"
    /\ \A t \in Threads :
          call[t] \in {"initOpens", "initOpening"} /\ own[t] = "quiet" => lastError = "Ok"
    /\ ~misled

\* Why the lock has one holder: its calls are serialised, and each has seen the flag.
HolderInv ==
    ~raced =>
       /\ \A s, t \in Threads : entry[s] \in Lockers /\ entry[t] \in Lockers => s = t
       /\ \A t \in Threads : entry[t] = "LockDevice" => ~stiLocked
       /\ \A t \in Threads : entry[t] = "UnLockDevice" => stiLocked
       /\ granted = (IF stiLocked THEN 1 ELSE 0)

LEMMA InitEstablishesEntryInv == EntriesInit => EntryInv /\ OwnInv /\ HolderInv
<1> SUFFICES ASSUME EntriesInit PROVE EntryInv /\ OwnInv /\ HolderInv
  OBVIOUS
<1>1. StiInv
  BY InitEstablishesStiInv DEF EntriesInit
<1>2. EntryTypeOK
  <2>1. TypeOK
    BY <1>1 DEF StiInv
  <2>2. /\ entry \in [Threads -> EntryPoints] /\ answer \in [Threads -> Codes \cup {"-"}]
        /\ due \in [Threads -> 0..2] /\ own \in [Threads -> Codes \cup {"-", "quiet"}]
    BY DEF EntriesInit, EntryPoints
  <2>3. lastError \in Codes /\ misled \in BOOLEAN /\ granted \in Nat /\ raced \in BOOLEAN
    BY DEF EntriesInit, Codes
  <2> QED
    BY <2>1, <2>2, <2>3 DEF EntryTypeOK
<1>3. EntryInv
  BY <1>2 DEF EntriesInit, Init, EntryInv, Stands
<1>4. OwnInv /\ HolderInv
  BY DEF EntriesInit, Init, OwnInv, HolderInv, Codes, Lockers
<1> QED
  BY <1>3, <1>4

\* A call enters: with its answer known, or to go its way through the device.
LEMMA EntersKeepsEntryInv ==
  ASSUME StiInv, EntryInv, OwnInv, HolderInv, TypeOK', NEW t \in Threads,
         NEW e \in EntryPoints \ {"-"}, NEW c \in Calls \ {"initOpens", "initOpening"},
         NEW code \in Codes \cup {"-"}, NEW n \in 0..2,
         Enter(t, e), Stands(e, c), n > 0 <=> e = "records", e = "records" => code # "-",
         call' = [call EXCEPT ![t] = c], UNCHANGED stiLocked,
         answer' = [answer EXCEPT ![t] = code], due' = [due EXCEPT ![t] = n],
         e = "LockDevice" => ~stiLocked, e = "UnLockDevice" => stiLocked
  PROVE  EntryInv' /\ OwnInv' /\ HolderInv'
<1> USE DEF EntryInv, EntryTypeOK, StiInv, TypeOK
<1>1. EntryTypeOK'
  <2>1. raced' \in BOOLEAN /\ granted' \in Nat
    BY DEF Enter
  <2>2. entry' \in [Threads -> EntryPoints] /\ own' \in [Threads -> Codes \cup {"-", "quiet"}]
    BY DEF Enter
  <2>3. lastError' \in Codes /\ misled' \in BOOLEAN
    BY DEF Enter
  <2> QED
    BY <2>1, <2>2, <2>3
<1>2. EntryInv'
  BY <1>1 DEF Enter
<1>3. OwnInv'
  BY DEF Enter, OwnInv, Codes
<1>4. HolderInv'
  BY DEF Enter, HolderInv, Idle, Lockers
<1> QED
  BY <1>2, <1>3, <1>4

\* A running call goes on, comes to its answer or returns; it does not touch the lock.
LEMMA RunsKeepsEntryInv ==
  ASSUME StiInv, EntryInv, HolderInv, TypeOK', NEW t \in Threads,
         NEW c \in Calls, NEW e \in {entry[t], "records", "-"},
         NEW code \in Codes \cup {"-"}, NEW n \in 0..2,
         Stands(e, c), n > 0 <=> e = "records", e = "records" => code # "-",
         call' = [call EXCEPT ![t] = c], entry' = [entry EXCEPT ![t] = e],
         answer' = [answer EXCEPT ![t] = code], due' = [due EXCEPT ![t] = n],
         UNCHANGED <<stiLocked, lockVars>>,
         own' \in [Threads -> Codes \cup {"-", "quiet"}], lastError' \in Codes, UNCHANGED misled
  PROVE  EntryInv' /\ HolderInv'
<1> USE DEF EntryInv, EntryTypeOK, StiInv, TypeOK, lockVars
<1>1. e \in EntryPoints
  BY DEF EntryPoints
<1>2. EntryTypeOK'
  BY <1>1
<1>3. EntryInv'
  BY <1>2
<1>4. HolderInv'
  BY DEF HolderInv, Lockers
<1> QED
  BY <1>3, <1>4

\* ... and, unless it records, does not touch the last error.
LEMMA RunsKeepsOwnInv ==
  ASSUME StiInv, EntryInv, OwnInv, NEW t \in Threads, NEW c \in Calls, NEW e \in EntryPoints,
         call' = [call EXCEPT ![t] = c], entry' = [entry EXCEPT ![t] = e],
         UNCHANGED <<lastError, misled>>,
         \/ /\ UNCHANGED own /\ (e = "-" => entry[t] = "-")
            /\ c \in {"initOpens", "initOpening"} => call[t] \in {"initOpens", "initOpening"}
         \/ /\ c \notin {"initOpens", "initOpening"}
            /\ \E kept \in {"-", "Ok"} :
                  /\ own' = [own EXCEPT ![t] = IF @ = "quiet" THEN kept ELSE "-"]
                  /\ kept = "Ok" => call[t] \in {"initOpens", "initOpening"}
  PROVE  OwnInv'
  BY DEF OwnInv, EntryInv, EntryTypeOK, StiInv, TypeOK, Codes

\* A call that decides its answer has left the device.
LEMMA DecidesKeepsEntryInv ==
  ASSUME StiInv, EntryInv, OwnInv, HolderInv, TypeOK', NEW t \in Threads,
         NEW code \in Codes, NEW n \in {1, 2}, Decides(t, code, n),
         call' = [call EXCEPT ![t] = "none"], UNCHANGED <<stiLocked, lockVars>>
  PROVE  EntryInv' /\ OwnInv' /\ HolderInv'
<1>1. /\ entry' = [entry EXCEPT ![t] = "records"] /\ answer' = [answer EXCEPT ![t] = code]
      /\ due' = [due EXCEPT ![t] = n] /\ UNCHANGED <<lastError, own, misled>>
  BY DEF Decides
<1>2. "none" \in Calls /\ "records" \in EntryPoints
  BY DEF Calls, EntryPoints
<1>3. OwnInv'
  BY <1>1, <1>2, RunsKeepsOwnInv
<1>4. own' \in [Threads -> Codes \cup {"-", "quiet"}] /\ lastError' \in Codes
  BY <1>1 DEF EntryInv, EntryTypeOK
<1>5. code # "-" /\ code \in Codes \cup {"-"} /\ n \in 0..2 /\ n > 0 /\ Stands("records", "none")
  BY DEF Codes, Stands
<1>6. EntryInv' /\ HolderInv'
  BY <1>1, <1>2, <1>4, <1>5, RunsKeepsEntryInv
<1> QED
  BY <1>3, <1>6

\* A call that goes on inside the device keeps everything its caller could see.
LEMMA GoesOnKeepsEntryInv ==
  ASSUME StiInv, EntryInv, OwnInv, HolderInv, TypeOK', NEW t \in Threads, NEW c \in Calls,
         call' = [call EXCEPT ![t] = c], Stands(entry[t], c),
         c \in {"initOpens", "initOpening"} => call[t] \in {"initOpens", "initOpening"},
         UNCHANGED <<stiLocked, lockVars, errorVars>>
  PROVE  EntryInv' /\ OwnInv' /\ HolderInv'
<1> USE DEF errorVars
<1>1. /\ entry' = [entry EXCEPT ![t] = entry[t]] /\ answer' = [answer EXCEPT ![t] = answer[t]]
      /\ due' = [due EXCEPT ![t] = due[t]] /\ entry[t] \in EntryPoints
      /\ answer[t] \in Codes \cup {"-"} /\ due[t] \in 0..2
      /\ own' \in [Threads -> Codes \cup {"-", "quiet"}] /\ lastError' \in Codes
  BY DEF EntryInv, EntryTypeOK
<1>2. OwnInv'
  BY <1>1, RunsKeepsOwnInv
<1>3. (due[t] > 0 <=> entry[t] = "records") /\ (entry[t] = "records" => answer[t] # "-")
  BY DEF EntryInv
<1>4. EntryInv' /\ HolderInv'
  BY <1>1, <1>3, RunsKeepsEntryInv
<1> QED
  BY <1>2, <1>4

\* A call may return without a record only if it has recorded before, or is not relied on.
LEMMA LeavesKeepsEntryInv ==
  ASSUME StiInv, EntryInv, OwnInv, HolderInv, TypeOK', NEW t \in Threads,
         entry[t] # "records", NEW kept \in {"-", "Ok"}, Leaves(t, kept),
         kept = "Ok" => call[t] \in {"initOpens", "initOpening"},
         call' = [call EXCEPT ![t] = "none"], UNCHANGED <<stiLocked, lockVars>>
  PROVE  EntryInv' /\ OwnInv' /\ HolderInv'
<1>1. due[t] = 0 /\ due \in [Threads -> 0..2]
  BY DEF EntryInv, EntryTypeOK
<1>2. /\ entry' = [entry EXCEPT ![t] = "-"] /\ answer' = [answer EXCEPT ![t] = "-"]
      /\ due' = [due EXCEPT ![t] = 0] /\ UNCHANGED <<lastError, misled>>
      /\ own' = [own EXCEPT ![t] = IF @ = "quiet" THEN kept ELSE "-"]
  BY <1>1 DEF Leaves
<1>3. "none" \in Calls /\ "-" \in EntryPoints
  BY DEF Calls, EntryPoints
<1>4. OwnInv'
  BY <1>2, <1>3, RunsKeepsOwnInv
<1>5. own' \in [Threads -> Codes \cup {"-", "quiet"}] /\ lastError' \in Codes
  BY <1>2 DEF EntryInv, EntryTypeOK, Codes
<1>6. EntryInv' /\ HolderInv'
  <2>1. (0 > 0 <=> "-" = "records") /\ 0 \in 0..2 /\ Stands("-", "none")
    BY DEF Stands
  <2> QED
    BY <1>2, <1>3, <1>5, <2>1, RunsKeepsEntryInv
<1> QED
  BY <1>4, <1>6

\* The steps of callers outside: entering, and asking for the last error.
LEMMA OutsideKeepsEntryInv ==
  ASSUME StiInv, EntryInv, OwnInv, HolderInv, TypeOK', NEW t \in Threads,
         \/ InitializeEnters(t) \/ LockEnters(t) \/ UnlockEnters(t) \/ OperationEnters(t)
         \/ ScanRefusedEarly(t) \/ StatusEnters(t) \/ UnsupportedEnters(t) \/ TellsLastError(t)
  PROVE  EntryInv' /\ OwnInv' /\ HolderInv'
<1>1. CASE \E code \in Codes, n \in {1, 2} : Answers(t, code, n)
  <2>1. PICK code \in Codes, n \in {1, 2} : Answers(t, code, n)
    BY <1>1
  <2>2. call[t] = "none" /\ call' = [call EXCEPT ![t] = "none"] /\ UNCHANGED stiLocked
    BY <2>1 DEF Answers, Enter, Idle, Alive, EntryInv, Stands, StiInv, TypeOK, vars, stiVars
  <2>3. "records" \in EntryPoints \ {"-"} /\ "none" \in Calls \ {"initOpens", "initOpening"}
    BY DEF EntryPoints, Calls
  <2>4. /\ code # "-" /\ code \in Codes \cup {"-"} /\ n \in 0..2 /\ n > 0
        /\ Stands("records", "none")
    BY DEF Codes, Stands
  <2> QED
    BY <2>1, <2>2, <2>3, <2>4, EntersKeepsEntryInv DEF Answers
<1>2. ASSUME NEW e \in {"Initialize", "LockDevice", "UnLockDevice", "Presence", "Scan"},
             NEW c \in {"reads", "lockAsks", "unlockAsks", "takes"},
             Begins(t, e), Stands(e, c), Moves(t, "none", c), UNCHANGED stiLocked,
             e = "LockDevice" => ~stiLocked, e = "UnLockDevice" => stiLocked
      PROVE  EntryInv' /\ OwnInv' /\ HolderInv'
  <2>1. /\ answer' = [answer EXCEPT ![t] = answer[t]] /\ due' = [due EXCEPT ![t] = due[t]]
        /\ answer[t] \in Codes \cup {"-"} /\ due[t] \in 0..2 /\ ~(due[t] > 0)
    BY <1>2 DEF Begins, Enter, Idle, EntryInv, EntryTypeOK
  <2>2. e \in EntryPoints \ {"-"} /\ c \in Calls \ {"initOpens", "initOpening"}
    BY DEF EntryPoints, Lockers, Calls
  <2> QED
    BY <1>2, <2>1, <2>2, EntersKeepsEntryInv DEF Begins, Moves
<1>3. CASE \/ InitializeChecks(t) /\ Begins(t, "Initialize")
           \/ LockChecks(t) /\ Begins(t, "LockDevice")
           \/ UnlockChecks(t) /\ Begins(t, "UnLockDevice")
           \/ OperationChecks(t) /\ \E e \in {"Presence", "Scan"} : Begins(t, e)
  BY <1>2, <1>3 DEF InitializeChecks, LockChecks, UnlockChecks, OperationChecks, Via, Stands
<1>4. CASE ScanRefusedEarly(t) \/ TellsLastError(t)
  <2>1. /\ own' = [own EXCEPT ![t] = "-"] /\ ~misled' /\ misled' \in BOOLEAN
        /\ UNCHANGED <<entry, answer, due, lastError, granted, raced, call, stiLocked>>
    BY <1>4 DEF ScanRefusedEarly, TellsLastError, lockVars, vars, stiVars, OwnInv, EntryInv,
                EntryTypeOK, Idle
  <2> USE DEF EntryInv
  <2>2. EntryTypeOK'
    BY <2>1 DEF EntryTypeOK
  <2>3. OwnInv'
    BY <2>1 DEF EntryTypeOK, OwnInv, Codes
  <2>4. HolderInv'
    BY <2>1 DEF HolderInv
  <2> QED
    BY <2>1, <2>2, <2>3, <2>4
<1> QED
  BY <1>1, <1>3, <1>4
     DEF InitializeEnters, LockEnters, UnlockEnters, OperationEnters, StatusEnters,
         UnsupportedEnters, Codes

LEMMA InsideKeepsEntryInv ==
  ASSUME StiInv, EntryInv, OwnInv, HolderInv, TypeOK', NEW t \in Threads,
         EntryContinues(t) \/ Destroys(t)
  PROVE  EntryInv' /\ OwnInv' /\ HolderInv'
<1>1. CASE RecordsAnswer(t)
  <2>1. /\ lastError' = answer[t] /\ UNCHANGED <<call, stiLocked, misled, granted, raced>>
        /\ answer[t] \in Codes /\ entry[t] = "records" /\ call[t] = "none" /\ due[t] \in 1..2
        /\ due' = [due EXCEPT ![t] = due[t] - 1]
    BY <1>1 DEF RecordsAnswer, vars, stiVars, lockVars, EntryInv, EntryTypeOK, Stands
  <2>2. CASE due[t] = 1
    <3>1. /\ entry' = [entry EXCEPT ![t] = "-"] /\ answer' = [answer EXCEPT ![t] = "-"]
          /\ own' = Mine(t, answer[t])
      BY <1>1, <2>2 DEF RecordsAnswer
    <3>2. OwnInv'
      BY <2>1, <3>1 DEF OwnInv, EntryInv, Mine, Codes, StiInv, TypeOK, EntryTypeOK
    <3>3. own' \in [Threads -> Codes \cup {"-", "quiet"}] /\ lastError' \in Codes
      BY <2>1, <3>1 DEF Mine
    <3>4. due' = [due EXCEPT ![t] = 0] /\ call' = [call EXCEPT ![t] = "none"]
      BY <2>1, <2>2 DEF StiInv, TypeOK
    <3>5. (0 > 0 <=> "-" = "records") /\ 0 \in 0..2 /\ Stands("-", "none") /\ "none" \in Calls
      BY DEF Stands, Calls
    <3>6. EntryInv' /\ HolderInv'
      BY <2>1, <3>1, <3>3, <3>4, <3>5, RunsKeepsEntryInv DEF lockVars
    <3> QED
      BY <3>2, <3>6
  <2>3. CASE due[t] = 2
    <3>1. own' = Mine(t, "quiet") /\ UNCHANGED <<entry, answer>>
      BY <1>1, <2>3 DEF RecordsAnswer
    <3>2. OwnInv'
      BY <2>1, <3>1 DEF OwnInv, EntryInv, Mine, Codes, StiInv, TypeOK, EntryTypeOK
    <3>3. own' \in [Threads -> Codes \cup {"-", "quiet"}] /\ lastError' \in Codes
      BY <2>1, <3>1 DEF Mine
    <3>4. /\ due' = [due EXCEPT ![t] = 1] /\ call' = [call EXCEPT ![t] = "none"]
          /\ entry' = [entry EXCEPT ![t] = "records"] /\ answer' = [answer EXCEPT ![t] = answer[t]]
      BY <2>1, <2>3, <3>1 DEF StiInv, TypeOK, EntryInv, EntryTypeOK
    <3>5. /\ 1 > 0 /\ 1 \in 0..2 /\ Stands("records", "none") /\ "none" \in Calls
          /\ answer[t] # "-" /\ answer[t] \in Codes \cup {"-"}
      BY <2>1 DEF Stands, Calls, Codes
    <3>6. EntryInv' /\ HolderInv'
      BY <2>1, <3>3, <3>4, <3>5, RunsKeepsEntryInv DEF lockVars
    <3> QED
      BY <3>2, <3>6
  <2> QED
    BY <2>1, <2>2, <2>3
<1>2. CASE InitializeReadsPort(t)
  <2>1. call[t] = "reads" /\ entry[t] = "Initialize" /\ UNCHANGED <<stiLocked, lockVars>>
    BY <1>2 DEF InitializeReadsPort, InitializeReads, Moves, EntryInv, Stands
  <2>2. CASE call' = [call EXCEPT ![t] = "publishes"] /\ Undecided
    BY <2>1, <2>2, GoesOnKeepsEntryInv DEF Undecided, Stands, Calls
  <2>3. CASE call' = [call EXCEPT ![t] = "none"] /\ Decides(t, "Generic", 1)
    BY <2>1, <2>3, DecidesKeepsEntryInv DEF Codes
  <2> QED
    BY <1>2, <2>2, <2>3 DEF InitializeReadsPort, InitializeReads, Moves, StiInv, TypeOK
<1>3. CASE InitializeRecords(t)
  <2>1. call[t] = "publishes" /\ entry[t] = "Initialize" /\ due[t] = 0
    BY <1>3 DEF InitializeRecords, InitializePublishes, Moves, EntryInv, EntryTypeOK, Stands
  <2>2. CASE initialized
    <3>1. /\ call' = [call EXCEPT ![t] = "none"] /\ entry' = [entry EXCEPT ![t] = "-"]
          /\ lastError' = "Refused" /\ own' = Mine(t, "Refused")
          /\ UNCHANGED <<answer, due, misled, stiLocked, lockVars>>
      BY <1>3, <2>2 DEF InitializeRecords, InitializePublishes, Moves
    <3>2. OwnInv'
      BY <3>1 DEF OwnInv, Mine, Codes, StiInv, TypeOK
    <3>3. own' \in [Threads -> Codes \cup {"-", "quiet"}] /\ lastError' \in Codes
      BY <3>1 DEF Mine, Codes
    <3>4. /\ due' = [due EXCEPT ![t] = 0] /\ answer' = [answer EXCEPT ![t] = answer[t]]
          /\ answer[t] \in Codes \cup {"-"}
      BY <2>1, <3>1 DEF EntryInv, EntryTypeOK
    <3>5. (0 > 0 <=> "-" = "records") /\ 0 \in 0..2 /\ Stands("-", "none") /\ "none" \in Calls
      BY DEF Stands, Calls
    <3>6. EntryInv' /\ HolderInv'
      BY <3>1, <3>3, <3>4, <3>5, RunsKeepsEntryInv
    <3> QED
      BY <3>2, <3>6
  <2>3. CASE ~initialized
    <3>1. /\ call' = [call EXCEPT ![t] = "initOpens"] /\ lastError' = "Ok"
          /\ own' = Mine(t, "quiet")
          /\ UNCHANGED <<entry, answer, due, misled, stiLocked, lockVars>>
      BY <1>3, <2>3 DEF InitializeRecords, InitializePublishes, Moves
    <3>2. OwnInv'
      BY <2>1, <3>1 DEF OwnInv, EntryInv, EntryTypeOK, Mine, Codes, StiInv, TypeOK
    <3>3. own' \in [Threads -> Codes \cup {"-", "quiet"}] /\ lastError' \in Codes
      BY <3>1 DEF Mine, Codes
    <3>4. /\ due' = [due EXCEPT ![t] = due[t]] /\ answer' = [answer EXCEPT ![t] = answer[t]]
          /\ entry' = [entry EXCEPT ![t] = entry[t]]
          /\ answer[t] \in Codes \cup {"-"} /\ due[t] \in 0..2
      BY <2>1, <3>1 DEF EntryInv, EntryTypeOK
    <3>5. /\ (due[t] > 0 <=> entry[t] = "records") /\ entry[t] # "records"
          /\ Stands(entry[t], "initOpens") /\ "initOpens" \in Calls
      BY <2>1 DEF Stands, Calls
    <3>6. UNCHANGED <<stiLocked, lockVars, misled>> /\ call' = [call EXCEPT ![t] = "initOpens"]
      BY <3>1
    <3>7. EntryInv' /\ HolderInv'
      BY <3>3, <3>4, <3>5, <3>6, RunsKeepsEntryInv
    <3> QED
      BY <3>2, <3>7
  <2> QED
    BY <2>2, <2>3
<1>4. CASE InitializeEnds(t)
  <2>1. call[t] \in {"initOpens", "initOpening"} /\ entry[t] = "Initialize"
    BY <1>4 DEF InitializeEnds, InitializeOpens, InitializeReturns, Via, Moves, EntryInv, Stands
  <2>2. CASE InitializeOpens(t) /\ Undecided
    <3>1. call' = [call EXCEPT ![t] = "initOpening"] /\ UNCHANGED <<stiLocked, lockVars, errorVars>>
      BY <1>4, <2>2 DEF InitializeOpens, Via, Moves, InitializeEnds, Undecided
    <3>2. "initOpening" \in Calls /\ Stands(entry[t], "initOpening")
      BY <2>1 DEF Stands, Calls
    <3> QED
      BY <2>1, <3>1, <3>2, GoesOnKeepsEntryInv
  <2>3. CASE InitializeReturns(t) /\ \E kept \in {"-", "Ok"} : Leaves(t, kept)
    <3>1. call' = [call EXCEPT ![t] = "none"] /\ UNCHANGED stiLocked
      BY <2>3 DEF InitializeReturns, Via, Moves
    <3> QED
      BY <1>4, <2>1, <2>3, <3>1, LeavesKeepsEntryInv DEF InitializeEnds
  <2> QED
    BY <1>4, <2>2, <2>3 DEF InitializeEnds
<1>5. CASE LockFinds(t)
  <2>1. /\ call[t] = "lockAsks" /\ entry[t] = "LockDevice" /\ UNCHANGED <<stiLocked, lockVars>>
        /\ \E c \in {"lockSets", "lockOpens", "none"} : call' = [call EXCEPT ![t] = c]
    BY <1>5 DEF LockFinds, LockAsks, Moves, EntryInv, Stands
  <2>2. CASE call'[t] # "none" /\ Undecided
    <3>1. PICK c \in {"lockSets", "lockOpens"} : call' = [call EXCEPT ![t] = c]
      BY <2>1, <2>2 DEF StiInv, TypeOK
    <3> QED
      BY <2>1, <2>2, <3>1, GoesOnKeepsEntryInv DEF Undecided, Stands, Calls
  <2>3. CASE call'[t] = "none" /\ Decides(t, AccessCode(Status), 1)
    <3>1. call' = [call EXCEPT ![t] = "none"]
      BY <2>1, <2>3 DEF StiInv, TypeOK
    <3>2. AccessCode(Status) \in Codes
      BY DEF AccessCode, Codes
    <3> QED
      BY <2>1, <2>3, <3>1, <3>2, DecidesKeepsEntryInv
  <2> QED
    BY <1>5, <2>2, <2>3 DEF LockFinds
<1>6. CASE LockTries(t)
  <2>1. /\ call[t] \in {"lockOpens", "lockOpening"} /\ entry[t] = "LockDevice"
        /\ UNCHANGED <<stiLocked, lockVars>>
    BY <1>6 DEF LockTries, LockOpens, LockOpened, Via, Moves, EntryInv, Stands
  <2>2. CASE Undecided /\ \E c \in {"lockOpening", "lockSets"} : call' = [call EXCEPT ![t] = c]
    BY <2>1, <2>2, GoesOnKeepsEntryInv DEF Undecided, Stands, Calls
  <2>3. CASE call' = [call EXCEPT ![t] = "none"] /\ Leaves(t, "-")
    BY <2>1, <2>3, LeavesKeepsEntryInv
  <2>4. CASE call' = [call EXCEPT ![t] = "none"] /\ Decides(t, AccessCode(result[t]), 1)
    <3>1. AccessCode(result[t]) \in Codes
      BY DEF AccessCode, Codes
    <3> QED
      BY <2>1, <2>4, <3>1, DecidesKeepsEntryInv
  <2> QED
    BY <1>6, <2>2, <2>3, <2>4 DEF LockTries, LockOpens, LockOpened, Via, Moves
<1>7. CASE LockSucceeds(t) \/ UnlockSucceeds(t)
  <2>1. /\ entry' = [entry EXCEPT ![t] = "records"] /\ answer' = [answer EXCEPT ![t] = "Ok"]
        /\ due' = [due EXCEPT ![t] = 1] /\ call' = [call EXCEPT ![t] = "none"]
        /\ UNCHANGED <<lastError, own, misled, raced>>
    BY <1>7 DEF LockSucceeds, UnlockSucceeds, LockSets, UnlockSets, Decides, Moves
  <2>2. \/ /\ entry[t] = "LockDevice" /\ stiLocked' = TRUE
           /\ granted' = (IF raced THEN 0 ELSE granted + 1)
        \/ entry[t] = "UnLockDevice" /\ stiLocked' = FALSE /\ granted' = 0
    BY <1>7 DEF LockSucceeds, UnlockSucceeds, LockSets, UnlockSets, Moves, EntryInv, Stands
  <2>3. "none" \in Calls /\ "records" \in EntryPoints /\ "Ok" \in Codes
    BY DEF Calls, EntryPoints, Codes
  <2>4. OwnInv'
    BY <2>1, <2>3, RunsKeepsOwnInv
  <2>5. EntryTypeOK'
    BY <2>1, <2>2, <2>3 DEF EntryInv, EntryTypeOK
  <2>6. EntryInv'
    BY <2>1, <2>5 DEF EntryInv, EntryTypeOK, StiInv, TypeOK, Stands
  <2>7. HolderInv'
    BY <2>1, <2>2 DEF HolderInv, EntryInv, EntryTypeOK, Lockers
  <2> QED
    BY <2>4, <2>6, <2>7
<1>8. CASE UnlockFinds(t)
  <2>1. call[t] = "unlockAsks" /\ entry[t] = "UnLockDevice" /\ UNCHANGED <<stiLocked, lockVars>>
    BY <1>8 DEF UnlockFinds, UnlockAsks, Via, Moves, EntryInv, Stands
  <2>2. CASE call' = [call EXCEPT ![t] = "unlockSets"] /\ Undecided
    BY <2>1, <2>2, GoesOnKeepsEntryInv DEF Undecided, Stands, Calls
  <2>3. CASE call' = [call EXCEPT ![t] = "none"] /\ Decides(t, AccessCode(Status), 1)
    <3>1. AccessCode(Status) \in Codes
      BY DEF AccessCode, Codes
    <3> QED
      BY <2>1, <2>3, <3>1, DecidesKeepsEntryInv
  <2> QED
    BY <1>8, <2>2, <2>3 DEF UnlockFinds, UnlockAsks, Via, Moves, StiInv, TypeOK
<1>9. CASE OperationTakes(t) /\ UNCHANGED <<errorVars, lockVars>>
  <2>1. /\ call[t] = "takes" /\ call' = [call EXCEPT ![t] = "operates"] /\ UNCHANGED stiLocked
        /\ entry[t] \in {"Presence", "Scan"}
    BY <1>9 DEF OperationTakes, Via, Moves, EntryInv, Stands
  <2> QED
    BY <1>9, <2>1, GoesOnKeepsEntryInv DEF Stands, Calls
<1>10. CASE OperationEnds(t)
  <2>1. call[t] = "operates" /\ entry[t] \in {"Presence", "Scan"}
    BY <1>10 DEF OperationEnds, StiInv, PathInv, EntryInv, Stands
  <2>2. PICK code \in Codes : Decides(t, code, 0)
    BY <1>10 DEF OperationEnds, Codes
  <2>3. /\ call' = [call EXCEPT ![t] = "operates"] /\ entry' = [entry EXCEPT ![t] = entry[t]]
        /\ answer' = [answer EXCEPT ![t] = code] /\ due' = [due EXCEPT ![t] = 0]
        /\ UNCHANGED <<lastError, own, misled, stiLocked, lockVars>>
    BY <1>10, <2>1, <2>2
       DEF OperationEnds, Decides, stiVars, StiInv, TypeOK, EntryInv, EntryTypeOK
  <2>4. /\ own' \in [Threads -> Codes \cup {"-", "quiet"}] /\ lastError' \in Codes
        /\ entry[t] \in EntryPoints
    BY <2>3 DEF EntryInv, EntryTypeOK
  <2>5. /\ (0 > 0 <=> entry[t] = "records") /\ 0 \in 0..2 /\ entry[t] # "records"
        /\ Stands(entry[t], "operates") /\ "operates" \in Calls /\ code \in Codes \cup {"-"}
    BY <2>1 DEF Stands, Calls
  <2>6. OwnInv'
    BY <2>1, <2>3, <2>4, <2>5, RunsKeepsOwnInv
  <2>7. EntryInv' /\ HolderInv'
    BY <2>3, <2>4, <2>5, RunsKeepsEntryInv
  <2> QED
    BY <2>6, <2>7
<1>11. CASE OperationAnswers(t)
  <2>1. /\ call[t] = "operates" /\ call' = [call EXCEPT ![t] = "none"]
        /\ UNCHANGED <<stiLocked, lockVars>> /\ entry[t] \in {"Presence", "Scan"}
    BY <1>11 DEF OperationAnswers, OperationReturns, Via, Moves, EntryInv, Stands
  <2>2. CASE Leaves(t, "-")
    BY <2>1, <2>2, LeavesKeepsEntryInv
  <2>3. CASE \E code \in Codes, n \in {1, 2} : Decides(t, code, n)
    BY <2>1, <2>3, DecidesKeepsEntryInv
  <2>4. Refused(t) \in Codes /\ Records(entry[t]) \subseteq {1, 2}
    BY DEF Refused, AccessCode, Codes, Records
  <2> QED
    BY <1>11, <2>2, <2>3, <2>4 DEF OperationAnswers, Codes
<1>12. CASE Destroys(t)
  <2>1. /\ entry[t] = "-" /\ UNCHANGED <<stiLocked, errorVars, lockVars>>
        /\ \E c \in {"drops", "dropping", "gone"} : call' = [call EXCEPT ![t] = c]
    BY <1>12 DEF Destroys, FinalRelease, DropUnlocks, DropReleases, Via, Moves, Idle, EntryInv,
                 Stands
  <2> QED
    BY <2>1, GoesOnKeepsEntryInv DEF Stands, Calls
<1>13. CASE SlotSteps(t)
  <2>1. /\ call' = [call EXCEPT ![t] = call[t]] /\ UNCHANGED <<stiLocked, errorVars, lockVars>>
        /\ call[t] \in Calls /\ Stands(entry[t], call[t])
    BY <1>13 DEF SlotSteps, stiVars, StiInv, TypeOK, EntryInv
  <2> QED
    BY <2>1, GoesOnKeepsEntryInv
<1> QED
  BY <1>1, <1>2, <1>3, <1>4, <1>5, <1>6, <1>7, <1>8, <1>9, <1>10, <1>11, <1>12, <1>13
     DEF EntryContinues

LEMMA EntryInvariant == EntriesSpec => [](StiInv /\ EntryInv /\ OwnInv /\ HolderInv)
<1> DEFINE Inv == StiInv /\ EntryInv /\ OwnInv /\ HolderInv
<1>1. EntriesInit => Inv
  BY InitEstablishesEntryInv, InitEstablishesStiInv DEF EntriesInit
<1>2. Inv /\ [EntriesNext]_entryVars => Inv'
  <2> SUFFICES ASSUME Inv, [EntriesNext]_entryVars PROVE Inv'
    OBVIOUS
  <2>1. StiInv'
    BY EntryStepIsDeviceStep, NextKeepsSlotPart, NextKeepsHelperInv, NextKeepsPathInv,
       NextKeepsLockInv DEF StiInv
  <2>2. TypeOK'
    BY <2>1 DEF StiInv
  <2>3. CASE UNCHANGED entryVars
    BY <2>1, <2>2, <2>3
       DEF entryVars, vars, stiVars, errorVars, lockVars, EntryInv, EntryTypeOK, OwnInv, HolderInv
  <2>4. CASE EntriesNext
    BY <2>1, <2>2, <2>4, OutsideKeepsEntryInv, InsideKeepsEntryInv DEF EntriesNext
  <2> QED
    BY <2>3, <2>4
<1> QED
  BY <1>1, <1>2, PTL DEF EntriesSpec

\* Whatever its callers do, the entry points' variables keep their types.
THEOREM EntryTypeCorrect == EntriesSpec => []EntryTypeOK
<1>1. EntryInv => EntryTypeOK
  BY DEF EntryInv
<1> QED
  BY <1>1, EntryInvariant, PTL

\* GetLastError never tells a caller another answer than its own call's, for any number of
\* callers, as long as nobody else has recorded one since.
THEOREM LastErrorStaysOwn == EntriesSpec => []LastErrorIsOwn
<1>1. OwnInv => LastErrorIsOwn
  BY DEF OwnInv, LastErrorIsOwn
<1> QED
  BY <1>1, EntryInvariant, PTL

\* As long as LockDevice and UnLockDevice are serialised, S_OK has one holder, whoever runs
\* scans, presence checks and Initialize meanwhile.
THEOREM LockKeepsOneHolder == EntriesSpec => []LockHasOneHolder
<1>1. HolderInv => LockHasOneHolder
  BY DEF HolderInv, LockHasOneHolder
<1> QED
  BY <1>1, EntryInvariant, PTL

\* The flags are true and the handle is kept for the callers of the entry points, too.
THEOREM EntriesKeepDevice == EntriesSpec => []FlagsAreTrue /\ HandleKept
  BY EntriesImplementDevice, FlagsStayTrue, HandleStaysOpen
===============================================================================
