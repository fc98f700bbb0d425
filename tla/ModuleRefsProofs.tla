---------------------------- MODULE ModuleRefsProofs ----------------------------
(***************************************************************************)
(* The safety properties of ModuleRefs for any threads, objects and        *)
(* limits.  Neither set has to be finite: every state has finitely many    *)
(* objects alive and calls under way.                                      *)
(***************************************************************************)
EXTENDS ModuleRefs, FiniteSetTheorems, TLAPS

\* What a count inside an object says: the references its clients own, unless it has
\* reached its limit; and a dying object has no client and only one destroyer.
ObjectInv ==
    /\ \A o \in Objects :
         /\ refs[o] = owned[o] \/ refs[o] = MaxCount
         /\ owned[o] > 0 => o \in alive
    /\ \A t \in Threads : at[t] = "destroys" =>
         /\ dying[t] \in alive /\ refs[dying[t]] = 0 /\ owned[dying[t]] = 0
         /\ \A s \in Threads : at[s] = "destroys" /\ dying[s] = dying[t] => s = t

CountInv ==
    /\ IsFiniteSet(alive) /\ IsFiniteSet(InFlight)
    /\ HoldsCover

RefsInv == TypeOK /\ ObjectInv /\ CountInv

-------------------------------------------------------------------------------
LEMMA InitEstablishesRefsInv == Init => RefsInv
<1> SUFFICES ASSUME Init PROVE RefsInv
  OBVIOUS
<1>1. TypeOK /\ ObjectInv
  BY CountAssumption DEF Init, TypeOK, ObjectInv, Stages
<1>2. InFlight = {}
  BY DEF Init, InFlight
<1>3. CountInv
  BY <1>2, FS_EmptySet DEF Init, CountInv, HoldsCover
<1> QED
  BY <1>1, <1>3 DEF RefsInv

LEMMA NextKeepsTypes == RefsInv /\ [Next]_vars => TypeOK'
<1> SUFFICES ASSUME RefsInv, [Next]_vars PROVE TypeOK'
  OBVIOUS
<1> USE CountAssumption
    DEF RefsInv, TypeOK, Stages, Moves, Increments, Decrements
<1>1. CASE UNCHANGED vars
  BY <1>1 DEF vars
<1>2. ASSUME NEW t \in Threads, NEW o \in Objects, Creates(t, o) PROVE TypeOK'
  BY <1>2 DEF Creates
<1>3. ASSUME NEW t \in Threads, NEW o \in Objects, AddsRef(t, o) PROVE TypeOK'
  BY <1>3 DEF AddsRef
<1>4. ASSUME NEW t \in Threads, NEW o \in Objects, Releases(t, o) PROVE TypeOK'
  BY <1>4 DEF Releases, Released
<1>5. ASSUME NEW t \in Threads, LockHolds(t) \/ Unlocks(t) PROVE TypeOK'
  BY <1>5 DEF LockHolds, Unlocks
<1>6. ASSUME NEW t \in Threads, Destroys(t) PROVE TypeOK'
  BY <1>6 DEF Destroys
<1>7. ASSUME NEW t \in Threads, Unholds(t) \/ LockCounts(t) PROVE TypeOK'
  BY <1>7 DEF Unholds, LockCounts
<1> QED
  BY <1>1, <1>2, <1>3, <1>4, <1>5, <1>6, <1>7 DEF Next, Finishes

-------------------------------------------------------------------------------
LEMMA NextKeepsObjectInv == RefsInv /\ [Next]_vars => ObjectInv'
<1> SUFFICES ASSUME RefsInv, [Next]_vars PROVE ObjectInv'
  OBVIOUS
<1> USE CountAssumption DEF RefsInv, TypeOK, Stages, ObjectInv, Moves
<1>1. CASE UNCHANGED vars
  BY <1>1 DEF vars
<1>2. ASSUME NEW t \in Threads, NEW o \in Objects, Creates(t, o) PROVE ObjectInv'
  BY <1>2 DEF Creates
<1>3. ASSUME NEW t \in Threads, NEW o \in Objects, AddsRef(t, o) PROVE ObjectInv'
  BY <1>3 DEF AddsRef, Increments
<1>4. ASSUME NEW t \in Threads, NEW o \in Objects, Releases(t, o) PROVE ObjectInv'
  BY <1>4 DEF Releases, Released, Decrements
<1>5. ASSUME NEW t \in Threads, LockHolds(t) \/ Unlocks(t) PROVE ObjectInv'
  BY <1>5 DEF LockHolds, Unlocks
<1>6. ASSUME NEW t \in Threads, Destroys(t) PROVE ObjectInv'
  BY <1>6 DEF Destroys
<1>7. ASSUME NEW t \in Threads, Unholds(t) \/ LockCounts(t) PROVE ObjectInv'
  BY <1>7 DEF Unholds, LockCounts
<1> QED
  BY <1>1, <1>2, <1>3, <1>4, <1>5, <1>6, <1>7 DEF Next, Finishes

-------------------------------------------------------------------------------
LEMMA NextKeepsCountInv == RefsInv /\ [Next]_vars => CountInv'
<1> SUFFICES ASSUME RefsInv, [Next]_vars PROVE CountInv'
  OBVIOUS
<1> USE CountAssumption DEF RefsInv, CountInv, HoldsCover, Moves
<1>1. /\ Cardinality(alive) \in Nat /\ Cardinality(InFlight) \in Nat
      /\ at \in [Threads -> Stages]
      /\ holds \in 0..MaxCount /\ server_locks \in 0..MaxCount
  BY FS_CardinalityType DEF TypeOK
<1>2. CASE UNCHANGED vars
  BY <1>2 DEF vars, InFlight
<1>3. ASSUME NEW t \in Threads, NEW o \in Objects, Creates(t, o) PROVE CountInv'
  <2>1. InFlight' = InFlight
    BY <1>3 DEF Creates, InFlight
  <2>2. IsFiniteSet(alive') /\ Cardinality(alive') = Cardinality(alive) + 1
    BY <1>3, FS_AddElement DEF Creates
  <2> QED
    BY <1>1, <1>3, <2>1, <2>2 DEF Creates, Increments
<1>4. ASSUME NEW t \in Threads, NEW o \in Objects, AddsRef(t, o) PROVE CountInv'
  BY <1>4 DEF AddsRef, InFlight
<1>5. ASSUME NEW t \in Threads, NEW o \in Objects, Releases(t, o) PROVE CountInv'
  <2>1. InFlight' = InFlight
    BY <1>1, <1>5 DEF Releases, InFlight
  <2> QED
    BY <1>5, <2>1 DEF Releases
<1>6. ASSUME NEW t \in Threads, at[t] \notin {"locks", "unholds"},
             InFlight' = InFlight \cup {t}
      PROVE  IsFiniteSet(InFlight') /\ Cardinality(InFlight') = Cardinality(InFlight) + 1
  <2>1. t \notin InFlight
    BY <1>6 DEF InFlight
  <2> QED
    BY <1>6, <2>1, FS_AddElement
<1>7. ASSUME NEW t \in Threads, at[t] \in {"locks", "unholds"},
             InFlight' = InFlight \ {t}
      PROVE  /\ IsFiniteSet(InFlight') /\ Cardinality(InFlight') = Cardinality(InFlight) - 1
             /\ Cardinality(InFlight) > 0
  <2>1. t \in InFlight
    BY <1>7 DEF InFlight
  <2>2. IsFiniteSet(InFlight')
    BY <1>7, FS_RemoveElement
  <2>3. Cardinality(InFlight') = Cardinality(InFlight) - 1
    BY <1>7, <2>1, FS_RemoveElement
  <2>4. Cardinality(InFlight') \in Nat
    BY <2>2, FS_CardinalityType
  <2> QED
    BY <1>1, <2>2, <2>3, <2>4
<1>8. ASSUME NEW t \in Threads, LockHolds(t) PROVE CountInv'
  <2>1. InFlight' = InFlight \cup {t}
    BY <1>1, <1>8 DEF LockHolds, InFlight
  <2>2. IsFiniteSet(InFlight') /\ Cardinality(InFlight') = Cardinality(InFlight) + 1
    BY <1>6, <1>8, <2>1 DEF LockHolds
  <2> QED
    BY <1>1, <1>8, <2>2 DEF LockHolds, Increments
<1>9. ASSUME NEW t \in Threads, Unlocks(t) PROVE CountInv'
  <2>1. InFlight' = InFlight \cup {t}
    BY <1>1, <1>9 DEF Unlocks, InFlight
  <2>2. IsFiniteSet(InFlight') /\ Cardinality(InFlight') = Cardinality(InFlight) + 1
    BY <1>6, <1>9, <2>1 DEF Unlocks
  <2> QED
    BY <1>1, <1>9, <2>2 DEF Unlocks, Decrements
<1>10. ASSUME NEW t \in Threads, LockCounts(t) PROVE CountInv'
  <2>1. CASE server_locks < MaxCount
    <3>1. InFlight' = InFlight \ {t}
      BY <1>1, <1>10, <2>1 DEF LockCounts, InFlight
    <3>2. /\ IsFiniteSet(InFlight') /\ Cardinality(InFlight') = Cardinality(InFlight) - 1
          /\ Cardinality(InFlight) > 0
      BY <1>7, <1>10, <3>1 DEF LockCounts
    <3> QED
      BY <1>1, <1>10, <2>1, <3>2 DEF LockCounts, Increments
  <2>2. CASE ~(server_locks < MaxCount)
    <3>1. InFlight' = InFlight
      BY <1>1, <1>10, <2>2 DEF LockCounts, InFlight
    <3> QED
      BY <1>1, <1>10, <2>2, <3>1 DEF LockCounts, Increments
  <2> QED
    BY <2>1, <2>2
<1>11. ASSUME NEW t \in Threads, Destroys(t) PROVE CountInv'
  <2>1. InFlight' = InFlight \cup {t}
    BY <1>1, <1>11 DEF Destroys, InFlight
  <2>2. dying[t] \in alive
    BY <1>11 DEF Destroys, ObjectInv
  <2>3. IsFiniteSet(alive') /\ Cardinality(alive') = Cardinality(alive) - 1
    BY <1>11, <2>2, FS_RemoveElement DEF Destroys
  <2>4. IsFiniteSet(InFlight') /\ Cardinality(InFlight') = Cardinality(InFlight) + 1
    BY <1>6, <1>11, <2>1 DEF Destroys
  <2> QED
    BY <1>1, <1>11, <2>3, <2>4 DEF Destroys
<1>12. ASSUME NEW t \in Threads, Unholds(t) PROVE CountInv'
  <2>1. InFlight' = InFlight \ {t}
    BY <1>1, <1>12 DEF Unholds, InFlight
  <2>2. /\ IsFiniteSet(InFlight') /\ Cardinality(InFlight') = Cardinality(InFlight) - 1
        /\ Cardinality(InFlight) > 0
    BY <1>7, <1>12, <2>1 DEF Unholds
  <2> QED
    BY <1>1, <1>12, <2>2 DEF Unholds, Decrements
<1> QED
  BY <1>2, <1>3, <1>4, <1>5, <1>8, <1>9, <1>10, <1>11, <1>12 DEF Next, Finishes

LEMMA RefsInvariant == Spec => []RefsInv
<1>1. RefsInv /\ [Next]_vars => RefsInv'
  BY NextKeepsTypes, NextKeepsObjectInv, NextKeepsCountInv DEF RefsInv
<1> QED
  BY <1>1, InitEstablishesRefsInv, PTL DEF Spec

-------------------------------------------------------------------------------
\* The type invariant of the module's counters.
THEOREM RefsTypeCorrect == Spec => []TypeOK
<1>1. RefsInv => TypeOK
  BY DEF RefsInv
<1> QED
  BY <1>1, RefsInvariant, PTL

\* DllCanUnloadNow reads a counter that is exactly the live objects, the server locks
\* and the calls between their two counters, for any number of each.
THEOREM HoldsCoverEverything == Spec => []HoldsCover
<1>1. RefsInv => HoldsCover
  BY DEF RefsInv, CountInv
<1> QED
  BY <1>1, RefsInvariant, PTL

\* No object is destroyed under a client that owns a reference, not even one whose
\* count has saturated.
THEOREM OwnedStaysAlive == Spec => []OwnedIsAlive
<1>1. RefsInv => OwnedIsAlive
  BY CountAssumption DEF RefsInv, TypeOK, ObjectInv, OwnedIsAlive
<1> QED
  BY <1>1, RefsInvariant, PTL

\* The module's counter and the counts of the objects cover what is in use.
THEOREM CountsCoverUse == Spec => []CountsCover
<1>1. CountsCover <=> HoldsCover /\ OwnedIsAlive
  BY DEF CountsCover
<1> QED
  BY <1>1, HoldsCoverEverything, OwnedStaysAlive, PTL
===============================================================================
