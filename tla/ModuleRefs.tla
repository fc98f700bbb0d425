------------------------------ MODULE ModuleRefs ------------------------------
(***************************************************************************)
(* com_server.rs: how long the DLL and its COM objects live.  One atomic   *)
(* (holds) covers every live factory, instance and server lock, and alone  *)
(* decides DllCanUnloadNow; server_locks only rejects unmatched unlocks.   *)
(* Each fetch_update is one action.  Counters saturate at MaxCount, which  *)
(* stands for u32::MAX: a hold is refused there, a reference count becomes *)
(* a permanent pin.                                                        *)
(*                                                                         *)
(* A factory and an instance live and die alike and are both an object     *)
(* here; an aggregated instance has the same count, held by its outer.     *)
(***************************************************************************)
EXTENDS Integers, FiniteSets

CONSTANTS
    Threads, Objects, NoObject,
    MaxCount,        \* u32::MAX
    MaxOwned         \* bound: references the clients take on one object

ASSUME NoObjectAssumption == NoObject \notin Objects
ASSUME CountAssumption == MaxCount \in Nat \ {0} /\ MaxOwned \in Nat \ {0}

VARIABLES
    holds, server_locks,
    refs,      \* the count inside each object
    alive,     \* objects whose allocation exists
    at,        \* how far each thread's call is
    dying,     \* the object whose last Release a thread runs
    owned      \* history: references the clients really own

vars == <<holds, server_locks, refs, alive, at, dying, owned>>

Stages == {"idle", "locks", "unholds", "destroys"}

TypeOK ==
    /\ holds \in 0..MaxCount /\ server_locks \in 0..MaxCount
    /\ refs \in [Objects -> 0..MaxCount]
    /\ alive \subseteq Objects
    /\ at \in [Threads -> Stages]
    /\ dying \in [Threads -> Objects \cup {NoObject}]
    /\ owned \in [Objects -> 0..MaxOwned]

Init ==
    /\ holds = 0 /\ server_locks = 0
    /\ refs = [o \in Objects |-> 0]
    /\ alive = {}
    /\ at = [t \in Threads |-> "idle"]
    /\ dying = [t \in Threads |-> NoObject]
    /\ owned = [o \in Objects |-> 0]

\* increment_count and decrement_count: checked, they change nothing at the limit.
Increments(counter) == IF counter < MaxCount THEN counter + 1 ELSE counter
Decrements(counter) == IF counter > 0 THEN counter - 1 ELSE counter

Moves(t, from, to) == at[t] = from /\ at' = [at EXCEPT ![t] = to]

-------------------------------------------------------------------------------
\* DllGetClassObject and CreateInstance: without a hold the allocation is dropped and
\* the call fails.
\*
\* Seeded fault: the object is handed out although the hold was refused.
BugCreates(t, o) ==
    /\ at[t] = "idle" /\ o \notin alive
    /\ holds' = Increments(holds)
    /\ alive' = alive \cup {o}
    /\ refs' = [refs EXCEPT ![o] = 1]
    /\ owned' = [owned EXCEPT ![o] = 1]
    /\ UNCHANGED <<server_locks, at, dying>>

Creates(t, o) ==
    /\ at[t] = "idle" /\ o \notin alive
    /\ holds < MaxCount
    /\ holds' = Increments(holds)
    /\ alive' = alive \cup {o}
    /\ refs' = [refs EXCEPT ![o] = 1]
    /\ owned' = [owned EXCEPT ![o] = 1]
    /\ UNCHANGED <<server_locks, at, dying>>

\* increment_ref, for AddRef and QueryInterface: a client that owns a reference takes
\* another one; at MaxCount the count stays there for ever.
AddsRef(t, o) ==
    /\ at[t] = "idle" /\ owned[o] \in 1..(MaxOwned - 1)
    /\ refs' = [refs EXCEPT ![o] = Increments(@)]
    /\ owned' = [owned EXCEPT ![o] = @ + 1]
    /\ UNCHANGED <<holds, server_locks, alive, at, dying>>

\* release_ref: what a count becomes.
\*
\* Seeded fault: the count leaves its limit again.
BugReleased(count) == Decrements(count)

Released(count) == IF count = MaxCount THEN count ELSE Decrements(count)

\* Release by a client that owns a reference; the last one destroys the object.
\*
\* Seeded fault: the count is tested before it is decremented.
BugReleases(t, o) ==
    /\ owned[o] > 0
    /\ owned' = [owned EXCEPT ![o] = @ - 1]
    /\ refs' = [refs EXCEPT ![o] = Released(@)]
    /\ IF refs[o] = 0
       THEN Moves(t, "idle", "destroys") /\ dying' = [dying EXCEPT ![t] = o]
       ELSE at[t] = "idle" /\ UNCHANGED <<at, dying>>
    /\ UNCHANGED <<holds, server_locks, alive>>

Releases(t, o) ==
    /\ owned[o] > 0
    /\ owned' = [owned EXCEPT ![o] = @ - 1]
    /\ refs' = [refs EXCEPT ![o] = Released(@)]
    /\ IF refs'[o] = 0
       THEN Moves(t, "idle", "destroys") /\ dying' = [dying EXCEPT ![t] = o]
       ELSE at[t] = "idle" /\ UNCHANGED <<at, dying>>
    /\ UNCHANGED <<holds, server_locks, alive>>

\* Seeded fault: the hold is released before the allocation is destroyed.
BugDestroys(t) ==
    /\ Moves(t, "destroys", "idle")
    /\ holds' = Decrements(holds)
    /\ UNCHANGED <<server_locks, refs, alive, dying, owned>>

\* The allocation goes first, its hold afterwards.
Destroys(t) ==
    /\ Moves(t, "destroys", "unholds")
    /\ alive' = alive \ {dying[t]}
    /\ dying' = [dying EXCEPT ![t] = NoObject]
    /\ UNCHANGED <<holds, server_locks, refs, owned>>

Unholds(t) ==
    /\ Moves(t, "unholds", "idle")
    /\ holds' = Decrements(holds)
    /\ UNCHANGED <<server_locks, refs, alive, dying, owned>>

-------------------------------------------------------------------------------
\* LockServer: the hold comes first, then the lock; a lock that cannot be counted gives
\* its hold back.
LockHolds(t) ==
    /\ holds < MaxCount
    /\ holds' = Increments(holds)
    /\ Moves(t, "idle", "locks")
    /\ UNCHANGED <<server_locks, refs, alive, dying, owned>>

LockCounts(t) ==
    /\ Moves(t, "locks", IF server_locks < MaxCount THEN "idle" ELSE "unholds")
    /\ server_locks' = Increments(server_locks)
    /\ UNCHANGED <<holds, refs, alive, dying, owned>>

\* Seeded fault: an unmatched unlock is not rejected.
BugUnlocks(t) ==
    /\ server_locks' = Decrements(server_locks)
    /\ Moves(t, "idle", "unholds")
    /\ UNCHANGED <<holds, refs, alive, dying, owned>>

\* An unlock without a lock is rejected; otherwise the lock goes first, then the hold.
Unlocks(t) ==
    /\ server_locks > 0
    /\ server_locks' = Decrements(server_locks)
    /\ Moves(t, "idle", "unholds")
    /\ UNCHANGED <<holds, refs, alive, dying, owned>>

-------------------------------------------------------------------------------
Finishes(t) == Destroys(t) \/ Unholds(t) \/ LockCounts(t)

Next ==
    \E t \in Threads :
        \/ \E o \in Objects : Creates(t, o) \/ AddsRef(t, o) \/ Releases(t, o)
        \/ LockHolds(t) \/ Unlocks(t)
        \/ Finishes(t)

Spec == Init /\ [][Next]_vars

\* A call that has started runs to its end.
FairSpec == Spec /\ \A t \in Threads : WF_vars(Finishes(t))

-------------------------------------------------------------------------------
\* PROPERTIES

InFlight == {t \in Threads : at[t] \in {"locks", "unholds"}}

\* The one counter DllCanUnloadNow reads is exactly the objects whose memory exists,
\* the server locks, and the calls between their two counters: it is never zero while
\* any of them is left, and never stays above zero after all of them.
HoldsCover == holds = Cardinality(alive) + server_locks + Cardinality(InFlight)

\* An object some client owns a reference on exists, also past the limit of its count.
OwnedIsAlive == \A o \in Objects : owned[o] > 0 => o \in alive /\ refs[o] > 0

\* The counts of the module and of its objects (com_server.rs) cover what is in use.
CountsCover == HoldsCover /\ OwnedIsAlive

\* An object dies when its clients have released every reference, unless its count had
\* reached the limit, and then the module can be unloaded.
UnownedDies ==
    \A o \in Objects : (owned[o] = 0 /\ refs[o] # MaxCount) ~> (o \notin alive \/ owned[o] > 0)
===============================================================================
