------------------------------ MODULE DriverTree ------------------------------
(***************************************************************************)
(* minidrv/tree.rs under minidrv.rs: the two driver items, root and flatbed *)
(* child, that creating a connection builds and that closing or giving it  *)
(* up takes down.  MiniDriver sees the outcome; here every call of Windows  *)
(* is a step of its own and may fail.  The items are Windows' objects: the *)
(* driver owns one reference on the root as long as it has a tree, and one *)
(* on the child until it is linked.                                        *)
(***************************************************************************)
EXTENDS MiniDriver

VARIABLES
    step,       \* how far each call is with its tree
    roots,      \* external: references the driver has on root items
    children,   \* external: references the driver has on child items
    attached,   \* external: a child hangs in a tree that has not been unlinked
    severed     \* history: Windows has refused to unlink a tree

treeVars == <<step, roots, children, attached, severed>>
driverVars == <<vars, treeVars>>

TreeTypeOK ==
    /\ TypeOK
    /\ step \in [Threads -> {"-", "rooted", "childed", "linked", "unlinks", "done", "refused"}]
    /\ roots \in 0..1 /\ children \in 0..1
    /\ attached \in BOOLEAN /\ severed \in BOOLEAN

TreeInit ==
    /\ Init
    /\ step = [t \in Threads |-> "-"]
    /\ roots = 0 /\ children = 0 /\ attached = FALSE /\ severed = FALSE

Steps(t, from, to) == step[t] = from /\ step' = [step EXCEPT ![t] = to]

-------------------------------------------------------------------------------
\* Tree::create.  A name Windows or the driver refuses ends it before there is an item.
CreatesNothing(t) ==
    /\ step[t] = "-"
    /\ \E d \in Devices : InitializeCreates(t, d)
    /\ lifecycle' = "Idle"
    /\ UNCHANGED treeVars

CreatesRoot(t) ==
    /\ at[t] = "creates" /\ Steps(t, "-", "rooted")
    /\ roots' = roots + 1
    /\ UNCHANGED <<vars, children, attached, severed>>

CreatesChild(t) ==
    /\ Steps(t, "rooted", "childed")
    /\ children' = children + 1
    /\ UNCHANGED <<vars, roots, attached, severed>>

AddsToFolder(t) ==
    /\ Steps(t, "childed", "linked")
    /\ attached' = TRUE
    /\ UNCHANGED <<vars, roots, children, severed>>

\* Windows keeps the linked child, so the construction reference goes; then the tree
\* enters the connection.
Connects(t) ==
    /\ Steps(t, "linked", "-")
    /\ \E d \in Devices : InitializeCreates(t, d)
    /\ lifecycle' = "Connected"
    /\ children' = children - 1
    /\ UNCHANGED <<roots, attached, severed>>

\* The child cannot be named, created or linked: what there is of it is released before
\* the tree.
\*
\* Seeded fault: the reference on a child that could not be linked is left to Windows.
BugGivesUp(t) ==
    /\ Steps(t, "rooted", "unlinks") \/ Steps(t, "childed", "unlinks")
    /\ UNCHANGED <<vars, roots, children, attached, severed>>

GivesUp(t) ==
    /\ \/ Steps(t, "rooted", "unlinks") /\ UNCHANGED children
       \/ Steps(t, "childed", "unlinks") /\ children' = children - 1
    /\ UNCHANGED <<vars, roots, attached, severed>>

-------------------------------------------------------------------------------
\* Tree::disconnect, by close() of the last session or by the tree's Drop.
TakesDown(t) ==
    \/ step[t] = "unlinks"
    \/ step[t] = "-" /\ at[t] \in {"closes", "releases"}

\* Seeded fault: the tree's Drop releases the root without unlinking it.
BugUnlinks(t) ==
    /\ TakesDown(t)
    /\ \/ step' = [step EXCEPT ![t] = "done"]
          /\ attached' = (attached /\ at[t] = "releases") /\ UNCHANGED severed
       \/ step' = [step EXCEPT ![t] = "refused"] /\ UNCHANGED attached
          /\ severed' = TRUE
    /\ UNCHANGED <<vars, roots, children>>

Unlinks(t) ==
    /\ TakesDown(t)
    /\ \/ step' = [step EXCEPT ![t] = "done"]
          /\ attached' = FALSE /\ UNCHANGED severed
       \/ step' = [step EXCEPT ![t] = "refused"] /\ UNCHANGED attached
          /\ severed' = TRUE
    /\ UNCHANGED <<vars, roots, children>>

\* The root is held until unlink has returned.  Only close() reports what it answered.
ReleasesRoot(t) ==
    /\ step[t] \in {"done", "refused"} /\ step' = [step EXCEPT ![t] = "-"]
    /\ roots' = roots - 1
    /\ \/ (\E d \in Devices : InitializeCreates(t, d)) /\ lifecycle' = "Idle"
       \/ DisconnectCloses(t) /\ lifecycle' = (IF step[t] = "done" THEN "Idle" ELSE "Failed")
       \/ Releases(t)
    /\ UNCHANGED <<children, attached, severed>>

-------------------------------------------------------------------------------
TreeContinues(t) ==
    \/ CreatesNothing(t) \/ CreatesRoot(t) \/ CreatesChild(t) \/ AddsToFolder(t)
    \/ Connects(t) \/ GivesUp(t) \/ Unlinks(t) \/ ReleasesRoot(t)
    \/ Runs(t) /\ UNCHANGED treeVars

TreeNext ==
    \/ \E t \in Threads : TreeContinues(t)
    \/ (\E t \in Threads : Enters(t)) /\ UNCHANGED treeVars
    \/ (\E d \in Devices : Notifies(d)) /\ UNCHANGED treeVars

TreeSpec == TreeInit /\ [][TreeNext]_driverVars

\* As in MiniDriver: the calls into Windows return.
TreeFairness == \A t \in Threads : WF_driverVars(TreeContinues(t))

FairTreeSpec == TreeSpec /\ TreeFairness

-------------------------------------------------------------------------------
\* PROPERTIES

\* A connection has a whole tree, whose root is the pointer every session of Windows was
\* given; without one, whatever call of Windows failed on the way (tree.rs), nothing of a
\* tree is left: no reference, and no child unless Windows refused the unlink.
TreeIsWhole ==
    /\ lifecycle = "Connected" => roots = 1 /\ attached
    /\ lifecycle \in {"Idle", "Failed"} => roots = 0
    /\ lifecycle # "Busy" => children = 0
    /\ attached /\ roots = 0 => severed /\ lifecycle # "Idle"

\* The connection (minidrv.rs, tree.rs) has one place, its counts are Windows' and its
\* tree is whole.
ConnectionIsWhole == ConnectionAccounted /\ TreeIsWhole
===============================================================================
