-------------------------------- MODULE PnpBus --------------------------------
(***************************************************************************)
(* External: Windows Plug and Play, as far as this repository's programs   *)
(* ask it.  Device nodes come and go and change their driver at any time,  *)
(* between any two calls of a program.                                     *)
(***************************************************************************)
EXTENDS Naturals, FiniteSets

CONSTANTS Nodes,     \* device nodes of the USB bus
          KindOf,    \* what the hardware ID of a node says it is
          StatesOf,  \* the states a node may be in (bounds the instance)
          NoNode

NodeStates == {"absent",    \* unplugged
               "bare",      \* present, no driver: problem 28
               "stopped",   \* WinUSB bound, not started
               "faulty",    \* WinUSB bound, another problem code
               "ready",     \* WinUSB started, its interface active
               "foreign"}   \* another driver, started

ASSUME KindAssumption == KindOf \in [Nodes -> {"Composite", "Scanner", "Printer", "Other"}]
ASSUME StatesAssumption == StatesOf \in [Nodes -> SUBSET NodeStates]
ASSUME NoNodeAssumption == NoNode \notin Nodes
ASSUME NodesAssumption == IsFiniteSet(Nodes)

VARIABLES node,   \* the state of each node
          quiet   \* history: no node has changed since the program began its present look

busVars == <<node, quiet>>

Present == {n \in Nodes : node[n] # "absent"}

\* The interfaces registered under the GUID of the scanner's INF.
Registered == {n \in Nodes : node[n] \in {"stopped", "faulty", "ready"}}

Active == {n \in Nodes : node[n] = "ready"}

Started(n) == node[n] \in {"ready", "foreign"}

Problem(n) == CASE node[n] = "bare" -> 28 [] node[n] = "faulty" -> 10 [] OTHER -> 0

\* Lengths stand for names: the property buffers of the code are sized by them.
ServiceLength(n) == CASE n \in Registered -> 1 [] node[n] = "foreign" -> 2 [] OTHER -> 0

\* lib.rs: the exact hardware IDs; anything else is not ours.
Identify(n) == KindOf[n]

IsScanner(n) == Identify(n) = "Scanner"

BusInit == node \in [Nodes -> NodeStates] /\ (\A n \in Nodes : node[n] \in StatesOf[n]) /\ quiet = TRUE

BusChanges ==
    /\ \E n \in Nodes, s \in NodeStates :
          s \in StatesOf[n] \ {node[n]} /\ node' = [node EXCEPT ![n] = s]
    /\ quiet' = FALSE

\* A program takes its list of the bus anew.
Looks == quiet' = TRUE /\ UNCHANGED node

Unlooked == UNCHANGED busVars
===============================================================================
