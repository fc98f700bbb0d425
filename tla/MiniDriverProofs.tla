---------------------------- MODULE MiniDriverProofs ----------------------------
(***************************************************************************)
(* The safety properties of MiniDriver for any threads and devices, and    *)
(* any limit of the client counter.                                        *)
(***************************************************************************)
EXTENDS DriverTree, FiniteSetTheorems, TLAPS

\* The stages in which a call has the lifecycle, and those in which it has the
\* connection with it.
Working == Stages \ {"idle", "drops"}
Holding == Stages \ {"idle", "drops", "creates", "fails"}
Borrowing == Holding \ {"closes"}

\* Busy is one working call's; the connection is in the enum or with that call.
OwnerInv ==
    /\ \A s, t \in Threads : at[s] \in Working /\ at[t] \in Working => s = t
    /\ lifecycle = "Busy" <=> \E t \in Threads : at[t] \in Working
    /\ lifecycle = "Connected" <=> stored # NoConnection
    /\ \A t \in Threads : at[t] = "drops" => lifecycle = "Failed"
    /\ \A t \in Threads : held[t] # NoConnection <=> at[t] \in Holding

\* The counter inside the connection, wherever the connection is.
CountedInv ==
    /\ lifecycle = "Connected" => stored.clients = clients
    /\ lifecycle = "Idle" => clients = 0
    /\ \A t \in Threads : at[t] \in {"creates", "closes"} => clients = 0
    /\ \A t \in Threads : at[t] \in Borrowing => held[t].clients = clients
    /\ refs = IF lifecycle = "Connected" \/ \E t \in Threads : at[t] \in Holding THEN 1 ELSE 0

\* Whose lock it is, and what a lock or a partial write that is left over leads to.
OuterInv ==
    /\ \A t \in Threads : at[t] \in {"locked", "queried", "refused", "panicked"} =>
                              stiLock = "driver"
    /\ stiLock = "driver" =>
          \/ lifecycle = "Failed"
          \/ \E t \in Threads : at[t] \in {"locked", "queried", "refused", "panicked",
                                           "releases", "fails"}
    /\ partial => \/ lifecycle = "Failed"
                  \/ \E t \in Threads : at[t] \in {"releases", "fails"}

\* The registry is the acquiring call and nothing else, and its flag is the cancel
\* events the call has met.
RegistryInv ==
    /\ active # NoJob => /\ at[active.job] \in Acquiring
                         /\ active.device = held[active.job].device
    /\ \A t \in Threads : at[t] \in Acquiring =>
         /\ active # NoJob /\ active.job = t
         /\ outcome[t] = "none"
         /\ t \in notified <=> flag[t]
    /\ \A t \in Threads : at[t] = "finishes" =>
         transfer[t] # "none" /\ (transfer[t] = "cancelled" => flag[t])
    /\ \A t \in Threads :
         /\ outcome[t] = "S_OK" => t \notin notified
         /\ outcome[t] = "S_FALSE" => t \in notified \/ transfer[t] = "stopped"

DriverInv == TypeOK /\ OwnerInv /\ CountedInv /\ OuterInv /\ RegistryInv

-------------------------------------------------------------------------------
LEMMA InitEstablishesDriverInv == Init => DriverInv
<1> SUFFICES ASSUME Init PROVE DriverInv
  OBVIOUS
<1>1. TypeOK
  <2>1. refs \in 0..1 /\ clients \in 0..MaxClients
    BY MaxClientsAssumption DEF Init
  <2> QED
    BY <2>1 DEF Init, TypeOK, Stages
<1>2. OwnerInv /\ CountedInv
  BY DEF Init, OwnerInv, CountedInv, Working, Holding, Borrowing
<1>3. OuterInv /\ RegistryInv
  BY DEF Init, OuterInv, RegistryInv, Acquiring
<1> QED
  BY <1>1, <1>2, <1>3 DEF DriverInv

-------------------------------------------------------------------------------
\* A call that has borrowed the connection and goes on with it.
GoesOn(t) ==
    /\ at[t] \in Borrowing
    /\ \E to \in Borrowing : at' = [at EXCEPT ![t] = to]
    /\ UNCHANGED <<lifeVars, refs>>

LEMMA BorrowerGoesOn ==
  ASSUME NEW t \in Threads,
         \/ ServiceLocks(t) \/ ServiceUnlocks(t) \/ QueryLocks(t) \/ QueryRuns(t)
         \/ QueryUnlocks(t) \/ Publishes(t) \/ Writes(t)
         \/ Begins(t) \/ Reads(t) \/ Transfers(t) \/ Finishes(t) \/ Abandons(t)
  PROVE  GoesOn(t)
<1> USE DEF GoesOn, Moves, Borrowing, Holding, Stages, lifeVars, outerVars
<1>1. CASE ServiceLocks(t) \/ ServiceUnlocks(t)
  BY <1>1 DEF ServiceLocks, ServiceUnlocks
<1>2. CASE QueryLocks(t) \/ QueryRuns(t)
  BY <1>2 DEF QueryLocks, QueryRuns
<1>3. CASE QueryUnlocks(t)
  BY <1>3 DEF QueryUnlocks
<1>4. CASE Publishes(t) \/ Writes(t)
  BY <1>4 DEF Publishes, Writes
<1>5. CASE Begins(t)
  BY <1>5 DEF Begins
<1>6. CASE Reads(t) \/ Transfers(t)
  BY <1>6 DEF Reads, Transfers
<1>7. CASE Finishes(t) \/ Abandons(t)
  BY <1>7 DEF Finishes, Abandons
<1> QED
  BY <1>1, <1>2, <1>3, <1>4, <1>5, <1>6, <1>7

LEMMA NextKeepsOwnerInv == DriverInv /\ [Next]_vars => OwnerInv'
<1> SUFFICES ASSUME DriverInv, [Next]_vars PROVE OwnerInv'
  OBVIOUS
<1>1. /\ at \in [Threads -> Stages]
      /\ held \in [Threads -> Connections \cup {NoConnection}]
      /\ stored \in Connections \cup {NoConnection}
      /\ lifecycle \in {"Idle", "Busy", "Connected", "Failed"}
      /\ OwnerInv
  BY DEF DriverInv, TypeOK
<1>2. NoConnection \notin Connections
  BY NoConnectionAssumption, MaxClientsAssumption DEF Connections
<1> USE DEF OwnerInv, Working, Holding, Stages, Moves
<1>3. CASE UNCHANGED vars
  BY <1>1, <1>3 DEF vars, lifeVars
<1>4. ASSUME NEW d \in Devices, Notifies(d) PROVE OwnerInv'
  BY <1>1, <1>4 DEF Notifies, lifeVars
<1>5. ASSUME NEW t \in Threads, NEW d \in Devices, InitializeJoins(t, d) PROVE OwnerInv'
  <2>1. stored \in Connections /\ stored.clients + 1 \in 1..MaxClients
    BY <1>1, <1>5, MaxClientsAssumption DEF InitializeJoins, Connections
  <2>2. stored' \in Connections
    BY <1>5, <2>1 DEF InitializeJoins, Connections
  <2> QED
    BY <1>1, <1>2, <1>5, <2>2 DEF InitializeJoins
<1>6. ASSUME NEW t \in Threads, InitializeClaims(t) PROVE OwnerInv'
  BY <1>1, <1>6 DEF InitializeClaims
<1>7. ASSUME NEW t \in Threads, NEW d \in Devices, InitializeCreates(t, d) PROVE OwnerInv'
  <2>1. [device |-> d, clients |-> 1] # NoConnection
    BY NoConnectionAssumption
  <2> QED
    BY <1>1, <1>7, <2>1 DEF InitializeCreates
<1>8. ASSUME NEW t \in Threads, DisconnectLeaves(t) PROVE OwnerInv'
  <2>1. stored \in Connections /\ stored.clients - 1 \in 1..MaxClients
    BY <1>1, <1>8, MaxClientsAssumption DEF DisconnectLeaves, Connections
  <2>2. stored' \in Connections
    BY <1>8, <2>1 DEF DisconnectLeaves, Connections
  <2> QED
    BY <1>1, <1>2, <1>8, <2>2 DEF DisconnectLeaves
<1>9. ASSUME NEW t \in Threads, DisconnectTakes(t) PROVE OwnerInv'
  BY <1>1, <1>9 DEF DisconnectTakes, MovesOut
<1>10. ASSUME NEW t \in Threads, DisconnectCloses(t) PROVE OwnerInv'
  BY <1>1, <1>10 DEF DisconnectCloses, Discards
<1>11. ASSUME NEW t \in Threads,
              NEW stage \in {"locks", "unlocks", "queries", "begins", "returns"},
              Takes(t, stage)
       PROVE  OwnerInv'
  BY <1>1, <1>11 DEF Takes, MovesOut
<1>12. ASSUME NEW t \in Threads, Returns(t) PROVE OwnerInv'
  BY <1>1, <1>12 DEF Returns
<1>13. ASSUME NEW t \in Threads, Releases(t) PROVE OwnerInv'
  BY <1>1, <1>13 DEF Releases, Discards
<1>14. ASSUME NEW t \in Threads, Fails(t) \/ Drops(t) PROVE OwnerInv'
  BY <1>1, <1>14 DEF Fails, Drops
<1>15. ASSUME NEW t \in Threads, GoesOn(t) PROVE OwnerInv'
  BY <1>1, <1>15 DEF GoesOn, Borrowing, lifeVars
<1> QED
  BY <1>3, <1>4, <1>5, <1>6, <1>7, <1>8, <1>9, <1>10, <1>11, <1>12, <1>13, <1>14, <1>15,
     BorrowerGoesOn
     DEF Next, Enters, Continues, Runs

LEMMA NextKeepsCountedInv == DriverInv /\ OwnerInv' /\ [Next]_vars => CountedInv'
<1> SUFFICES ASSUME DriverInv, OwnerInv', [Next]_vars PROVE CountedInv'
  OBVIOUS
<1>1. /\ at \in [Threads -> Stages]
      /\ held \in [Threads -> Connections \cup {NoConnection}]
      /\ stored \in Connections \cup {NoConnection}
      /\ lifecycle \in {"Idle", "Busy", "Connected", "Failed"}
      /\ clients \in Nat /\ refs \in 0..1
      /\ OwnerInv /\ CountedInv
  BY MaxClientsAssumption DEF DriverInv, TypeOK
<1>2. \A c \in Connections : c.clients \in Nat
  BY MaxClientsAssumption DEF Connections
<1> USE DEF OwnerInv, CountedInv, Working, Holding, Borrowing, Stages, Moves
<1>3. CASE UNCHANGED vars
  BY <1>1, <1>3 DEF vars, lifeVars, outerVars
<1>4. ASSUME NEW d \in Devices, Notifies(d) PROVE CountedInv'
  BY <1>1, <1>4 DEF Notifies, lifeVars, outerVars
<1>5. ASSUME NEW t \in Threads, NEW d \in Devices, InitializeJoins(t, d) PROVE CountedInv'
  <2>1. stored \in Connections
    BY <1>1, <1>5 DEF InitializeJoins
  <2>2. stored'.clients = stored.clients + 1
    BY <1>5, <2>1 DEF InitializeJoins, Connections
  <2> QED
    BY <1>1, <1>5, <2>2 DEF InitializeJoins, outerVars
<1>6. ASSUME NEW t \in Threads, InitializeClaims(t) PROVE CountedInv'
  BY <1>1, <1>6 DEF InitializeClaims, outerVars
<1>7. ASSUME NEW t \in Threads, NEW d \in Devices, InitializeCreates(t, d) PROVE CountedInv'
  BY <1>1, <1>7 DEF InitializeCreates
<1>8. ASSUME NEW t \in Threads, DisconnectLeaves(t) PROVE CountedInv'
  <2>1. stored \in Connections
    BY <1>1, <1>8 DEF DisconnectLeaves
  <2>2. stored'.clients = stored.clients - 1
    BY <1>8, <2>1 DEF DisconnectLeaves, Connections
  <2> QED
    BY <1>1, <1>8, <2>2 DEF DisconnectLeaves, outerVars
<1>9. ASSUME NEW t \in Threads, DisconnectTakes(t) PROVE CountedInv'
  BY <1>1, <1>9 DEF DisconnectTakes, MovesOut, outerVars
<1>10. ASSUME NEW t \in Threads, DisconnectCloses(t) PROVE CountedInv'
  BY <1>1, <1>10 DEF DisconnectCloses, Discards
<1>11. ASSUME NEW t \in Threads,
              NEW stage \in {"locks", "unlocks", "queries", "begins", "returns"},
              Takes(t, stage)
       PROVE  CountedInv'
  BY <1>1, <1>11 DEF Takes, MovesOut, outerVars
<1>12. ASSUME NEW t \in Threads, Returns(t) PROVE CountedInv'
  BY <1>1, <1>12 DEF Returns, outerVars
<1>13. ASSUME NEW t \in Threads, Releases(t) PROVE CountedInv'
  BY <1>1, <1>13 DEF Releases, Discards
<1>14. ASSUME NEW t \in Threads, Fails(t) \/ Drops(t) PROVE CountedInv'
  BY <1>1, <1>14 DEF Fails, Drops, outerVars
<1>15. ASSUME NEW t \in Threads, GoesOn(t) PROVE CountedInv'
  BY <1>1, <1>15 DEF GoesOn, lifeVars
<1> QED
  BY <1>3, <1>4, <1>5, <1>6, <1>7, <1>8, <1>9, <1>10, <1>11, <1>12, <1>13, <1>14, <1>15,
     BorrowerGoesOn
     DEF Next, Enters, Continues, Runs

-------------------------------------------------------------------------------
\* The type invariant in three parts: the lifecycle, the acquisition, what is external.
LifeTypeOK ==
    /\ lifecycle \in {"Idle", "Busy", "Connected", "Failed"}
    /\ stored \in Connections \cup {NoConnection}
    /\ held \in [Threads -> Connections \cup {NoConnection}]
    /\ at \in [Threads -> Stages]
    /\ clients \in 0..MaxClients

JobTypeOK ==
    /\ active \in [job : Threads, device : Devices] \cup {NoJob}
    /\ flag \in [Threads -> BOOLEAN]
    /\ transfer \in [Threads -> {"none", "completed", "stopped", "cancelled", "error"}]
    /\ outcome \in [Threads -> {"none", "S_OK", "S_FALSE", "error"}]
    /\ notified \subseteq Threads

LEMMA NextKeepsLifeTypes == DriverInv /\ [Next]_vars => LifeTypeOK'
<1> SUFFICES ASSUME DriverInv, [Next]_vars PROVE LifeTypeOK'
  OBVIOUS
<1>1. LifeTypeOK /\ OwnerInv /\ CountedInv
  BY DEF DriverInv, TypeOK, LifeTypeOK
<1>2. /\ lifecycle = "Connected" => stored.clients = clients
      /\ \A c \in Connections : c.device \in Devices /\ c.clients \in 1..MaxClients
  BY <1>1 DEF OwnerInv, CountedInv, Connections
<1> USE MaxClientsAssumption DEF LifeTypeOK, Stages, Moves
<1>3. CASE UNCHANGED vars
  BY <1>1, <1>3 DEF vars, lifeVars
<1>4. ASSUME NEW d \in Devices, Notifies(d) PROVE LifeTypeOK'
  BY <1>1, <1>4 DEF Notifies, lifeVars
<1>5. ASSUME NEW t \in Threads, NEW d \in Devices, InitializeJoins(t, d) PROVE LifeTypeOK'
  <2>1. stored \in Connections
    BY <1>1, <1>5 DEF InitializeJoins, OwnerInv
  <2>2. stored' \in Connections
    BY <1>5, <2>1 DEF InitializeJoins, Connections
  <2>3. clients' \in 0..MaxClients
    BY <1>1, <1>2, <1>5, <2>1 DEF InitializeJoins
  <2> QED
    BY <1>1, <1>5, <2>2, <2>3 DEF InitializeJoins
<1>6. ASSUME NEW t \in Threads, InitializeClaims(t) PROVE LifeTypeOK'
  BY <1>1, <1>6 DEF InitializeClaims
<1>7. ASSUME NEW t \in Threads, NEW d \in Devices, InitializeCreates(t, d) PROVE LifeTypeOK'
  <2>1. [device |-> d, clients |-> 1] \in Connections /\ clients = 0
    BY <1>1, <1>7 DEF InitializeCreates, Connections, CountedInv
  <2> QED
    BY <1>1, <1>7, <2>1 DEF InitializeCreates
<1>8. ASSUME NEW t \in Threads, DisconnectLeaves(t) PROVE LifeTypeOK'
  <2>1. stored \in Connections
    BY <1>1, <1>8 DEF DisconnectLeaves, OwnerInv
  <2>2. stored' \in Connections
    BY <1>8, <2>1 DEF DisconnectLeaves, Connections
  <2>3. clients' \in 0..MaxClients
    BY <1>1, <1>2, <1>8, <2>1 DEF DisconnectLeaves
  <2> QED
    BY <1>1, <1>8, <2>2, <2>3 DEF DisconnectLeaves
<1>9. ASSUME NEW t \in Threads, DisconnectTakes(t) PROVE LifeTypeOK'
  BY <1>1, <1>2, <1>9 DEF DisconnectTakes, MovesOut
<1>10. ASSUME NEW t \in Threads, DisconnectCloses(t) PROVE LifeTypeOK'
  BY <1>1, <1>10 DEF DisconnectCloses, Discards
<1>11. ASSUME NEW t \in Threads,
              NEW stage \in {"locks", "unlocks", "queries", "begins", "returns"},
              Takes(t, stage)
       PROVE  LifeTypeOK'
  BY <1>1, <1>11 DEF Takes, MovesOut
<1>12. ASSUME NEW t \in Threads, Returns(t) PROVE LifeTypeOK'
  BY <1>1, <1>12 DEF Returns
<1>13. ASSUME NEW t \in Threads, Releases(t) \/ Fails(t) \/ Drops(t) PROVE LifeTypeOK'
  BY <1>1, <1>13 DEF Releases, Discards, Fails, Drops
<1>14. ASSUME NEW t \in Threads, GoesOn(t) PROVE LifeTypeOK'
  BY <1>1, <1>14 DEF GoesOn, Borrowing, Holding, lifeVars
<1> QED
  BY <1>3, <1>4, <1>5, <1>6, <1>7, <1>8, <1>9, <1>10, <1>11, <1>12, <1>13, <1>14,
     BorrowerGoesOn
     DEF Next, Enters, Continues, Runs

-------------------------------------------------------------------------------
LEMMA Answers ==
  ASSUME NEW result, NEW cancelled \in BOOLEAN
  PROVE  /\ Answer(result, cancelled) \in {"S_OK", "S_FALSE", "error"}
         /\ Answer(result, cancelled) = "S_OK" => result = "completed" /\ ~cancelled
         /\ Answer(result, cancelled) = "S_FALSE" => cancelled \/ result \notin {"completed", "error"}
<1>1. CASE result = "error"
  BY <1>1 DEF Answer
<1>2. CASE result = "completed" /\ ~cancelled
  BY <1>2 DEF Answer
<1>3. CASE result # "error" /\ ~(result = "completed" /\ ~cancelled)
  BY <1>3 DEF Answer
<1> QED
  BY <1>1, <1>2, <1>3

\* The steps that leave the acquisition's state alone, and start, move and end none.
NoJobStep ==
    /\ UNCHANGED jobVars
    /\ \A s \in Threads : at[s] \in Acquiring \/ at'[s] \in Acquiring =>
          at'[s] = at[s] /\ held'[s] = held[s]

LEMMA OutsideAcquisition ==
  ASSUME DriverInv, NEW t \in Threads, Enters(t) \/ Continues(t),
         ~(Begins(t) \/ Reads(t) \/ Transfers(t) \/ Finishes(t) \/ Abandons(t))
  PROVE  NoJobStep
<1>1. /\ at \in [Threads -> Stages]
      /\ held \in [Threads -> Connections \cup {NoConnection}]
  BY DEF DriverInv, TypeOK
<1> USE DEF NoJobStep, Acquiring, Moves, lifeVars
<1>2. CASE \E d \in Devices : InitializeJoins(t, d) \/ InitializeCreates(t, d)
  BY <1>1, <1>2 DEF InitializeJoins, InitializeCreates
<1>3. CASE InitializeClaims(t) \/ DisconnectLeaves(t)
  BY <1>1, <1>3 DEF InitializeClaims, DisconnectLeaves
<1>4. CASE DisconnectTakes(t) \/ DisconnectCloses(t)
  BY <1>1, <1>4 DEF DisconnectTakes, DisconnectCloses, MovesOut, Discards
<1>5. CASE \E stage \in {"locks", "unlocks", "queries", "begins", "returns"} : Takes(t, stage)
  BY <1>1, <1>5 DEF Takes, MovesOut
<1>6. CASE Returns(t) \/ Releases(t) \/ Fails(t) \/ Drops(t)
  BY <1>1, <1>6 DEF Returns, Releases, Fails, Drops, Discards
<1>7. CASE ServiceLocks(t) \/ ServiceUnlocks(t) \/ QueryLocks(t) \/ QueryRuns(t)
  BY <1>1, <1>7 DEF ServiceLocks, ServiceUnlocks, QueryLocks, QueryRuns
<1>8. CASE QueryUnlocks(t) \/ Publishes(t) \/ Writes(t)
  BY <1>1, <1>8 DEF QueryUnlocks, Publishes, Writes
<1> QED
  BY <1>2, <1>3, <1>4, <1>5, <1>6, <1>7, <1>8 DEF Enters, Continues, Runs

LEMMA NextKeepsRegistryInv == DriverInv /\ [Next]_vars => JobTypeOK' /\ RegistryInv'
<1> SUFFICES ASSUME DriverInv, [Next]_vars PROVE JobTypeOK' /\ RegistryInv'
  OBVIOUS
<1>1. /\ at \in [Threads -> Stages]
      /\ held \in [Threads -> Connections \cup {NoConnection}]
      /\ \A s, t \in Threads : at[s] \in Acquiring /\ at[t] \in Acquiring => s = t
      /\ \A t \in Threads : at[t] \in Acquiring \cup {"begins"} => held[t].device \in Devices
      /\ JobTypeOK /\ RegistryInv
  BY DEF DriverInv, TypeOK, JobTypeOK, OwnerInv, Working, Holding, Acquiring, Stages, Connections
<1>2. \A t \in Threads : at[t] = "begins" =>
         active = NoJob /\ \A s \in Threads : at[s] \notin Acquiring
  BY <1>1 DEF DriverInv, OwnerInv, Working, Acquiring, Stages, RegistryInv, JobTypeOK
<1> USE NoJobAssumption DEF JobTypeOK, RegistryInv, Acquiring, Moves
<1>3. CASE UNCHANGED vars
  BY <1>1, <1>3 DEF vars, jobVars, lifeVars
<1>4. ASSUME NoJobStep PROVE JobTypeOK' /\ RegistryInv'
  BY <1>1, <1>4 DEF NoJobStep, jobVars
<1>5. ASSUME NEW t \in Threads, Begins(t) PROVE JobTypeOK' /\ RegistryInv'
  <2>1. [job |-> t, device |-> held[t].device] \in [job : Threads, device : Devices]
    BY <1>1, <1>5 DEF Begins
  <2>2. [job |-> t, device |-> held[t].device] # NoJob
    BY <2>1
  <2>3. /\ at' = [at EXCEPT ![t] = "reads"] /\ held' = held
        /\ active' = [job |-> t, device |-> held[t].device]
        /\ flag' = [flag EXCEPT ![t] = FALSE]
        /\ transfer' = [transfer EXCEPT ![t] = "none"]
        /\ outcome' = [outcome EXCEPT ![t] = "none"]
        /\ notified' = notified \ {t}
        /\ \A s \in Threads : at[s] \notin Acquiring
    BY <1>2, <1>5 DEF Begins, lifeVars
  <2>4. JobTypeOK'
    BY <1>1, <2>1, <2>3
  <2>5. RegistryInv'
    BY <1>1, <2>2, <2>3
  <2> QED
    BY <2>4, <2>5
<1>6. ASSUME NEW t \in Threads, Reads(t) PROVE JobTypeOK' /\ RegistryInv'
  BY <1>1, <1>6 DEF Reads, jobVars, lifeVars
<1>7. ASSUME NEW t \in Threads, Transfers(t) PROVE JobTypeOK' /\ RegistryInv'
  BY <1>1, <1>7 DEF Transfers, lifeVars
<1>8. ASSUME NEW t \in Threads, Finishes(t) PROVE JobTypeOK' /\ RegistryInv'
  <2>1. Registered(t)
    BY <1>1, <1>8 DEF Finishes, Registered
  <2>2. /\ outcome' = [outcome EXCEPT ![t] = Answer(transfer[t], flag[t])]
        /\ active' = NoJob
    BY <1>1, <1>8, <2>1, ZenonT(60) DEF Finishes, Removes
  <2>3. /\ outcome'[t] \in {"S_OK", "S_FALSE", "error"}
        /\ outcome'[t] = "S_OK" => ~flag[t]
        /\ outcome'[t] = "S_FALSE" => flag[t] \/ transfer[t] \in {"stopped", "cancelled"}
    <3>1. at[t] = "finishes" /\ flag[t] \in BOOLEAN
      BY <1>1, <1>8 DEF Finishes
    <3>2. /\ outcome'[t] = Answer(transfer[t], flag[t])
          /\ transfer[t] \in {"completed", "stopped", "cancelled", "error"}
      BY <1>1, <2>2, <3>1
    <3> QED
      BY <3>1, <3>2, Answers
  <2>4. t \in notified <=> flag[t]
    BY <1>1, <1>8 DEF Finishes
  <2>5. /\ at[t] = "finishes" /\ at' = [at EXCEPT ![t] = "returns"]
        /\ UNCHANGED <<flag, transfer, notified, held>>
    BY <1>8 DEF Finishes, lifeVars
  <2>6. JobTypeOK'
    BY <1>1, <2>2, <2>3, <2>5
  <2>7. \A s \in Threads : at'[s] \notin Acquiring
    BY <1>1, <2>5
  <2>8. ASSUME NEW s \in Threads
        PROVE  /\ outcome'[s] = "S_OK" => s \notin notified'
               /\ outcome'[s] = "S_FALSE" => s \in notified' \/ transfer'[s] = "stopped"
    <3>1. CASE s = t
      BY <1>1, <2>3, <2>4, <2>5, <3>1
    <3>2. CASE s # t
      BY <1>1, <2>2, <2>5, <3>2
    <3> QED
      BY <3>1, <3>2
  <2> QED
    BY <2>2, <2>6, <2>7, <2>8
<1>9. ASSUME NEW t \in Threads, Abandons(t) PROVE JobTypeOK' /\ RegistryInv'
  <2>1. active' = NoJob
    BY <1>1, <1>9 DEF Abandons, Removes, Registered
  <2> QED
    BY <1>1, <1>9, <2>1 DEF Abandons, lifeVars
<1>10. ASSUME NEW d \in Devices, Notifies(d) PROVE JobTypeOK' /\ RegistryInv'
  BY <1>1, <1>10 DEF Notifies, lifeVars
<1> QED
  BY <1>3, <1>4, <1>5, <1>6, <1>7, <1>8, <1>9, <1>10, OutsideAcquisition DEF Next

-------------------------------------------------------------------------------
LEMMA FailedStays == DriverInv /\ Next => (lifecycle = "Failed" => lifecycle' = "Failed")
<1> SUFFICES ASSUME DriverInv, Next, lifecycle = "Failed" PROVE lifecycle' = "Failed"
  OBVIOUS
<1>1. \A t \in Threads : at[t] \notin Working
  BY DEF DriverInv, OwnerInv
<1>2. CASE \E d \in Devices : Notifies(d)
  BY <1>2 DEF Notifies, lifeVars
<1>3. ASSUME NEW t \in Threads, Enters(t) PROVE lifecycle' = "Failed"
  BY <1>3 DEF Enters, InitializeJoins, InitializeClaims, DisconnectLeaves, DisconnectTakes,
              Takes, MovesOut
<1>4. ASSUME NEW t \in Threads, Continues(t) PROVE lifecycle' = "Failed"
  <2>1. CASE Drops(t)
    BY <2>1 DEF Drops
  <2>2. CASE GoesOn(t)
    BY <1>1, <2>2 DEF GoesOn, lifeVars
  <2>3. ~(\E d \in Devices : InitializeCreates(t, d)) /\ ~DisconnectCloses(t)
        /\ ~Returns(t) /\ ~Releases(t) /\ ~Fails(t)
    BY <1>1 DEF InitializeCreates, DisconnectCloses, Returns, Releases, Fails, Moves, Working,
                Stages
  <2> QED
    BY <1>4, <2>1, <2>2, <2>3, BorrowerGoesOn DEF Continues, Runs
<1> QED
  BY <1>2, <1>3, <1>4 DEF Next

OuterTypeOK == stiLock \in {"free", "service", "driver"} /\ partial \in BOOLEAN

\* The steps that touch neither the lock nor the item, nor a stage OuterInv speaks of.
NoOuterStep ==
    /\ UNCHANGED <<stiLock, partial>>
    /\ \A s \in Threads :
          at[s] \in {"locked", "queried", "refused", "panicked", "releases", "fails"}
             \/ at'[s] \in {"locked", "queried", "refused", "panicked", "fails"}
          => at'[s] = at[s]

LEMMA NextKeepsOuterInv == DriverInv /\ [Next]_vars => OuterTypeOK' /\ OuterInv'
<1> SUFFICES ASSUME DriverInv, [Next]_vars PROVE OuterTypeOK' /\ OuterInv'
  OBVIOUS
<1>1. /\ at \in [Threads -> Stages]
      /\ \A s, t \in Threads : at[s] \in Working /\ at[t] \in Working => s = t
      /\ \A t \in Threads : at[t] \in Working => lifecycle # "Failed"
      /\ OuterTypeOK /\ OuterInv
  BY DEF DriverInv, TypeOK, OuterTypeOK, OwnerInv
<1> USE DEF OuterTypeOK, OuterInv, Moves
<1>2. CASE UNCHANGED vars
  BY <1>1, <1>2 DEF vars, lifeVars, outerVars
<1>3. ASSUME Next, NoOuterStep PROVE OuterTypeOK' /\ OuterInv'
  BY <1>1, <1>3, FailedStays DEF NoOuterStep
<1>4. ASSUME NEW d \in Devices, Notifies(d) PROVE NoOuterStep
  BY <1>4 DEF Notifies, NoOuterStep, outerVars
<1>5. ASSUME NEW t \in Threads, Enters(t) PROVE NoOuterStep
  BY <1>1, <1>5
     DEF Enters, InitializeJoins, InitializeClaims, DisconnectLeaves, DisconnectTakes, Takes,
         NoOuterStep, outerVars, Stages
<1>6. ASSUME NEW t \in Threads,
             \/ \E d \in Devices : InitializeCreates(t, d)
             \/ DisconnectCloses(t) \/ Returns(t) \/ Drops(t)
             \/ Begins(t) \/ Reads(t) \/ Transfers(t) \/ Finishes(t) \/ Abandons(t)
      PROVE  NoOuterStep
  BY <1>1, <1>6
     DEF InitializeCreates, DisconnectCloses, Returns, Drops, Begins, Reads, Transfers,
         Finishes, Abandons, NoOuterStep, outerVars, Stages
<1> USE DEF Working, Stages
<1>7. ASSUME NEW t \in Threads, Releases(t) \/ Fails(t) PROVE OuterTypeOK' /\ OuterInv'
  BY <1>1, <1>7 DEF Releases, Fails, outerVars
<1>8. ASSUME NEW t \in Threads, ServiceLocks(t) \/ ServiceUnlocks(t)
      PROVE  OuterTypeOK' /\ OuterInv'
  BY <1>1, <1>8 DEF ServiceLocks, ServiceUnlocks, HelperLocks, HelperUnlocks, lifeVars
<1>9. ASSUME NEW t \in Threads, QueryLocks(t) PROVE OuterTypeOK' /\ OuterInv'
  BY <1>1, <1>9 DEF QueryLocks, HelperLocks, lifeVars
<1>10. ASSUME NEW t \in Threads, QueryRuns(t) PROVE OuterTypeOK' /\ OuterInv'
  BY <1>1, <1>10 DEF QueryRuns, lifeVars, outerVars
<1>11. ASSUME NEW t \in Threads, QueryUnlocks(t) PROVE OuterTypeOK' /\ OuterInv'
  BY <1>1, <1>11 DEF QueryUnlocks, HelperUnlocks, lifeVars
<1>12. ASSUME NEW t \in Threads, Publishes(t) PROVE OuterTypeOK' /\ OuterInv'
  BY <1>1, <1>12 DEF Publishes, lifeVars, outerVars
<1>13. ASSUME NEW t \in Threads, Writes(t) PROVE OuterTypeOK' /\ OuterInv'
  <2>1. partial' \in BOOLEAN /\ UNCHANGED <<lifecycle, stiLock>>
    BY <1>1, <1>13 DEF Writes, lifeVars
  <2>2. CASE at' = [at EXCEPT ![t] = "returns"] /\ UNCHANGED partial
    BY <1>1, <1>13, <2>1, <2>2 DEF Writes
  <2>3. CASE at' = [at EXCEPT ![t] = "releases"]
    BY <1>1, <1>13, <2>1, <2>3 DEF Writes
  <2> QED
    BY <1>13, <2>2, <2>3 DEF Writes
<1> QED
  BY <1>2, <1>3, <1>4, <1>5, <1>6, <1>7, <1>8, <1>9, <1>10, <1>11, <1>12, <1>13
     DEF Next, Continues, Runs

LEMMA DriverInvariant == Spec => []DriverInv
<1>1. DriverInv /\ [Next]_vars => DriverInv'
  <2> SUFFICES ASSUME DriverInv, [Next]_vars PROVE DriverInv'
    OBVIOUS
  <2>1. OwnerInv' /\ CountedInv'
    BY NextKeepsOwnerInv, NextKeepsCountedInv
  <2>2. refs' \in 0..1
    BY <2>1 DEF CountedInv
  <2>3. TypeOK'
    BY <2>2, NextKeepsLifeTypes, NextKeepsRegistryInv, NextKeepsOuterInv
       DEF TypeOK, LifeTypeOK, JobTypeOK, OuterTypeOK
  <2> QED
    BY <2>1, <2>3, NextKeepsRegistryInv, NextKeepsOuterInv DEF DriverInv
<1> QED
  BY <1>1, InitEstablishesDriverInv, PTL DEF Spec

-------------------------------------------------------------------------------
\* The type invariant of the mini-driver object.
THEOREM DriverTypeCorrect == Spec => []TypeOK
<1>1. DriverInv => TypeOK
  BY DEF DriverInv
<1> QED
  BY <1>1, DriverInvariant, PTL

\* However entry points, callbacks and failures interleave, Busy is exactly one running
\* call's, and the connection is never in two places or lost.
THEOREM BusyHasOneOwner == Spec => []OneOwner
<1>1. DriverInv => OneOwner
  <2> SUFFICES ASSUME DriverInv PROVE OneOwner
    OBVIOUS
  <2> DEFINE W == {t \in Threads : at[t] \notin {"idle", "drops"}}
  <2>1. \A t \in Threads : t \in W <=> at[t] \in Working
    BY DEF DriverInv, TypeOK, Working
  <2>2. CASE lifecycle = "Busy"
    <3>1. PICK t \in Threads : at[t] \in Working
      BY <2>2 DEF DriverInv, OwnerInv
    <3>2. W = {t}
      BY <2>1, <3>1 DEF DriverInv, OwnerInv
    <3>3. Cardinality(W) = 1
      BY <3>2, FS_Singleton
    <3> QED
      BY <2>2, <3>3 DEF OneOwner, DriverInv, OwnerInv
  <2>3. CASE lifecycle # "Busy"
    <3>1. W = {}
      BY <2>1, <2>3 DEF DriverInv, OwnerInv
    <3>2. Cardinality(W) = 0
      BY <3>1, FS_EmptySet
    <3> QED
      BY <2>3, <3>2 DEF OneOwner, DriverInv, OwnerInv
  <2> QED
    BY <2>2, <2>3
<1> QED
  BY <1>1, DriverInvariant, PTL

\* The driver's client counter is the number of open sessions, and it keeps one helper
\* reference exactly while it has a connection, in the enum or with a call.
THEOREM SessionsStayCounted == Spec => []SessionsCounted
<1>1. DriverInv => SessionsCounted
  <2> SUFFICES ASSUME DriverInv PROVE SessionsCounted
    OBVIOUS
  <2> DEFINE H == {t \in Threads : held[t] # NoConnection}
  <2>1. \A t \in Threads : t \in H <=> at[t] \in Holding
    BY DEF DriverInv, OwnerInv
  <2>2. CASE \E t \in Threads : at[t] \in Holding
    <3>1. PICK t \in Threads : at[t] \in Holding
      BY <2>2
    <3>2. H = {t} /\ lifecycle = "Busy"
      BY <2>1, <3>1 DEF DriverInv, OwnerInv, Holding, Working
    <3>3. Cardinality(H) = 1
      BY <3>2, FS_Singleton
    <3>4. refs = 1 /\ stored = NoConnection
      BY <2>2, <3>2 DEF DriverInv, OwnerInv, CountedInv
    <3> QED
      BY <3>2, <3>3, <3>4 DEF SessionsCounted
  <2>3. CASE \A t \in Threads : at[t] \notin Holding
    <3>1. H = {}
      BY <2>1, <2>3
    <3>2. Cardinality(H) = 0
      BY <3>1, FS_EmptySet
    <3>3. refs = IF stored # NoConnection THEN 1 ELSE 0
      BY <2>3 DEF DriverInv, OwnerInv, CountedInv
    <3> QED
      BY <3>2, <3>3 DEF SessionsCounted, DriverInv, CountedInv
  <2> QED
    BY <2>2, <2>3
<1> QED
  BY <1>1, DriverInvariant, PTL

\* The driver's own lock on the STI object is given back before the connection, or the
\* connection is quarantined.
THEOREM OwnLockReturns == Spec => []OwnLockGivenBack
<1>1. DriverInv => OwnLockGivenBack
  BY DEF DriverInv, OwnerInv, OuterInv, OwnLockGivenBack, Working, Stages
<1> QED
  BY <1>1, DriverInvariant, PTL

\* Settings that a failed update wrote in part never reach an acquisition.
THEOREM PartialIsNeverScanned == Spec => []PartialNeverScanned
<1>1. DriverInv => PartialNeverScanned
  BY DEF DriverInv, OwnerInv, OuterInv, PartialNeverScanned, Working, Stages
<1> QED
  BY <1>1, DriverInvariant, PTL

\* A cancel event is answered by the acquisition it met, and by no other.
THEOREM CancelIsAnswered == Spec => []CancelAnswered
<1>1. DriverInv => CancelAnswered
  BY DEF DriverInv, RegistryInv, CancelAnswered
<1> QED
  BY <1>1, DriverInvariant, PTL

\* Only drvUnLockWiaDevice gives up a lock that Windows asked for.
THEOREM ServiceLockStays == Spec => ServiceLockKept
<1> DEFINE Kept == stiLock = "service" /\ stiLock' # "service" =>
                       \E t \in Threads : at[t] = "unlocks"
<1>1. DriverInv /\ [Next]_vars => [Kept]_vars
  <2> SUFFICES ASSUME DriverInv, Next, stiLock = "service", stiLock' # "service"
               PROVE  \E t \in Threads : at[t] = "unlocks"
    BY DEF vars, outerVars
  <2>1. ASSUME NEW t \in Threads, ServiceUnlocks(t) PROVE at[t] = "unlocks"
    BY <2>1 DEF ServiceUnlocks, Moves
  <2>2. ASSUME NEW t \in Threads, ServiceLocks(t) \/ QueryLocks(t) \/ QueryUnlocks(t) PROVE FALSE
    BY <2>2 DEF ServiceLocks, QueryLocks, QueryUnlocks, HelperLocks, HelperUnlocks, Moves,
                DriverInv, OuterInv
  <2>3. ASSUME NEW d \in Devices, Notifies(d) PROVE FALSE
    BY <2>3 DEF Notifies, outerVars
  <2>4. ASSUME NEW t \in Threads, Enters(t) PROVE FALSE
    BY <2>4 DEF Enters, InitializeJoins, InitializeClaims, DisconnectLeaves, DisconnectTakes,
                Takes, outerVars
  <2>5. ASSUME NEW t \in Threads, Continues(t),
               ~(ServiceUnlocks(t) \/ ServiceLocks(t) \/ QueryLocks(t) \/ QueryUnlocks(t))
        PROVE  FALSE
    BY <2>5 DEF Continues, Runs, InitializeCreates, DisconnectCloses, Returns, Releases, Fails,
                Drops, QueryRuns, Publishes, Writes, Begins, Reads, Transfers, Finishes,
                Abandons, outerVars
  <2> QED
    BY <2>1, <2>2, <2>3, <2>4, <2>5 DEF Next
<1> QED
  BY <1>1, DriverInvariant, PTL DEF Spec, ServiceLockKept

\* Quarantine of the mini-driver is final.
THEOREM FailureIsFinal == Spec => FailedIsFinal
<1>1. DriverInv /\ [Next]_vars => [lifecycle = "Failed" => lifecycle' = "Failed"]_lifecycle
  BY FailedStays DEF vars, lifeVars
<1> QED
  BY <1>1, DriverInvariant, PTL DEF Spec, FailedIsFinal

\* The connection has one place, and its counts are those of Windows.
THEOREM ConnectionIsAccounted == Spec => []ConnectionAccounted
<1>1. ConnectionAccounted <=> OneOwner /\ SessionsCounted
  BY DEF ConnectionAccounted
<1> QED
  BY <1>1, BusyHasOneOwner, SessionsStayCounted, PTL

\* Every lock is given back by the one who asked for it.
THEOREM LocksAreGivenBack == Spec => LocksGivenBack
BY OwnLockReturns, ServiceLockStays DEF LocksGivenBack

-------------------------------------------------------------------------------
\* DriverTree: the calls that build the item tree and take it down are steps of the
\* minidriver or leave it alone, so what holds of MiniDriver holds with them.
LEMMA TreeStepIsDriverStep == [TreeNext]_driverVars => [Next]_vars
<1>1. ASSUME NEW t \in Threads, TreeContinues(t) PROVE Continues(t) \/ UNCHANGED vars
  <2>1. CASE CreatesNothing(t) \/ Connects(t)
    BY <2>1 DEF CreatesNothing, Connects, Continues
  <2>2. CASE CreatesRoot(t) \/ CreatesChild(t) \/ AddsToFolder(t) \/ GivesUp(t) \/ Unlinks(t)
    BY <2>2 DEF CreatesRoot, CreatesChild, AddsToFolder, GivesUp, Unlinks
  <2>3. CASE ReleasesRoot(t)
    BY <2>3 DEF ReleasesRoot, Continues
  <2>4. CASE Runs(t)
    BY <2>4 DEF Continues
  <2> QED
    BY <1>1, <2>1, <2>2, <2>3, <2>4 DEF TreeContinues
<1> QED
  BY <1>1 DEF TreeNext, Next, driverVars

\* The driver with its item tree implements the driver without: every theorem about Spec is
\* one about TreeSpec.
THEOREM TreeImplementsDriver == TreeSpec => Spec
<1>1. TreeInit => Init
  BY DEF TreeInit
<1> QED
  BY <1>1, TreeStepIsDriverStep, PTL DEF TreeSpec, Spec

-------------------------------------------------------------------------------
\* Only a call that creates, closes or gives up a connection is busy with a tree.
TreePlaceInv ==
    /\ step \in [Threads -> {"-", "rooted", "childed", "linked", "unlinks", "done", "refused"}]
    /\ \A t \in Threads : step[t] # "-" => at[t] \in {"creates", "closes", "releases"}
    /\ \A t \in Threads : step[t] \in {"rooted", "childed", "linked", "unlinks"} =>
                              at[t] = "creates"

HasTree(t) == at[t] \in Holding \/ step[t] # "-"

\* The references, wherever the tree is.
TreeRefsInv ==
    /\ roots = IF lifecycle = "Connected" \/ \E t \in Threads : HasTree(t) THEN 1 ELSE 0
    /\ children = IF \E t \in Threads : step[t] \in {"childed", "linked"} THEN 1 ELSE 0

\* Who may have a child in its tree, and who answers for one that is left over.
AttachedInv ==
    /\ attached \in BOOLEAN /\ severed \in BOOLEAN
    /\ lifecycle = "Connected" => attached
    /\ lifecycle = "Idle" => ~attached
    /\ lifecycle = "Failed" /\ attached => severed
    /\ \A t \in Threads :
         /\ at[t] \in Holding /\ step[t] = "-" => attached
         /\ at[t] = "creates" => (attached <=> step[t] = "linked")
         /\ step[t] = "done" => ~attached
         /\ step[t] = "refused" => severed
         /\ at[t] = "fails" /\ attached => severed

TreeInv == TreePlaceInv /\ TreeRefsInv /\ AttachedInv

LEMMA InitEstablishesTreeInv == TreeInit => TreeInv
BY DEF TreeInit, Init, TreeInv, TreePlaceInv, TreeRefsInv, AttachedInv, HasTree, Holding

\* What the owner of a Busy lifecycle knows of the others.
LEMMA WorkingAlone ==
  ASSUME DriverInv, TreePlaceInv, NEW t \in Threads, at[t] \in Working
  PROVE  /\ lifecycle = "Busy"
         /\ \A s \in Threads : s # t => /\ at[s] \in {"idle", "drops"}
                                        /\ step[s] = "-"
<1>1. at \in [Threads -> Stages] /\ OwnerInv
  BY DEF DriverInv, TypeOK
<1> QED
  BY <1>1 DEF OwnerInv, Working, TreePlaceInv

\* The steps of Tree::create and Tree::disconnect that leave the driver's state alone.
LEMMA OwnStepKeepsTreeInv ==
  ASSUME DriverInv, TreeInv, NEW t \in Threads,
         CreatesRoot(t) \/ CreatesChild(t) \/ AddsToFolder(t) \/ GivesUp(t) \/ Unlinks(t)
  PROVE  TreeInv'
<1>1. at \in [Threads -> Stages] /\ UNCHANGED <<at, lifecycle>>
  BY DEF DriverInv, TypeOK, CreatesRoot, CreatesChild, AddsToFolder, GivesUp, Unlinks,
         vars, lifeVars
<1>2. TreePlaceInv /\ TreeRefsInv /\ AttachedInv
  BY DEF TreeInv
<1>3. at[t] \in {"creates", "closes", "releases"} /\ at[t] \in Working
  BY <1>2 DEF TreePlaceInv, CreatesRoot, CreatesChild, AddsToFolder, GivesUp, Unlinks,
              TakesDown, Steps, Working, Stages
<1>4. /\ lifecycle = "Busy"
      /\ \A s \in Threads : s # t => at[s] \in {"idle", "drops"} /\ step[s] = "-"
  BY <1>2, <1>3, WorkingAlone
<1> USE DEF TreeInv, TreePlaceInv, TreeRefsInv, AttachedInv, HasTree, Holding, Stages, Steps
<1>5. CASE CreatesRoot(t)
  BY <1>1, <1>2, <1>4, <1>5 DEF CreatesRoot
<1>6. CASE CreatesChild(t)
  BY <1>1, <1>2, <1>4, <1>6 DEF CreatesChild
<1>7. CASE AddsToFolder(t)
  BY <1>1, <1>2, <1>4, <1>7 DEF AddsToFolder
<1>8. CASE GivesUp(t)
  BY <1>1, <1>2, <1>4, <1>8 DEF GivesUp
<1>9. CASE Unlinks(t)
  <2>1. /\ \E to \in {"done", "refused"} : step' = [step EXCEPT ![t] = to]
        /\ step'[t] \in {"done", "refused"}
        /\ \A s \in Threads : s # t => step'[s] = step[s]
        /\ UNCHANGED <<roots, children>>
        /\ step[t] \notin {"childed", "linked"} /\ HasTree(t)
    BY <1>1, <1>2, <1>9 DEF Unlinks, TakesDown
  <2>2. /\ attached' \in BOOLEAN /\ severed' \in BOOLEAN
        /\ step'[t] = "done" => ~attached'
        /\ step'[t] = "refused" => severed' /\ attached' = attached
        /\ at[t] = "creates" => ~attached
    BY <1>1, <1>2, <1>9 DEF Unlinks, TakesDown
  <2>3. TreePlaceInv'
    BY <1>1, <1>2, <1>3, <1>9, <2>1 DEF Unlinks, TakesDown
  <2>4. TreeRefsInv'
    BY <1>1, <1>2, <1>4, <2>1
  <2>5. AttachedInv'
    BY <1>1, <1>2, <1>3, <1>4, <2>1, <2>2
  <2> QED
    BY <2>3, <2>4, <2>5
<1> QED
  BY <1>5, <1>6, <1>7, <1>8, <1>9

\* The steps with which a tree enters the connection or the last of it goes.
LEMMA TurningStepKeepsTreeInv ==
  ASSUME DriverInv, TreeInv, NEW t \in Threads,
         CreatesNothing(t) \/ Connects(t) \/ ReleasesRoot(t)
  PROVE  TreeInv'
<1>1. at \in [Threads -> Stages]
  BY DEF DriverInv, TypeOK
<1>2. TreePlaceInv /\ TreeRefsInv /\ AttachedInv
  BY DEF TreeInv
<1>3. at[t] \in {"creates", "closes", "releases"} /\ at[t] \in Working
  BY <1>1 DEF CreatesNothing, Connects, ReleasesRoot, InitializeCreates, DisconnectCloses,
              Releases, Moves, Working, Stages
<1>4. /\ lifecycle = "Busy"
      /\ \A s \in Threads : s # t => at[s] \in {"idle", "drops"} /\ step[s] = "-"
  BY <1>2, <1>3, WorkingAlone
<1> USE DEF TreeInv, TreePlaceInv, TreeRefsInv, AttachedInv, HasTree, Holding, Stages, Steps,
            Moves
<1>5. CASE CreatesNothing(t)
  BY <1>1, <1>2, <1>4, <1>5 DEF CreatesNothing, InitializeCreates, treeVars
<1>6. CASE Connects(t)
  BY <1>1, <1>2, <1>4, <1>6 DEF Connects, InitializeCreates
<1>7. ASSUME ReleasesRoot(t), NEW d \in Devices, InitializeCreates(t, d), lifecycle' = "Idle"
      PROVE  TreeInv'
  BY <1>1, <1>2, <1>4, <1>7 DEF ReleasesRoot, InitializeCreates
<1>8. ASSUME ReleasesRoot(t), DisconnectCloses(t),
             lifecycle' = (IF step[t] = "done" THEN "Idle" ELSE "Failed")
      PROVE  TreeInv'
  BY <1>1, <1>2, <1>4, <1>8 DEF ReleasesRoot, DisconnectCloses
<1>9. ASSUME ReleasesRoot(t), Releases(t) PROVE TreeInv'
  BY <1>1, <1>2, <1>4, <1>9 DEF ReleasesRoot, Releases
<1> QED
  BY <1>5, <1>6, <1>7, <1>8, <1>9 DEF ReleasesRoot

\* Everything else leaves the tree where it is; the connection moves.
LEMMA OtherStepKeepsTreeInv ==
  ASSUME DriverInv, TreeInv, UNCHANGED treeVars,
         \/ \E t \in Threads : Enters(t) \/ Runs(t)
         \/ \E d \in Devices : Notifies(d)
         \/ UNCHANGED vars
  PROVE  TreeInv'
<1>1. at \in [Threads -> Stages] /\ OwnerInv
  BY DEF DriverInv, TypeOK
<1>2. TreePlaceInv /\ TreeRefsInv /\ AttachedInv
  BY DEF TreeInv
<1> USE DEF TreeInv, TreePlaceInv, TreeRefsInv, AttachedInv, HasTree, Holding, treeVars
<1>3. ASSUME UNCHANGED <<lifecycle, at>> PROVE TreeInv'
  BY <1>1, <1>2, <1>3 DEF Stages
<1>4. ASSUME NEW d \in Devices, Notifies(d) PROVE TreeInv'
  BY <1>3, <1>4 DEF Notifies, lifeVars
<1>5. ASSUME NEW t \in Threads, NEW d \in Devices, InitializeJoins(t, d) PROVE TreeInv'
  BY <1>3, <1>5 DEF InitializeJoins
<1>6. ASSUME NEW t \in Threads, DisconnectLeaves(t) PROVE TreeInv'
  BY <1>3, <1>6 DEF DisconnectLeaves
<1>7. lifecycle # "Busy" => \A s \in Threads : at[s] \in {"idle", "drops"} /\ step[s] = "-"
  BY <1>1, <1>2 DEF OwnerInv, Working
<1>8. ASSUME NEW t \in Threads, InitializeClaims(t) PROVE TreeInv'
  BY <1>1, <1>2, <1>7, <1>8 DEF InitializeClaims, Moves, Stages
<1>9. ASSUME NEW t \in Threads, NEW to \in Stages \ {"creates", "fails", "idle", "drops"},
             MovesOut(t), Moves(t, "idle", to)
      PROVE  TreeInv'
  BY <1>1, <1>2, <1>7, <1>9 DEF MovesOut, Moves, Stages
<1>10. ASSUME NEW t \in Threads, DisconnectTakes(t) PROVE TreeInv'
  BY <1>9, <1>10 DEF DisconnectTakes, Stages
<1>11. ASSUME NEW t \in Threads,
              NEW stage \in {"locks", "unlocks", "queries", "begins", "returns"},
              Takes(t, stage)
       PROVE  TreeInv'
  BY <1>9, <1>11 DEF Takes, Stages
<1>12. ASSUME NEW t \in Threads, at[t] \in Working
       PROVE  /\ lifecycle = "Busy"
              /\ \A s \in Threads : s # t => at[s] \in {"idle", "drops"} /\ step[s] = "-"
  BY <1>2, <1>12, WorkingAlone
<1>13. ASSUME NEW t \in Threads, Returns(t) PROVE TreeInv'
  <2>1. /\ at[t] = "returns" /\ at' = [at EXCEPT ![t] = "idle"] /\ lifecycle' = "Connected"
    BY <1>13 DEF Returns, Moves
  <2> QED
    BY <1>1, <1>2, <1>12, <2>1 DEF Working, Stages
<1>14. ASSUME NEW t \in Threads, Fails(t) PROVE TreeInv'
  <2>1. /\ at[t] = "fails" /\ at' = [at EXCEPT ![t] = "drops"] /\ lifecycle' = "Failed"
    BY <1>14 DEF Fails, Moves
  <2> QED
    BY <1>1, <1>2, <1>12, <2>1 DEF Working, Stages
<1>15. ASSUME NEW t \in Threads, Drops(t) PROVE TreeInv'
  <2>1. /\ at[t] = "drops" /\ at' = [at EXCEPT ![t] = "idle"]
        /\ lifecycle' = "Failed" /\ lifecycle = "Failed"
    BY <1>1, <1>15 DEF Drops, Moves, OwnerInv
  <2> QED
    BY <1>1, <1>2, <1>7, <2>1 DEF Stages
<1>16. ASSUME NEW t \in Threads, GoesOn(t), step[t] = "-" PROVE TreeInv'
  <2>1. PICK to \in Borrowing : at' = [at EXCEPT ![t] = to]
    BY <1>16 DEF GoesOn
  <2>2. at[t] \in Borrowing /\ lifecycle' = lifecycle /\ at[t] \in Working
    BY <1>1, <1>16 DEF GoesOn, lifeVars, Borrowing, Working
  <2> QED
    BY <1>1, <1>2, <1>12, <1>16, <2>1, <2>2 DEF Borrowing, Stages
<1>17. ASSUME NEW t \in Threads, Runs(t) PROVE step[t] = "-"
  <2>1. at[t] \notin {"creates", "closes", "releases"}
    BY <1>17 DEF Runs, Returns, Fails, Drops, ServiceLocks, ServiceUnlocks, QueryLocks,
                 QueryRuns, QueryUnlocks, Publishes, Writes, Begins, Reads, Transfers,
                 Finishes, Abandons, Moves
  <2> QED
    BY <1>2, <2>1
<1>18. ASSUME NEW t \in Threads, Enters(t) PROVE TreeInv'
  BY <1>5, <1>6, <1>8, <1>10, <1>11, <1>18 DEF Enters
<1>19. ASSUME NEW t \in Threads, Runs(t) PROVE TreeInv'
  <2>1. step[t] = "-"
    BY <1>17, <1>19
  <2> HIDE DEF TreeInv
  <2> QED
    BY <1>13, <1>14, <1>15, <1>16, <1>19, <2>1, BorrowerGoesOn DEF Runs
<1>20. ASSUME UNCHANGED vars PROVE TreeInv'
  BY <1>3, <1>20 DEF vars, lifeVars
<1> HIDE DEF TreeInv
<1> QED
  BY <1>4, <1>18, <1>19, <1>20

LEMMA TreeInvariant == TreeSpec => [](DriverInv /\ TreeInv)
<1>1. TreeInit => TreeInv
  BY InitEstablishesTreeInv
<1>2. DriverInv /\ TreeInv /\ [TreeNext]_driverVars => TreeInv'
  <2> SUFFICES ASSUME DriverInv, TreeInv, [TreeNext]_driverVars PROVE TreeInv'
    OBVIOUS
  <2>1. ASSUME NEW t \in Threads, TreeContinues(t) PROVE TreeInv'
    BY <2>1, OwnStepKeepsTreeInv, TurningStepKeepsTreeInv, OtherStepKeepsTreeInv
       DEF TreeContinues
  <2> QED
    BY <2>1, OtherStepKeepsTreeInv DEF TreeNext, driverVars
<1> QED
  BY <1>1, <1>2, TreeImplementsDriver, DriverInvariant, PTL DEF TreeSpec

-------------------------------------------------------------------------------
\* The tree's variables keep their types: the driver never has two references on an item.
THEOREM TreeTypeCorrect == TreeSpec => []TreeTypeOK
<1>1. DriverInv /\ TreeInv => TreeTypeOK
  BY DEF DriverInv, TreeInv, TreePlaceInv, TreeRefsInv, AttachedInv, TreeTypeOK
<1> QED
  BY <1>1, TreeInvariant, PTL

\* However many calls of Windows fail on the way, a connection has a whole tree, and
\* without a connection nothing is left of one that Windows did not refuse to unlink.
THEOREM TreesAreUnwound == TreeSpec => []TreeIsWhole
<1>1. DriverInv /\ TreeInv => TreeIsWhole
  <2> SUFFICES ASSUME DriverInv, TreeInv PROVE TreeIsWhole
    OBVIOUS
  <2>1. at \in [Threads -> Stages] /\ OwnerInv
        /\ lifecycle \in {"Idle", "Busy", "Connected", "Failed"}
    BY DEF DriverInv, TypeOK
  <2>2. TreePlaceInv /\ TreeRefsInv /\ AttachedInv
    BY DEF TreeInv
  <2>3. lifecycle # "Busy" => \A s \in Threads : at[s] \in {"idle", "drops"} /\ step[s] = "-"
    BY <2>1, <2>2 DEF OwnerInv, Working, TreePlaceInv
  <2>4. /\ lifecycle = "Connected" => roots = 1 /\ attached
        /\ lifecycle \in {"Idle", "Failed"} => roots = 0
        /\ lifecycle # "Busy" => children = 0
    BY <2>2, <2>3 DEF TreeRefsInv, AttachedInv, HasTree, Holding
  <2>5. ASSUME attached, roots = 0 PROVE severed /\ lifecycle # "Idle"
    <3>1. CASE lifecycle = "Busy"
      <4>1. PICK t \in Threads : at[t] \in Working
        BY <2>1, <3>1 DEF OwnerInv
      <4>2. at[t] \notin Holding /\ step[t] = "-"
        BY <2>2, <2>5 DEF TreeRefsInv, HasTree
      <4>3. at[t] = "fails"
        BY <2>2, <2>5, <4>1, <4>2 DEF Working, Holding, AttachedInv
      <4> QED
        BY <2>2, <2>5, <3>1, <4>3 DEF AttachedInv
    <3>2. CASE lifecycle # "Busy"
      BY <2>1, <2>2, <2>4, <2>5, <3>2 DEF AttachedInv
    <3> QED
      BY <3>1, <3>2
  <2> QED
    BY <2>4, <2>5 DEF TreeIsWhole
<1> QED
  BY <1>1, TreeInvariant, PTL

\* The connection has one place, its counts are those of Windows, and its tree is whole.
THEOREM ConnectionStaysWhole == TreeSpec => []ConnectionIsWhole
<1>1. ConnectionIsWhole <=> ConnectionAccounted /\ TreeIsWhole
  BY DEF ConnectionIsWhole
<1> QED
  BY <1>1, TreeImplementsDriver, ConnectionIsAccounted, TreesAreUnwound, PTL
===============================================================================
