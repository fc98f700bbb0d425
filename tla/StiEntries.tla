------------------------------ MODULE StiEntries ------------------------------
(***************************************************************************)
(* com_server/sti.rs, the entry points as their callers see them: what each *)
(* answers, and the last error of the device, which GetLastError and       *)
(* GetLastErrorInfo read.  StiDevice is what they do in between.  Almost   *)
(* every answer is recorded in a critical section of its own, after the    *)
(* one that decided it; the last error is the device's, not the caller's.  *)
(***************************************************************************)
EXTENDS StiDevice

VARIABLES
    entry,      \* the entry point a caller is in; "records" when it only has to record its answer
    answer,     \* what it is going to answer; "-" while that is not decided
    due,        \* how many more times the running call records its answer
    lastError,
    own,        \* history: "quiet" while nobody else has recorded since the call began or
                \* recorded itself, then the answer it returned; "-" otherwise
    misled,     \* history: GetLastError has told a caller another answer than that
    granted,    \* history: S_OK answers of LockDevice since the flag was last cleared
    raced       \* history: LockDevice and UnLockDevice calls have overlapped

lockVars  == <<granted, raced>>
errorVars == <<entry, answer, due, lastError, own, misled>>
entryVars == <<vars, errorVars, lockVars>>

Lockers == {"LockDevice", "UnLockDevice"}

EntryPoints == Lockers \cup {"-", "Initialize", "Presence", "Scan", "records"}

\* The HRESULTs, as far as an answer tells causes apart: "Refused" is a bad argument, an
\* old version, a method that is not supported, or one of NOT_INITIALIZED,
\* ALREADY_INITIALIZED and NEEDS_LOCK.
Codes == {"Ok", "Refused", "Locked", "Generic", "Unexpected"}

EntryTypeOK ==
    /\ TypeOK
    /\ entry \in [Threads -> EntryPoints] /\ answer \in [Threads -> Codes \cup {"-"}]
    /\ due \in [Threads -> 0..2] /\ lastError \in Codes
    /\ own \in [Threads -> Codes \cup {"-", "quiet"}] /\ misled \in BOOLEAN
    /\ granted \in Nat /\ raced \in BOOLEAN

EntriesInit ==
    /\ Init
    /\ entry = [t \in Threads |-> "-"] /\ answer = [t \in Threads |-> "-"]
    /\ due = [t \in Threads |-> 0] /\ lastError = "Ok"
    /\ own = [t \in Threads |-> "-"] /\ misled = FALSE
    /\ granted = 0 /\ raced = FALSE

Idle(t) == entry[t] = "-"

-------------------------------------------------------------------------------
\* A caller enters; what was known of its earlier call is forgotten.
Enter(t, e) ==
    /\ Idle(t) /\ Alive
    /\ entry' = [entry EXCEPT ![t] = e]
    /\ own' = [own EXCEPT ![t] = "quiet"]
    /\ raced' = (raced \/ (e \in Lockers /\ \E s \in Threads : entry[s] \in Lockers))
    /\ granted' = IF raced' THEN 0 ELSE granted
    /\ UNCHANGED <<lastError, misled>>

Begins(t, e) == Enter(t, e) /\ UNCHANGED <<answer, due>>

\* The answer is known at once; n records of it follow.
Answers(t, code, n) ==
    /\ Enter(t, "records")
    /\ answer' = [answer EXCEPT ![t] = code] /\ due' = [due EXCEPT ![t] = n]
    /\ UNCHANGED vars

\* The running call has come to an answer that it will record n times.
Decides(t, code, n) ==
    /\ answer' = [answer EXCEPT ![t] = code] /\ due' = [due EXCEPT ![t] = n]
    /\ entry' = IF n > 0 THEN [entry EXCEPT ![t] = "records"] ELSE entry
    /\ UNCHANGED <<lastError, own, misled>>

\* It returns, with nothing (more) to record; kept is what a quiet caller may rely on.
Leaves(t, kept) ==
    /\ entry' = [entry EXCEPT ![t] = "-"] /\ answer' = [answer EXCEPT ![t] = "-"]
    /\ own' = [own EXCEPT ![t] = IF @ = "quiet" THEN kept ELSE "-"]
    /\ UNCHANGED <<due, lastError, misled>>

Undecided == UNCHANGED errorVars

\* A record of t takes the others' place.
Mine(t, value) == [s \in Threads |-> IF s = t THEN value ELSE "-"]

\* fail() and clear_last_error(); the call returns after the last of them.
RecordsAnswer(t) ==
    /\ due[t] > 0 /\ due' = [due EXCEPT ![t] = @ - 1]
    /\ lastError' = answer[t]
    /\ IF due[t] = 1
       THEN /\ entry' = [entry EXCEPT ![t] = "-"] /\ answer' = [answer EXCEPT ![t] = "-"]
            /\ own' = Mine(t, answer[t])
       ELSE own' = Mine(t, "quiet") /\ UNCHANGED <<entry, answer>>
    /\ UNCHANGED <<vars, misled, lockVars>>

\* GetLastError and GetLastErrorInfo change nothing; a caller asks once about its call.
TellsLastError(t) ==
    /\ Idle(t) /\ Alive /\ own[t] # "-"
    /\ misled' = (misled \/ own[t] # lastError)
    /\ own' = [own EXCEPT ![t] = "-"]
    /\ UNCHANGED <<vars, entry, answer, due, lastError, lockVars>>

\* access_error
AccessCode(why) == CASE why = "Busy" -> "Locked" [] why = "NotLocked" -> "Refused" [] OTHER -> "Generic"

-------------------------------------------------------------------------------
InitializeEnters(t) ==
    \/ Answers(t, "Refused", 1)
    \/ InitializeChecks(t) /\ Begins(t, "Initialize")

\* A port name that cannot be read.
InitializeReadsPort(t) ==
    /\ InitializeReads(t) /\ UNCHANGED lockVars
    /\ IF call'[t] = "none" THEN Decides(t, "Generic", 1) ELSE Undecided

\* The answer is recorded in the critical section that publishes the helper.
InitializeRecords(t) ==
    /\ InitializePublishes(t) /\ UNCHANGED lockVars
    /\ lastError' = IF initialized THEN "Refused" ELSE "Ok"
    /\ own' = Mine(t, IF initialized THEN "Refused" ELSE "quiet")
    /\ entry' = IF initialized THEN [entry EXCEPT ![t] = "-"] ELSE entry
    /\ UNCHANGED <<answer, due, misled>>

\* The open that follows is not part of the answer - unless it panics.
InitializeEnds(t) ==
    /\ UNCHANGED lockVars
    /\ \/ InitializeOpens(t) /\ Undecided
       \/ /\ InitializeReturns(t)
          /\ Leaves(t, IF result[t] = "Panic" THEN "-" ELSE "Ok")

-------------------------------------------------------------------------------
\* Seeded fault: the flag is not looked at; the session that is open already will do.
BugLockEnters(t) ==
    \/ ~initialized /\ Answers(t, "Refused", 1)
    \/ initialized /\ Via(UNCHANGED slotVars, t, "none", "lockAsks") /\ Begins(t, "LockDevice")

LockEnters(t) ==
    \/ ~initialized /\ Answers(t, "Refused", 1)
    \/ initialized /\ stiLocked /\ Answers(t, "Locked", 1)
    \/ LockChecks(t) /\ Begins(t, "LockDevice")

LockFinds(t) ==
    /\ LockAsks(t) /\ UNCHANGED lockVars
    /\ IF call'[t] = "none" THEN Decides(t, AccessCode(Status), 1) ELSE Undecided

LockTries(t) ==
    /\ UNCHANGED lockVars
    /\ \/ LockOpens(t) /\ Undecided
       \/ LockOpened(t) /\ result[t] = "Ok" /\ Undecided
       \/ LockOpened(t) /\ result[t] = "Panic" /\ Leaves(t, "-")
       \/ /\ LockOpened(t) /\ result[t] \notin {"Ok", "Panic"}
          /\ Decides(t, AccessCode(result[t]), 1)

LockSucceeds(t) ==
    /\ LockSets(t) /\ Decides(t, "Ok", 1)
    /\ granted' = (IF raced THEN 0 ELSE granted + 1) /\ UNCHANGED raced

UnlockEnters(t) ==
    \/ ~(initialized /\ stiLocked) /\ Answers(t, "Refused", 1)
    \/ UnlockChecks(t) /\ Begins(t, "UnLockDevice")

UnlockFinds(t) ==
    /\ UnlockAsks(t) /\ UNCHANGED lockVars
    /\ IF call'[t] = "none" THEN Decides(t, AccessCode(Status), 1) ELSE Undecided

UnlockSucceeds(t) ==
    /\ UnlockSets(t) /\ Decides(t, "Ok", 1)
    /\ granted' = 0 /\ UNCHANGED raced

-------------------------------------------------------------------------------
\* live_capabilities records its answer, and Diagnostic records it once more.
Records(e) == IF e = "Presence" THEN {1, 2} ELSE {1}

OperationEnters(t) ==
    \/ \E n \in {1, 2} : ~(initialized /\ stiLocked) /\ Answers(t, "Refused", n)
    \/ Answers(t, "Refused", 1)
    \/ \E e \in {"Presence", "Scan"} : OperationChecks(t) /\ Begins(t, e)

\* live_capabilities records its refusals; with_scan_session, and the checks of the
\* settings and of the cancel flag before it, do not.
ScanRefusedEarly(t) ==
    /\ Idle(t) /\ Alive
    /\ own' = [own EXCEPT ![t] = "-"]
    /\ UNCHANGED <<vars, entry, answer, due, lastError, misled, lockVars>>

\* The operation's result is known when the lease ends: a failed presence check always
\* spoils the session, a failed scan may leave it reusable.
OperationEnds(t) ==
    /\ at[t] = "using" /\ SlotRuns(t) /\ UNCHANGED <<stiVars, lockVars>>
    /\ \E code \in {"Ok", "Generic", "Unexpected"} :
          /\ at'[t] = "idle" => code \in (IF entry[t] = "Scan" THEN {"Ok", "Generic"} ELSE {"Ok"})
          /\ at'[t] = "failed" => code = "Generic"
          /\ at'[t] = "unwinding" => code = "Unexpected"
          /\ Decides(t, code, 0)

\* io_error_hresult tells the causes of a refused scan no further apart.
Refused(t) == IF entry[t] = "Scan" THEN "Generic" ELSE AccessCode(result[t])

\* Seeded fault: with_scan_session records failures only.
BugOperationAnswers(t) ==
    /\ OperationReturns(t) /\ UNCHANGED lockVars
    /\ \/ answer[t] = "Unexpected" /\ Leaves(t, "-")
       \/ entry[t] = "Scan" /\ answer[t] = "Ok" /\ Leaves(t, "Ok")
       \/ \E n \in Records(entry[t]) :
             \/ answer[t] = "-" /\ Decides(t, Refused(t), n)
             \/ answer[t] = "Generic" /\ Decides(t, "Generic", n)
             \/ answer[t] = "Ok" /\ entry[t] = "Presence" /\ Decides(t, "Ok", n)

OperationAnswers(t) ==
    /\ OperationReturns(t) /\ UNCHANGED lockVars
    /\ \/ answer[t] = "Unexpected" /\ Leaves(t, "-")
       \/ \E n \in Records(entry[t]) :
             \/ answer[t] = "-" /\ Decides(t, Refused(t), n)
             \/ answer[t] \in {"Ok", "Generic"} /\ Decides(t, answer[t], n)

-------------------------------------------------------------------------------
\* GetCapabilities and GetStatus look at one flag, but there is no status to be had.
StatusEnters(t) ==
    \/ initialized /\ Answers(t, "Ok", 1)
    \/ Answers(t, "Refused", 1)

\* DeviceReset, Escape, the raw transfers and the notification calls look at none.
UnsupportedEnters(t) == Answers(t, "Refused", 1)

\* The final Release comes when no call is under way.
Destroys(t) ==
    /\ \/ (\A s \in Threads : Idle(s)) /\ FinalRelease(t)
       \/ DropUnlocks(t) \/ DropReleases(t)
    /\ UNCHANGED <<errorVars, lockVars>>

\* Steps of the slot that decide no answer.
SlotSteps(t) ==
    at[t] # "using" /\ SlotRuns(t) /\ UNCHANGED <<stiVars, errorVars, lockVars>>

EntryContinues(t) ==
    \/ RecordsAnswer(t)
    \/ InitializeReadsPort(t) \/ InitializeRecords(t) \/ InitializeEnds(t)
    \/ LockFinds(t) \/ LockTries(t) \/ LockSucceeds(t)
    \/ UnlockFinds(t) \/ UnlockSucceeds(t)
    \/ OperationTakes(t) /\ UNCHANGED <<errorVars, lockVars>>
    \/ OperationEnds(t) \/ OperationAnswers(t)
    \/ (call[t] # "none" /\ Destroys(t)) \/ SlotSteps(t)

EntriesNext ==
    \E t \in Threads :
       \/ InitializeEnters(t) \/ LockEnters(t) \/ UnlockEnters(t) \/ OperationEnters(t)
       \/ ScanRefusedEarly(t) \/ StatusEnters(t) \/ UnsupportedEnters(t) \/ TellsLastError(t)
       \/ Destroys(t) \/ EntryContinues(t)

EntriesSpec == EntriesInit /\ [][EntriesNext]_entryVars

FairEntriesSpec == EntriesSpec /\ \A t \in Threads : WF_entryVars(EntryContinues(t))

-------------------------------------------------------------------------------
\* PROPERTIES

\* The last error of the device is a caller's own as long as nobody else records one: then
\* GetLastError tells it what its call has answered, whichever path of sti.rs that took,
\* whatever failed before and however its steps met those of the others.
LastErrorIsOwn == ~misled

\* The STI service serialises LockDevice and UnLockDevice; as long as it does, S_OK is
\* answered to one caller at a time, and the flag is set exactly while that caller has not
\* been unlocked - although scans, presence checks, Initialize and the opens it started run
\* at the same time (sti.rs:938-1015).
LockHasOneHolder == ~raced => granted = (IF stiLocked THEN 1 ELSE 0)
===============================================================================
