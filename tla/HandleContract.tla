---------------------------- MODULE HandleContract ----------------------------
(***************************************************************************)
(* What the callers of SessionSlot rely on: one USB handle at most, lent   *)
(* to one call at a time, and retired for good once a call gives it back   *)
(* in an uncertain state.  The slot's own steps, and the moments at which  *)
(* a call holds neither the mutex nor the handle, are not visible here.    *)
(***************************************************************************)
CONSTANTS Threads, NoThread

VARIABLES phase,    \* "closed" | "moving" | "free" | "lent" | "retired"
          holder    \* the call that owns the current transition or loan

contractVars == <<phase, holder>>

ContractInit == phase = "closed" /\ holder = NoThread

\* A call takes the slot out of a resting phase and becomes its only user.
Take(t, from, to) ==
    /\ phase = from
    /\ phase' = to
    /\ holder' = t

\* The call that took the slot, and no other, puts it back to rest.
Give(t, from, to) ==
    /\ phase = from
    /\ holder = t
    /\ phase' = to
    /\ holder' = NoThread

ContractNext ==
    \E t \in Threads :
        \/ Take(t, "closed", "moving")
        \/ Take(t, "free", "moving")
        \/ Take(t, "free", "lent")
        \/ \E rest \in {"closed", "free", "retired"} : Give(t, "moving", rest)
        \/ \E rest \in {"free", "retired"} : Give(t, "lent", rest)

ContractSpec == ContractInit /\ [][ContractNext]_contractVars
===============================================================================
