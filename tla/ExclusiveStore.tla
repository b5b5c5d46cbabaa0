---------------------------- MODULE ExclusiveStore ----------------------------
(***************************************************************************)
(* What the store-owner lock of pack/src/supervision.ts is for, without    *)
(* any file or process: a store that has at most one holder, on which only *)
(* the holder operates, and which changes hands only while nothing runs.   *)
(***************************************************************************)
CONSTANTS
    Instance,   \* who may hold the store
    Nobody      \* the store is free

VARIABLES
    holder,     \* the instance that holds the store, or Nobody
    operating   \* the instances with an operation running on the store

vars == <<holder, operating>>

Init == holder = Nobody /\ operating = {}

Acquire(i) ==
    /\ holder = Nobody /\ operating = {}
    /\ holder' = i
    /\ UNCHANGED operating

Operate(i) ==
    /\ holder = i
    /\ operating' = {i}
    /\ UNCHANGED holder

Finish ==
    /\ operating' = {}
    /\ UNCHANGED holder

\* An orderly release, or the recovery of a store whose holder is gone.
Free ==
    /\ operating = {}
    /\ holder' = Nobody
    /\ UNCHANGED operating

Next == (\E i \in Instance : Acquire(i) \/ Operate(i)) \/ Finish \/ Free

Spec == Init /\ [][Next]_vars
=============================================================================
