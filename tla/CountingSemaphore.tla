------------------------- MODULE CountingSemaphore --------------------------
(***************************************************************************)
(* What Semaphore::P and V promise their callers (threads/synch.h): P      *)
(* waits until the value is positive and then decrements it, V increments  *)
(* it.  There is no queue, no scheduler and no interrupt here: only the    *)
(* values and which thread is inside which P.                              *)
(***************************************************************************)
EXTENDS Integers

CONSTANTS Thread, Sem, InitialValue, NULL

VARIABLES
    value,  \* the value of each semaphore
    waits   \* the semaphore whose P a thread is waiting in, or NULL

vars == <<value, waits>>

Init ==
    /\ value = InitialValue
    /\ waits = [t \in Thread |-> NULL]

\* P finds the value positive and returns at once.
Pass(s) ==
    /\ value[s] > 0
    /\ value' = [value EXCEPT ![s] = @ - 1]
    /\ UNCHANGED waits

\* P finds the value zero and waits.
Block(t, s) ==
    /\ value[s] = 0
    /\ waits[t] = NULL
    /\ waits' = [waits EXCEPT ![t] = s]
    /\ UNCHANGED value

\* A waiting P returns, having taken a unit.
Unblock(t, s) ==
    /\ waits[t] = s
    /\ value[s] > 0
    /\ value' = [value EXCEPT ![s] = @ - 1]
    /\ waits' = [waits EXCEPT ![t] = NULL]

V(s) ==
    /\ value' = [value EXCEPT ![s] = @ + 1]
    /\ UNCHANGED waits

Next ==
    \E s \in Sem :
        \/ Pass(s) \/ V(s)
        \/ \E t \in Thread : Block(t, s) \/ Unblock(t, s)

\* A unit that stays available while someone waits is taken by some waiter.
Fairness == \A s \in Sem : WF_vars(\E t \in Thread : Unblock(t, s))

SafeSpec == Init /\ [][Next]_vars

Spec == SafeSpec /\ Fairness
==============================================================================
