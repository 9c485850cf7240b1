---------------------------- MODULE AtomicMonitor ----------------------------
(***************************************************************************)
(* What threads/synch.h promises of a Lock and a Condition: acquiring and  *)
(* releasing the lock are atomic, Wait releases it and goes to sleep in    *)
(* one atomic step, Signal wakes the longest waiter, and a woken waiter    *)
(* has to acquire the lock again before Wait returns (Mesa style).         *)
(***************************************************************************)
EXTENDS Sequences

CONSTANTS Thread, NULL

VARIABLES
    holder,   \* the thread that has the lock, or NULL
    waiting,  \* the threads asleep in Wait, longest first
    phase     \* what each thread is doing

vars == <<holder, waiting, phase>>

Init ==
    /\ holder = NULL
    /\ waiting = <<>>
    /\ phase = [t \in Thread |-> "outside"]

Enter(t) ==
    /\ phase[t] = "outside"
    /\ phase' = [phase EXCEPT ![t] = "acquiring"]
    /\ UNCHANGED <<holder, waiting>>

\* Acquire returns, whether it was called by a client or by Wait.
Acquire(t) ==
    /\ phase[t] = "acquiring"
    /\ holder = NULL
    /\ holder' = t
    /\ phase' = [phase EXCEPT ![t] = "inside"]
    /\ UNCHANGED waiting

Release(t) ==
    /\ holder = t
    /\ holder' = NULL
    /\ phase' = [phase EXCEPT ![t] = "outside"]
    /\ UNCHANGED waiting

Wait(t) ==
    /\ holder = t
    /\ holder' = NULL
    /\ waiting' = Append(waiting, t)
    /\ phase' = [phase EXCEPT ![t] = "asleep"]

\* Signal with a waiter; with none it does nothing.
Signal(t) ==
    /\ holder = t
    /\ waiting # <<>>
    /\ waiting' = Tail(waiting)
    /\ phase' = [phase EXCEPT ![Head(waiting)] = "acquiring"]
    /\ UNCHANGED holder

Next ==
    \E t \in Thread :
        Enter(t) \/ Acquire(t) \/ Release(t) \/ Wait(t) \/ Signal(t)

\* A lock that stays free while someone wants it is acquired by someone.
Fairness == WF_vars(\E t \in Thread : Acquire(t))

SafeSpec == Init /\ [][Next]_vars
Spec == SafeSpec /\ Fairness
==============================================================================
