------------------------------- MODULE Monitor -------------------------------
(***************************************************************************)
(* Lock and Condition (threads/synch.cc), built from semaphores: a lock is *)
(* a semaphore and the name of its holder, a condition a queue of          *)
(* semaphores, one per waiting thread.                                     *)
(*                                                                         *)
(* Semaphores are the counting semaphores of module CountingSemaphore,     *)
(* which Threads implements.  A thread can lose the CPU whenever P has     *)
(* returned and whenever V has returned (both end by turning interrupts    *)
(* on), so steps end there.  phase says where a thread stands:             *)
(*   "outside"    not using the monitor                                    *)
(*   "acquire"    in Lock::Acquire, in P                                   *)
(*   "acquired"   in Lock::Acquire, P returned, lockHolder not yet set     *)
(*   "inside"     holds the lock and runs the client's code                *)
(*   "broadcast"  in the loop of Condition::Broadcast                      *)
(*   "wait"       in Condition::Wait, in P of its own semaphore            *)
(*   "reacquire"  in Condition::Wait, in P of the lock                     *)
(*   "reacquired" in Condition::Wait, that P returned                      *)
(***************************************************************************)
EXTENDS Integers, Sequences, FiniteSets, Functions

CONSTANTS Thread, NULL

ASSUME MonitorAssumption == IsFiniteSet(Thread) /\ NULL \notin Thread

VARIABLES
    lock,        \* value of the lock's semaphore
    lockHolder,  \* Lock::lockHolder
    waitQueue,   \* Condition::waitQueue; a waiter is named by its thread
    waiter,      \* value of each thread's waiter semaphore, NULL if deleted
    phase

monitorVars == <<lock, lockHolder, waitQueue, waiter, phase>>

Phases == {"outside", "acquire", "acquired", "inside", "broadcast", "wait",
           "reacquire", "reacquired"}

\* The types of the lock, of its holder, of the condition's queue and of the
\* waiter semaphores.
MonitorTypeOK ==
    /\ lock \in Nat
    /\ lockHolder \in Thread \cup {NULL}
    /\ waitQueue \in Seq(Thread)
    /\ waiter \in [Thread -> Nat \cup {NULL}]
    /\ phase \in [Thread -> Phases]

MonitorInit ==
    /\ lock = 1
    /\ lockHolder = NULL
    /\ waitQueue = <<>>
    /\ waiter = [t \in Thread |-> NULL]
    /\ phase = [t \in Thread |-> "outside"]

-----------------------------------------------------------------------------
Goto(t, p) == phase' = [phase EXCEPT ![t] = p]

\* A client calls Lock::Acquire.
Enter(t) ==
    /\ phase[t] = "outside"
    /\ Goto(t, "acquire")
    /\ UNCHANGED <<lock, lockHolder, waitQueue, waiter>>

\* The P of Lock::Acquire returns.
AcquireP(t) ==
    /\ phase[t] = "acquire"
    /\ lock > 0
    /\ lock' = lock - 1
    /\ Goto(t, "acquired")
    /\ UNCHANGED <<lockHolder, waitQueue, waiter>>

\* The rest of Lock::Acquire.
SetHolder(t) ==
    /\ phase[t] = "acquired"
    /\ lockHolder' = t
    /\ Goto(t, "inside")
    /\ UNCHANGED <<lock, waitQueue, waiter>>

Release(t) ==
    /\ phase[t] = "inside"
    /\ lockHolder' = NULL
    /\ lock' = lock + 1
    /\ Goto(t, "outside")
    /\ UNCHANGED <<waitQueue, waiter>>

\* Condition::Wait up to its P: the V inside Release is where the CPU can go
\* to another thread, after the new semaphore is on the queue.
Wait(t) ==
    /\ phase[t] = "inside"
    /\ waiter' = [waiter EXCEPT ![t] = 0]
    /\ waitQueue' = Append(waitQueue, t)
    /\ lockHolder' = NULL
    /\ lock' = lock + 1
    /\ Goto(t, "wait")

\* waiter->P returns.
WaiterP(t) ==
    /\ phase[t] = "wait"
    /\ waiter[t] # NULL /\ waiter[t] > 0
    /\ waiter' = [waiter EXCEPT ![t] = @ - 1]
    /\ Goto(t, "reacquire")
    /\ UNCHANGED <<lock, lockHolder, waitQueue>>

\* The P of the Acquire in Wait returns.
ReacquireP(t) ==
    /\ phase[t] = "reacquire"
    /\ lock > 0
    /\ lock' = lock - 1
    /\ Goto(t, "reacquired")
    /\ UNCHANGED <<lockHolder, waitQueue, waiter>>

\* The end of Wait: set the holder and delete the semaphore.
EndWait(t) ==
    /\ phase[t] = "reacquired"
    /\ lockHolder' = t
    /\ waiter' = [waiter EXCEPT ![t] = NULL]
    /\ Goto(t, "inside")
    /\ UNCHANGED <<lock, waitQueue>>

\* Mutant of WakeOne: the semaphore is taken off the queue and not posted.
WakeNone ==
    /\ waitQueue # <<>>
    /\ waitQueue' = Tail(waitQueue)
    /\ UNCHANGED <<lock, lockHolder, waiter>>

\* Mutant of WakeOne: the last waiter is woken.
WakeLast ==
    /\ waitQueue # <<>>
    /\ waitQueue' = SubSeq(waitQueue, 1, Len(waitQueue) - 1)
    /\ waiter' = [waiter EXCEPT ![waitQueue[Len(waitQueue)]] = @ + 1]
    /\ UNCHANGED <<lock, lockHolder>>

\* Condition::Signal with a waiter on the queue: V of the front semaphore.
WakeOne ==
    /\ waitQueue # <<>>
    /\ waitQueue' = Tail(waitQueue)
    /\ waiter' = [waiter EXCEPT ![Head(waitQueue)] = @ + 1]
    /\ UNCHANGED <<lock, lockHolder>>

Signal(t) ==
    /\ phase[t] = "inside"
    /\ \/ WakeOne
       \/ waitQueue = <<>> /\ UNCHANGED <<lock, lockHolder, waitQueue, waiter>>
    /\ UNCHANGED phase

\* Condition::Broadcast: one Signal for each thread on the queue, the CPU
\* may go to another thread after each.
Broadcast(t) ==
    \/ /\ phase[t] \in {"inside", "broadcast"}
       /\ WakeOne
       /\ Goto(t, "broadcast")
    \/ /\ phase[t] = "broadcast"
       /\ waitQueue = <<>>
       /\ Goto(t, "inside")
       /\ UNCHANGED <<lock, lockHolder, waitQueue, waiter>>

-----------------------------------------------------------------------------
\* The steps a thread takes by itself inside Acquire and Wait.
Progress(t) ==
    AcquireP(t) \/ SetHolder(t) \/ WaiterP(t) \/ ReacquireP(t) \/ EndWait(t)

MonitorNext ==
    \E t \in Thread :
        \/ Progress(t)
        \/ Enter(t) \/ Release(t) \/ Wait(t) \/ Signal(t) \/ Broadcast(t)

MonitorSpec == MonitorInit /\ [][MonitorNext]_monitorVars

\* A thread on the CPU goes on, a unit of the lock that stays available is
\* taken by some thread (CountingSemaphore), and a waiter's semaphore has
\* only that one waiter.
MonitorFairness ==
    /\ WF_monitorVars(\E t \in Thread : AcquireP(t) \/ ReacquireP(t))
    /\ \A t \in Thread : /\ WF_monitorVars(SetHolder(t))
                         /\ WF_monitorVars(WaiterP(t))
                         /\ WF_monitorVars(EndWait(t))

-----------------------------------------------------------------------------
(* Properties                                                              *)

\* The threads that have taken the lock's unit and not given it back.
Owners == {t \in Thread : phase[t] \in {"acquired", "inside", "broadcast",
                                        "reacquired"}}

\* Mutual exclusion: the lock's unit is free or one thread has it.
MutualExclusion ==
    lock + Cardinality(Owners) = 1

\* IsHeldByCurrentThread, asserted by Release, Wait and Signal, is true
\* whenever a client runs inside the monitor, although lockHolder is set
\* only after P has returned and may be reached by other threads' steps in
\* between; and no thread outside is ever named as the holder.
HolderIsAccurate ==
    /\ \A t \in Thread : phase[t] \in {"inside", "broadcast"} => lockHolder = t
    /\ lockHolder # NULL => phase[lockHolder] \in {"inside", "broadcast"}

\* The waiter semaphores' lifetimes: a semaphore on the condition's queue
\* exists, is on it once and has not been posted, so Signal never posts a
\* deleted semaphore and Wait never deletes one that is still queued.  A
\* waiter off the queue and still in its P has been posted: the signal given
\* between Release and P is not missed (synch.cc, comment of Wait).
NoMissedSignal ==
    /\ IsInjective(waitQueue)
    /\ \A t \in Range(waitQueue) : phase[t] = "wait" /\ waiter[t] = 0
    /\ \A t \in Thread : (phase[t] = "wait" /\ t \notin Range(waitQueue))
                             => waiter[t] = 1

\* The lock's unit is in the semaphore, or one thread has it.  This says
\* MutualExclusion without counting.
OneUnit ==
    \/ lock = 1 /\ Owners = {}
    \/ lock = 0 /\ \E t \in Thread : Owners = {t}

\* What Lock and Condition keep true together, and the inductive invariant
\* of the proofs.  What lockHolder says can be kept only because one thread
\* has the unit, and what a Signal does to the head of the queue only because
\* a queued semaphore exists and has not been posted.
MInv == MonitorTypeOK /\ OneUnit /\ HolderIsAccurate /\ NoMissedSignal

\* The lock and condition, built from semaphores, behave as if Acquire,
\* Release and Wait were atomic.
Holder == IF Owners = {} THEN NULL ELSE CHOOSE t \in Thread : t \in Owners

AbstractPhase(t) ==
    CASE phase[t] = "outside" -> "outside"
      [] t \in Owners -> "inside"
      [] t \in Range(waitQueue) -> "asleep"
      [] OTHER -> "acquiring"

Atomic == INSTANCE AtomicMonitor
            WITH holder <- Holder,
                 waiting <- waitQueue,
                 phase <- [t \in Thread |-> AbstractPhase(t)]

ImplementsAtomicMonitor == Atomic!Spec
==============================================================================
