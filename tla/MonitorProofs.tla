---------------------------- MODULE MonitorProofs ----------------------------
(***************************************************************************)
(* Proofs about Monitor, the lock and condition of threads/synch.cc, for   *)
(* every finite set of threads.                                            *)
(***************************************************************************)
EXTENDS Monitor, QueueLemmas, FiniteSetTheorems

\* OneUnit is MutualExclusion.
LEMMA UnitIsExclusive ==
    OneUnit => MutualExclusion
<1>1. ASSUME lock = 1, Owners = {} PROVE MutualExclusion
  BY <1>1, FS_EmptySet DEF MutualExclusion
<1>2. ASSUME lock = 0, NEW t \in Thread, Owners = {t} PROVE MutualExclusion
  BY <1>2, FS_Singleton DEF MutualExclusion
<1> QED
  BY <1>1, <1>2 DEF OneUnit

\* A step that neither queues, wakes nor posts a waiter misses no signal.
LEMMA QueueUntouched ==
    ASSUME MonitorTypeOK, NoMissedSignal, UNCHANGED waitQueue,
           \A u \in Thread : (phase'[u] = "wait") <=> (phase[u] = "wait"),
           \A u \in Thread : phase[u] = "wait" => waiter'[u] = waiter[u]
    PROVE  NoMissedSignal'
<1>1. Range(waitQueue) \subseteq Thread
  BY DEF MonitorTypeOK, Range
<1> QED
  BY <1>1 DEF NoMissedSignal

\* The lock, new and free, satisfies the invariant.
LEMMA InitMInv ==
    MonitorInit => MInv
<1> SUFFICES ASSUME MonitorInit PROVE MInv
  OBVIOUS
<1>1. MonitorTypeOK
  BY DEF MonitorInit, MonitorTypeOK, Phases
<1>2. OneUnit /\ HolderIsAccurate
  BY DEF MonitorInit, OneUnit, HolderIsAccurate, Owners
<1>3. NoMissedSignal
  BY EmptyQueue DEF MonitorInit, NoMissedSignal
<1> QED
  BY <1>1, <1>2, <1>3 DEF MInv

\* A thread that calls Acquire owns nothing yet.
LEMMA EnterMInv ==
    ASSUME MInv, NEW t \in Thread, Enter(t)
    PROVE  MInv'
<1> USE DEF MInv, MonitorTypeOK, Phases, Enter, Goto
<1>1. MonitorTypeOK'
  OBVIOUS
<1>2. Owners' = Owners
  BY DEF Owners
<1>3. OneUnit'
  BY <1>2 DEF OneUnit
<1>4. HolderIsAccurate'
  BY DEF HolderIsAccurate
<1>5. NoMissedSignal'
  <2>1. \A u \in Thread : (phase'[u] = "wait") <=> (phase[u] = "wait")
    OBVIOUS
  <2>2. \A u \in Thread : phase[u] = "wait" => waiter'[u] = waiter[u]
    OBVIOUS
  <2> QED
    BY <2>1, <2>2, QueueUntouched
<1> QED
  BY <1>1, <1>3, <1>4, <1>5

\* The P of the lock takes the unit that no thread has.
LEMMA TakeUnitMInv ==
    ASSUME MInv, NEW t \in Thread, AcquireP(t) \/ ReacquireP(t)
    PROVE  MInv'
<1> USE DEF MInv, MonitorTypeOK, Phases, AcquireP, ReacquireP, Goto
<1>1. MonitorTypeOK'
  <2>1. lock' \in Nat
    OBVIOUS
  <2> QED
    BY <2>1
<1>2. lock = 1 /\ Owners = {}
  BY DEF OneUnit
<1>3. Owners' = {t}
  BY <1>2 DEF Owners
<1>4. OneUnit'
  BY <1>2, <1>3 DEF OneUnit
<1>5. HolderIsAccurate'
  BY DEF HolderIsAccurate
<1>6. NoMissedSignal'
  <2>1. \A u \in Thread : (phase'[u] = "wait") <=> (phase[u] = "wait")
    OBVIOUS
  <2>2. \A u \in Thread : phase[u] = "wait" => waiter'[u] = waiter[u]
    OBVIOUS
  <2> QED
    BY <2>1, <2>2, QueueUntouched
<1> QED
  BY <1>1, <1>4, <1>5, <1>6

\* The thread with the unit names itself as the holder; no other was named.
LEMMA NameHolderMInv ==
    ASSUME MInv, NEW t \in Thread, SetHolder(t) \/ EndWait(t)
    PROVE  MInv'
<1> USE DEF MInv, MonitorTypeOK, Phases, SetHolder, EndWait, Goto
<1>1. MonitorTypeOK'
  OBVIOUS
<1>2. lock = 0 /\ Owners = {t}
  BY DEF OneUnit, Owners
<1>3. Owners' = {t}
  BY <1>2 DEF Owners
<1>4. OneUnit'
  BY <1>2, <1>3 DEF OneUnit
<1>5. HolderIsAccurate'
  BY <1>2, MonitorAssumption DEF HolderIsAccurate, Owners
<1>6. NoMissedSignal'
  <2>1. \A u \in Thread : (phase'[u] = "wait") <=> (phase[u] = "wait")
    OBVIOUS
  <2>2. \A u \in Thread : phase[u] = "wait" => waiter'[u] = waiter[u]
    OBVIOUS
  <2> QED
    BY <2>1, <2>2, QueueUntouched
<1> QED
  BY <1>1, <1>4, <1>5, <1>6

\* Release gives the unit back.
LEMMA ReleaseMInv ==
    ASSUME MInv, NEW t \in Thread, Release(t)
    PROVE  MInv'
<1> USE DEF MInv, MonitorTypeOK, Phases, Release, Goto
<1>1. MonitorTypeOK'
  OBVIOUS
<1>2. lock = 0 /\ Owners = {t}
  BY DEF OneUnit, Owners
<1>3. Owners' = {}
  BY <1>2 DEF Owners
<1>4. OneUnit'
  BY <1>2, <1>3 DEF OneUnit
<1>5. HolderIsAccurate'
  BY <1>3 DEF HolderIsAccurate, Owners
<1>6. NoMissedSignal'
  <2>1. \A u \in Thread : (phase'[u] = "wait") <=> (phase[u] = "wait")
    OBVIOUS
  <2>2. \A u \in Thread : phase[u] = "wait" => waiter'[u] = waiter[u]
    OBVIOUS
  <2> QED
    BY <2>1, <2>2, QueueUntouched
<1> QED
  BY <1>1, <1>4, <1>5, <1>6

\* Wait puts a new semaphore on the queue before it gives the unit back.
LEMMA WaitMInv ==
    ASSUME MInv, NEW t \in Thread, Wait(t)
    PROVE  MInv'
<1> USE DEF MInv, MonitorTypeOK, Phases, Wait, Goto
<1>1. t \notin Range(waitQueue)
  BY DEF NoMissedSignal
<1>2. /\ waitQueue' \in Seq(Thread)
      /\ IsInjective(waitQueue')
      /\ Range(waitQueue') = Range(waitQueue) \cup {t}
  BY <1>1, AppendFresh DEF NoMissedSignal
<1>3. MonitorTypeOK'
  BY <1>2
<1>4. lock = 0 /\ Owners = {t}
  BY DEF OneUnit, Owners
<1>5. Owners' = {}
  BY <1>4 DEF Owners
<1>6. OneUnit'
  BY <1>4, <1>5 DEF OneUnit
<1>7. HolderIsAccurate'
  BY <1>5 DEF HolderIsAccurate, Owners
<1>8. NoMissedSignal'
  <2>1. \A u \in Range(waitQueue') : phase'[u] = "wait" /\ waiter'[u] = 0
    <3>1. Range(waitQueue) \subseteq Thread
      BY DEF Range
    <3> QED
      BY <1>2, <3>1 DEF NoMissedSignal
  <2>2. \A u \in Thread : phase'[u] = "wait" /\ u \notin Range(waitQueue')
                             => waiter'[u] = 1
    BY <1>2 DEF NoMissedSignal
  <2> QED
    BY <1>2, <2>1, <2>2 DEF NoMissedSignal
<1> QED
  BY <1>3, <1>6, <1>7, <1>8

\* A waiter whose semaphore was posted is off the queue.
LEMMA WaiterPMInv ==
    ASSUME MInv, NEW t \in Thread, WaiterP(t)
    PROVE  MInv'
<1> USE DEF MInv, MonitorTypeOK, Phases, WaiterP, Goto
<1>1. t \notin Range(waitQueue) /\ waiter[t] = 1
  BY DEF NoMissedSignal
<1>2. MonitorTypeOK'
  BY <1>1
<1>3. Owners' = Owners
  BY DEF Owners
<1>4. OneUnit'
  BY <1>3 DEF OneUnit
<1>5. HolderIsAccurate'
  BY DEF HolderIsAccurate
<1>6. NoMissedSignal'
  <2>1. Range(waitQueue) \subseteq Thread
    BY DEF Range
  <2> QED
    BY <1>1, <2>1 DEF NoMissedSignal
<1> QED
  BY <1>2, <1>4, <1>5, <1>6

\* The V of a queued semaphore, which exists and has no unit yet.
LEMMA WakeOneFacts ==
    ASSUME MInv, WakeOne, NEW p \in [Thread -> Phases], phase' = p,
           \A u \in Thread : (p[u] = "wait") <=> (phase[u] = "wait")
    PROVE  /\ waitQueue' \in Seq(Thread)
           /\ waiter' \in [Thread -> Nat \cup {NULL}]
           /\ NoMissedSignal'
<1> USE DEF MInv, MonitorTypeOK, WakeOne
<1> DEFINE h == Head(waitQueue)
<1>1. /\ h \in Thread /\ h \in Range(waitQueue)
      /\ waitQueue' \in Seq(Thread)
      /\ IsInjective(waitQueue')
      /\ Range(waitQueue') = Range(waitQueue) \ {h}
  BY RemoveFrontFacts DEF NoMissedSignal
<1>2. phase[h] = "wait" /\ waiter[h] = 0
  BY <1>1 DEF NoMissedSignal
<1>3. waiter' = [waiter EXCEPT ![h] = 1]
  BY <1>1, <1>2
<1>4. waiter' \in [Thread -> Nat \cup {NULL}]
  BY <1>1, <1>3
<1>5. Range(waitQueue) \subseteq Thread
  BY DEF Range
<1>6. \A u \in Range(waitQueue') : phase'[u] = "wait" /\ waiter'[u] = 0
  BY <1>1, <1>3, <1>5 DEF NoMissedSignal
<1>7. \A u \in Thread : phase'[u] = "wait" /\ u \notin Range(waitQueue')
                           => waiter'[u] = 1
  BY <1>1, <1>3 DEF NoMissedSignal
<1> QED
  BY <1>1, <1>4, <1>6, <1>7 DEF NoMissedSignal

\* Signal and Broadcast, which their caller runs with the lock held.
LEMMA SignalMInv ==
    ASSUME MInv, NEW t \in Thread, Signal(t) \/ Broadcast(t)
    PROVE  MInv'
<1> USE DEF MInv, MonitorTypeOK, Phases
<1>1. /\ phase' \in [Thread -> Phases]
      /\ \A u \in Thread \ {t} : phase'[u] = phase[u]
      /\ phase[t] \in {"inside", "broadcast"} /\ phase'[t] \in {"inside", "broadcast"}
      /\ UNCHANGED <<lock, lockHolder>>
  BY DEF Signal, Broadcast, WakeOne, Goto
<1>2. Owners' = Owners
  BY <1>1 DEF Owners
<1>3. OneUnit'
  BY <1>1, <1>2 DEF OneUnit
<1>4. HolderIsAccurate'
  BY <1>1 DEF HolderIsAccurate
<1>5. \A u \in Thread : (phase'[u] = "wait") <=> (phase[u] = "wait")
  BY <1>1
<1>6. /\ waitQueue' \in Seq(Thread) /\ waiter' \in [Thread -> Nat \cup {NULL}]
      /\ NoMissedSignal'
  <2>1. CASE WakeOne
    BY <1>1, <1>5, <2>1, WakeOneFacts
  <2>2. CASE UNCHANGED <<waitQueue, waiter>>
    BY <1>5, <2>2, QueueUntouched
  <2> QED
    BY <2>1, <2>2 DEF Signal, Broadcast
<1> QED
  BY <1>1, <1>3, <1>4, <1>6

\* Every step of a client, and every stuttering step, keeps the invariant.
LEMMA NextMInv ==
    MInv /\ [MonitorNext]_monitorVars => MInv'
<1> SUFFICES ASSUME MInv, [MonitorNext]_monitorVars PROVE MInv'
  OBVIOUS
<1>1. ASSUME NEW t \in Thread,
             Progress(t) \/ Enter(t) \/ Release(t) \/ Wait(t) \/ Signal(t) \/ Broadcast(t)
      PROVE  MInv'
  BY <1>1, EnterMInv, TakeUnitMInv, NameHolderMInv, ReleaseMInv, WaitMInv,
     WaiterPMInv, SignalMInv DEF Progress
<1>2. CASE UNCHANGED monitorVars
  BY <1>2 DEF MInv, monitorVars, MonitorTypeOK, OneUnit, Owners, HolderIsAccurate,
              NoMissedSignal
<1> QED
  BY <1>1, <1>2 DEF MonitorNext

\* The invariant holds in every reachable state of a lock and a condition,
\* whatever their clients call.
THEOREM MonitorInvariant ==
    MonitorSpec => []MInv
  BY InitMInv, NextMInv, PTL DEF MonitorSpec

\* A lock is never held by two threads, nor lost: Lock of synch.cc.
THEOREM LockExcludes ==
    MonitorSpec => []MutualExclusion
<1>1. MInv => MutualExclusion
  BY UnitIsExclusive DEF MInv
<1> QED
  BY <1>1, MonitorInvariant, PTL

\* IsHeldByCurrentThread is right about every thread, so the ASSERTs of
\* Release, Wait and Signal hold for clients that have acquired the lock.
THEOREM HolderIsKnown ==
    MonitorSpec => []HolderIsAccurate
<1>1. MInv => HolderIsAccurate
  BY DEF MInv
<1> QED
  BY <1>1, MonitorInvariant, PTL

\* No signal is missed between Release and P in Condition::Wait, and no
\* semaphore is posted that Wait has deleted.
THEOREM SignalsArrive ==
    MonitorSpec => []NoMissedSignal
<1>1. MInv => NoMissedSignal
  BY DEF MInv
<1> QED
  BY <1>1, MonitorInvariant, PTL

-----------------------------------------------------------------------------
(* The refinement                                                          *)

AbstractPhases == [t \in Thread |-> AbstractPhase(t)]

\* The owner of the unit is the abstract holder.
LEMMA HolderIsOwner ==
    /\ Owners = {} => Holder = NULL
    /\ \A t \in Thread : Owners = {t} => Holder = t
  BY DEF Holder

\* What the abstract phase of a thread is, without CASE.
LEMMA AbstractPhaseIs ==
    ASSUME MInv, NEW t \in Thread
    PROVE  AbstractPhase(t) =
             IF phase[t] = "outside" THEN "outside"
             ELSE IF t \in Owners THEN "inside"
             ELSE IF t \in Range(waitQueue) THEN "asleep"
             ELSE "acquiring"
<1>1. t \in Range(waitQueue) => phase[t] = "wait"
  BY DEF MInv, NoMissedSignal
<1>2. t \in Owners => phase[t] \notin {"outside", "wait"}
  BY DEF Owners
<1> QED
  BY <1>1, <1>2 DEF AbstractPhase

\* A step that changes the concrete phase of t alone, from one that stands
\* for a to one that stands for b, changes the abstract phase of t alone.
LEMMA OneAbstractPhase ==
    ASSUME MInv, MInv', NEW t \in Thread, NEW b,
           \A u \in Thread \ {t} :
               /\ phase'[u] = phase[u]
               /\ (u \in Range(waitQueue))' <=> u \in Range(waitQueue),
           AbstractPhase(t)' = b
    PROVE  AbstractPhases' = [AbstractPhases EXCEPT ![t] = b]
<1>1. ASSUME NEW u \in Thread \ {t} PROVE AbstractPhase(u)' = AbstractPhase(u)
  <2>1. (u \in Owners)' <=> u \in Owners
    BY DEF Owners
  <2>2. AbstractPhase(u)' =
             IF phase'[u] = "outside" THEN "outside"
             ELSE IF (u \in Owners)' THEN "inside"
             ELSE IF (u \in Range(waitQueue))' THEN "asleep"
             ELSE "acquiring"
    <3>1. (u \in Range(waitQueue))' => phase'[u] = "wait"
      BY DEF MInv, NoMissedSignal
    <3>2. (u \in Owners)' => phase'[u] \notin {"outside", "wait"}
      BY DEF Owners
    <3> QED
      BY <3>1, <3>2 DEF AbstractPhase
  <2> QED
    BY <2>1, <2>2, AbstractPhaseIs
<1> QED
  BY <1>1 DEF AbstractPhases

\* A step that changes no abstract phase, owner or queue is a stutter.
LEMMA Stutters ==
    ASSUME MInv, MInv', NEW t \in Thread,
           \A u \in Thread \ {t} : phase'[u] = phase[u],
           UNCHANGED waitQueue,
           AbstractPhase(t)' = AbstractPhase(t),
           Owners' = Owners
    PROVE  UNCHANGED Atomic!vars
<1>1. AbstractPhases' = [AbstractPhases EXCEPT ![t] = AbstractPhase(t)]
  BY OneAbstractPhase
<1>2. AbstractPhases' = AbstractPhases
  BY <1>1 DEF AbstractPhases
<1>3. Holder' = Holder
  BY DEF Holder
<1> QED
  BY <1>2, <1>3 DEF Atomic!vars, AbstractPhases

\* Each step is a step of the atomic lock and condition, or changes nothing
\* that they show.
LEMMA NextRefines ==
    MInv /\ [MonitorNext]_monitorVars => [Atomic!Next]_(Atomic!vars)
<1> SUFFICES ASSUME MInv, [MonitorNext]_monitorVars
             PROVE  Atomic!Next \/ UNCHANGED Atomic!vars
  OBVIOUS
<1>0. MInv'
  BY NextMInv
<1> USE <1>0 DEF AbstractPhases
<1>1. ASSUME NEW t \in Thread, Enter(t) PROVE Atomic!Enter(t)
  <2>1. /\ AbstractPhase(t) = "outside" /\ AbstractPhase(t)' = "acquiring"
        /\ Owners' = Owners
    BY <1>1 DEF Enter, Goto, AbstractPhase, Owners, MInv, MonitorTypeOK, NoMissedSignal
  <2>2. AbstractPhases' = [AbstractPhases EXCEPT ![t] = "acquiring"]
    BY <1>1, <2>1, OneAbstractPhase DEF Enter, Goto, MInv, MonitorTypeOK
  <2>3. Holder' = Holder
    BY <2>1 DEF Holder
  <2> QED
    BY <1>1, <2>1, <2>2, <2>3 DEF Enter, Atomic!Enter
<1>2. ASSUME NEW t \in Thread, AcquireP(t) \/ ReacquireP(t) PROVE Atomic!Acquire(t)
  <2>1. Owners = {} /\ Owners' = {t}
    BY <1>2 DEF AcquireP, ReacquireP, Goto, Owners, MInv, MonitorTypeOK, OneUnit
  <2>2. AbstractPhase(t) = "acquiring" /\ AbstractPhase(t)' = "inside"
    BY <1>2 DEF AcquireP, ReacquireP, Goto, AbstractPhase, Owners, MInv,
                MonitorTypeOK, NoMissedSignal
  <2>3. AbstractPhases' = [AbstractPhases EXCEPT ![t] = "inside"]
    BY <1>2, <2>2, OneAbstractPhase DEF AcquireP, ReacquireP, Goto, MInv, MonitorTypeOK
  <2>4. Holder = NULL /\ Holder' = t
    BY <2>1 DEF Holder
  <2> QED
    BY <1>2, <2>2, <2>3, <2>4 DEF AcquireP, ReacquireP, Atomic!Acquire
<1>3. ASSUME NEW t \in Thread, SetHolder(t) \/ EndWait(t) PROVE UNCHANGED Atomic!vars
  <2>1. Owners' = Owners
    BY <1>3 DEF SetHolder, EndWait, Goto, Owners, MInv, MonitorTypeOK
  <2>2. AbstractPhase(t)' = AbstractPhase(t)
    BY <1>3 DEF SetHolder, EndWait, Goto, AbstractPhase, Owners, MInv,
                MonitorTypeOK, NoMissedSignal
  <2> QED
    BY <1>3, <2>1, <2>2, Stutters DEF SetHolder, EndWait, Goto, MInv, MonitorTypeOK
<1>4. ASSUME NEW t \in Thread, Release(t) PROVE Atomic!Release(t)
  <2>1. Owners = {t} /\ Owners' = {}
    BY <1>4 DEF Release, Goto, Owners, MInv, MonitorTypeOK, OneUnit
  <2>2. AbstractPhase(t)' = "outside"
    BY <1>4 DEF Release, Goto, AbstractPhase, Owners, MInv, MonitorTypeOK,
                NoMissedSignal
  <2>3. AbstractPhases' = [AbstractPhases EXCEPT ![t] = "outside"]
    BY <1>4, <2>2, OneAbstractPhase DEF Release, Goto, MInv, MonitorTypeOK
  <2>4. Holder = t /\ Holder' = NULL
    BY <2>1 DEF Holder
  <2> QED
    BY <1>4, <2>3, <2>4 DEF Release, Atomic!Release
<1>5. ASSUME NEW t \in Thread, Wait(t) PROVE Atomic!Wait(t)
  <2>1. Owners = {t} /\ Owners' = {}
    BY <1>5 DEF Wait, Goto, Owners, MInv, MonitorTypeOK, OneUnit
  <2>2. t \notin Range(waitQueue)
    BY <1>5 DEF Wait, MInv, NoMissedSignal
  <2>3. Range(waitQueue') = Range(waitQueue) \cup {t}
    BY <1>5, <2>2, AppendFresh DEF Wait, MInv, MonitorTypeOK, NoMissedSignal
  <2>4. AbstractPhase(t)' = "asleep"
    BY <1>5, <2>1, <2>3 DEF Wait, Goto, AbstractPhase, MInv, MonitorTypeOK
  <2>5. AbstractPhases' = [AbstractPhases EXCEPT ![t] = "asleep"]
    BY <1>5, <2>3, <2>4, OneAbstractPhase DEF Wait, Goto, MInv, MonitorTypeOK
  <2>6. Holder = t /\ Holder' = NULL
    BY <2>1 DEF Holder
  <2> QED
    BY <1>5, <2>5, <2>6 DEF Wait, Atomic!Wait
<1>6. ASSUME NEW t \in Thread, WaiterP(t) PROVE UNCHANGED Atomic!vars
  <2>1. Owners' = Owners
    BY <1>6 DEF WaiterP, Goto, Owners, MInv, MonitorTypeOK
  <2>2. t \notin Range(waitQueue)
    BY <1>6 DEF WaiterP, MInv, NoMissedSignal
  <2>3. AbstractPhase(t)' = AbstractPhase(t)
    BY <1>6, <2>2 DEF WaiterP, Goto, AbstractPhase, Owners, MInv, MonitorTypeOK
  <2> QED
    BY <1>6, <2>1, <2>3, Stutters DEF WaiterP, Goto, MInv, MonitorTypeOK
<1>7. ASSUME NEW t \in Thread, phase[t] \in {"inside", "broadcast"},
             \A u \in Thread : phase'[u] = phase[u]
                               \/ (u = t /\ phase'[u] \in {"inside", "broadcast"})
      PROVE  /\ WakeOne => Atomic!Signal(t)
             /\ UNCHANGED waitQueue => UNCHANGED Atomic!vars
  <2>1. Owners = {t} /\ Owners' = {t}
    BY <1>7 DEF Owners, MInv, OneUnit
  <2>2. Holder = t /\ Holder' = t
    BY <2>1 DEF Holder
  <2>3. ASSUME WakeOne PROVE Atomic!Signal(t)
    <3>1. PICK h \in Thread :
              /\ h = Head(waitQueue) /\ h \in Range(waitQueue)
              /\ Range(waitQueue') = Range(waitQueue) \ {h}
      BY <2>3, RemoveFrontFacts DEF WakeOne, MInv, MonitorTypeOK, NoMissedSignal
    <3>2. phase[h] = "wait" /\ phase'[h] = "wait"
      BY <1>7, <3>1 DEF MInv, NoMissedSignal
    <3>3. AbstractPhase(h)' = "acquiring"
      BY <3>1, <3>2 DEF AbstractPhase, Owners
    <3>4. AbstractPhase(t)' = AbstractPhase(t)
      BY <1>7, <2>1 DEF AbstractPhase, MInv, NoMissedSignal
    <3>5. ASSUME NEW u \in Thread \ {h} PROVE AbstractPhase(u)' = AbstractPhase(u)
      BY <1>7, <2>1, <3>1, <3>4 DEF AbstractPhase
    <3>6. AbstractPhases' = [AbstractPhases EXCEPT ![h] = "acquiring"]
      BY <3>1, <3>3, <3>5
    <3> QED
      BY <2>2, <2>3, <3>1, <3>6 DEF WakeOne, Atomic!Signal
  <2>4. ASSUME UNCHANGED waitQueue PROVE UNCHANGED Atomic!vars
    <3>1. AbstractPhase(t)' = AbstractPhase(t)
      BY <1>7, <2>1, <2>4 DEF AbstractPhase, MInv, NoMissedSignal
    <3> QED
      BY <1>7, <2>1, <2>4, <3>1, Stutters
  <2> QED
    BY <2>3, <2>4
<1>8. ASSUME NEW t \in Thread, Signal(t) \/ Broadcast(t)
      PROVE  Atomic!Signal(t) \/ UNCHANGED Atomic!vars
  <2>1. phase[t] \in {"inside", "broadcast"}
    BY <1>8 DEF Signal, Broadcast
  <2>2. phase' = phase \/ phase' = [phase EXCEPT ![t] = "inside"]
                       \/ phase' = [phase EXCEPT ![t] = "broadcast"]
    BY <1>8 DEF Signal, Broadcast, Goto
  <2>3. \A u \in Thread : phase'[u] = phase[u]
                          \/ (u = t /\ phase'[u] \in {"inside", "broadcast"})
    BY <2>2 DEF MInv, MonitorTypeOK
  <2>4. WakeOne \/ UNCHANGED waitQueue
    BY <1>8 DEF Signal, Broadcast
  <2> QED
    BY <1>7, <2>1, <2>3, <2>4
<1>9. CASE UNCHANGED monitorVars
  <2>1. Owners' = Owners /\ \A t \in Thread : AbstractPhase(t)' = AbstractPhase(t)
    BY <1>9 DEF monitorVars, Owners, AbstractPhase
  <2> QED
    BY <1>9, <2>1 DEF monitorVars, Holder, Atomic!vars
<1> QED
  BY <1>1, <1>2, <1>3, <1>4, <1>5, <1>6, <1>8, <1>9 DEF MonitorNext, Progress, Atomic!Next

\* The lock and condition built from semaphores implement, for every finite
\* set of threads, the safety part of the atomic lock and condition that
\* synch.h promises.
THEOREM MonitorIsAtomic ==
    MonitorSpec => Atomic!SafeSpec
<1>1. MonitorInit => Atomic!Init
  <2> SUFFICES ASSUME MonitorInit PROVE Atomic!Init
    OBVIOUS
  <2>1. Owners = {} /\ Holder = NULL
    BY DEF MonitorInit, Owners, Holder
  <2>2. \A t \in Thread : AbstractPhase(t) = "outside"
    BY <2>1, EmptyQueue DEF MonitorInit, AbstractPhase
  <2> QED
    BY <2>1, <2>2 DEF MonitorInit, Atomic!Init
<1> QED
  BY <1>1, NextRefines, MonitorInvariant, PTL DEF MonitorSpec, Atomic!SafeSpec
==============================================================================
