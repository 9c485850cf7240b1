---------------------------- MODULE ThreadsProofs ----------------------------
(***************************************************************************)
(* Proofs about Threads, for every finite set of threads, every set of     *)
(* semaphores and every initial value.                                     *)
(***************************************************************************)
EXTENDS Threads, QueueLemmas, FiniteSetTheorems

\* The threads woken from a semaphore are finitely many, so they can be
\* counted.
LEMMA WokenFinite ==
    ASSUME NEW s \in Sem
    PROVE  IsFiniteSet(Woken(s)) /\ Cardinality(Woken(s)) \in Nat
<1>1. Woken(s) \in SUBSET Thread
  BY DEF Woken
<1> QED
  BY <1>1, ThreadAssumption, FS_Subset, FS_CardinalityType

\* A step that moves no thread in or out of P, and takes none from or to a
\* semaphore's queue, loses no wakeup: the threads woken are the same.
LEMMA WokenUnchanged ==
    ASSUME NoLostWakeup, UNCHANGED <<value, queue>>,
           \A s \in Sem : Woken(s)' = Woken(s)
    PROVE  NoLostWakeup'
  BY DEF NoLostWakeup

\* The initial state of Kernel::Initialize satisfies the invariant.
LEMMA InitIInv ==
    Init => IInv
<1> SUFFICES ASSUME Init PROVE IInv
  OBVIOUS
<1>1. TypeOK
  <2>1. readyList \in Seq(Thread)
    BY ThreadAssumption, SingletonQueue DEF Init
  <2>2. status \in [Thread -> Statuses] /\ pc \in [Thread -> Places]
    BY DEF Init, Statuses, Places
  <2>3. queue \in [Sem -> Seq(Thread)]
    BY DEF Init
  <2>4. waits \in [Thread -> Sem \cup {NULL}]
    BY DEF Init
  <2> QED
    BY <2>1, <2>2, <2>3, <2>4, ThreadAssumption DEF Init, TypeOK
<1>2. StacksAgree
  BY ThreadAssumption DEF Init, StacksAgree
<1>3. OnePlace
  BY ThreadAssumption, SingletonQueue, EmptyQueue DEF Init, OnePlace
<1>4. DestroyedSafely /\ NoLostWakeup
  BY DEF Init, DestroyedSafely, NoLostWakeup
<1> QED
  BY <1>1, <1>2, <1>3, <1>4 DEF IInv

\* Thread::Fork puts a new thread on the ready list once.
LEMMA ForkIInv ==
    ASSUME IInv, NEW t \in Thread, NEW u \in Thread, Fork(t, u)
    PROVE  IInv'
<1> USE DEF IInv
<1>1. u \notin Range(readyList) /\ u # t
  BY DEF Fork, At, OnePlace
<1>2. /\ readyList' \in Seq(Thread)
      /\ IsInjective(readyList')
      /\ Range(readyList') = Range(readyList) \cup {u}
  BY <1>1, AppendFresh DEF Fork, OnePlace, TypeOK
<1>3. TypeOK'
  BY <1>2 DEF Fork, TypeOK, Statuses, Places
<1>4. StacksAgree'
  BY <1>1 DEF Fork, At, StacksAgree, TypeOK
<1>5. OnePlace'
  BY <1>1, <1>2 DEF Fork, At, OnePlace, StacksAgree, TypeOK
<1>6. DestroyedSafely'
  BY <1>1 DEF Fork, At, DestroyedSafely, StacksAgree, TypeOK
<1>7. \A s \in Sem : Woken(s)' = Woken(s)
  BY ThreadAssumption DEF Fork, At, Woken, StacksAgree, TypeOK
<1>8. NoLostWakeup'
  BY <1>7, WokenUnchanged DEF Fork
<1> QED
  BY <1>3, <1>4, <1>5, <1>6, <1>8

\* The steps that only move the current thread along its code: Begin, the
\* end of Yield, one user instruction.
LEMMA MoveIInv ==
    ASSUME IInv, NEW t \in Thread,
           Begin(t) \/ ResumeYield(t) \/ OneInstruction(t)
    PROVE  IInv'
<1> USE DEF IInv
<1>1. /\ status[t] = "RUNNING" /\ currentThread = t
      /\ pc[t] \in {"begin", "yield", "run"}
      /\ toBeDestroyed = NULL
      /\ pc' = [pc EXCEPT ![t] = "tick"]
      /\ UNCHANGED <<currentThread, readyList, toBeDestroyed, status, waits,
                     value, queue, idle, yieldOnReturn>>
  BY DEF Begin, ResumeYield, OneInstruction, At, DestroyedSafely
<1>2. TypeOK'
  BY <1>1 DEF TypeOK, Places
<1>3. StacksAgree'
  BY <1>1 DEF StacksAgree, TypeOK
<1>4. OnePlace' /\ DestroyedSafely'
  BY <1>1 DEF OnePlace, DestroyedSafely
<1>5. NoLostWakeup'
  BY <1>1, WokenUnchanged DEF Woken
<1> QED
  BY <1>2, <1>3, <1>4, <1>5

\* Thread::Finish takes the thread off the CPU and puts it on no list.
LEMMA FinishIInv ==
    ASSUME IInv, NEW t \in Thread, Finish(t)
    PROVE  IInv'
<1> USE DEF IInv
<1>1. TypeOK'
  BY DEF Finish, TypeOK, Places, Statuses
<1>2. waits[t] = NULL
  BY DEF Finish, At, StacksAgree
<1>3. StacksAgree'
  BY <1>2 DEF Finish, At, StacksAgree, TypeOK
<1>4. OnePlace'
  BY <1>2, ThreadAssumption DEF Finish, At, OnePlace, TypeOK
<1>5. DestroyedSafely'
  BY DEF Finish, At, DestroyedSafely
<1>6. \A s \in Sem : Woken(s)' = Woken(s)
  BY <1>2, ThreadAssumption DEF Finish, Woken, TypeOK
<1>7. NoLostWakeup'
  BY <1>6, WokenUnchanged DEF Finish
<1> QED
  BY <1>1, <1>3, <1>4, <1>5, <1>7

\* Giving the CPU to the front of the ready list and going to its back keeps
\* every thread in one place.
LEMMA YieldIInv ==
    ASSUME IInv, NEW t \in Thread, Yield(t) \/ (EndTick(t) /\ yieldOnReturn)
    PROVE  IInv'
<1> USE DEF IInv
<1>1. /\ currentThread = t /\ status[t] = "RUNNING" /\ pc[t] \in {"run", "tick"}
      /\ toBeDestroyed = NULL
      /\ YieldCPU(t)
      /\ UNCHANGED <<toBeDestroyed, waits, value, queue, idle>>
      /\ yieldOnReturn' \in BOOLEAN
  BY DEF Yield, EndTick, At, DestroyedSafely, TypeOK
<1>2. waits[t] = NULL /\ ~idle
  BY <1>1 DEF StacksAgree, TypeOK
<1>3. CASE readyList = <<>>
  <2>1. /\ pc' = [pc EXCEPT ![t] = "tick"]
        /\ UNCHANGED <<readyList, currentThread, status>>
    BY <1>1, <1>3 DEF YieldCPU
  <2>2. TypeOK' /\ StacksAgree'
    BY <1>1, <2>1 DEF TypeOK, Places, StacksAgree
  <2>3. OnePlace' /\ DestroyedSafely'
    BY <1>1, <2>1 DEF OnePlace, DestroyedSafely
  <2>4. NoLostWakeup'
    BY <1>1, <2>1, WokenUnchanged DEF Woken
  <2> QED
    BY <2>2, <2>3, <2>4
<1>4. CASE readyList # <<>>
  <2> DEFINE h == Head(readyList)
             r == Tail(readyList)
  <2>1. /\ readyList' = Append(r, t)
        /\ currentThread' = h
        /\ status' = [status EXCEPT ![t] = "READY", ![h] = "RUNNING"]
        /\ pc' = [pc EXCEPT ![t] = "yield"]
    BY <1>1, <1>4 DEF YieldCPU
  <2>2. /\ h \in Thread /\ h \in Range(readyList)
        /\ r \in Seq(Thread) /\ IsInjective(r)
        /\ Range(r) = Range(readyList) \ {h}
    BY <1>4, RemoveFrontFacts DEF TypeOK, OnePlace
  <2>3. status[h] = "READY" /\ h # t /\ t \notin Range(readyList)
    BY <1>1, <2>2 DEF OnePlace
  <2>4. /\ readyList' \in Seq(Thread)
        /\ IsInjective(readyList')
        /\ Range(readyList') = (Range(readyList) \ {h}) \cup {t}
    BY <2>1, <2>2, <2>3, AppendFresh
  <2> HIDE DEF h, r
  <2>5. TypeOK'
    BY <1>1, <2>1, <2>2, <2>4 DEF TypeOK, Places, Statuses
  <2>6. StacksAgree'
    BY <1>1, <1>2, <2>1, <2>2, <2>3 DEF StacksAgree, TypeOK
  <2>7. OnePlace'
    <3>1. /\ status'[t] = "READY" /\ status'[h] = "RUNNING"
          /\ \A x \in Thread \ {t, h} : status'[x] = status[x]
      BY <2>1, <2>2, <2>3 DEF TypeOK
    <3>2. \A x \in Thread : x \in Range(readyList') <=> status'[x] = "READY"
      BY <2>3, <2>4, <3>1 DEF OnePlace
    <3>3. ASSUME NEW s \in Sem, NEW x \in Thread
          PROVE  x \in Range(queue'[s]) <=>
                     (status'[x] = "BLOCKED" /\ waits'[x] = s)
      BY <1>1, <2>3, <3>1 DEF OnePlace
    <3>4. \A x \in Thread : status'[x] = "RUNNING" => x = currentThread'
      BY <1>1, <2>1, <3>1 DEF OnePlace
    <3>5. \A s \in Sem : IsInjective(queue'[s])
      BY <1>1 DEF OnePlace
    <3> QED
      BY <2>4, <3>2, <3>3, <3>4, <3>5 DEF OnePlace
  <2>8. DestroyedSafely'
    BY <1>1 DEF DestroyedSafely
  <2>9. \A s \in Sem : Woken(s)' = Woken(s)
    BY <1>1, <2>1, <2>2, <2>3, <1>2, ThreadAssumption DEF Woken, TypeOK
  <2>10. NoLostWakeup'
    BY <1>1, <2>9, WokenUnchanged
  <2> QED
    BY <2>5, <2>6, <2>7, <2>8, <2>10
<1> QED
  BY <1>3, <1>4

\* The end of a tick without a yield.
LEMMA EndTickIInv ==
    ASSUME IInv, NEW t \in Thread, EndTick(t), ~yieldOnReturn
    PROVE  IInv'
<1> USE DEF IInv
<1>1. /\ currentThread = t /\ status[t] = "RUNNING" /\ pc[t] = "tick"
      /\ pc' = [pc EXCEPT ![t] = "run"]
      /\ yieldOnReturn' = FALSE
      /\ UNCHANGED <<currentThread, readyList, toBeDestroyed, status, waits,
                     value, queue, idle>>
  BY DEF EndTick, At
<1>2. TypeOK' /\ StacksAgree'
  BY <1>1 DEF TypeOK, Places, StacksAgree
<1>3. OnePlace' /\ DestroyedSafely'
  BY <1>1 DEF OnePlace, DestroyedSafely
<1>4. NoLostWakeup'
  BY <1>1, WokenUnchanged DEF Woken
<1> QED
  BY <1>2, <1>3, <1>4

\* Scheduler::Run from a sleeping thread: the front of the ready list gets
\* the CPU, and a finishing thread is marked for deletion.
LEMMA DispatchIInv ==
    ASSUME IInv, NEW t \in Thread, Dispatch(t)
    PROVE  IInv'
<1> USE DEF IInv
<1> DEFINE h == Head(readyList)
<1>1. /\ currentThread = t /\ status[t] # "RUNNING" /\ pc[t] \in {"P", "finish"}
      /\ ~idle /\ readyList # <<>>
      /\ currentThread' = h
      /\ readyList' = Tail(readyList)
      /\ status' = [status EXCEPT ![h] = "RUNNING"]
      /\ toBeDestroyed' = IF pc[t] = "finish" THEN t ELSE toBeDestroyed
      /\ UNCHANGED <<pc, waits, value, queue, idle, yieldOnReturn>>
  BY DEF Dispatch, Sleeping
<1>2. toBeDestroyed = NULL
  BY <1>1 DEF DestroyedSafely
<1>3. /\ h \in Thread /\ h \in Range(readyList)
      /\ readyList' \in Seq(Thread) /\ IsInjective(readyList')
      /\ Range(readyList') = Range(readyList) \ {h}
  BY <1>1, RemoveFrontFacts DEF TypeOK, OnePlace
<1>4. status[h] = "READY" /\ pc[h] \in {"begin", "yield", "P"}
  BY <1>3 DEF OnePlace, StacksAgree
<1> HIDE DEF h
<1>5. status'[h] = "RUNNING" /\ \A x \in Thread \ {h} : status'[x] = status[x]
  BY <1>1, <1>3 DEF TypeOK
<1>6. TypeOK'
  BY <1>1, <1>3 DEF TypeOK, Statuses
<1>7. StacksAgree'
  BY <1>1, <1>3, <1>4, <1>5 DEF StacksAgree
<1>8. OnePlace'
  <2>1. \A x \in Thread : x \in Range(readyList') <=> status'[x] = "READY"
    BY <1>3, <1>5 DEF OnePlace
  <2>2. ASSUME NEW s \in Sem, NEW x \in Thread
        PROVE  x \in Range(queue'[s]) <=>
                   (status'[x] = "BLOCKED" /\ waits'[x] = s)
    BY <1>1, <1>4, <1>5 DEF OnePlace
  <2>3. \A x \in Thread : status'[x] = "RUNNING" => x = currentThread'
    BY <1>1, <1>5 DEF OnePlace
  <2>4. \A s \in Sem : IsInjective(queue'[s])
    BY <1>1 DEF OnePlace
  <2> QED
    BY <1>3, <2>1, <2>2, <2>3, <2>4 DEF OnePlace
<1>9. DestroyedSafely'
  <2>1. pc[t] = "finish" => t # h
    BY <1>4
  <2> QED
    BY <1>1, <1>2, <1>4, <1>5, <2>1 DEF DestroyedSafely
<1>10. \A s \in Sem : Woken(s)' = Woken(s)
  BY <1>1, <1>3, <1>4, <1>5 DEF Woken
<1>11. NoLostWakeup'
  BY <1>1, <1>10, WokenUnchanged
<1> QED
  BY <1>6, <1>7, <1>8, <1>9, <1>11

\* Scheduler::CheckToBeDestroyed deletes a thread that is on no list.
LEMMA DestroyIInv ==
    ASSUME IInv, NEW t \in Thread, CheckToBeDestroyed(t)
    PROVE  IInv'
<1> USE DEF IInv
<1> DEFINE d == toBeDestroyed
<1>1. /\ currentThread = t /\ status[t] = "RUNNING"
      /\ status' = [status EXCEPT ![d] = "none"]
      /\ pc' = [pc EXCEPT ![d] = "none"]
      /\ toBeDestroyed' = NULL
      /\ UNCHANGED <<currentThread, readyList, waits, value, queue, idle,
                     yieldOnReturn>>
  BY DEF CheckToBeDestroyed
<1>2. /\ d \in Thread /\ d # t /\ status[d] = "BLOCKED"
      /\ pc[d] = "finish" /\ waits[d] = NULL
  BY <1>1 DEF CheckToBeDestroyed, DestroyedSafely, StacksAgree, TypeOK
<1> HIDE DEF d
<1>3. /\ status'[d] = "none" /\ pc'[d] = "none"
      /\ \A x \in Thread \ {d} : status'[x] = status[x] /\ pc'[x] = pc[x]
  BY <1>1, <1>2 DEF TypeOK
<1>4. TypeOK'
  BY <1>1, <1>2 DEF TypeOK, Statuses, Places
<1>5. StacksAgree'
  BY <1>1, <1>2, <1>3 DEF StacksAgree
<1>6. OnePlace'
  BY <1>1, <1>2, <1>3, ThreadAssumption DEF OnePlace
<1>7. DestroyedSafely'
  BY <1>1 DEF DestroyedSafely
<1>8. \A s \in Sem : Woken(s)' = Woken(s)
  BY <1>1, <1>2, <1>3, ThreadAssumption DEF Woken
<1>9. NoLostWakeup'
  BY <1>1, <1>8, WokenUnchanged
<1> QED
  BY <1>4, <1>5, <1>6, <1>7, <1>9

\* Semaphore::P, at its first test of the value or at a later one: the
\* thread is queued only when the value is zero, and takes one unit else.
LEMMA TryPIInv ==
    ASSUME IInv, NEW t \in Thread, NEW s \in Sem,
           P(t, s) \/ (ResumeP(t) /\ s = waits[t])
    PROVE  IInv'
<1> USE DEF IInv
<1>1. /\ currentThread = t /\ status[t] = "RUNNING" /\ pc[t] \in {"run", "P"}
      /\ toBeDestroyed = NULL /\ ~idle
      /\ waits[t] = NULL \/ waits[t] = s
      /\ TryP(t, s)
      /\ UNCHANGED <<currentThread, readyList, toBeDestroyed, idle,
                     yieldOnReturn>>
  BY DEF P, ResumeP, At, DestroyedSafely, StacksAgree
<1>2. CASE value[s] = 0
  <2>1. /\ queue' = [queue EXCEPT ![s] = Append(queue[s], t)]
        /\ status' = [status EXCEPT ![t] = "BLOCKED"]
        /\ pc' = [pc EXCEPT ![t] = "P"]
        /\ waits' = [waits EXCEPT ![t] = s]
        /\ UNCHANGED value
    BY <1>1, <1>2 DEF TryP
  <2>2. /\ queue'[s] \in Seq(Thread) /\ IsInjective(queue'[s])
        /\ Range(queue'[s]) = Range(queue[s]) \cup {t}
    <3>1. queue[s] \in Seq(Thread) /\ IsInjective(queue[s])
          /\ t \notin Range(queue[s])
      BY <1>1 DEF TypeOK, OnePlace
    <3>2. queue'[s] = Append(queue[s], t)
      BY <2>1 DEF TypeOK
    <3> QED
      BY <3>1, <3>2, AppendFresh
  <2>3. \A r \in Sem \ {s} : queue'[r] = queue[r]
    BY <2>1 DEF TypeOK
  <2>4. /\ status'[t] = "BLOCKED" /\ pc'[t] = "P" /\ waits'[t] = s
        /\ \A x \in Thread \ {t} : /\ status'[x] = status[x]
                                    /\ pc'[x] = pc[x]
                                    /\ waits'[x] = waits[x]
    BY <2>1 DEF TypeOK
  <2>5. TypeOK'
    <3>1. queue' \in [Sem -> Seq(Thread)]
      BY <2>1, <2>2 DEF TypeOK
    <3> QED
      BY <1>1, <2>1, <3>1 DEF TypeOK, Statuses, Places
  <2>6. StacksAgree'
    BY <1>1, <2>4, ThreadAssumption DEF StacksAgree
  <2>7. OnePlace'
    <3>1. ASSUME NEW r \in Sem, NEW x \in Thread
          PROVE  x \in Range(queue'[r]) <=>
                     (status'[x] = "BLOCKED" /\ waits'[x] = r)
      <4>1. CASE r = s
        BY <1>1, <2>2, <2>4, <4>1 DEF OnePlace
      <4>2. CASE r # s
        BY <1>1, <2>3, <2>4, <4>2 DEF OnePlace
      <4> QED
        BY <4>1, <4>2
    <3>2. \A r \in Sem : IsInjective(queue'[r])
      BY <2>2, <2>3 DEF OnePlace
    <3>3. \A x \in Thread : x \in Range(readyList') <=> status'[x] = "READY"
      BY <1>1, <2>4 DEF OnePlace
    <3>4. \A x \in Thread : status'[x] = "RUNNING" => x = currentThread'
      BY <1>1, <2>4 DEF OnePlace
    <3> QED
      BY <1>1, <3>1, <3>2, <3>3, <3>4 DEF OnePlace
  <2>8. DestroyedSafely'
    BY <1>1 DEF DestroyedSafely
  <2>9. NoLostWakeup'
    <3> SUFFICES ASSUME NEW r \in Sem, queue'[r] # <<>>
                 PROVE  value'[r] <= Cardinality(Woken(r)')
      BY DEF NoLostWakeup
    <3>1. CASE r = s
      <4>1. Woken(s)' \in SUBSET Thread
        BY DEF Woken
      <4>2. Cardinality(Woken(s)') \in Nat
        BY <4>1, ThreadAssumption, FS_Subset, FS_CardinalityType
      <4> QED
        BY <1>2, <2>1, <3>1, <4>2
    <3>2. CASE r # s
      <4>1. Woken(r)' = Woken(r)
        BY <1>1, <2>4, <3>2, ThreadAssumption DEF Woken
      <4> QED
        BY <2>1, <2>3, <3>2, <4>1 DEF NoLostWakeup
    <3> QED
      BY <3>1, <3>2
  <2> QED
    BY <2>5, <2>6, <2>7, <2>8, <2>9
<1>3. CASE value[s] > 0
  <2>1. /\ value' = [value EXCEPT ![s] = value[s] - 1]
        /\ pc' = [pc EXCEPT ![t] = "tick"]
        /\ waits' = [waits EXCEPT ![t] = NULL]
        /\ UNCHANGED <<queue, status>>
    BY <1>1, <1>3 DEF TryP
  <2>2. /\ pc'[t] = "tick" /\ waits'[t] = NULL
        /\ \A x \in Thread \ {t} : pc'[x] = pc[x] /\ waits'[x] = waits[x]
    BY <2>1 DEF TypeOK
  <2>3. /\ value[s] \in Nat /\ value'[s] = value[s] - 1
        /\ \A r \in Sem \ {s} : value'[r] = value[r]
    BY <2>1 DEF TypeOK
  <2>4. TypeOK'
    BY <1>1, <1>3, <2>1 DEF TypeOK, Places
  <2>5. StacksAgree'
    BY <1>1, <2>1, <2>2 DEF StacksAgree
  <2>6. OnePlace'
    BY <1>1, <2>1, <2>2 DEF OnePlace
  <2>7. DestroyedSafely'
    BY <1>1 DEF DestroyedSafely
  <2>8. NoLostWakeup'
    <3> SUFFICES ASSUME NEW r \in Sem, queue'[r] # <<>>
                 PROVE  value'[r] <= Cardinality(Woken(r)')
      BY DEF NoLostWakeup
    <3>1. value[r] <= Cardinality(Woken(r))
      BY <2>1 DEF NoLostWakeup
    <3>2. CASE r = s /\ waits[t] = s
      <4>1. t \in Woken(s) /\ Woken(s)' = Woken(s) \ {t}
        BY <1>1, <2>1, <2>2, <3>2, ThreadAssumption DEF Woken
      <4>2. Cardinality(Woken(s)') = Cardinality(Woken(s)) - 1
        BY <4>1, WokenFinite, FS_RemoveElement
      <4> QED
        BY <2>3, <3>1, <3>2, <4>2, WokenFinite
    <3>3. CASE r # s \/ waits[t] = NULL
      <4>1. Woken(r)' = Woken(r)
        BY <1>1, <2>1, <2>2, <3>3, ThreadAssumption DEF Woken
      <4>2. value'[r] <= value[r] /\ value'[r] \in Int /\ value[r] \in Int
        BY <2>3 DEF TypeOK
      <4> QED
        BY <3>1, <4>1, <4>2, WokenFinite
    <3> QED
      BY <1>1, <3>2, <3>3
  <2> QED
    BY <2>4, <2>5, <2>6, <2>7, <2>8
<1> QED
  BY <1>2, <1>3 DEF TypeOK

\* Semaphore::V, from a thread or from an interrupt handler: one thread is
\* woken for the one unit that is added.
LEMMA SignalIInv ==
    ASSUME IInv, NEW s \in Sem,
           \/ \E t \in Thread : V(t, s)
           \/ DeviceInterrupt(s)
    PROVE  IInv'
<1> USE DEF IInv
<1>1. /\ Signal(s)
      /\ UNCHANGED <<currentThread, toBeDestroyed, waits, idle, yieldOnReturn>>
  BY DEF V, DeviceInterrupt
<1>2. /\ pc' \in [Thread -> Places]
      /\ \A x \in Thread :
           \/ pc'[x] = pc[x]
           \/ status[x] = "RUNNING" /\ pc[x] = "run" /\ pc'[x] = "tick"
  BY DEF V, DeviceInterrupt, At, TypeOK, Places
<1>3. /\ value' = [value EXCEPT ![s] = value[s] + 1]
      /\ value[s] \in Nat /\ value'[s] = value[s] + 1
      /\ value' \in [Sem -> Nat]
      /\ \A r \in Sem \ {s} : value'[r] = value[r]
  BY <1>1 DEF Signal, TypeOK
<1>4. CASE queue[s] = <<>>
  <2>1. UNCHANGED <<readyList, status, queue>>
    BY <1>1, <1>4 DEF Signal
  <2>2. TypeOK'
    BY <1>1, <1>2, <1>3, <2>1 DEF TypeOK
  <2>3. StacksAgree'
    BY <1>1, <1>2, <2>1 DEF StacksAgree, TypeOK
  <2>4. OnePlace'
    BY <1>1, <2>1 DEF OnePlace
  <2>5. DestroyedSafely'
    <3> SUFFICES ASSUME toBeDestroyed # NULL PROVE DestroyedSafely'
      BY <1>1 DEF DestroyedSafely
    <3>1. toBeDestroyed \in Thread /\ currentThread \in Thread
      BY DEF TypeOK
    <3> QED
      BY <1>1, <1>2, <2>1, <3>1 DEF DestroyedSafely, StacksAgree
  <2>6. \A r \in Sem : Woken(r)' = Woken(r)
    BY <1>1, <2>1 DEF Woken
  <2>7. NoLostWakeup'
    BY <1>3, <1>4, <2>1, <2>6 DEF NoLostWakeup
  <2> QED
    BY <2>2, <2>3, <2>4, <2>5, <2>7
<1>5. CASE queue[s] # <<>>
  <2> DEFINE h == Head(queue[s])
  <2>1. /\ readyList' = Append(readyList, h)
        /\ status' = [status EXCEPT ![h] = "READY"]
        /\ queue' = [queue EXCEPT ![s] = Tail(queue[s])]
    BY <1>1, <1>5 DEF Signal
  <2>2. /\ h \in Thread /\ h \in Range(queue[s])
        /\ Tail(queue[s]) \in Seq(Thread) /\ IsInjective(Tail(queue[s]))
        /\ Range(Tail(queue[s])) = Range(queue[s]) \ {h}
    <3>1. queue[s] \in Seq(Thread) /\ IsInjective(queue[s])
      BY DEF TypeOK, OnePlace
    <3> QED
      BY <1>5, <3>1, RemoveFrontFacts
  <2>3. status[h] = "BLOCKED" /\ waits[h] = s /\ pc[h] = "P"
    BY <2>2, ThreadAssumption DEF OnePlace, StacksAgree
  <2> HIDE DEF h
  <2>4. /\ readyList' \in Seq(Thread) /\ IsInjective(readyList')
        /\ Range(readyList') = Range(readyList) \cup {h}
    BY <2>1, <2>2, <2>3, AppendFresh DEF TypeOK, OnePlace
  <2>5. /\ status'[h] = "READY" /\ pc'[h] = "P"
        /\ \A x \in Thread \ {h} : status'[x] = status[x]
    BY <1>2, <2>1, <2>2, <2>3 DEF TypeOK
  <2>6. /\ queue'[s] = Tail(queue[s])
        /\ \A r \in Sem \ {s} : queue'[r] = queue[r]
    BY <2>1 DEF TypeOK
  <2>7. TypeOK'
    <3>1. queue' \in [Sem -> Seq(Thread)]
      BY <2>1, <2>2 DEF TypeOK
    <3>2. status' \in [Thread -> Statuses]
      BY <2>1 DEF TypeOK, Statuses
    <3> QED
      BY <1>1, <1>2, <1>3, <2>4, <3>1, <3>2 DEF TypeOK
  <2>8. StacksAgree'
    BY <1>1, <1>2, <2>2, <2>3, <2>5 DEF StacksAgree, TypeOK
  <2>9. OnePlace'
    <3>1. ASSUME NEW r \in Sem, NEW x \in Thread
          PROVE  x \in Range(queue'[r]) <=>
                     (status'[x] = "BLOCKED" /\ waits'[x] = r)
      <4>1. CASE r = s
        BY <1>1, <2>2, <2>5, <2>6, <4>1 DEF OnePlace
      <4>2. CASE r # s
        BY <1>1, <2>3, <2>5, <2>6, <4>2 DEF OnePlace
      <4> QED
        BY <4>1, <4>2
    <3>2. \A r \in Sem : IsInjective(queue'[r])
      BY <2>2, <2>6 DEF OnePlace
    <3>3. \A x \in Thread : x \in Range(readyList') <=> status'[x] = "READY"
      BY <2>4, <2>5 DEF OnePlace
    <3>4. \A x \in Thread : status'[x] = "RUNNING" => x = currentThread'
      BY <1>1, <2>5 DEF OnePlace
    <3> QED
      BY <2>4, <3>1, <3>2, <3>3, <3>4 DEF OnePlace
  <2>10. DestroyedSafely'
    <3> SUFFICES ASSUME toBeDestroyed # NULL PROVE DestroyedSafely'
      BY <1>1 DEF DestroyedSafely
    <3>1. /\ toBeDestroyed \in Thread /\ currentThread \in Thread
          /\ h # toBeDestroyed /\ h # currentThread
      BY <2>3 DEF DestroyedSafely, TypeOK
    <3> QED
      BY <1>1, <1>2, <2>5, <3>1 DEF DestroyedSafely, StacksAgree
  <2>11. NoLostWakeup'
    <3> SUFFICES ASSUME NEW r \in Sem, queue'[r] # <<>>
                 PROVE  value'[r] <= Cardinality(Woken(r)')
      BY DEF NoLostWakeup
    <3>1. CASE r = s
      <4>1. h \notin Woken(s) /\ Woken(s)' = Woken(s) \cup {h}
        BY <1>1, <2>2, <2>3, <2>5 DEF Woken
      <4>2. Cardinality(Woken(s)') = Cardinality(Woken(s)) + 1
        BY <4>1, WokenFinite, FS_AddElement
      <4>3. value[s] <= Cardinality(Woken(s))
        BY <1>5 DEF NoLostWakeup
      <4> QED
        BY <1>3, <3>1, <4>2, <4>3, WokenFinite
    <3>2. CASE r # s
      <4>1. Woken(r)' = Woken(r)
        BY <1>1, <2>3, <2>5, <3>2 DEF Woken
      <4> QED
        BY <1>3, <2>6, <3>2, <4>1 DEF NoLostWakeup
    <3> QED
      BY <3>1, <3>2
  <2> QED
    BY <2>7, <2>8, <2>9, <2>10, <2>11
<1> QED
  BY <1>4, <1>5

\* The steps that change only the interrupt hardware's own flags.
LEMMA FlagIInv ==
    ASSUME IInv,
           TimerInterrupt \/ IdleReturn \/ \E t \in Thread : Idle(t)
    PROVE  IInv'
<1> USE DEF IInv
<1>1. /\ idle' => status[currentThread] # "RUNNING"
      /\ idle' \in BOOLEAN /\ yieldOnReturn' \in BOOLEAN
      /\ UNCHANGED <<currentThread, readyList, toBeDestroyed, status, pc,
                     waits, value, queue>>
  <2>1. CASE TimerInterrupt
    BY <2>1 DEF TimerInterrupt, TypeOK
  <2>2. CASE IdleReturn
    BY <2>2 DEF IdleReturn, TypeOK
  <2>3. ASSUME NEW t \in Thread, Idle(t)
        PROVE  /\ idle' => status[currentThread] # "RUNNING"
               /\ idle' \in BOOLEAN /\ yieldOnReturn' \in BOOLEAN
               /\ UNCHANGED <<currentThread, readyList, toBeDestroyed, status,
                              pc, waits, value, queue>>
    BY <2>3 DEF Idle, Sleeping, TypeOK
  <2> QED
    BY <2>1, <2>2, <2>3
<1>2. TypeOK' /\ StacksAgree'
  BY <1>1 DEF TypeOK, StacksAgree
<1>3. OnePlace' /\ DestroyedSafely'
  BY <1>1 DEF OnePlace, DestroyedSafely
<1>4. NoLostWakeup'
  BY <1>1, WokenUnchanged DEF Woken
<1> QED
  BY <1>2, <1>3, <1>4

\* Every step of the kernel preserves the invariant.
LEMMA NextIInv ==
    IInv /\ [Next]_vars => IInv'
<1> SUFFICES ASSUME IInv, [Next]_vars PROVE IInv'
  OBVIOUS
<1>1. ASSUME NEW t \in Thread, ThreadStep(t) PROVE IInv'
  <2>1. ASSUME NEW u \in Thread, Fork(t, u) PROVE IInv'
    BY <2>1, ForkIInv
  <2>2. CASE Begin(t) \/ ResumeYield(t) \/ OneInstruction(t)
    BY <2>2, MoveIInv
  <2>3. CASE Finish(t)
    BY <2>3, FinishIInv
  <2>4. CASE Yield(t)
    BY <2>4, YieldIInv
  <2>5. CASE EndTick(t)
    BY <2>5, YieldIInv, EndTickIInv
  <2>6. CASE Dispatch(t)
    BY <2>6, DispatchIInv
  <2>7. CASE CheckToBeDestroyed(t)
    BY <2>7, DestroyIInv
  <2>8. ASSUME NEW s \in Sem, P(t, s) PROVE IInv'
    BY <2>8, TryPIInv
  <2>9. CASE ResumeP(t)
    <3>1. waits[t] \in Sem
      BY <2>9 DEF ResumeP, At, IInv, StacksAgree, TypeOK
    <3> QED
      BY <2>9, <3>1, TryPIInv
  <2>10. ASSUME NEW s \in Sem, V(t, s) PROVE IInv'
    BY <2>10, SignalIInv
  <2>11. CASE Idle(t)
    BY <2>11, FlagIInv
  <2> QED
    BY <1>1, <2>1, <2>2, <2>3, <2>4, <2>5, <2>6, <2>7, <2>8, <2>9, <2>10,
       <2>11 DEF ThreadStep
<1>2. ASSUME NEW s \in Sem, DeviceInterrupt(s) PROVE IInv'
  BY <1>2, SignalIInv
<1>3. CASE TimerInterrupt \/ IdleReturn
  BY <1>3, FlagIInv
<1>4. CASE UNCHANGED vars
  <2>1. TypeOK' /\ StacksAgree'
    BY <1>4 DEF IInv, vars, TypeOK, StacksAgree
  <2>2. OnePlace' /\ DestroyedSafely'
    BY <1>4 DEF IInv, vars, OnePlace, DestroyedSafely
  <2>3. NoLostWakeup'
    BY <1>4 DEF IInv, vars, NoLostWakeup, Woken
  <2> QED
    BY <2>1, <2>2, <2>3 DEF IInv
<1> QED
  BY <1>1, <1>2, <1>3, <1>4 DEF Next

\* The invariant holds in every reachable state of the kernel.
THEOREM Invariant ==
    Spec => []IInv
  BY InitIInv, NextIInv, PTL DEF Spec

\* Threads, lists and semaphores keep their types.
THEOREM TypeCorrect ==
    Spec => []TypeOK
<1>1. IInv => TypeOK
  BY DEF IInv
<1> QED
  BY <1>1, Invariant, PTL

\* No thread is ever on two lists, or on one list twice, and only the
\* current thread is running.
THEOREM EveryThreadInOnePlace ==
    Spec => []OnePlace
<1>1. IInv => OnePlace
  BY DEF IInv
<1> QED
  BY <1>1, Invariant, PTL

\* The assertions of Scheduler::Run and Thread::~Thread about the thread to
\* be destroyed never fail.
THEOREM DestroyIsSafe ==
    Spec => []DestroyedSafely
<1>1. IInv => DestroyedSafely
  BY DEF IInv
<1> QED
  BY <1>1, Invariant, PTL

\* Semaphore::P and V lose no wakeup.
THEOREM WakeupsAreKept ==
    Spec => []NoLostWakeup
<1>1. IInv => NoLostWakeup
  BY DEF IInv
<1> QED
  BY <1>1, Invariant, PTL

\* A finished thread never gets the CPU back.
THEOREM FinishIsForGood ==
    Spec => FinishedStaysFinished
<1> DEFINE A == \A t \in Thread : pc[t] = "finish" =>
                  \/ pc'[t] = "finish" /\ status'[t] = "BLOCKED"
                  \/ pc'[t] = "none" /\ currentThread # t
<1>1. IInv /\ [Next]_vars => [A]_vars
  <2> SUFFICES ASSUME IInv, Next, NEW t \in Thread, pc[t] = "finish"
               PROVE  \/ pc'[t] = "finish" /\ status'[t] = "BLOCKED"
                      \/ pc'[t] = "none" /\ currentThread # t
    OBVIOUS
  <2>1. status[t] = "BLOCKED" /\ waits[t] = NULL
    BY DEF IInv, StacksAgree
  <2>2. IInv'
    BY NextIInv
  <2>3. pc'[t] = "finish" => status'[t] = "BLOCKED"
    BY <2>2 DEF IInv, StacksAgree
  <2>4. ASSUME pc'[t] # pc[t] PROVE pc'[t] = "none" /\ currentThread # t
    <3>1. ASSUME NEW u \in Thread, ThreadStep(u)
          PROVE  CheckToBeDestroyed(u) /\ t = toBeDestroyed
      <4>1. ASSUME NEW v \in Thread, Fork(u, v) PROVE FALSE
        BY <2>1, <2>4, <4>1 DEF Fork, At, IInv, TypeOK
      <4>2. ASSUME NEW s \in Sem, P(u, s) \/ V(u, s) PROVE FALSE
        BY <2>1, <2>4, <4>2 DEF P, TryP, V, At, IInv, TypeOK
      <4>3. CASE Begin(u) \/ Finish(u) \/ Yield(u) \/ ResumeYield(u)
                 \/ OneInstruction(u) \/ EndTick(u)
        BY <2>1, <2>4, <4>3
           DEF Begin, Finish, Yield, ResumeYield, OneInstruction, EndTick,
               YieldCPU, At, IInv, TypeOK
      <4>4. CASE Dispatch(u) \/ Idle(u)
        BY <2>4, <4>4 DEF Dispatch, Idle
      <4>5. CASE ResumeP(u)
        BY <2>1, <2>4, <4>5 DEF ResumeP, TryP, At, IInv, TypeOK
      <4>6. CASE CheckToBeDestroyed(u)
        BY <2>4, <4>6 DEF CheckToBeDestroyed, IInv, TypeOK
      <4> QED
        BY <3>1, <4>1, <4>2, <4>3, <4>4, <4>5, <4>6 DEF ThreadStep
    <3>2. ~(TimerInterrupt \/ IdleReturn \/ \E s \in Sem : DeviceInterrupt(s))
      BY <2>4 DEF TimerInterrupt, IdleReturn, DeviceInterrupt
    <3>3. PICK u \in Thread : CheckToBeDestroyed(u) /\ t = toBeDestroyed
      BY <3>1, <3>2 DEF Next
    <3> QED
      BY <3>3 DEF CheckToBeDestroyed, IInv, DestroyedSafely, TypeOK
  <2> QED
    BY <2>3, <2>4
<1> QED
  BY <1>1, Invariant, PTL DEF Spec, FinishedStaysFinished

\* The kernel's P and V, with their queues, the ready list and preemption,
\* implement the safety part of the counting semaphores they promise to be.
THEOREM SafeRefinement ==
    Spec => Semaphores!SafeSpec
<1>1. Init => Semaphores!Init
  BY DEF Init, Semaphores!Init
<1>2. IInv /\ [Next]_vars => [Semaphores!Next]_(Semaphores!vars)
  <2> SUFFICES ASSUME IInv, [Next]_vars
               PROVE  Semaphores!Next \/ UNCHANGED <<value, waits>>
    BY DEF Semaphores!vars
  <2>1. ASSUME NEW s \in Sem, Signal(s), UNCHANGED waits
        PROVE  Semaphores!Next
    BY <2>1 DEF Signal, Semaphores!Next, Semaphores!V
  <2>2. ASSUME NEW t \in Thread, NEW s \in Sem, P(t, s)
        PROVE  Semaphores!Next
    <3>1. waits[t] = NULL
      BY <2>2 DEF P, At, IInv, StacksAgree
    <3>2. CASE value[s] = 0
      BY <2>2, <3>1, <3>2
         DEF P, TryP, Semaphores!Next, Semaphores!Block
    <3>3. CASE value[s] > 0
      <4>1. waits' = waits
        BY <2>2, <3>1, <3>3 DEF P, TryP, IInv, TypeOK
      <4> QED
        BY <2>2, <3>3, <4>1 DEF P, TryP, Semaphores!Next, Semaphores!Pass
    <3> QED
      BY <2>2, <3>2, <3>3 DEF P, TryP
  <2>3. ASSUME NEW t \in Thread, ResumeP(t)
        PROVE  Semaphores!Next \/ UNCHANGED <<value, waits>>
    <3>1. waits[t] \in Sem
      BY <2>3 DEF ResumeP, At, IInv, StacksAgree, TypeOK
    <3>2. CASE value[waits[t]] = 0
      BY <2>3, <3>1, <3>2 DEF ResumeP, TryP, IInv, TypeOK
    <3>3. CASE value[waits[t]] > 0
      BY <2>3, <3>1, <3>3
         DEF ResumeP, TryP, Semaphores!Next, Semaphores!Unblock
    <3> QED
      BY <2>3, <3>2, <3>3 DEF ResumeP, TryP
  <2>4. ASSUME NEW t \in Thread, ThreadStep(t)
        PROVE  Semaphores!Next \/ UNCHANGED <<value, waits>>
    <3>1. ASSUME NEW s \in Sem, V(t, s) PROVE Semaphores!Next
      BY <2>1, <3>1 DEF V
    <3>2. ASSUME NEW u \in Thread, Fork(t, u) PROVE UNCHANGED <<value, waits>>
      BY <3>2 DEF Fork
    <3>3. CASE Begin(t) \/ Finish(t) \/ Yield(t) \/ ResumeYield(t)
               \/ OneInstruction(t) \/ Dispatch(t) \/ CheckToBeDestroyed(t)
               \/ EndTick(t) \/ Idle(t)
      BY <3>3 DEF Begin, Finish, Yield, ResumeYield, OneInstruction, Dispatch,
                  CheckToBeDestroyed, EndTick, Idle
    <3> QED
      BY <2>2, <2>3, <2>4, <3>1, <3>2, <3>3 DEF ThreadStep
  <2>5. ASSUME NEW s \in Sem, DeviceInterrupt(s) PROVE Semaphores!Next
    BY <2>1, <2>5 DEF DeviceInterrupt
  <2>6. CASE TimerInterrupt \/ IdleReturn \/ UNCHANGED vars
    BY <2>6 DEF TimerInterrupt, IdleReturn, vars
  <2> QED
    BY <2>4, <2>5, <2>6 DEF Next
<1> QED
  BY <1>1, <1>2, Invariant, PTL DEF Spec, Semaphores!SafeSpec

==============================================================================
