--------------------------- MODULE SynchListProofs ---------------------------
(***************************************************************************)
(* Proofs about SynchList, for every finite set of threads and every set   *)
(* of items: what Monitor's proofs say of its lock and condition, that no  *)
(* waiting consumer is overlooked, and that the list is a FIFO queue.      *)
(***************************************************************************)
EXTENDS SynchList, MonitorProofs

\* Every step of an operation is a step of the lock and condition or leaves
\* them alone.
LEMMA StepIsMonitorStep ==
    [Next]_vars => [MonitorNext]_monitorVars
<1> SUFFICES ASSUME [Next]_vars PROVE MonitorNext \/ UNCHANGED monitorVars
  OBVIOUS
<1>1. ASSUME NEW t \in Thread, \/ \E x \in Item : CallAppend(t, x)
                               \/ CallRemoveFront(t) \/ CallApply(t)
      PROVE  MonitorNext
  BY <1>1 DEF CallAppend, CallRemoveFront, CallApply, MonitorNext
<1>2. ASSUME NEW t \in Thread, LockStep(t) PROVE MonitorNext
  BY <1>2 DEF LockStep, MonitorNext, Progress
<1>3. ASSUME NEW t \in Thread, OwnStep(t) PROVE MonitorNext
  BY <1>3 DEF OwnStep, DoAppend, DoWait, DoRemoveFront, Return, MonitorNext, Progress
<1>4. CASE UNCHANGED vars
  BY <1>4 DEF vars
<1> QED
  BY <1>1, <1>2, <1>3, <1>4 DEF Next

\* The clients of a SynchList use its lock and condition as Monitor's clients
\* may, so that everything proved of Monitor holds of them.
THEOREM ListUsesMonitor ==
    Spec => MonitorSpec
<1>1. Init => MonitorInit
  BY DEF Init
<1> QED
  BY <1>1, StepIsMonitorStep, PTL DEF Spec, MonitorSpec

\* What the phases of the lock say about the operation a thread is in.
CallsAgree ==
    \A t \in Thread :
        /\ phase[t] = "outside" => call[t] = NULL
        /\ phase[t] \in {"wait", "reacquire", "reacquired"} => call[t] = "RemoveFront"
        /\ call[t] = "Append" => item[t] \in Item

\* The inductive invariant: a thread that Signal wakes is in RemoveFront, and
\* so will look at the list.
LInv == MInv /\ TypeOK /\ CallsAgree /\ NoItemOverlooked

\* The alerted threads can be counted.
LEMMA AlertedFinite ==
    IsFiniteSet(Alerted) /\ Cardinality(Alerted) \in Nat
<1>1. Alerted \subseteq Thread
  BY DEF Alerted
<1> QED
  BY <1>1, MonitorAssumption, FS_Subset, FS_CardinalityType

\* A step after which at least the same threads are alerted, and which leaves
\* the list and the queue alone, overlooks no item.
LEMMA MoreAlerted ==
    ASSUME TypeOK, NoItemOverlooked, UNCHANGED <<list, waitQueue>>,
           Alerted \subseteq Alerted'
    PROVE  NoItemOverlooked'
<1>1. Alerted' \subseteq Thread
  BY DEF Alerted
<1>2. IsFiniteSet(Alerted') /\ Cardinality(Alerted') \in Nat
  BY <1>1, MonitorAssumption, FS_Subset, FS_CardinalityType
<1>3. Cardinality(Alerted) <= Cardinality(Alerted')
  BY <1>2, FS_Subset
<1>4. Len(list) \in Nat
  BY DEF TypeOK
<1> QED
  BY <1>2, <1>3, <1>4, AlertedFinite DEF NoItemOverlooked

\* The list, new and empty, satisfies the invariant.
LEMMA InitLInv ==
    Init => LInv
<1> SUFFICES ASSUME Init PROVE LInv
  OBVIOUS
<1>1. MInv
  BY InitMInv DEF Init
<1>2. TypeOK
  BY <1>1, ListAssumption DEF Init, TypeOK, MInv, Calls
<1>3. CallsAgree
  BY ListAssumption DEF Init, MonitorInit, CallsAgree
<1>4. NoItemOverlooked
  BY DEF Init, MonitorInit, NoItemOverlooked
<1> QED
  BY <1>1, <1>2, <1>3, <1>4 DEF LInv

\* An operation is called.
LEMMA CallLInv ==
    ASSUME LInv, MInv', NEW t \in Thread,
           \/ \E x \in Item : CallAppend(t, x)
           \/ CallRemoveFront(t) \/ CallApply(t)
    PROVE  LInv'
<1>1. /\ phase[t] = "outside" /\ phase' = [phase EXCEPT ![t] = "acquire"]
      /\ UNCHANGED <<lock, lockHolder, waitQueue, waiter, list, got>>
      /\ \E c \in {"Append", "RemoveFront", "Apply"} : call' = [call EXCEPT ![t] = c]
  BY DEF CallAppend, CallRemoveFront, CallApply, Enter, Goto
<1>2. TypeOK'
  <2>1. item' \in [Thread -> Item \cup {NULL}] /\ applies' \in 0..MaxApply
    BY ListAssumption DEF CallAppend, CallRemoveFront, CallApply, LInv, TypeOK
  <2> QED
    BY <1>1, <2>1 DEF LInv, MInv, TypeOK, Calls
<1>3. CallsAgree'
  <2>1. \A u \in Thread \ {t} : call'[u] = call[u] /\ item'[u] = item[u]
    BY DEF CallAppend, CallRemoveFront, CallApply, LInv, TypeOK
  <2>2. call'[t] = "Append" => item'[t] \in Item
    BY DEF CallAppend, CallRemoveFront, CallApply, LInv, TypeOK
  <2> QED
    BY <1>1, <2>1, <2>2 DEF LInv, CallsAgree, TypeOK, MonitorTypeOK
<1>4. Alerted \subseteq Alerted'
  BY <1>1 DEF Alerted, LInv, TypeOK, MonitorTypeOK
<1>5. NoItemOverlooked'
  BY <1>1, <1>4, MoreAlerted DEF LInv
<1> QED
  BY <1>2, <1>3, <1>5 DEF LInv

\* The steps inside Acquire and Wait: they leave the operations alone.
LEMMA LockLInv ==
    ASSUME LInv, MInv', NEW t \in Thread, UNCHANGED listVars,
           Progress(t)
    PROVE  LInv'
<1> USE DEF Progress, AcquireP, ReacquireP, SetHolder, WaiterP, EndWait, Goto
<1>1. TypeOK'
  BY DEF LInv, MInv, TypeOK, listVars
<1>2. CallsAgree'
  BY DEF LInv, CallsAgree, listVars, TypeOK, MonitorTypeOK
<1>3. WaiterP(t) => t \notin Range(waitQueue)
  BY DEF LInv, MInv, NoMissedSignal
<1>4. UNCHANGED <<list, waitQueue, call>>
  BY DEF listVars
<1>5. Alerted \subseteq Alerted'
  BY <1>3, <1>4 DEF Alerted, LInv, TypeOK, MonitorTypeOK
<1>6. NoItemOverlooked'
  BY <1>4, <1>5, MoreAlerted DEF LInv
<1> QED
  BY <1>1, <1>2, <1>6 DEF LInv

\* Append puts one item more on the list and alerts one thread more.
LEMMA AppendLInv ==
    ASSUME LInv, MInv', NEW t \in Thread, DoAppend(t)
    PROVE  LInv'
<1>1. /\ call[t] = "Append" /\ phase[t] = "inside" /\ phase' = phase
      /\ list' = Append(list, item[t]) /\ item[t] \in Item
      /\ item' = [item EXCEPT ![t] = NULL]
      /\ call' = [call EXCEPT ![t] = "return"]
      /\ UNCHANGED <<got, applies>>
  BY DEF DoAppend, Signal, LInv, CallsAgree
<1>2. TypeOK'
  BY <1>1 DEF LInv, MInv, TypeOK, Calls
<1>3. CallsAgree'
  BY <1>1 DEF LInv, CallsAgree, TypeOK, MonitorTypeOK
<1>4. ASSUME WakeOne PROVE NoItemOverlooked'
  <2>1. PICK h \in Thread : /\ h \in Range(waitQueue)
                            /\ Range(waitQueue') = Range(waitQueue) \ {h}
    BY <1>4, RemoveFrontFacts DEF WakeOne, LInv, MInv, MonitorTypeOK, NoMissedSignal
  <2>2. phase[h] = "wait" /\ call[h] = "RemoveFront" /\ h \notin Alerted
    BY <2>1 DEF LInv, MInv, NoMissedSignal, CallsAgree, Alerted
  <2>3. Alerted' = Alerted \cup {h}
    BY <1>1, <2>1, <2>2 DEF Alerted, LInv, TypeOK
  <2>4. Cardinality(Alerted') = Cardinality(Alerted) + 1
    BY <2>2, <2>3, AlertedFinite, FS_AddElement
  <2>5. waitQueue # <<>>
    BY <1>4 DEF WakeOne
  <2>6. Len(list) <= Cardinality(Alerted)
    BY <2>5 DEF LInv, NoItemOverlooked
  <2>7. Len(list') = Len(list) + 1 /\ Len(list) \in Nat
    BY <1>1 DEF LInv, TypeOK
  <2> QED
    BY <2>4, <2>6, <2>7, AlertedFinite DEF NoItemOverlooked
<1>5. ASSUME waitQueue = <<>>, UNCHANGED waitQueue PROVE NoItemOverlooked'
  BY <1>5 DEF NoItemOverlooked
<1> QED
  BY <1>2, <1>3, <1>4, <1>5 DEF LInv, DoAppend, Signal

\* RemoveFront waits only while it sees the list empty.
LEMMA WaitLInv ==
    ASSUME LInv, MInv', NEW t \in Thread, DoWait(t)
    PROVE  LInv'
<1>1. /\ call[t] = "RemoveFront" /\ list = <<>> /\ UNCHANGED listVars
      /\ phase' = [phase EXCEPT ![t] = "wait"]
  BY DEF DoWait, Wait, Goto
<1>2. TypeOK'
  BY <1>1 DEF LInv, MInv, TypeOK, listVars
<1>3. CallsAgree'
  BY <1>1 DEF LInv, CallsAgree, listVars, TypeOK, MonitorTypeOK
<1>4. NoItemOverlooked'
  <2>1. Alerted' \subseteq Thread
    BY DEF Alerted
  <2>2. Cardinality(Alerted') \in Nat
    BY <2>1, MonitorAssumption, FS_Subset, FS_CardinalityType
  <2>3. Len(list') = 0
    BY <1>1 DEF listVars
  <2> QED
    BY <2>2, <2>3 DEF NoItemOverlooked
<1> QED
  BY <1>2, <1>3, <1>4 DEF LInv

\* RemoveFront takes one item, and one thread that was alerted is done.
LEMMA RemoveFrontLInv ==
    ASSUME LInv, MInv', NEW t \in Thread, DoRemoveFront(t)
    PROVE  LInv'
<1>1. /\ call[t] = "RemoveFront" /\ list # <<>> /\ phase[t] = "inside"
      /\ phase' = [phase EXCEPT ![t] = "outside"]
      /\ list' = Tail(list) /\ got' = [got EXCEPT ![t] = Head(list)]
      /\ call' = [call EXCEPT ![t] = NULL]
      /\ UNCHANGED <<item, applies, waitQueue>>
  BY DEF DoRemoveFront, Release, Goto
<1>2. Head(list) \in Item /\ Tail(list) \in Seq(Item)
      /\ Len(list) \in Nat /\ Len(Tail(list)) = Len(list) - 1
  BY <1>1 DEF LInv, TypeOK
<1>3. TypeOK'
  BY <1>1, <1>2 DEF LInv, MInv, TypeOK, Calls
<1>4. CallsAgree'
  BY <1>1, ListAssumption DEF LInv, CallsAgree, TypeOK, MonitorTypeOK
<1>5. t \in Alerted
  BY <1>1 DEF Alerted
<1>6. Alerted' = Alerted \ {t}
  BY <1>1, ListAssumption DEF Alerted, LInv, TypeOK, MonitorTypeOK
<1>7. Cardinality(Alerted') = Cardinality(Alerted) - 1
  BY <1>5, <1>6, AlertedFinite, FS_RemoveElement
<1>8. NoItemOverlooked'
  BY <1>1, <1>2, <1>7, AlertedFinite DEF NoItemOverlooked, LInv
<1> QED
  BY <1>3, <1>4, <1>8 DEF LInv

\* The end of Append and of Apply.
LEMMA ReturnLInv ==
    ASSUME LInv, MInv', NEW t \in Thread, Return(t)
    PROVE  LInv'
<1>1. /\ call[t] \in {"return", "Apply"} /\ phase[t] = "inside"
      /\ phase' = [phase EXCEPT ![t] = "outside"]
      /\ call' = [call EXCEPT ![t] = NULL]
      /\ UNCHANGED <<list, item, got, applies, waitQueue>>
  BY DEF Return, Release, Goto
<1>2. TypeOK'
  BY <1>1 DEF LInv, MInv, TypeOK, Calls
<1>3. CallsAgree'
  BY <1>1, ListAssumption DEF LInv, CallsAgree, TypeOK, MonitorTypeOK
<1>4. Alerted \subseteq Alerted'
  BY <1>1 DEF Alerted, LInv, TypeOK, MonitorTypeOK
<1>5. NoItemOverlooked'
  BY <1>1, <1>4, MoreAlerted DEF LInv
<1> QED
  BY <1>2, <1>3, <1>5 DEF LInv

\* Every step of an operation, and every stuttering step, keeps the invariant.
LEMMA NextLInv ==
    LInv /\ [Next]_vars => LInv'
<1> SUFFICES ASSUME LInv, [Next]_vars PROVE LInv'
  OBVIOUS
<1>1. MInv'
  BY StepIsMonitorStep, NextMInv DEF LInv
<1>2. ASSUME NEW t \in Thread, \/ \E x \in Item : CallAppend(t, x)
                               \/ CallRemoveFront(t) \/ CallApply(t)
      PROVE  LInv'
  BY <1>1, <1>2, CallLInv
<1>3. ASSUME NEW t \in Thread, LockStep(t) PROVE LInv'
  BY <1>1, <1>3, LockLInv DEF LockStep, Progress
<1>4. ASSUME NEW t \in Thread, OwnStep(t) PROVE LInv'
  BY <1>1, <1>4, LockLInv, AppendLInv, WaitLInv, RemoveFrontLInv, ReturnLInv
     DEF OwnStep, Progress
<1>5. CASE UNCHANGED vars
  <2>1. TypeOK' /\ CallsAgree'
    BY <1>1, <1>5 DEF vars, listVars, LInv, MInv, TypeOK, CallsAgree, monitorVars
  <2>2. NoItemOverlooked'
    BY <1>5 DEF vars, listVars, monitorVars, LInv, NoItemOverlooked, Alerted
  <2> QED
    BY <1>1, <2>1, <2>2 DEF LInv
<1> QED
  BY <1>2, <1>3, <1>4, <1>5 DEF Next

\* The invariant holds in every reachable state of a SynchList.
THEOREM ListInvariant ==
    Spec => []LInv
  BY InitLInv, NextLInv, PTL DEF Spec

\* No RemoveFront sleeps over an item: one Signal per Append is enough.
THEOREM ItemsAreSeen ==
    Spec => []NoItemOverlooked
<1>1. LInv => NoItemOverlooked
  BY DEF LInv
<1> QED
  BY <1>1, ListInvariant, PTL

-----------------------------------------------------------------------------
(* The refinement                                                          *)

Asking == {t \in Thread : call[t] = "RemoveFront"}

\* Each step is an atomic operation of the queue, or changes nothing that the
\* queue shows.
LEMMA ListStepRefines ==
    LInv /\ [Next]_vars => [Fifo!Next]_(Fifo!vars)
<1> SUFFICES ASSUME LInv, [Next]_vars PROVE Fifo!Next \/ UNCHANGED Fifo!vars
  OBVIOUS
<1> USE DEF Asking
<1>0. call \in [Thread -> Calls]
  BY DEF LInv, TypeOK
<1>1. ASSUME NEW t \in Thread, NEW x \in Item, CallAppend(t, x)
      PROVE  UNCHANGED Fifo!vars
  <2>1. call[t] = NULL
    BY <1>1 DEF CallAppend, Enter, LInv, CallsAgree
  <2>2. Asking' = Asking
    BY <1>0, <1>1, <2>1, ListAssumption DEF CallAppend
  <2> QED
    BY <1>1, <2>2 DEF CallAppend, Fifo!vars
<1>2. ASSUME NEW t \in Thread, CallRemoveFront(t) PROVE Fifo!Ask(t)
  <2>1. call[t] = NULL
    BY <1>2 DEF CallRemoveFront, Enter, LInv, CallsAgree
  <2>2. t \notin Asking /\ Asking' = Asking \cup {t}
    BY <1>0, <1>2, <2>1, ListAssumption DEF CallRemoveFront
  <2> QED
    BY <1>2, <2>2 DEF CallRemoveFront, Fifo!Ask
<1>3. ASSUME NEW t \in Thread, CallApply(t) PROVE UNCHANGED Fifo!vars
  <2>1. call[t] = NULL
    BY <1>3 DEF CallApply, Enter, LInv, CallsAgree
  <2>2. Asking' = Asking
    BY <1>0, <1>3, <2>1, ListAssumption DEF CallApply
  <2> QED
    BY <1>3, <2>2 DEF CallApply, Fifo!vars
<1>4. ASSUME UNCHANGED listVars PROVE UNCHANGED Fifo!vars
  BY <1>4 DEF listVars, Fifo!vars
<1>5. ASSUME NEW t \in Thread, DoAppend(t) PROVE Fifo!AppendItem(item[t])
  <2>1. Asking' = Asking
    BY <1>0, <1>5 DEF DoAppend
  <2> QED
    BY <1>5, <2>1 DEF DoAppend, Fifo!AppendItem
<1>6. ASSUME NEW t \in Thread, DoAppend(t) PROVE item[t] \in Item
  BY <1>6 DEF DoAppend, LInv, CallsAgree
<1>7. ASSUME NEW t \in Thread, DoRemoveFront(t) PROVE Fifo!Take(t)
  <2>1. t \in Asking /\ Asking' = Asking \ {t}
    BY <1>0, <1>7, ListAssumption DEF DoRemoveFront
  <2> QED
    BY <1>7, <2>1 DEF DoRemoveFront, Fifo!Take
<1>8. ASSUME NEW t \in Thread, Return(t) PROVE UNCHANGED Fifo!vars
  <2>1. Asking' = Asking
    BY <1>0, <1>8, ListAssumption DEF Return
  <2> QED
    BY <1>8, <2>1 DEF Return, Fifo!vars
<1>9. ASSUME NEW t \in Thread, LockStep(t) \/ OwnStep(t)
      PROVE  Fifo!Next \/ UNCHANGED Fifo!vars
  <2>1. CASE UNCHANGED listVars
    BY <1>4, <2>1
  <2>2. CASE DoAppend(t)
    BY <1>5, <1>6, <2>2 DEF Fifo!Next
  <2>3. CASE DoRemoveFront(t)
    BY <1>7, <2>3 DEF Fifo!Next
  <2>4. CASE Return(t)
    BY <1>8, <2>4
  <2> QED
    BY <1>9, <2>1, <2>2, <2>3, <2>4 DEF LockStep, OwnStep, DoWait
<1>10. CASE UNCHANGED vars
  BY <1>4, <1>10 DEF vars
<1> QED
  BY <1>1, <1>2, <1>3, <1>9, <1>10 DEF Next, Fifo!Next

\* A SynchList is, for every finite set of threads and every set of items, a
\* FIFO queue with atomic operations, as synchlist.h promises (the safety
\* part of FifoQueue).
THEOREM ListIsFifo ==
    Spec => Fifo!SafeSpec
<1>1. Init => Fifo!Init
  BY ListAssumption DEF Init, Fifo!Init
<1> QED
  BY <1>1, ListStepRefines, ListInvariant, PTL DEF Spec, Fifo!SafeSpec
==============================================================================
