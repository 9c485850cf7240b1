------------------------------ MODULE SynchList ------------------------------
(***************************************************************************)
(* SynchList<T> (threads/synchlist.cc): a list protected by a lock, with a *)
(* condition on which RemoveFront waits while the list is empty.  It is    *)
(* composed with the lock and condition of module Monitor: each thread     *)
(* runs one SynchList operation at a time, whose calls of Acquire, Wait,   *)
(* Signal and Release are Monitor's steps.                                 *)
(***************************************************************************)
EXTENDS Monitor

CONSTANTS
    Item,     \* the things that can be put on the list
    MaxApply  \* bound on the number of Apply calls: without one, a thread
              \* that keeps calling it may take the lock every time
              \* (Semaphore::P is not first come, first served)

ASSUME ListAssumption ==
    /\ NULL \notin Item /\ MaxApply \in Nat
    /\ NULL \notin {"Append", "RemoveFront", "Apply", "return"}

VARIABLES
    list,    \* SynchList::list
    call,    \* the operation each thread is in, "return" once its body is
             \* done and only Release is left, NULL when it is in none
    item,    \* the operation's argument
    got,     \* the item the thread's last RemoveFront took
    applies  \* how many times Apply has been called

listVars == <<list, call, item, got, applies>>
vars == <<monitorVars, listVars>>

Calls == {"Append", "RemoveFront", "Apply", "return", NULL}

\* The types of the list and of what each thread is calling with.
TypeOK ==
    /\ MonitorTypeOK
    /\ list \in Seq(Item)
    /\ call \in [Thread -> Calls]
    /\ item \in [Thread -> Item \cup {NULL}]
    /\ got \in [Thread -> Item \cup {NULL}]
    /\ applies \in 0..MaxApply

Init ==
    /\ MonitorInit
    /\ list = <<>>
    /\ call = [t \in Thread |-> NULL]
    /\ item = [t \in Thread |-> NULL]
    /\ got = [t \in Thread |-> NULL]
    /\ applies = 0

-----------------------------------------------------------------------------
\* A caller of Append owns the item until it is on the list (List::Append
\* asserts it is not on it already).
CallAppend(t, x) ==
    /\ x \notin Range(list) /\ x \notin Range(item)
    /\ Enter(t)
    /\ call' = [call EXCEPT ![t] = "Append"]
    /\ item' = [item EXCEPT ![t] = x]
    /\ UNCHANGED <<list, got, applies>>

CallRemoveFront(t) ==
    /\ Enter(t)
    /\ call' = [call EXCEPT ![t] = "RemoveFront"]
    /\ UNCHANGED <<list, item, got, applies>>

CallApply(t) ==
    /\ applies < MaxApply
    /\ Enter(t)
    /\ applies' = applies + 1
    /\ call' = [call EXCEPT ![t] = "Apply"]
    /\ UNCHANGED <<list, item, got>>

\* Mutant of DoAppend: no Signal.
DoAppendSilently(t) ==
    /\ call[t] = "Append"
    /\ phase[t] = "inside"
    /\ list' = Append(list, item[t])
    /\ item' = [item EXCEPT ![t] = NULL]
    /\ call' = [call EXCEPT ![t] = "return"]
    /\ UNCHANGED <<monitorVars, got, applies>>

\* Append between Acquire and Release: list->Append and Signal.
DoAppend(t) ==
    /\ call[t] = "Append"
    /\ Signal(t)
    /\ list' = Append(list, item[t])
    /\ item' = [item EXCEPT ![t] = NULL]
    /\ call' = [call EXCEPT ![t] = "return"]
    /\ UNCHANGED <<got, applies>>

\* RemoveFront finds the list empty and waits; it tests again on return.
DoWait(t) ==
    /\ call[t] = "RemoveFront"
    /\ list = <<>>
    /\ Wait(t)
    /\ UNCHANGED listVars

\* RemoveFront takes the front item and releases the lock; there is no point
\* between the two where the CPU can go to another thread.
DoRemoveFront(t) ==
    /\ call[t] = "RemoveFront"
    /\ list # <<>>
    /\ Release(t)
    /\ list' = Tail(list)
    /\ got' = [got EXCEPT ![t] = Head(list)]
    /\ call' = [call EXCEPT ![t] = NULL]
    /\ UNCHANGED <<item, applies>>

\* The Release at the end of Append, and Apply, which only reads the list.
Return(t) ==
    /\ call[t] \in {"return", "Apply"}
    /\ Release(t)
    /\ call' = [call EXCEPT ![t] = NULL]
    /\ UNCHANGED <<list, item, got, applies>>

LockStep(t) == (AcquireP(t) \/ ReacquireP(t)) /\ UNCHANGED listVars

OwnStep(t) ==
    \/ (SetHolder(t) \/ WaiterP(t) \/ EndWait(t)) /\ UNCHANGED listVars
    \/ DoAppend(t) \/ DoWait(t) \/ DoRemoveFront(t) \/ Return(t)

Next ==
    \E t \in Thread :
        \/ \E x \in Item : CallAppend(t, x)
        \/ CallRemoveFront(t) \/ CallApply(t)
        \/ LockStep(t) \/ OwnStep(t)

\* An operation that was called is run to its end; a free lock is taken by
\* some thread that wants it.
Fairness ==
    /\ WF_vars(\E t \in Thread : LockStep(t))
    /\ \A t \in Thread : WF_vars(OwnStep(t))

Spec == Init /\ [][Next]_vars /\ Fairness

-----------------------------------------------------------------------------
(* Properties                                                              *)

\* Threads in RemoveFront that will still look at the list without being
\* signalled again.
Alerted ==
    {t \in Thread : /\ call[t] = "RemoveFront"
                    /\ \/ phase[t] \in {"reacquire", "reacquired", "inside"}
                       \/ phase[t] = "wait" /\ t \notin Range(waitQueue)}

\* No consumer sleeps over an item: while threads wait on the condition,
\* there is for each item on the list a thread that has been signalled and
\* has not yet looked.  One Signal per Append is enough because a waiter
\* looks at the list again, under the lock, each time Wait returns.
NoItemOverlooked ==
    waitQueue # <<>> => Len(list) <= Cardinality(Alerted)

Fifo == INSTANCE FifoQueue
          WITH items <- list,
               asking <- {t \in Thread : call[t] = "RemoveFront"}

\* A SynchList is a FIFO queue with atomic operations, and a RemoveFront
\* does not wait for ever while there are items.
ImplementsFifo == Fifo!Spec
==============================================================================
