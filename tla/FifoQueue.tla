------------------------------ MODULE FifoQueue ------------------------------
(***************************************************************************)
(* What threads/synchlist.h promises of a SynchList: a queue shared by     *)
(* threads, on which Append and RemoveFront are atomic, RemoveFront waits  *)
(* while the queue is empty, and items come out in the order they went in. *)
(***************************************************************************)
EXTENDS Sequences

CONSTANTS Thread, Item, NULL

VARIABLES
    items,   \* the queue
    asking,  \* the threads inside a RemoveFront that has not taken an item
    got      \* the item each thread's last RemoveFront took

vars == <<items, asking, got>>

Init ==
    /\ items = <<>>
    /\ asking = {}
    /\ got = [t \in Thread |-> NULL]

AppendItem(x) ==
    /\ items' = Append(items, x)
    /\ UNCHANGED <<asking, got>>

Ask(t) ==
    /\ t \notin asking
    /\ asking' = asking \cup {t}
    /\ UNCHANGED <<items, got>>

Take(t) ==
    /\ t \in asking
    /\ items # <<>>
    /\ items' = Tail(items)
    /\ got' = [got EXCEPT ![t] = Head(items)]
    /\ asking' = asking \ {t}

Next ==
    \/ \E x \in Item : AppendItem(x)
    \/ \E t \in Thread : Ask(t) \/ Take(t)

\* While there are items and threads asking for one, some thread takes one.
Fairness == WF_vars(\E t \in Thread : Take(t))

SafeSpec == Init /\ [][Next]_vars
Spec == SafeSpec /\ Fairness
==============================================================================
