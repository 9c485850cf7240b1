----------------------------- MODULE AbstractList -----------------------------
(***************************************************************************)
(* What lib/list.h promises of List and SortedList: a sequence of distinct *)
(* items, grown at either end or, when it is sorted, at the place its key  *)
(* asks for, behind the items with an equal key.                           *)
(***************************************************************************)
EXTENDS Sequences, Naturals

CONSTANTS Item, Key(_), Sorted

VARIABLES
    items,   \* the items on the list
    call     \* the last call and its item

vars == <<items, call>>

Contains(x) == \E i \in DOMAIN items : items[i] = x

Init ==
    /\ items = <<>>
    /\ call = <<"none">>

AtEnd(x) == items' = Append(items, x)

AtFront(x) == items' = <<x>> \o items

InOrder(x) ==
    \E i \in 0..Len(items) :
        /\ \A j \in 1..i : Key(items[j]) <= Key(x)
        /\ \A j \in (i + 1)..Len(items) : Key(items[j]) > Key(x)
        /\ items' = SubSeq(items, 1, i) \o <<x>> \o SubSeq(items, i + 1, Len(items))

Appending(x) ==
    /\ call' = <<"Append", x>>
    /\ ~Contains(x)
    /\ IF Sorted THEN InOrder(x) ELSE AtEnd(x)

Prepending(x) ==
    /\ call' = <<"Prepend", x>>
    /\ ~Contains(x)
    /\ IF Sorted THEN InOrder(x) ELSE AtFront(x)

\* RemoveFront returns the item it takes.
TakeFirst ==
    /\ items # <<>>
    /\ call' = <<"RemoveFront", Head(items)>>
    /\ items' = Tail(items)

TakeOut(x) ==
    /\ call' = <<"Remove", x>>
    /\ Contains(x)
    /\ items' = SelectSeq(items, LAMBDA y : y # x)

Next ==
    \/ TakeFirst
    \/ \E x \in Item : Appending(x) \/ Prepending(x) \/ TakeOut(x)

Spec == Init /\ [][Next]_vars
================================================================================
