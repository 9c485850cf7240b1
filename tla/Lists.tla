-------------------------------- MODULE Lists --------------------------------
(***************************************************************************)
(* lib/list.h and lib/list.cc: the singly linked List and SortedList, at   *)
(* the level of their pointers.  The ready list, the waiting queues of     *)
(* semaphores and conditions, the mailboxes and the buckets of a hash      *)
(* table are Lists; the pending interrupts are a SortedList.               *)
(*                                                                         *)
(* An operation is a function from one list to the next.  The field ok     *)
(* records whether every ASSERT so far held.  An operation is called when  *)
(* its first ASSERT holds, as every caller in the kernel makes sure of.    *)
(***************************************************************************)
EXTENDS Naturals, Sequences, FiniteSets, TLC, FiniteSetsExt

CONSTANTS
    Item,        \* what is put on lists
    Key(_),      \* what a SortedList compares
    Sorted,      \* whether the list is a SortedList
    MaxItems,    \* how long the list may grow
    NULL

Seqs == INSTANCE SequencesExt

VARIABLES
    list,        \* the list and the elements allocated for it
    call,        \* the last call that changed it, and its item
    current,     \* an iterator's place in the list
    iterating,   \* whether an iterator is in use
    seen         \* the items the iterator has returned

vars == <<list, call, current, iterating, seen>>

Address == 1..MaxItems
Pointer == Address \cup {NULL}

NewList == [first |-> NULL, last |-> NULL, numInList |-> 0, cells |-> <<>>, ok |-> TRUE]

\* The elements on the way from p to the end of the list.
RECURSIVE Chain(_, _)
Chain(cells, p) ==
    IF p = NULL THEN <<>> ELSE <<p>> \o Chain(cells, cells[p].next)

Elements(L) == Chain(L.cells, L.first)
Items(L) == [i \in DOMAIN Elements(L) |-> L.cells[Elements(L)[i]].item]

Asserted(L, condition) == [L EXCEPT !.ok = @ /\ condition]

IsEmpty(L) == L.numInList = 0

IsInList(L, x) == \E i \in DOMAIN Elements(L) : Items(L)[i] = x

\* The address new returns for the next element.  The code compares pointers
\* for equality only, so which free address it is makes no difference.
Fresh(L) == Min(Address \ DOMAIN L.cells)

New(L, x, next) == L.cells @@ (Fresh(L) :> [item |-> x, next |-> next])

\* The list whose only element is the new one.
Single(L, x) ==
    [L EXCEPT !.cells = New(L, x, NULL), !.first = Fresh(L), !.last = Fresh(L), !.numInList = @ + 1]

PutLast(L, x) ==
    [L EXCEPT !.cells = [New(L, x, NULL) EXCEPT ![L.last].next = Fresh(L)],
              !.last = Fresh(L),
              !.numInList = @ + 1]

PutFirst(L, x) ==
    [L EXCEPT !.cells = New(L, x, L.first), !.first = Fresh(L), !.numInList = @ + 1]

PutAfter(L, p, x) ==
    [L EXCEPT !.cells = [New(L, x, L.cells[p].next) EXCEPT ![p].next = Fresh(L)],
              !.numInList = @ + 1]

ListAppend(L, x) ==
    LET M == IF IsEmpty(L) THEN Single(L, x) ELSE PutLast(L, x)
    IN  Asserted(M, IsInList(M, x))

Prepend(L, x) ==
    LET M == IF IsEmpty(L) THEN Single(L, x) ELSE PutFirst(L, x)
    IN  Asserted(M, IsInList(M, x))

Delete(cells, p) == [q \in DOMAIN cells \ {p} |-> cells[q]]

RemoveFront(L) ==
    LET M == IF L.first = L.last
             THEN [L EXCEPT !.first = NULL, !.last = NULL]
             ELSE [L EXCEPT !.first = L.cells[L.first].next]
    IN  [M EXCEPT !.numInList = @ - 1, !.cells = Delete(L.cells, L.first)]

Front(L) == L.cells[L.first].item

\* Takes ptr, which follows prev, out of the list.
Unlink(L, prev, ptr) ==
    [L EXCEPT !.cells = Delete([L.cells EXCEPT ![prev].next = L.cells[ptr].next], ptr),
              !.last = IF L.cells[ptr].next = NULL THEN prev ELSE @,
              !.numInList = @ - 1]

RemoveItem(L, x) ==
    LET i == Min({j \in DOMAIN Elements(L) : Items(L)[j] = x})
        M == IF i = 1 THEN RemoveFront(L) ELSE Unlink(L, Elements(L)[i - 1], Elements(L)[i])
    IN  Asserted(M, ~IsInList(M, x))

\* Mutant of Insert: the new item goes before the items with an equal key.
InsertBeforeEqual(L, x) ==
    LET bigger == {i \in DOMAIN Elements(L) : Key(Items(L)[i]) >= Key(x)}
        M == CASE IsEmpty(L) -> Single(L, x)
               [] 1 \in bigger -> PutFirst(L, x)
               [] bigger = {} -> PutLast(L, x)
               [] OTHER -> PutAfter(L, Elements(L)[Min(bigger) - 1], x)
    IN  Asserted(M, IsInList(M, x))

\* Mutant of Insert: no search between the first item and the last.
InsertAtEnds(L, x) ==
    LET M == CASE IsEmpty(L) -> Single(L, x)
               [] Key(Front(L)) > Key(x) -> PutFirst(L, x)
               [] OTHER -> PutLast(L, x)
    IN  Asserted(M, IsInList(M, x))

\* SortedList::Insert puts the item before the first bigger one.
Insert(L, x) ==
    LET bigger == {i \in DOMAIN Elements(L) : Key(Items(L)[i]) > Key(x)}
        M == CASE IsEmpty(L) -> Single(L, x)
               [] 1 \in bigger -> PutFirst(L, x)
               [] bigger = {} -> PutLast(L, x)
               [] OTHER -> PutAfter(L, Elements(L)[Min(bigger) - 1], x)
    IN  Asserted(M, IsInList(M, x))

\* Append and Prepend are virtual, and Insert on a SortedList.
Add(L, x) == IF Sorted THEN Insert(L, x) ELSE ListAppend(L, x)
AddFront(L, x) == IF Sorted THEN Insert(L, x) ELSE Prepend(L, x)

ListSanityCheck(L) ==
    \/ L.first = NULL /\ L.last = NULL /\ L.numInList = 0
    \/ /\ L.first # NULL
       /\ L.numInList \in DOMAIN Elements(L)
       /\ Elements(L)[L.numInList] = L.last
       /\ L.cells[L.last].next = NULL

\* SortedList::SanityCheck calls that of List first.
SanityCheck(L) ==
    /\ ListSanityCheck(L)
    /\ Sorted => \A i \in 2..Len(Items(L)) : Key(Items(L)[i - 1]) <= Key(Items(L)[i])

\* The loops of the self tests: one operation for each item of the vector p.
AddAll(L, p) ==
    Seqs!FoldLeft(LAMBDA M, x : Asserted(Add(M, x), ~IsInList(M, x) /\ ~IsEmpty(Add(M, x))), L, p)

RemoveAll(L, p) == Seqs!FoldLeft(RemoveItem, L, p)

\* List::SelfTest on an empty list.
ListSelfTest(L, p) ==
    LET full == AddAll(Asserted(L, SanityCheck(L)), p)
        end == RemoveAll(Asserted(full, SanityCheck(full)), p)
    IN  Asserted(end, IsEmpty(end) /\ SanityCheck(end))

\* SortedList::SelfTest takes the items out from the front and compares each
\* with the next.
RECURSIVE Drain(_)
Drain(L) ==
    IF IsEmpty(L) THEN L
    ELSE LET M == RemoveFront(L)
         IN  Drain(Asserted(M, /\ ~IsInList(M, Front(L))
                               /\ IsEmpty(M) \/ Key(Front(L)) <= Key(Front(M))))

SortedSelfTest(L, p) ==
    LET full == AddAll(ListSelfTest(L, p), p)
        end == Drain(Asserted(full, SanityCheck(full)))
    IN  Asserted(end, SanityCheck(end))

\* The vectors of different items a self test may be given.
TestVectors == {p \in UNION {[1..n -> Item] : n \in 0..MaxItems} : Cardinality({p[i] : i \in DOMAIN p}) = Len(p)}

Init ==
    /\ list = NewList
    /\ call = <<"none">>
    /\ current = NULL
    /\ iterating = FALSE
    /\ seen = <<>>

(* The list changes only while no iterator is in use, as in the callers.   *)
Change(L, c) ==
    /\ ~iterating
    /\ list' = L
    /\ call' = c
    /\ UNCHANGED <<current, iterating, seen>>

DoAppend(x) ==
    /\ list.numInList < MaxItems
    /\ ~IsInList(list, x)
    /\ Change(Add(list, x), <<"Append", x>>)

DoPrepend(x) ==
    /\ list.numInList < MaxItems
    /\ ~IsInList(list, x)
    /\ Change(AddFront(list, x), <<"Prepend", x>>)

DoRemoveFront ==
    /\ ~IsEmpty(list)
    /\ Change(RemoveFront(list), <<"RemoveFront", Front(list)>>)

DoRemove(x) ==
    /\ IsInList(list, x)
    /\ Change(RemoveItem(list, x), <<"Remove", x>>)

SelfTest(p) ==
    /\ IsEmpty(list)
    /\ Change(IF Sorted THEN SortedSelfTest(list, p) ELSE ListSelfTest(list, p), call)

NewIterator ==
    /\ ~iterating
    /\ iterating' = TRUE
    /\ current' = list.first
    /\ seen' = <<>>
    /\ UNCHANGED <<list, call>>

\* One turn of a loop over the list: IsDone, Item, Next.
IteratorNext ==
    /\ iterating
    /\ current # NULL
    /\ seen' = Append(seen, list.cells[current].item)
    /\ current' = list.cells[current].next
    /\ UNCHANGED <<list, call, iterating>>

IteratorDone ==
    /\ iterating
    /\ current = NULL
    /\ iterating' = FALSE
    /\ seen' = <<>>
    /\ UNCHANGED <<list, call, current>>

Next ==
    \/ \E p \in TestVectors : SelfTest(p)
    \/ \E x \in Item : DoAppend(x) \/ DoPrepend(x) \/ DoRemove(x)
    \/ DoRemoveFront
    \/ NewIterator \/ IteratorNext \/ IteratorDone

Spec == Init /\ [][Next]_vars
-----------------------------------------------------------------------------
(* Properties.                                                             *)

\* The pointers of a list are NULL or addresses of elements that are still
\* allocated, and no element is left allocated that the list does not reach:
\* Remove and RemoveFront free what they take out and nothing else.
TypeOK ==
    /\ {list.first, list.last} \subseteq DOMAIN list.cells \cup {NULL}
    /\ \A a \in DOMAIN list.cells :
           list.cells[a] \in [item : Item, next : DOMAIN list.cells \cup {NULL}]
    /\ DOMAIN list.cells = {Elements(list)[i] : i \in DOMAIN Elements(list)}
    /\ current \in Pointer
    /\ iterating \in BOOLEAN

\* SanityCheck of list.cc, "has this list been corrupted?", never finds that
\* it has.
AlwaysSane == SanityCheck(list)

\* No ASSERT of list.cc fails: neither those that end the operations nor
\* those of the two SelfTest functions, for any vector of different items.
AssertsHold == list.ok

\* A loop with a ListIterator returns every item once, in list order.
IteratesAll == iterating /\ current = NULL => seen = Items(list)

Abstract == INSTANCE AbstractList WITH items <- Items(list)

\* List and SortedList are sequences: each operation does to the items what
\* list.h says, whatever it does with the pointers.
ImplementsSequence == Abstract!Spec
==============================================================================
