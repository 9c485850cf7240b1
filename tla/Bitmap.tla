--------------------------------- MODULE Bitmap ---------------------------------
(***************************************************************************)
(* lib/bitmap.h and lib/bitmap.cc: a set of small numbers kept in the bits *)
(* of an array of words.  The frames of memory, the process table, the     *)
(* semaphore table and the sectors of the disk are handed out with it.     *)
(***************************************************************************)
EXTENDS Integers, Sequences, FiniteSets, FiniteSetsExt, Bitwise

CONSTANTS
    numBits,       \* the size of the bitmap
    BitsInWord     \* 32 in the build

Seqs == INSTANCE SequencesExt

VARIABLES
    map,       \* the words
    marked,    \* what was marked and not cleared since
    found,     \* what the last FindAndSet returned
    ok         \* whether every ASSERT so far held

vars == <<map, marked, found, ok>>

Bit == 0..(numBits - 1)

\* divRoundUp(numBits, BitsInWord)
NumWords == (numBits + BitsInWord - 1) \div BitsInWord

\* map[which / BitsInWord] and 1 << (which % BitsInWord)
Index(which) == which \div BitsInWord
Mask(which) == 2 ^ (which % BitsInWord)

\* ~(1 << (which % BitsInWord))
Others(which) == 2 ^ BitsInWord - 1 - Mask(which)

NewMap == [i \in 0..(NumWords - 1) |-> 0]

Test(m, which) == (m[Index(which)] & Mask(which)) # 0

Mark(m, which) == [m EXCEPT ![Index(which)] = @ | Mask(which)]

Clear(m, which) == [m EXCEPT ![Index(which)] = @ & Others(which)]

Clears(m) == {i \in Bit : ~Test(m, i)}

NumClear(m) == Cardinality(Clears(m))

\* Mutant of FirstClear: the search stops before the last bit.
FirstClearButLast(m) ==
    IF Clears(m) \subseteq {numBits - 1} THEN -1 ELSE Min(Clears(m))

\* The bit FindAndSet returns.
FirstClear(m) == IF Clears(m) = {} THEN -1 ELSE Min(Clears(m))

AfterFind(m) == IF FirstClear(m) = -1 THEN m ELSE Mark(m, FirstClear(m))

Init ==
    /\ map = NewMap
    /\ marked = {}
    /\ found = -1
    /\ ok = TRUE

DoMark(which) ==
    /\ map' = Mark(map, which)
    /\ marked' = marked \cup {which}
    /\ ok' = (ok /\ Test(map', which))
    /\ UNCHANGED found

DoClear(which) ==
    /\ map' = Clear(map, which)
    /\ marked' = marked \ {which}
    /\ ok' = (ok /\ ~Test(map', which))
    /\ UNCHANGED found

DoFindAndSet ==
    /\ found' = FirstClear(map)
    /\ map' = AfterFind(map)
    /\ marked' = marked \cup ({found'} \cap Bit)
    /\ UNCHANGED ok

\* SelfTest on an empty bitmap of at least a word; the code's 31 is the last
\* bit of the first word.
SelfTest ==
    LET one == AfterFind(map)
        both == Mark(one, BitsInWord - 1)
        cleared == Clear(Clear(Clear(AfterFind(both), 0), 1), BitsInWord - 1)
        full == Seqs!FoldLeft(Mark, cleared, [i \in 1..numBits |-> i - 1])
    IN  /\ numBits >= BitsInWord
        /\ marked = {}
        /\ ok' = (/\ ok
                  /\ NumClear(map) = numBits
                  /\ FirstClear(map) = 0
                  /\ Test(both, 0) /\ Test(both, BitsInWord - 1)
                  /\ FirstClear(both) = 1
                  /\ FirstClear(full) = -1)
        /\ map' = Seqs!FoldLeft(Clear, full, [i \in 1..numBits |-> i - 1])
        /\ found' = -1
        /\ UNCHANGED marked

Next ==
    \/ SelfTest
    \/ \E which \in Bit : DoMark(which) \/ DoClear(which)
    \/ DoFindAndSet

Spec == Init /\ [][Next]_vars
--------------------------------------------------------------------------------
(* Properties.                                                             *)

\* The bitmap is as many words of BitsInWord bits as its bits need, and
\* FindAndSet returns a bit of it or -1.
TypeOK ==
    /\ map \in [0..((numBits - 1) \div BitsInWord) -> 0..(2 ^ BitsInWord - 1)]
    /\ found \in Bit \cup {-1}

\* No ASSERT of bitmap.cc fails, those of SelfTest included.
AssertsHold == ok

\* The bits that are set are those that were marked, or found by FindAndSet,
\* and not cleared since: an operation on one bit leaves every other bit of
\* its word alone.  NumClear counts the rest.
BitsAreTheSet ==
    /\ \A i \in Bit : Test(map, i) <=> i \in marked
    /\ NumClear(map) = numBits - Cardinality(marked)

\* FindAndSet hands out a number that nobody has: the bit was clear, is set
\* from then on, and every smaller one was taken; -1 only if all were.
FindsFree ==
    [][DoFindAndSet =>
        \/ found' = -1 /\ marked = Bit /\ UNCHANGED map
        \/ found' \in Bit \ marked /\ Test(map', found') /\ 0..(found' - 1) \subseteq marked]_vars
================================================================================
