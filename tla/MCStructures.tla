---------------------------- MODULE MCStructures ----------------------------
(* The library's data structures, the file system and the disk below it:    *)
(*   "list", "sorted"  List and SortedList with an iterator;                *)
(*   "hash", "bitmap"  HashTable with an iterator, and Bitmap;              *)
(*   "files"           the file system on a disk of eight sectors;          *)
(*   "disk"            the timing of a disk of three tracks.                *)
(* Each behaviour is about one of them.                                     *)
EXTENDS DiskFiles

CONSTANT NULL

VARIABLES
    part,
    list, call, current, iterating, seen,             \* Lists
    sList, sCall, sCurrent, sIterating, sSeen,        \* Lists, sorted
    table, contents, iter, hashSeen,                  \* HashTable
    bits, marked, found, ok,                          \* Bitmap
    now, sectors, active, lastSector, bufferInit, due,  \* SynchDisk
    semaphore, lock, place, op, finished, fromBuffer

\* Of the items 2 and 3 the keys are equal; keys that share a bucket part when
\* the table grows.
Half(x) == x \div 2
HashInt(key) == key

Lst == INSTANCE Lists
         WITH Item <- 1..4, Key <- Half, Sorted <- FALSE, MaxItems <- 4
Srt == INSTANCE Lists
         WITH Item <- 1..4, Key <- Half, Sorted <- TRUE, MaxItems <- 4,
              list <- sList, call <- sCall, current <- sCurrent,
              iterating <- sIterating, seen <- sSeen
Hsh == INSTANCE HashTable
         WITH Item <- {0, 2, 4, 8, 9, 16}, Key <- Half, Hash <- HashInt,
              InitialBuckets <- 1, ResizeRatio <- 1, IncreaseSizeBy <- 2,
              MaxItems <- 5, seen <- hashSeen
Bmp == INSTANCE Bitmap WITH numBits <- 7, BitsInWord <- 3, map <- bits
Disk == INSTANCE SynchDisk
          WITH Thread <- {"t1"}, Data <- {"d1"}, SectorsPerTrack <- 3, NumTracks <- 3,
               RotationTime <- 3, SeekTime <- 4, MaxTime <- 45

Names == [n \in Name |-> n]

listVars == <<list, call, current, iterating, seen>>
sortedVars == <<sList, sCall, sCurrent, sIterating, sSeen>>
hashVars == <<table, contents, iter, hashSeen>>
bitmapVars == <<bits, marked, found, ok>>
diskVars == <<now, sectors, active, lastSector, bufferInit, due, semaphore, lock,
              place, op, finished, fromBuffer>>
mcVars == <<part, vars, listVars, sortedVars, hashVars, bitmapVars, diskVars>>

\* The disk's first request matters only when it is used.
MCInit ==
    /\ part \in {"list", "sorted", "hash", "bitmap", "files", "disk"}
    /\ Init /\ Disk!Init /\ Lst!Init /\ Srt!Init /\ Hsh!Init /\ Bmp!Init
    /\ part # "disk" =>
          op = [t \in {"t1"} |-> CHOOSE r \in Disk!Request : r.sector = 0]

MCNext ==
    /\ UNCHANGED part
    /\ \/ part = "list" /\ Lst!Next
          /\ UNCHANGED <<vars, sortedVars, hashVars, bitmapVars, diskVars>>
       \/ part = "sorted" /\ Srt!Next
          /\ UNCHANGED <<vars, listVars, hashVars, bitmapVars, diskVars>>
       \/ part = "hash" /\ Hsh!Next
          /\ UNCHANGED <<vars, listVars, sortedVars, bitmapVars, diskVars>>
       \/ part = "bitmap" /\ Bmp!Next
          /\ UNCHANGED <<vars, listVars, sortedVars, hashVars, diskVars>>
       \/ part = "files" /\ Next
          /\ UNCHANGED <<listVars, sortedVars, hashVars, bitmapVars, diskVars>>
       \/ part = "disk" /\ Disk!Next
          /\ UNCHANGED <<vars, listVars, sortedVars, hashVars, bitmapVars>>

MCSpec == MCInit /\ [][MCNext]_mcVars

\* No action of DiskFiles reads its history variable read.
View == <<part, header, data, map, dir, writes, handles, created,
          listVars, sortedVars, hashVars, bitmapVars, diskVars>>

\* Lists, HashTable, Bitmap: no call ends in an ASSERT of list.cc, hash.cc or
\* bitmap.cc, and SanityCheck of both lists and of the table would pass after
\* every call.
SelfChecksPass ==
    /\ Lst!AssertsHold /\ Srt!AssertsHold /\ Hsh!AssertsHold /\ Bmp!AssertsHold
    /\ part = "list" => Lst!TypeOK /\ Lst!AlwaysSane
    /\ part = "sorted" => Srt!TypeOK /\ Srt!AlwaysSane
    /\ part = "hash" => Hsh!TypeOK /\ Hsh!AlwaysLegal
    /\ part = "bitmap" => Bmp!TypeOK

\* Lists, HashTable, Bitmap: what was put in is found, by key, by bit or by an
\* iterator, and nothing else.
ContentsAreRight ==
    /\ part = "list" => Lst!IteratesAll
    /\ part = "hash" => Hsh!FindsExactly /\ Hsh!IteratesAll
    /\ part = "bitmap" => Bmp!BitsAreTheSet

\* Lists: a List behaves as a sequence, a SortedList as one kept in the order
\* of the keys.
ListsAreSequences == Lst!ImplementsSequence /\ Srt!ImplementsSequence

\* Bitmap: FindAndSet takes a free bit, and fails only when there is none.
FindsFree == Bmp!FindsFree

\* SynchDisk: a request ends when its sector has passed under the head, and the
\* track buffer serves only what it has.
LatencyIsRight == Disk!LatencyIsRight
=============================================================================
