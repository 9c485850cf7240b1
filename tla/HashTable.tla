------------------------------- MODULE HashTable -------------------------------
(***************************************************************************)
(* lib/hash.h and lib/hash.cc: a table of items found by their keys, an    *)
(* array of Lists that is grown when the lists get long, and HashIterator. *)
(* The buckets are sequences, which Lists shows a List to be.  An          *)
(* operation is a function from one table to the next; the field ok        *)
(* records whether every ASSERT so far held.                               *)
(***************************************************************************)
EXTENDS Naturals, Sequences, FiniteSets, TLC, FiniteSetsExt

CONSTANTS
    Item,
    Key(_),          \* getKey
    Hash(_),         \* the hash function
    InitialBuckets, ResizeRatio, IncreaseSizeBy,
    MaxItems,        \* how many items the table may hold
    NULL

Seqs == INSTANCE SequencesExt

VARIABLES
    table,       \* the hash table
    contents,    \* what was inserted and not removed since
    iter,        \* the iterator's bucket and place in it, or NULL
    seen         \* the items it has returned

vars == <<table, contents, iter, seen>>

InitBuckets(size) == [i \in 0..(size - 1) |-> <<>>]

NewTable ==
    [buckets |-> InitBuckets(InitialBuckets), numBuckets |-> InitialBuckets,
     numItems |-> 0, ok |-> TRUE]

Asserted(T, condition) == [T EXCEPT !.ok = @ /\ condition]

HashValue(T, key) == Hash(key) % T.numBuckets

\* The item with this key in a bucket, or NULL.
FindInBucket(T, bucket, key) ==
    LET places == {i \in DOMAIN T.buckets[bucket] : Key(T.buckets[bucket][i]) = key}
    IN  IF places = {} THEN NULL ELSE T.buckets[bucket][Min(places)]

Find(T, key) == FindInBucket(T, HashValue(T, key), key)
IsInTable(T, key) == Find(T, key) # NULL
IsEmpty(T) == T.numItems = 0

SanityCheck(T) ==
    /\ \A i \in DOMAIN T.buckets : \A j \in DOMAIN T.buckets[i] :
           HashValue(T, Key(T.buckets[i][j])) = i
    /\ T.numItems = MapThenSumSet(LAMBDA i : Len(T.buckets[i]), DOMAIN T.buckets)

Put(T, x) == [T EXCEPT !.buckets[HashValue(T, Key(x))] = Append(@, x)]

\* The items in the order of the buckets, as the loops over the table go.
InBucketOrder(T) ==
    Seqs!FlattenSeq([i \in 1..T.numBuckets |-> T.buckets[i - 1]])

ReHash(T) ==
    LET wider == [T EXCEPT !.buckets = InitBuckets(T.numBuckets * IncreaseSizeBy),
                           !.numBuckets = T.numBuckets * IncreaseSizeBy]
        moved == Seqs!FoldLeft(Put, wider, InBucketOrder(T))
    IN  Asserted(moved, SanityCheck(T) /\ SanityCheck(moved))

Insert(T, x) ==
    LET grown == IF T.numItems \div T.numBuckets >= ResizeRatio THEN ReHash(T) ELSE T
        full == [Put(grown, x) EXCEPT !.numItems = @ + 1]
    IN  Asserted(full, IsInTable(full, Key(x)))

\* Mutant of Remove: the front of the bucket is removed, whatever was found.
RemoveFirst(T, key) ==
    [T EXCEPT !.buckets[HashValue(T, key)] = Tail(@), !.numItems = @ - 1]

Remove(T, key) ==
    LET item == Find(T, key)
        rest == [T EXCEPT !.buckets[HashValue(T, key)] = SelectSeq(@, LAMBDA y : y # item),
                          !.numItems = @ - 1]
    IN  Asserted(rest, item # NULL /\ ~IsInTable(rest, key))

\* HashTable::SelfTest on an empty table.
SelfTested(T, p) ==
    LET full == Seqs!FoldLeft(
            LAMBDA S, x : Asserted(Insert(S, x), ~IsInTable(S, Key(x))),
            Asserted(T, SanityCheck(T)), p)
        end == Seqs!FoldLeft(
            LAMBDA S, x : Asserted(Remove(S, Key(x)), Find(S, Key(x)) = x), full, p)
    IN  Asserted(end, IsEmpty(end) /\ SanityCheck(end))

\* The vectors of items with different keys a self test may be given.
TestVectors ==
    {p \in UNION {[1..n -> Item] : n \in 0..MaxItems} :
        Cardinality({Key(p[i]) : i \in DOMAIN p}) = Len(p)}

Init ==
    /\ table = NewTable
    /\ contents = {}
    /\ iter = NULL
    /\ seen = <<>>

\* The table changes only while no iterator is in use.
Change(T, set) ==
    /\ iter = NULL
    /\ table' = T
    /\ contents' = set
    /\ UNCHANGED <<iter, seen>>

SelfTest(p) ==
    /\ IsEmpty(table)
    /\ Change(SelfTested(table, p), {})

DoInsert(x) ==
    /\ table.numItems < MaxItems
    /\ ~IsInTable(table, Key(x))
    /\ Change(Insert(table, x), contents \cup {x})

DoRemove(key) ==
    /\ IsInTable(table, key)
    /\ Change(Remove(table, key), {x \in contents : Key(x) # key})

\* The destructor, which is for empty tables, and a new table.
Renew ==
    /\ IsEmpty(table)
    /\ Change([NewTable EXCEPT !.ok = table.ok], {})

FindNextFullBucket(bucket) ==
    Min({i \in bucket..(table.numBuckets - 1) : table.buckets[i] # <<>>} \cup {table.numBuckets})

NewIterator ==
    /\ iter = NULL
    /\ iter' = [bucket |-> FindNextFullBucket(0), place |-> 1]
    /\ seen' = <<>>
    /\ UNCHANGED <<table, contents>>

IsDone == iter.bucket = table.numBuckets

\* One turn of a loop over the table: IsDone, Item, Next.
IteratorNext ==
    /\ iter # NULL
    /\ ~IsDone
    /\ LET bucket == table.buckets[iter.bucket]
       IN  /\ seen' = Append(seen, bucket[iter.place])
           /\ iter' = IF iter.place < Len(bucket)
                      THEN [iter EXCEPT !.place = @ + 1]
                      ELSE [bucket |-> FindNextFullBucket(iter.bucket + 1), place |-> 1]
    /\ UNCHANGED <<table, contents>>

IteratorDone ==
    /\ iter # NULL
    /\ IsDone
    /\ iter' = NULL
    /\ seen' = <<>>
    /\ UNCHANGED <<table, contents>>

Next ==
    \/ \E p \in TestVectors : SelfTest(p)
    \/ \E x \in Item : DoInsert(x) \/ DoRemove(Key(x))
    \/ Renew
    \/ NewIterator \/ IteratorNext \/ IteratorDone

Spec == Init /\ [][Next]_vars
-------------------------------------------------------------------------------
(* Properties.                                                             *)

\* The buckets are as many as numBuckets says, which is InitialBuckets grown
\* some number of times, and hold items.
TypeOK ==
    /\ DOMAIN table.buckets = 0..(table.numBuckets - 1)
    /\ \E n \in 0..MaxItems : table.numBuckets = InitialBuckets * IncreaseSizeBy ^ n
    /\ \A b \in DOMAIN table.buckets : \A i \in DOMAIN table.buckets[b] : table.buckets[b][i] \in Item
    /\ contents \subseteq Item

\* A key finds the item that was inserted with it and not removed, and
\* nothing if there is none, however often the table has grown in between.
FindsExactly ==
    \A x \in Item :
        Find(table, Key(x)) =
            IF \E y \in contents : Key(y) = Key(x)
            THEN CHOOSE y \in contents : Key(y) = Key(x)
            ELSE NULL

\* No ASSERT of hash.cc fails: neither those around Insert, Remove and ReHash
\* nor those of SelfTest, for any vector of items with different keys.
AssertsHold == table.ok

\* SanityCheck, "is this still a legal hash table?", says yes: each item is
\* in the bucket its key hashes to now, and numItems counts them all.
AlwaysLegal == SanityCheck(table)

\* A loop with a HashIterator returns every item of the table exactly once.
IteratesAll ==
    iter # NULL /\ IsDone => Seqs!IsInjective(seen) /\ Seqs!ToSet(seen) = contents
================================================================================
