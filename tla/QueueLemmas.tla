----------------------------- MODULE QueueLemmas -----------------------------
(***************************************************************************)
(* Facts about the kernel's List<T> (lib/list.cc) used as a queue without  *)
(* duplicates: Append at the back, RemoveFront at the front.               *)
(***************************************************************************)
EXTENDS Integers, Sequences, Functions, TLAPS

\* List::Append of an item that is not in the list (its ASSERT) keeps the
\* list free of duplicates and adds exactly that item.
LEMMA AppendFresh ==
    ASSUME NEW S, NEW q \in Seq(S), NEW x \in S,
           IsInjective(q), x \notin Range(q)
    PROVE  /\ Append(q, x) \in Seq(S)
           /\ IsInjective(Append(q, x))
           /\ Range(Append(q, x)) = Range(q) \cup {x}
           /\ Append(q, x) # <<>>
<1> DEFINE r == Append(q, x)
<1>1. /\ r \in Seq(S)
      /\ DOMAIN r = 1..(Len(q) + 1)
      /\ DOMAIN q = 1..Len(q)
      /\ Len(q) \in Nat
      /\ \A i \in 1..Len(q) : r[i] = q[i]
      /\ r[Len(q) + 1] = x
      /\ r # <<>>
  OBVIOUS
<1>2. IsInjective(r)
  BY <1>1 DEF IsInjective, Range
<1>3. Range(r) = Range(q) \cup {x}
  BY <1>1 DEF Range
<1> QED
  BY <1>1, <1>2, <1>3

\* List::RemoveFront takes exactly the front item off such a list.
LEMMA RemoveFrontFacts ==
    ASSUME NEW S, NEW q \in Seq(S), IsInjective(q), q # <<>>
    PROVE  /\ Head(q) \in S
           /\ Head(q) \in Range(q)
           /\ Tail(q) \in Seq(S)
           /\ IsInjective(Tail(q))
           /\ Range(Tail(q)) = Range(q) \ {Head(q)}
<1> DEFINE r == Tail(q)
<1>1. /\ r \in Seq(S)
      /\ DOMAIN r = 1..(Len(q) - 1)
      /\ DOMAIN q = 1..Len(q)
      /\ Len(q) \in Nat \ {0}
      /\ \A i \in 1..(Len(q) - 1) : r[i] = q[i + 1]
      /\ Head(q) = q[1] /\ q[1] \in S
  OBVIOUS
<1>2. IsInjective(r)
  BY <1>1 DEF IsInjective
<1>3. Head(q) \in Range(q)
  BY <1>1 DEF Range
<1>4. ASSUME NEW y \in Range(r) PROVE y \in Range(q) \ {Head(q)}
  <2>1. PICK i \in 1..(Len(q) - 1) : y = r[i]
    BY <1>1 DEF Range
  <2>2. y = q[i + 1] /\ i + 1 \in 1..Len(q) /\ i + 1 # 1
    BY <1>1, <2>1
  <2> QED
    BY <1>1, <2>2 DEF Range, IsInjective
<1>5. ASSUME NEW y \in Range(q) \ {Head(q)} PROVE y \in Range(r)
  <2>1. PICK i \in 1..Len(q) : y = q[i]
    BY <1>1 DEF Range
  <2>2. i - 1 \in 1..(Len(q) - 1) /\ r[i - 1] = y
    BY <1>1, <2>1
  <2> QED
    BY <1>1, <2>2 DEF Range
<1> QED
  BY <1>1, <1>2, <1>3, <1>4, <1>5

\* The empty list.
LEMMA EmptyQueue ==
    /\ IsInjective(<<>>)
    /\ Range(<<>>) = {}
  BY DEF IsInjective, Range

\* A one-element list.
LEMMA SingletonQueue ==
    ASSUME NEW S, NEW x \in S
    PROVE  /\ <<x>> \in Seq(S)
           /\ IsInjective(<<x>>)
           /\ Range(<<x>>) = {x}
  BY DEF IsInjective, Range
==============================================================================
