--------------------------- MODULE SemTableProofs ----------------------------
(***************************************************************************)
(* Proofs about SemTable, for every size of the table and every set of     *)
(* processes and names: a name stands for one semaphore, no unit is lost   *)
(* or made up, and a Wait takes a unit that is there, if its semaphore was *)
(* not created below 0.  Programs may create semaphores with any value.    *)
(***************************************************************************)
EXTENDS SemTable, FiniteSetTheorems, WellFoundedInduction, TLAPS

\* What kind of values the constants are.
TableConstants ==
    /\ Slots \in Nat
    /\ InitialValue \subseteq Int
    /\ NULL \notin Semaphore /\ NULL \notin Int

\* The slots in use are the first k ones.
FirstUsed(k) == \A i \in Slot : semTable[i] # NULL <=> i < k

Distinct ==
    \A i, j \in Slot : (/\ semTable[i] # NULL /\ semTable[j] # NULL
                        /\ semTable[i].name = semTable[j].name) => i = j

\* A process in P waits for a semaphore, and only such a process.
WaitersOk ==
    \A p \in Process :
        /\ place[p] = "P" => sem[p] \in Slot /\ semTable[sem[p]] # NULL
        /\ place[p] = "user" => sem[p] = NULL

\* The value of a semaphore, which stays at 0 or above if it began there, and
\* the history of a name that has none.
ValuesOk ==
    /\ \A i \in Slot : semTable[i] # NULL =>
          /\ semTable[i].value \in Int
          /\ created[semTable[i].name] \in Int
          /\ created[semTable[i].name] >= 0 => semTable[i].value >= 0
          /\ semTable[i].value = created[semTable[i].name]
                + signals[semTable[i].name] - waits[semTable[i].name]
    /\ \A n \in Name : (\A i \in Slot : semTable[i] # NULL => semTable[i].name # n) =>
          signals[n] = 0 /\ waits[n] = 0

\* The inductive invariant.
TInv ==
    /\ TypeOK
    /\ created \in [Name -> Int \cup {NULL}]
    /\ signals \in [Name -> Nat] /\ waits \in [Name -> Nat]
    /\ \E k \in 0..Slots : FirstUsed(k)
    /\ Distinct /\ WaitersOk /\ ValuesOk

\* Bitmap::FindAndSet, and the search of the names, find the first slot of
\* those there are.
LEMMA FirstIsFirst ==
    ASSUME TableConstants, NEW S \in SUBSET Slot, S # {}
    PROVE  FirstOf(S) \in S /\ \A j \in S : FirstOf(S) <= j
<1>1. S \subseteq Nat
  BY DEF Slot, TableConstants
<1>2. PICK x \in S : \A y \in S : ~(<<y, x>> \in OpToRel(<, Nat))
  BY <1>1, NatLessThanWellFounded, WFMin
<1>3. OpToRel(<, Nat) = {r \in Nat \X Nat : r[1] < r[2]}
  BY DEF OpToRel
<1>4. \A y \in S : ~(y < x)
  BY <1>1, <1>2, <1>3
<1>5. \A y \in S : x <= y
  BY <1>1, <1>4
<1> QED
  BY <1>5 DEF FirstOf

\* The empty table.
LEMMA InitTInv ==
    ASSUME TableConstants, Init
    PROVE  TInv
<1>1. TypeOK
  BY DEF Init, TypeOK
<1>2. FirstUsed(0)
  BY DEF Init, FirstUsed, Slot, TableConstants
<1>3. 0 \in 0..Slots
  BY DEF TableConstants
<1>4. Distinct /\ WaitersOk /\ ValuesOk
  BY DEF Init, Distinct, WaitersOk, ValuesOk
<1> QED
  BY <1>1, <1>2, <1>3, <1>4 DEF TInv, Init

\* A call that only returns a result.
LEMMA ResultTInv ==
    ASSUME TInv, NEW p \in Process, NEW r \in Slot \cup {-1, 1, NULL}, Return(p, r),
           UNCHANGED <<semTable, place, sem, created, signals, waits>>
    PROVE  TInv'
<1>1. TypeOK'
  BY DEF TInv, TypeOK, Return
<1> QED
  BY <1>1 DEF TInv, FirstUsed, Distinct, WaitersOk, ValuesOk

\* CreateSemaphore: a new name gets the first free slot.
LEMMA CreateTInv ==
    ASSUME TableConstants, TInv, NEW p \in Process, NEW n \in Name,
           NEW v \in InitialValue, CreateSemaphore(p, n, v)
    PROVE  TInv'
<1>1. CASE Return(p, -1) /\ UNCHANGED <<semTable, created>>
  BY <1>1, ResultTInv DEF CreateSemaphore
<1>2. CASE Named(n) = {} /\ Used # Slot
  <2>1. PICK i \in Slot \ Used :
          /\ \A j \in Slot \ Used : i <= j
          /\ semTable' = [semTable EXCEPT ![i] = [name |-> n, value |-> v]]
          /\ created' = [created EXCEPT ![n] = v]
          /\ result' = [result EXCEPT ![p] = i]
          /\ UNCHANGED <<place, sem, signals, waits>>
    <3>1. Slot \ Used # {} /\ Slot \ Used \in SUBSET Slot
      BY <1>2 DEF Used
    <3>2. FirstOf(Slot \ Used) \in Slot \ Used
          /\ \A j \in Slot \ Used : FirstOf(Slot \ Used) <= j
      BY <3>1, FirstIsFirst
    <3> QED
      BY <1>2, <3>2 DEF CreateSemaphore, Return
  <2>2. semTable[i] = NULL /\ \A j \in Slot : semTable[j] # NULL => semTable[j].name # n
    BY <1>2, <2>1 DEF Used, Named
  <2>3. v \in Int /\ [name |-> n, value |-> v] \in Semaphore
    <3>1. v \in Int
      BY DEF TableConstants
    <3> QED
      BY <3>1 DEF Semaphore
  <2>4. semTable \in [Slot -> Semaphore \cup {NULL}]
    BY DEF TInv, TypeOK
  <2>5. \A j \in Slot : semTable'[j] = IF j = i THEN [name |-> n, value |-> v] ELSE semTable[j]
    BY <2>1, <2>4
  <2>6. \A j \in Slot : semTable'[j] # NULL <=> (j = i \/ semTable[j] # NULL)
    BY <2>3, <2>5 DEF TableConstants
  <2>7. TypeOK'
    BY <2>1, <2>3 DEF TInv, TypeOK
  <2>8. \E k \in 0..Slots : FirstUsed(k)'
    <3>1. PICK k \in 0..Slots : FirstUsed(k)
      BY DEF TInv
    <3>2. i = k
      <4>1. i \in 0..(Slots - 1) /\ ~(i < k) /\ Slots \in Nat
        BY <2>2, <3>1 DEF FirstUsed, Slot, TableConstants
      <4>2. k \in Slot
        BY <4>1 DEF Slot
      <4>3. semTable[k] = NULL
        BY <3>1, <4>2 DEF FirstUsed
      <4>4. k \in Slot \ Used
        BY <4>2, <4>3 DEF Used
      <4> QED
        BY <2>1, <4>1, <4>4
    <3>3. k + 1 \in 0..Slots /\ Slot \subseteq Int
      BY <3>2 DEF Slot, TableConstants
    <3>4. FirstUsed(k + 1)'
      BY <2>6, <3>1, <3>2, <3>3 DEF FirstUsed
    <3> QED
      BY <3>3, <3>4
  <2>9. Distinct'
    BY <2>2, <2>5, <2>6 DEF TInv, Distinct
  <2>10. WaitersOk'
    BY <2>1, <2>6 DEF TInv, WaitersOk
  <2>11. ValuesOk'
    <3>1. created \in [Name -> Int \cup {NULL}] /\ signals \in [Name -> Nat]
          /\ waits \in [Name -> Nat] /\ created'[n] = v
          /\ \A m \in Name \ {n} : created'[m] = created[m]
      BY <2>1 DEF TInv
    <3>2. signals[n] = 0 /\ waits[n] = 0
      BY <2>2 DEF TInv, ValuesOk
    <3>3. ASSUME NEW j \in Slot, semTable'[j] # NULL
          PROVE  /\ semTable'[j].value \in Int
                 /\ created'[semTable'[j].name] \in Int
                 /\ created'[semTable'[j].name] >= 0 => semTable'[j].value >= 0
                 /\ semTable'[j].value = created'[semTable'[j].name]
                        + signals'[semTable'[j].name] - waits'[semTable'[j].name]
      <4>1. CASE j = i
        BY <2>1, <2>3, <2>5, <3>1, <3>2, <4>1
      <4>2. CASE j # i
        <5>1. semTable'[j] = semTable[j] /\ semTable[j] # NULL /\ semTable[j] \in Semaphore
          BY <2>4, <2>5, <2>6, <3>3, <4>2
        <5>2. semTable[j].name \in Name \ {n}
          BY <2>2, <5>1 DEF Semaphore
        <5> QED
          BY <2>1, <3>1, <5>1, <5>2 DEF TInv, ValuesOk
      <4> QED
        BY <4>1, <4>2
    <3>4. ASSUME NEW m \in Name, \A j \in Slot : semTable'[j] # NULL => semTable'[j].name # m
          PROVE  signals'[m] = 0 /\ waits'[m] = 0
      <4>1. \A j \in Slot : semTable[j] # NULL => semTable[j].name # m
        BY <2>2, <2>5, <2>6, <3>4
      <4> QED
        BY <2>1, <4>1 DEF TInv, ValuesOk
    <3> QED
      BY <3>3, <3>4 DEF ValuesOk
  <2>12. created' \in [Name -> Int \cup {NULL}]
    BY <2>1, <2>3 DEF TInv
  <2> QED
    BY <2>1, <2>7, <2>8, <2>9, <2>10, <2>11, <2>12 DEF TInv
<1> QED
  BY <1>1, <1>2 DEF CreateSemaphore

\* Wait: the process waits for the semaphore of that name.
LEMMA WaitTInv ==
    ASSUME TableConstants, TInv, NEW p \in Process, NEW n \in Name, Wait(p, n)
    PROVE  TInv'
<1>1. CASE Named(n) = {}
  BY <1>1, ResultTInv DEF Wait
<1>2. CASE Named(n) # {}
  <2>1. PICK i \in Named(n) :
          /\ place' = [place EXCEPT ![p] = "P"]
          /\ sem' = [sem EXCEPT ![p] = i]
          /\ UNCHANGED <<result, semTable, created, signals, waits>>
    <3>1. Named(n) \in SUBSET Slot
      BY DEF Named, Used
    <3>2. FirstOf(Named(n)) \in Named(n)
      BY <1>2, <3>1, FirstIsFirst
    <3> QED
      BY <1>2, <3>2 DEF Wait
  <2>2. i \in Slot /\ semTable[i] # NULL
    BY DEF Named, Used
  <2>3. TypeOK'
    BY <2>1, <2>2 DEF TInv, TypeOK
  <2>4. WaitersOk'
    BY <2>1, <2>2 DEF TInv, TypeOK, WaitersOk
  <2> QED
    BY <2>1, <2>3, <2>4 DEF TInv, FirstUsed, Distinct, ValuesOk
<1> QED
  BY <1>1, <1>2

\* A change of its value by d leaves semaphore i at 0 or above if it began there.
MayChange(i, d) == created[semTable[i].name] >= 0 => semTable[i].value + d >= 0

\* What the invariant says of the table and the histories, after a step.
TableKept ==
    /\ semTable' \in [Slot -> Semaphore \cup {NULL}]
    /\ \A j \in Slot : semTable'[j] # NULL <=> semTable[j] # NULL
    /\ created' \in [Name -> Int \cup {NULL}]
    /\ signals' \in [Name -> Nat] /\ waits' \in [Name -> Nat]
    /\ \E k \in 0..Slots : FirstUsed(k)'
    /\ Distinct' /\ ValuesOk'

\* One unit is added to a semaphore, or taken from it: d is the change of
\* its value, s and w what the histories of its name record.
LEMMA UnitStep ==
    ASSUME TableConstants, TInv, NEW i \in Slot, semTable[i] # NULL,
           NEW d \in Int, NEW s \in Nat, NEW w \in Nat, d = s - w,
           MayChange(i, d),
           semTable' = [semTable EXCEPT ![i].value = @ + d],
           signals' = [signals EXCEPT ![semTable[i].name] = @ + s],
           waits' = [waits EXCEPT ![semTable[i].name] = @ + w],
           created' = created
    PROVE  TableKept
<1> DEFINE r == [semTable[i] EXCEPT !.value = @ + d]
<1>1. semTable \in [Slot -> Semaphore \cup {NULL}] /\ semTable[i] \in Semaphore
  BY DEF TInv, TypeOK
<1>2. semTable[i].name \in Name /\ semTable[i].value \in Int
  BY <1>1 DEF Semaphore
<1>3. r \in Semaphore /\ r.name = semTable[i].name /\ r.value = semTable[i].value + d
  BY <1>1, <1>2 DEF Semaphore
<1>4. semTable' = [semTable EXCEPT ![i] = r]
  BY <1>1
<1> HIDE DEF r
<1>5. \A j \in Slot : semTable'[j] = IF j = i THEN r ELSE semTable[j]
  BY <1>1, <1>4
<1>6. \A j \in Slot : semTable'[j] # NULL <=> semTable[j] # NULL
  BY <1>3, <1>5 DEF TableConstants
<1>7. \A j \in Slot : semTable[j] # NULL => semTable'[j].name = semTable[j].name
  BY <1>3, <1>5
<1>8. semTable' \in [Slot -> Semaphore \cup {NULL}]
  BY <1>1, <1>3, <1>4
<1>9. signals \in [Name -> Nat] /\ waits \in [Name -> Nat]
      /\ created' \in [Name -> Int \cup {NULL}]
  BY DEF TInv
<1>10. /\ signals' \in [Name -> Nat] /\ waits' \in [Name -> Nat]
       /\ signals'[semTable[i].name] = signals[semTable[i].name] + s
       /\ waits'[semTable[i].name] = waits[semTable[i].name] + w
       /\ \A m \in Name \ {semTable[i].name} :
             signals'[m] = signals[m] /\ waits'[m] = waits[m]
  BY <1>2, <1>9
<1>11. \E k \in 0..Slots : FirstUsed(k)'
  BY <1>6 DEF TInv, FirstUsed
<1>12. Distinct'
  BY <1>6, <1>7 DEF TInv, Distinct
<1>13. ASSUME NEW j \in Slot, semTable'[j] # NULL
       PROVE  /\ semTable'[j].value \in Int
              /\ created'[semTable'[j].name] \in Int
              /\ created'[semTable'[j].name] >= 0 => semTable'[j].value >= 0
              /\ semTable'[j].value = created'[semTable'[j].name]
                    + signals'[semTable'[j].name] - waits'[semTable'[j].name]
  <2>1. semTable[j] # NULL
    BY <1>6, <1>13
  <2>2. /\ semTable[j].value \in Int /\ created[semTable[j].name] \in Int
        /\ created[semTable[j].name] >= 0 => semTable[j].value >= 0
        /\ semTable[j].value = created[semTable[j].name]
              + signals[semTable[j].name] - waits[semTable[j].name]
    BY <2>1 DEF TInv, ValuesOk
  <2>3. CASE j = i
    <3>1. semTable'[j] = r
      BY <1>5, <2>3
    <3>2. signals[semTable[i].name] \in Nat /\ waits[semTable[i].name] \in Nat
      BY <1>2, <1>9
    <3> QED
      BY <1>3, <1>10, <2>2, <2>3, <3>1, <3>2 DEF MayChange
  <2>4. CASE j # i
    <3>1. semTable'[j] = semTable[j] /\ semTable[j] \in Semaphore
      BY <1>1, <1>5, <2>1, <2>4
    <3>2. semTable[j].name \in Name \ {semTable[i].name}
      BY <2>1, <2>4, <3>1 DEF TInv, Distinct, Semaphore
    <3> QED
      BY <1>10, <2>2, <3>1, <3>2
  <2> QED
    BY <2>3, <2>4
<1>14. ASSUME NEW m \in Name, \A j \in Slot : semTable'[j] # NULL => semTable'[j].name # m
       PROVE  signals'[m] = 0 /\ waits'[m] = 0
  <2>1. \A j \in Slot : semTable[j] # NULL => semTable[j].name # m
    BY <1>6, <1>7, <1>14
  <2>2. signals[m] = 0 /\ waits[m] = 0 /\ m # semTable[i].name
    BY <2>1 DEF TInv, ValuesOk
  <2> QED
    BY <1>10, <2>2
<1>15. ValuesOk'
  BY <1>13, <1>14 DEF ValuesOk
<1> QED
  BY <1>6, <1>8, <1>9, <1>10, <1>11, <1>12, <1>15 DEF TableKept

\* The rest of Wait: the process takes a unit.
LEMMA WaitReturnsTInv ==
    ASSUME TableConstants, TInv, NEW p \in Process, WaitReturns(p)
    PROVE  /\ TInv'
           /\ created[semTable[sem[p]].name] >= 0 => semTable[sem[p]].value > 0
<1>1. /\ sem[p] \in Slot /\ semTable[sem[p]] # NULL /\ semTable[sem[p]].value \in Int
      /\ created[semTable[sem[p]].name] >= 0 => semTable[sem[p]].value >= 0
  BY DEF WaitReturns, TInv, WaitersOk, ValuesOk
<1>2. created[semTable[sem[p]].name] >= 0 =>
          semTable[sem[p]].value > 0 /\ semTable[sem[p]].value + (-1) >= 0
  BY <1>1 DEF WaitReturns
<1>3. PICK i \in Slot :
        /\ i = sem[p]
        /\ semTable' = [semTable EXCEPT ![i].value = @ - 1]
        /\ waits' = [waits EXCEPT ![semTable[i].name] = @ + 1]
        /\ place' = [place EXCEPT ![p] = "user"]
        /\ sem' = [sem EXCEPT ![p] = NULL]
        /\ result' = [result EXCEPT ![p] = 1]
        /\ UNCHANGED <<created, signals>>
  BY <1>1 DEF WaitReturns, Return
<1>4. semTable[i] \in Semaphore /\ semTable[i].name \in Name /\ semTable[i].value \in Int
  BY <1>1, <1>3 DEF TInv, TypeOK, Semaphore
<1>5. semTable' = [semTable EXCEPT ![i].value = @ + (-1)]
  <2>1. semTable[i].value - 1 = semTable[i].value + (-1)
    BY <1>4
  <2> QED
    BY <1>3, <2>1
<1>6. signals' = [signals EXCEPT ![semTable[i].name] = @ + 0]
  <2>1. signals \in [Name -> Nat] /\ signals[semTable[i].name] + 0 = signals[semTable[i].name]
    BY <1>4 DEF TInv
  <2> QED
    BY <1>3, <1>4, <2>1
<1>7. TableKept
  <2>1. -1 \in Int /\ 0 \in Nat /\ 1 \in Nat /\ -1 = 0 - 1
    OBVIOUS
  <2>2. semTable[i] # NULL /\ created' = created /\ MayChange(i, -1)
    BY <1>1, <1>2, <1>3 DEF MayChange
  <2> QED
    BY <1>3, <1>5, <1>6, <2>1, <2>2, UnitStep
<1>8. TypeOK'
  BY <1>3, <1>7 DEF TInv, TypeOK, TableKept
<1>9. WaitersOk'
  BY <1>3, <1>7 DEF TInv, TypeOK, WaitersOk, TableKept
<1> QED
  BY <1>2, <1>7, <1>8, <1>9 DEF TInv, TableKept

\* Signal: a unit is added to the semaphore of that name.
LEMMA SignalTInv ==
    ASSUME TableConstants, TInv, NEW p \in Process, NEW n \in Name, Signal(p, n)
    PROVE  TInv'
<1>1. CASE Named(n) = {}
  BY <1>1, ResultTInv DEF Signal
<1>2. CASE Named(n) # {}
  <2>1. PICK i \in Named(n) :
          /\ semTable' = [semTable EXCEPT ![i].value = @ + 1]
          /\ signals' = [signals EXCEPT ![n] = @ + 1]
          /\ result' = [result EXCEPT ![p] = 1]
          /\ UNCHANGED <<place, sem, created, waits>>
    <3>1. Named(n) \in SUBSET Slot
      BY DEF Named, Used
    <3>2. FirstOf(Named(n)) \in Named(n)
      BY <1>2, <3>1, FirstIsFirst
    <3> QED
      BY <1>2, <3>2 DEF Signal, Return
  <2>2. i \in Slot /\ semTable[i] # NULL /\ semTable[i].name = n
    BY DEF Named, Used
  <2>3. MayChange(i, 1)
    BY <2>2 DEF TInv, ValuesOk, MayChange
  <2>4. waits' = [waits EXCEPT ![n] = @ + 0]
    <3>1. waits \in [Name -> Nat] /\ waits[n] + 0 = waits[n]
      BY DEF TInv
    <3> QED
      BY <2>1, <3>1
  <2>5. TableKept
    <3>1. 1 \in Int /\ 1 \in Nat /\ 0 \in Nat /\ 1 = 1 - 0
      OBVIOUS
    <3> QED
      BY <2>1, <2>2, <2>3, <2>4, <3>1, UnitStep
  <2>6. TypeOK'
    BY <2>1, <2>5 DEF TInv, TypeOK, TableKept
  <2>7. WaitersOk'
    BY <2>1, <2>5 DEF TInv, WaitersOk, TableKept
  <2> QED
    BY <2>1, <2>5, <2>6, <2>7 DEF TInv, TableKept
<1> QED
  BY <1>1, <1>2

\* Every step keeps the invariant.
LEMMA NextTInv ==
    ASSUME TableConstants, TInv, [Next]_vars
    PROVE  TInv'
<1>1. CASE UNCHANGED vars
  BY <1>1 DEF TInv, TypeOK, FirstUsed, Distinct, WaitersOk, ValuesOk, vars
<1>2. CASE Next
  BY <1>2, CreateTInv, WaitTInv, WaitReturnsTInv, SignalTInv DEF Next
<1> QED
  BY <1>1, <1>2

\* The invariant of the table holds in every behaviour of the calls
\* CreateSemaphore, Wait and Signal.
THEOREM TableInvariant ==
    ASSUME TableConstants
    PROVE  Spec => []TInv
<1>1. Init => TInv
  BY InitTInv
<1>2. TInv /\ [Next]_vars => TInv'
  BY NextTInv
<1> QED
  BY <1>1, <1>2, PTL DEF Spec

\* STable::Create gives a name one slot for good, and the slots in use are
\* the first ones.
THEOREM NamesAreUnique ==
    ASSUME TableConstants
    PROVE  Spec => []OneSemaphorePerName
<1>1. TInv => OneSemaphorePerName
  <2> SUFFICES ASSUME TInv PROVE OneSemaphorePerName
    OBVIOUS
  <2>1. PICK k \in 0..Slots : FirstUsed(k)
    BY DEF TInv
  <2>2. Used = 0..(k - 1) /\ k \in Nat
    BY <2>1 DEF Used, FirstUsed, Slot, TableConstants
  <2>3. Cardinality(0..(k - 1)) = IF 0 > k - 1 THEN 0 ELSE (k - 1) - 0 + 1
    BY <2>2, FS_Interval
  <2>4. Cardinality(Used) = k
    BY <2>2, <2>3
  <2>5. Used = 0..Cardinality(Used) - 1
    BY <2>2, <2>4
  <2>6. \A i, j \in Used : semTable[i].name = semTable[j].name => i = j
    BY DEF TInv, Distinct, Used
  <2>7. \A p \in Process : place[p] = "P" => sem[p] \in Used
    BY DEF TInv, WaitersOk, Used
  <2> QED
    BY <2>5, <2>6, <2>7 DEF OneSemaphorePerName
<1> QED
  BY <1>1, TableInvariant, PTL

\* STable::Wait and STable::Signal neither lose a unit nor make one up.
THEOREM UnitsAreAccounted ==
    ASSUME TableConstants
    PROVE  Spec => []UnitsAccounted
<1>1. TInv => UnitsAccounted
  BY DEF TInv, ValuesOk, UnitsAccounted, Used
<1> QED
  BY <1>1, TableInvariant, PTL

\* A Wait that returns takes a unit that is there (Semaphore::P), if its own
\* semaphore was not created below 0, whatever values the others have.
THEOREM WaitTakesUnit ==
    ASSUME TableConstants
    PROVE  Spec => WaitNeedsUnit
<1> DEFINE Step == \A p \in Process :
              (sem[p] # NULL /\ sem'[p] = NULL /\ created[semTable[sem[p]].name] >= 0)
                  => semTable[sem[p]].value > 0
<1>1. TInv /\ [Next]_vars => [Step]_vars
  <2> SUFFICES ASSUME TInv, Next, NEW p \in Process, sem[p] # NULL, sem'[p] = NULL,
                      created[semTable[sem[p]].name] >= 0
               PROVE  semTable[sem[p]].value > 0
    BY DEF vars
  <2>1. ASSUME NEW q \in Process, WaitReturns(q)
        PROVE  semTable[sem[p]].value > 0
    <3>1. created[semTable[sem[q]].name] >= 0 => semTable[sem[q]].value > 0
      BY <2>1, WaitReturnsTInv
    <3>2. p = q
      BY <2>1 DEF WaitReturns, TInv, TypeOK
    <3> QED
      BY <3>1, <3>2
  <2>2. ASSUME NEW q \in Process, NEW n \in Name, Wait(q, n)
        PROVE  FALSE
    <3>1. Named(n) # {}
      BY <2>2 DEF Wait
    <3>2. Named(n) \in SUBSET Slot
      BY DEF Named, Used
    <3>3. FirstOf(Named(n)) \in Slot
      BY <3>1, <3>2, FirstIsFirst
    <3>4. FirstOf(Named(n)) # NULL
      BY <3>3 DEF Slot, TableConstants
    <3>5. sem' = [sem EXCEPT ![q] = FirstOf(Named(n))] /\ sem \in [Process -> Slot \cup {NULL}]
      BY <2>2, <3>1 DEF Wait, TInv, TypeOK
    <3> QED
      BY <3>4, <3>5
  <2> QED
    BY <2>1, <2>2 DEF Next, CreateSemaphore, Signal
<1>2. TInv /\ [Next]_vars => [\A p \in Process :
         (sem[p] # NULL /\ sem'[p] = NULL /\ created[semTable[sem[p]].name] >= 0)
             => semTable[sem[p]].value > 0]_vars
  BY <1>1
<1> QED
  BY <1>2, TableInvariant, PTL DEF Spec, WaitNeedsUnit
==============================================================================
