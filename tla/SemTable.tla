------------------------------ MODULE SemTable ------------------------------
(***************************************************************************)
(* The semaphores of user programs (threads/stable.cc) and the system      *)
(* calls CreateSemaphore, Wait and Signal (userprog/ksyscall.h,            *)
(* userprog/exception.cc).  A table of named semaphores; nothing removes   *)
(* one.  P and V are atomic (module Threads), P waiting while the value is *)
(* 0, which for a value below 0 it is not.                                 *)
(***************************************************************************)
EXTENDS Integers, FiniteSets

CONSTANTS
    Process,
    Name,
    Slots,        \* MAX_SEMAPHORE
    InitialValue, \* the values programs pass to CreateSemaphore
    MaxSignals,   \* bound: successful calls of Signal, by name
    MaxWaits,     \* bound: no Wait for a name that so many have returned from
    NULL

Slot == 0..Slots - 1

VARIABLES
    semTable, \* name and value of the semaphore in each slot, or NULL
    place,    \* "user", or "P" while the process waits in Wait
    sem,      \* the slot whose semaphore it waits for
    result,   \* register 2 of the last call
    created,  \* history: the initial value of each name, or NULL
    signals,  \* history: successful calls of Signal, by name
    waits     \* history: calls of Wait that have returned 1, by name

vars == <<semTable, place, sem, result, created, signals, waits>>

Semaphore == [name : Name, value : Int]

\* The table holds semaphores or NULL, and a process is in a program or in P.
TypeOK ==
    /\ semTable \in [Slot -> Semaphore \cup {NULL}]
    /\ place \in [Process -> {"user", "P"}]
    /\ sem \in [Process -> Slot \cup {NULL}]
    /\ result \in [Process -> Slot \cup {-1, 1, NULL}]

Init ==
    /\ semTable = [i \in Slot |-> NULL]
    /\ place = [p \in Process |-> "user"]
    /\ sem = [p \in Process |-> NULL]
    /\ result = [p \in Process |-> NULL]
    /\ created = [n \in Name |-> NULL]
    /\ signals = [n \in Name |-> 0]
    /\ waits = [n \in Name |-> 0]

\* The bitmap is set exactly for the slots in use.
Used == {i \in Slot : semTable[i] # NULL}
Named(n) == {i \in Used : semTable[i].name = n}
FirstOf(S) == CHOOSE i \in S : \A j \in S : i <= j

Return(p, r) == result' = [result EXCEPT ![p] = r]

\* Mutant of CreateSemaphore: the name is not looked up.
CreateSemaphoreAnew(p, n, v) ==
    /\ place[p] = "user"
    /\ IF Used = Slot
       THEN Return(p, -1) /\ UNCHANGED <<semTable, created>>
       ELSE LET idx == FirstOf(Slot \ Used) IN
            /\ semTable' = [semTable EXCEPT ![idx] = [name |-> n, value |-> v]]
            /\ created' = [created EXCEPT ![n] = v]
            /\ Return(p, idx)
    /\ UNCHANGED <<place, sem, signals, waits>>

\* SC_CreateSemaphore, SysCreateSemaphore, STable::Create.
CreateSemaphore(p, n, v) ==
    /\ place[p] = "user"
    /\ IF Named(n) # {} \/ Used = Slot
       THEN Return(p, -1) /\ UNCHANGED <<semTable, created>>
       ELSE LET idx == FirstOf(Slot \ Used) IN
            /\ semTable' = [semTable EXCEPT ![idx] = [name |-> n, value |-> v]]
            /\ created' = [created EXCEPT ![n] = v]
            /\ Return(p, idx)
    /\ UNCHANGED <<place, sem, signals, waits>>

\* SC_Wait up to Semaphore::P.
Wait(p, n) ==
    /\ place[p] = "user"
    /\ IF Named(n) = {}
       THEN Return(p, -1) /\ UNCHANGED <<place, sem>>
       ELSE /\ waits[n] < MaxWaits
            /\ place' = [place EXCEPT ![p] = "P"]
            /\ sem' = [sem EXCEPT ![p] = FirstOf(Named(n))]
            /\ UNCHANGED result
    /\ UNCHANGED <<semTable, created, signals, waits>>

\* The rest of SC_Wait: P has its unit.
WaitReturns(p) ==
    LET i == sem[p] IN
    /\ place[p] = "P" /\ semTable[i].value # 0
    /\ semTable' = [semTable EXCEPT ![i].value = @ - 1]
    /\ waits' = [waits EXCEPT ![semTable[i].name] = @ + 1]
    /\ place' = [place EXCEPT ![p] = "user"]
    /\ sem' = [sem EXCEPT ![p] = NULL]
    /\ Return(p, 1)
    /\ UNCHANGED <<created, signals>>

\* SC_Signal, SysSignal, STable::Signal.
Signal(p, n) ==
    /\ place[p] = "user"
    /\ IF Named(n) = {}
       THEN Return(p, -1) /\ UNCHANGED <<semTable, signals>>
       ELSE LET i == FirstOf(Named(n)) IN
            /\ signals[n] < MaxSignals
            /\ semTable' = [semTable EXCEPT ![i].value = @ + 1]
            /\ signals' = [signals EXCEPT ![n] = @ + 1]
            /\ Return(p, 1)
    /\ UNCHANGED <<place, sem, created, waits>>

Next ==
    \E p \in Process :
        \/ WaitReturns(p)
        \/ \E n \in Name :
              \/ \E v \in InitialValue : CreateSemaphore(p, n, v)
              \/ Wait(p, n)
              \/ Signal(p, n)

\* Several processes may wait for one semaphore: one of them gets its unit.
Fairness ==
    \A i \in Slot : WF_vars(\E p \in Process : sem[p] = i /\ WaitReturns(p))

Spec == Init /\ [][Next]_vars /\ Fairness

-----------------------------------------------------------------------------
(* Properties                                                              *)

\* Each name stands for one semaphore, which stays where it was created: the
\* slot that CreateSemaphore returned never holds another name.  The slots
\* in use are the first ones.
OneSemaphorePerName ==
    /\ \A i, j \in Used : semTable[i].name = semTable[j].name => i = j
    /\ Used = 0..Cardinality(Used) - 1
    /\ \A p \in Process : place[p] = "P" => sem[p] \in Used

\* No unit is lost or made up, whoever waits and signals: the value is the
\* initial one and the signals, less the waits that have returned.
UnitsAccounted ==
    \A i \in Used :
        LET n == semTable[i].name IN
        semTable[i].value = created[n] + signals[n] - waits[n]

\* Semaphore::P waits "until semaphore value > 0": a Wait returns only if there
\* is a unit for it, which it takes.  This is so of a semaphore created with a
\* value of 0 or more, whatever programs do with others; one created below 0
\* lets Waits pass without a unit, because P compares the value with 0 only.
WaitNeedsUnit ==
    [][\A p \in Process :
         (sem[p] # NULL /\ sem'[p] = NULL /\ created[semTable[sem[p]].name] >= 0)
             => semTable[sem[p]].value > 0]_vars

\* A process waits in Wait only while there is no unit, or another gets it.
WaitersAreServed ==
    \A i \in Slot :
        (\E p \in Process : sem[p] = i /\ semTable[i].value > 0)
            ~> ((\A p \in Process : sem[p] # i) \/ semTable[i].value = 0)

=============================================================================
