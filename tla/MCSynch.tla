------------------------------- MODULE MCSynch -------------------------------
(* Synchronisation, for TLC.  The parts do not interact, so each behaviour *)
(* is about one of them:                                                   *)
(*   "list"     threads that use a SynchList;                              *)
(*   "monitor"  threads that use its lock and condition in any order;      *)
(*   "table"    processes that use named semaphores in any order;          *)
(*   "pingpong" the programs ping and pong.                                *)
EXTENDS SynchList, Integers

VARIABLES
    part,
    semTable, place, sem, result, created, signals, waits,  \* SemTable
    pc, turn, output                                        \* PingPong

Process == {"ping", "pong"}
Name == {"ping", "pong", "other"}

Table == INSTANCE SemTable
           WITH Slots <- 2, InitialValue <- {-1, 0}, MaxSignals <- 2, MaxWaits <- 1
Test == INSTANCE PingPong
          WITH Ping <- "ping", Pong <- "pong", Rounds <- 10, Slots <- 2,
               InitialValue <- {1}, MaxSignals <- 20, MaxWaits <- 20

testOnly == <<pc, turn, output>>
tableVars == <<semTable, place, sem, result, created, signals, waits>>
testVars == <<tableVars, testOnly>>
mcVars == <<part, vars, testVars>>

MCInit == part \in {"list", "monitor", "table", "pingpong"} /\ Init /\ Test!TestInit

MCNext ==
    /\ UNCHANGED part
    /\ \/ part = "list" /\ Next /\ UNCHANGED testVars
       \/ part = "monitor" /\ MonitorNext /\ UNCHANGED <<listVars, testVars>>
       \/ part = "table" /\ Table!Next /\ UNCHANGED <<vars, testOnly>>
       \/ part = "pingpong" /\ Test!TestNext /\ UNCHANGED vars

\* The fairness of each component, when the behaviour is about it.
MCSpec ==
    /\ MCInit /\ [][MCNext]_mcVars
    /\ WF_vars(part = "list" /\ \E t \in Thread : LockStep(t))
    /\ \A t \in Thread :
          /\ WF_vars(part = "list" /\ OwnStep(t))
          /\ WF_monitorVars(part = "monitor" /\ SetHolder(t))
          /\ WF_monitorVars(part = "monitor" /\ WaiterP(t))
          /\ WF_monitorVars(part = "monitor" /\ EndWait(t))
    /\ WF_monitorVars(part = "monitor" /\ \E t \in Thread : AcquireP(t) \/ ReacquireP(t))
    /\ \A i \in 0..1 :
          WF_tableVars(part = "table" /\ \E p \in Process : sem[p] = i /\ Table!WaitReturns(p))
    /\ \A p \in Process : WF_testVars(part = "pingpong" /\ Test!Step(p))

\* SemTable and PingPong: a name has one semaphore, whoever creates it how
\* often, whose value is what was put in less what was taken; so ping and pong
\* print in turn.
UnitsAreKept ==
    Table!TypeOK /\ Table!OneSemaphorePerName /\ Table!UnitsAccounted /\ Test!TakeTurns

\* SemTable and PingPong: while a semaphore has units its waiters return, and
\* so both programs come to their end, unless one signals too early.
WaitsReturn == Table!WaitersAreServed /\ (part = "pingpong" => Test!BothExit)
==============================================================================
