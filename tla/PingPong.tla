------------------------------ MODULE PingPong ------------------------------
(***************************************************************************)
(* The test programs test/ping.c and test/pong.c, run as two processes,    *)
(* over the semaphore table.  Ping prints A and pong prints B.  Nothing    *)
(* makes one wait until the other has created its semaphore.               *)
(***************************************************************************)
EXTENDS SemTable

CONSTANTS
    Ping, Pong,  \* the two processes, and the names of their semaphores
    Rounds       \* turns of the loop (10 in the programs)

VARIABLES
    pc,
    turn,   \* statements of the loop that were begun
    output  \* how often each has printed

testVars == <<vars, pc, turn, output>>

TestInit ==
    /\ Init
    /\ pc = [p \in {Ping, Pong} |-> "create"]
    /\ turn = [p \in {Ping, Pong} |-> 0]
    /\ output = [p \in {Ping, Pong} |-> 0]

Other(p) == IF p = Ping THEN Pong ELSE Ping

\* The three statements of the loop: ping waits, prints and
\* signals, pong signals, prints and waits.
Statement(p, k) ==
    \/ k = "print" /\ output' = [output EXCEPT ![p] = @ + 1] /\ UNCHANGED vars
    \/ k = "wait" /\ Wait(p, p) /\ UNCHANGED output
    \/ k = "signal" /\ Signal(p, Other(p)) /\ UNCHANGED output

\* Mutant of Body: ping waits where it should signal.
BodyNoSignal(p) == IF p = Ping THEN <<"wait", "print", "wait">>
                   ELSE <<"signal", "print", "wait">>

Body(p) == IF p = Ping THEN <<"wait", "print", "signal">>
           ELSE <<"signal", "print", "wait">>

Create(p) ==
    /\ pc[p] = "create"
    /\ CreateSemaphore(p, p, 1)
    /\ pc' = [pc EXCEPT ![p] = "loop"]
    /\ UNCHANGED <<turn, output>>

Loop(p) ==
    /\ pc[p] = "loop" /\ place[p] = "user"
    /\ IF turn[p] = 3 * Rounds
       THEN /\ pc' = [pc EXCEPT ![p] = "exit"]
            /\ UNCHANGED <<vars, turn, output>>
       ELSE /\ Statement(p, Body(p)[(turn[p] % 3) + 1])
            /\ turn' = [turn EXCEPT ![p] = @ + 1]
            /\ UNCHANGED pc

EndWait(p) == WaitReturns(p) /\ UNCHANGED <<pc, turn, output>>

Step(p) == Create(p) \/ Loop(p) \/ EndWait(p)

TestNext == \E p \in {Ping, Pong} : Step(p)

TestSpec == TestInit /\ [][TestNext]_testVars /\ WF_testVars(Step(Ping))
                     /\ WF_testVars(Step(Pong))

\* Neither program gets more than two turns ahead of the other.
TakeTurns ==
    /\ output[Ping] <= output[Pong] + 2
    /\ output[Pong] <= output[Ping] + 2

\* The Signals that p has called, whether or not they found a semaphore.
SignalCalls(p) == Cardinality({k \in 0..turn[p] - 1 : Body(p)[(k % 3) + 1] = "signal"})

\* A Signal came before the other program had created its semaphore.
SignalLost == \E p \in {Ping, Pong} : signals[Other(p)] < SignalCalls(p)

\* Both programs come to their Exit unless a Signal is lost, which only
\* happens before the second CreateSemaphore.
BothExit == <>((\A p \in {Ping, Pong} : pc[p] = "exit") \/ SignalLost)
=============================================================================
