------------------------------- MODULE Threads -------------------------------
(***************************************************************************)
(* Kernel threads, the scheduler and counting semaphores of the kernel     *)
(* (threads/thread.cc, threads/scheduler.cc, threads/synch.cc), driven by  *)
(* the simulated interrupt hardware (machine/interrupt.cc, timer.cc and    *)
(* threads/alarm.cc).                                                      *)
(*                                                                         *)
(* The machine has one CPU.  A thread loses it only when it sleeps, when   *)
(* it yields, or when turning interrupts back on advances the clock        *)
(* (Interrupt::SetLevel calls OneTick) and the timer has asked for a       *)
(* yield.  Every other stretch of kernel code is one atomic step of the    *)
(* current thread, and pc says where each thread's kernel stack stands:    *)
(*   "none"    no such thread exists (not yet created, or deleted)         *)
(*   "begin"   forked; ThreadRoot has not called Thread::Begin yet         *)
(*   "run"     running kernel or user code with interrupts on              *)
(*   "tick"    inside OneTick: interrupt handlers may run                  *)
(*   "yield"   inside Thread::Yield, after Scheduler::Run                  *)
(*   "P"       inside the while loop of Semaphore::P                       *)
(*   "finish"  inside Thread::Finish, never to return                      *)
(***************************************************************************)
EXTENDS Integers, Sequences, FiniteSets, Functions

CONSTANTS
    Thread,        \* thread control blocks that can exist
    Main,          \* the thread Kernel::Initialize runs in
    Worker,        \* the postal worker it forks
    Sem,           \* semaphores
    DeviceSem,     \* those whose V is called by a device interrupt handler
    InitialValue,  \* the values they are created with
    MaxValue,      \* bound on a semaphore's value
    NULL

ASSUME ThreadAssumption ==
    /\ IsFiniteSet(Thread)
    /\ Main \in Thread /\ Worker \in Thread /\ Main # Worker
    /\ NULL \notin Thread /\ NULL \notin Sem
    /\ DeviceSem \subseteq Sem
    /\ InitialValue \in [Sem -> Nat]
    /\ MaxValue \in Nat

VARIABLES
    currentThread,  \* Kernel::currentThread
    readyList,      \* Scheduler::readyList
    toBeDestroyed,  \* Scheduler::toBeDestroyed
    status,         \* Thread::status, "none" where no thread exists
    pc,             \* where each thread's kernel stack stands
    waits,          \* the semaphore whose P a thread is inside, or NULL
    value,          \* Semaphore::value
    queue,          \* Semaphore::queue
    idle,           \* Interrupt::status = IdleMode
    yieldOnReturn   \* Interrupt::yieldOnReturn

vars == <<currentThread, readyList, toBeDestroyed, status, pc, waits,
          value, queue, idle, yieldOnReturn>>

Statuses == {"none", "RUNNING", "READY", "BLOCKED"}
Places == {"none", "begin", "run", "tick", "yield", "P", "finish"}

\* The types of the variables; semaphore values are never negative.
TypeOK ==
    /\ currentThread \in Thread
    /\ readyList \in Seq(Thread)
    /\ toBeDestroyed \in Thread \cup {NULL}
    /\ status \in [Thread -> Statuses]
    /\ pc \in [Thread -> Places]
    /\ waits \in [Thread -> Sem \cup {NULL}]
    /\ value \in [Sem -> Nat]
    /\ queue \in [Sem -> Seq(Thread)]
    /\ idle \in BOOLEAN
    /\ yieldOnReturn \in BOOLEAN

\* Kernel::Initialize has run with interrupts off up to its last line,
\* Interrupt::Enable: the postal worker is forked and ready.
Init ==
    /\ currentThread = Main
    /\ readyList = <<Worker>>
    /\ toBeDestroyed = NULL
    /\ status = [t \in Thread |-> IF t = Main THEN "RUNNING"
                                  ELSE IF t = Worker THEN "READY" ELSE "none"]
    /\ pc = [t \in Thread |-> IF t = Main THEN "tick"
                              ELSE IF t = Worker THEN "begin" ELSE "none"]
    /\ waits = [t \in Thread |-> NULL]
    /\ value = InitialValue
    /\ queue = [s \in Sem |-> <<>>]
    /\ idle = FALSE
    /\ yieldOnReturn = FALSE

\* The current thread is on the CPU at place p of its code.
At(t, p) == currentThread = t /\ status[t] = "RUNNING" /\ pc[t] = p

\* The current thread has given up the CPU and is looking for a successor.
Sleeping(t) == /\ currentThread = t
               /\ status[t] # "RUNNING"
               /\ pc[t] \in {"P", "finish"}

-----------------------------------------------------------------------------
(* Threads                                                                 *)

\* new Thread and Thread::Fork: the thread enters at Begin, the caller's
\* SetLevel(oldLevel) is a tick.
Fork(t, u) ==
    /\ At(t, "run")
    /\ status[u] = "none"
    /\ status' = [status EXCEPT ![u] = "READY"]
    /\ readyList' = Append(readyList, u)
    /\ pc' = [pc EXCEPT ![u] = "begin", ![t] = "tick"]
    /\ UNCHANGED <<currentThread, toBeDestroyed, waits, value, queue, idle,
                   yieldOnReturn>>

\* Thread::Begin after CheckToBeDestroyed: enabling interrupts is a tick.
Begin(t) ==
    /\ At(t, "begin")
    /\ toBeDestroyed = NULL
    /\ pc' = [pc EXCEPT ![t] = "tick"]
    /\ UNCHANGED <<currentThread, readyList, toBeDestroyed, status, waits,
                   value, queue, idle, yieldOnReturn>>

\* Thread::Finish up to the loop of Sleep(TRUE): the thread blocks on no
\* queue.  The main thread does not finish: it never returns to ThreadRoot.
Finish(t) ==
    /\ At(t, "run")
    /\ t # Main
    /\ status' = [status EXCEPT ![t] = "BLOCKED"]
    /\ pc' = [pc EXCEPT ![t] = "finish"]
    /\ UNCHANGED <<currentThread, readyList, toBeDestroyed, waits, value,
                   queue, idle, yieldOnReturn>>

\* Mutant of YieldCPU: ReadyToRun prepends.
YieldCPUPrepend(t) ==
    \/ /\ readyList # <<>>
       /\ readyList' = <<t>> \o Tail(readyList)
       /\ currentThread' = Head(readyList)
       /\ status' = [status EXCEPT ![t] = "READY",
                                   ![Head(readyList)] = "RUNNING"]
       /\ pc' = [pc EXCEPT ![t] = "yield"]
    \/ /\ readyList = <<>>
       /\ pc' = [pc EXCEPT ![t] = "tick"]
       /\ UNCHANGED <<readyList, currentThread, status>>

\* The part of Thread::Yield that gives the CPU to the next ready thread;
\* with no ready thread only the trailing SetLevel, a tick, is left.
YieldCPU(t) ==
    \/ /\ readyList # <<>>
       /\ readyList' = Append(Tail(readyList), t)
       /\ currentThread' = Head(readyList)
       /\ status' = [status EXCEPT ![t] = "READY",
                                   ![Head(readyList)] = "RUNNING"]
       /\ pc' = [pc EXCEPT ![t] = "yield"]
    \/ /\ readyList = <<>>
       /\ pc' = [pc EXCEPT ![t] = "tick"]
       /\ UNCHANGED <<readyList, currentThread, status>>

\* Thread::Yield called by the thread itself.
Yield(t) ==
    /\ At(t, "run")
    /\ YieldCPU(t)
    /\ UNCHANGED <<toBeDestroyed, waits, value, queue, idle, yieldOnReturn>>

\* Back in Thread::Yield: CheckToBeDestroyed is done, SetLevel is a tick.
ResumeYield(t) ==
    /\ At(t, "yield")
    /\ toBeDestroyed = NULL
    /\ pc' = [pc EXCEPT ![t] = "tick"]
    /\ UNCHANGED <<currentThread, readyList, toBeDestroyed, status, waits,
                   value, queue, idle, yieldOnReturn>>

\* One user instruction, followed by Interrupt::OneTick.
OneInstruction(t) ==
    /\ At(t, "run")
    /\ pc' = [pc EXCEPT ![t] = "tick"]
    /\ UNCHANGED <<currentThread, readyList, toBeDestroyed, status, waits,
                   value, queue, idle, yieldOnReturn>>

-----------------------------------------------------------------------------
(* The scheduler                                                           *)

\* The end of Thread::Sleep: Scheduler::Run hands the CPU to the front of
\* the ready list, and remembers a finishing thread for deletion.  A thread
\* woken while it idled may be handed its own CPU back.
Dispatch(t) ==
    /\ Sleeping(t)
    /\ ~idle
    /\ readyList # <<>>
    /\ currentThread' = Head(readyList)
    /\ readyList' = Tail(readyList)
    /\ status' = [status EXCEPT ![Head(readyList)] = "RUNNING"]
    /\ toBeDestroyed' = IF pc[t] = "finish" THEN t ELSE toBeDestroyed
    /\ UNCHANGED <<pc, waits, value, queue, idle, yieldOnReturn>>

\* The first thing a thread does on the CPU: delete the thread that gave it
\* up for good.
CheckToBeDestroyed(t) ==
    /\ currentThread = t /\ status[t] = "RUNNING"
    /\ pc[t] \in {"begin", "yield", "P"}
    /\ toBeDestroyed # NULL
    /\ status' = [status EXCEPT ![toBeDestroyed] = "none"]
    /\ pc' = [pc EXCEPT ![toBeDestroyed] = "none"]
    /\ toBeDestroyed' = NULL
    /\ UNCHANGED <<currentThread, readyList, waits, value, queue, idle,
                   yieldOnReturn>>

-----------------------------------------------------------------------------
(* Semaphores                                                              *)

\* The while loop of Semaphore::P, entered at its test.
TryP(t, s) ==
    \/ /\ value[s] = 0
       /\ queue' = [queue EXCEPT ![s] = Append(@, t)]
       /\ status' = [status EXCEPT ![t] = "BLOCKED"]
       /\ pc' = [pc EXCEPT ![t] = "P"]
       /\ waits' = [waits EXCEPT ![t] = s]
       /\ UNCHANGED value
    \/ /\ value[s] > 0
       /\ value' = [value EXCEPT ![s] = @ - 1]
       /\ pc' = [pc EXCEPT ![t] = "tick"]
       /\ waits' = [waits EXCEPT ![t] = NULL]
       /\ UNCHANGED <<queue, status>>

P(t, s) ==
    /\ At(t, "run")
    /\ TryP(t, s)
    /\ UNCHANGED <<currentThread, readyList, toBeDestroyed, idle,
                   yieldOnReturn>>

\* Mutant of ResumeP: "if" for "while", the value is taken for granted.
ResumePOnce(t) ==
    /\ At(t, "P")
    /\ toBeDestroyed = NULL
    /\ value' = [value EXCEPT ![waits[t]] = IF @ > 0 THEN @ - 1 ELSE @]
    /\ pc' = [pc EXCEPT ![t] = "tick"]
    /\ waits' = [waits EXCEPT ![t] = NULL]
    /\ UNCHANGED <<queue, status, currentThread, readyList, toBeDestroyed,
                   idle, yieldOnReturn>>

\* Sleep has returned inside P: the loop tests the value again, because
\* another thread may have taken it since the wakeup.
ResumeP(t) ==
    /\ At(t, "P")
    /\ toBeDestroyed = NULL
    /\ TryP(t, waits[t])
    /\ UNCHANGED <<currentThread, readyList, toBeDestroyed, idle,
                   yieldOnReturn>>

\* Mutant of Signal: a thread is woken only when the value was zero.
SignalAtZero(s) ==
    /\ value[s] < MaxValue
    /\ value' = [value EXCEPT ![s] = @ + 1]
    /\ \/ /\ queue[s] # <<>> /\ value[s] = 0
          /\ readyList' = Append(readyList, Head(queue[s]))
          /\ status' = [status EXCEPT ![Head(queue[s])] = "READY"]
          /\ queue' = [queue EXCEPT ![s] = Tail(@)]
       \/ /\ queue[s] = <<>> \/ value[s] > 0
          /\ UNCHANGED <<readyList, status, queue>>

\* The body of Semaphore::V, with interrupts off.
Signal(s) ==
    /\ value[s] < MaxValue
    /\ value' = [value EXCEPT ![s] = @ + 1]
    /\ \/ /\ queue[s] # <<>>
          /\ readyList' = Append(readyList, Head(queue[s]))
          /\ status' = [status EXCEPT ![Head(queue[s])] = "READY"]
          /\ queue' = [queue EXCEPT ![s] = Tail(@)]
       \/ /\ queue[s] = <<>>
          /\ UNCHANGED <<readyList, status, queue>>

\* Semaphore::V called by a thread: restoring the level is a tick.
V(t, s) ==
    /\ At(t, "run")
    /\ Signal(s)
    /\ pc' = [pc EXCEPT ![t] = "tick"]
    /\ UNCHANGED <<currentThread, toBeDestroyed, waits, idle, yieldOnReturn>>

-----------------------------------------------------------------------------
(* Interrupts                                                              *)

\* Interrupt handlers run from CheckIfDue: inside OneTick, or while idling.
TakingInterrupts == idle \/ At(currentThread, "tick")

\* A device handler (console, disk, network) wakes the thread that waits for
\* the device; interrupts stay off, so V does not tick.
DeviceInterrupt(s) ==
    /\ TakingInterrupts
    /\ s \in DeviceSem
    /\ Signal(s)
    /\ UNCHANGED <<currentThread, toBeDestroyed, pc, waits, idle,
                   yieldOnReturn>>

\* Timer::CallBack and Alarm::CallBack: ask for a yield unless idling.
TimerInterrupt ==
    /\ TakingInterrupts
    /\ ~idle
    /\ ~yieldOnReturn
    /\ yieldOnReturn' = TRUE
    /\ UNCHANGED <<currentThread, readyList, toBeDestroyed, status, pc, waits,
                   value, queue, idle>>

\* The end of Interrupt::OneTick: the interrupted thread yields if asked to.
EndTick(t) ==
    /\ At(t, "tick")
    /\ yieldOnReturn' = FALSE
    /\ \/ yieldOnReturn /\ YieldCPU(t)
       \/ /\ ~yieldOnReturn
          /\ pc' = [pc EXCEPT ![t] = "run"]
          /\ UNCHANGED <<currentThread, readyList, status>>
    /\ UNCHANGED <<toBeDestroyed, waits, value, queue, idle>>

\* Interrupt::Idle, called from Thread::Sleep while no thread is ready.
Idle(t) ==
    /\ Sleeping(t)
    /\ ~idle
    /\ readyList = <<>>
    /\ idle' = TRUE
    /\ UNCHANGED <<currentThread, readyList, toBeDestroyed, status, pc, waits,
                   value, queue, yieldOnReturn>>

\* Idle returns to Sleep's loop once the due handlers have run.  The timer
\* is always pending (SetInterrupt re-arms it and nothing disables it), so
\* the branch that halts the machine is never taken.
IdleReturn ==
    /\ idle
    /\ idle' = FALSE
    /\ UNCHANGED <<currentThread, readyList, toBeDestroyed, status, pc, waits,
                   value, queue, yieldOnReturn>>

-----------------------------------------------------------------------------
ThreadStep(t) ==
    \/ \E u \in Thread : Fork(t, u)
    \/ Begin(t) \/ Finish(t) \/ Yield(t) \/ ResumeYield(t)
    \/ OneInstruction(t) \/ Dispatch(t) \/ CheckToBeDestroyed(t)
    \/ \E s \in Sem : P(t, s) \/ V(t, s)
    \/ ResumeP(t) \/ EndTick(t) \/ Idle(t)

Next ==
    \/ \E t \in Thread : ThreadStep(t)
    \/ \E s \in Sem : DeviceInterrupt(s)
    \/ TimerInterrupt
    \/ IdleReturn

Spec == Init /\ [][Next]_vars

\* The CPU never stops, and the timer, always pending, fires at one of any
\* sufficiently long run of ticks.
Fairness == WF_vars(Next) /\ SF_vars(TimerInterrupt)

FairSpec == Spec /\ Fairness

-----------------------------------------------------------------------------
(* Properties                                                              *)

\* Every thread is in exactly one place.  The ready list holds each READY
\* thread once, a semaphore's queue holds each thread blocked in its P once,
\* and only the current thread is RUNNING.  This is what List::Append
\* (ASSERT(!IsInList(item))) and Scheduler::Run rely on: a thread on two
\* lists would be run twice on one stack.
OnePlace ==
    /\ IsInjective(readyList)
    /\ \A t \in Thread : t \in Range(readyList) <=> status[t] = "READY"
    /\ \A s \in Sem :
         /\ IsInjective(queue[s])
         /\ \A t \in Thread : t \in Range(queue[s]) <=>
                                  (status[t] = "BLOCKED" /\ waits[t] = s)
    /\ \A t \in Thread : status[t] = "RUNNING" => t = currentThread

\* A thread is deleted by another one, when nothing can reach it any more.
\* Thread::~Thread asserts this # kernel->currentThread, and Scheduler::Run
\* asserts toBeDestroyed == NULL when a thread finishes: the thread that is
\* marked is finished and is not the current one, and the mark is gone
\* before the current thread can itself sleep, yield or finish.
DestroyedSafely ==
    toBeDestroyed # NULL =>
        /\ toBeDestroyed # currentThread
        /\ pc[toBeDestroyed] = "finish"
        /\ status[currentThread] = "RUNNING"
        /\ pc[currentThread] \in {"begin", "yield", "P"}

\* Threads that V has taken off the queue of s and that have not yet got
\* through P.
Woken(s) == {t \in Thread : waits[t] = s /\ status[t] \in {"READY", "RUNNING"}}

\* No lost wakeup: while a thread is queued on a semaphore, every unit of
\* the semaphore's value is matched by a thread already woken to take it.
\* V wakes one thread and P tests the value again in a loop, so a thread
\* that barges in between takes a unit from a woken thread, never from a
\* queued one.
NoLostWakeup ==
    \A s \in Sem : queue[s] # <<>> => value[s] <= Cardinality(Woken(s))

\* How a thread's status goes with the place where its kernel stack stands.
\* A suspended thread resumes only at a point that first destroys the thread
\* that finished before it, a thread is inside some P exactly when it has a
\* semaphore there, and the machine idles only under a sleeping thread.
StacksAgree ==
    /\ \A t \in Thread :
         /\ status[t] = "none" <=> pc[t] = "none"
         /\ waits[t] # NULL <=> pc[t] = "P"
         /\ pc[t] = "finish" => status[t] = "BLOCKED"
         /\ status[t] = "BLOCKED" => pc[t] \in {"P", "finish"}
         /\ status[t] = "READY" => pc[t] \in {"begin", "yield", "P"}
    /\ status[currentThread] = "RUNNING" \/ pc[currentThread] \in {"P", "finish"}
    /\ idle => status[currentThread] # "RUNNING"

\* What Scheduler, Thread and Semaphore keep true together: stacks and
\* statuses agree, each thread is in one place, a finished thread is deleted
\* safely and no wakeup is lost.  None of these is preserved without the
\* others; together they are the inductive invariant of the proofs.
IInv == TypeOK /\ StacksAgree /\ OnePlace /\ DestroyedSafely /\ NoLostWakeup

\* A thread that has called Finish never gets the CPU back: its status stays
\* BLOCKED until it is deleted, whatever V or a device handler wakes.
FinishedStaysFinished ==
    [][\A t \in Thread : pc[t] = "finish" =>
          \/ pc'[t] = "finish" /\ status'[t] = "BLOCKED"
          \/ pc'[t] = "none" /\ currentThread # t]_vars

\* Round robin: a ready thread gets the CPU, however long the threads ahead
\* of it run, because the timer makes them yield and the ready list is FIFO.
ReadyRuns ==
    \A t \in Thread : status[t] = "READY" ~> status[t] = "RUNNING"

Semaphores == INSTANCE CountingSemaphore

\* P and V, built from a queue of sleeping threads, the ready list and the
\* interrupt level, implement counting semaphores: P returns only by taking
\* a unit, and a unit that stays available is taken by a waiting thread.
ImplementsSemaphores == Semaphores!Spec
==============================================================================
