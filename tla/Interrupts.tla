----------------------------- MODULE Interrupts -----------------------------
(***************************************************************************)
(* The simulated clock and everything that hangs on it: the sorted list of *)
(* pending interrupts (machine/interrupt.cc), the timer that re-arms       *)
(* itself (machine/timer.cc, threads/alarm.cc), the machine status, and    *)
(* the machine registers and page table, of which there is one set that    *)
(* Scheduler::Run saves and restores.                                      *)
(*                                                                         *)
(* Module Threads lets handlers run in any order; this one has the order.  *)
(* Times are relative to totalTicks, so the clock itself has no bound.     *)
(* Every path on which a thread gets the CPU back (the end of Yield, of    *)
(* P and of Begin) turns interrupts on and so runs OneTick.  OneTicks can  *)
(* nest through Yield; the inner ones find status = SystemMode, so a       *)
(* suspended thread remembers only the oldStatus of its outermost OneTick. *)
(***************************************************************************)
EXTENDS Integers, Sequences, FiniteSets, SequencesExt

CONSTANTS
    Thread, Main,      \* the kernel's threads, and the first one
    Disk, Network,     \* devices: asked by a thread; polling by itself
    Delay,             \* how long each device may take
    TimerDelay,        \* {TimerTicks}, or a range under -rs
    UserTick, SystemTick,
    NULL

ASSUME InterruptsAssumption ==
    /\ Main \in Thread
    /\ UserTick \in Nat \ {0} /\ SystemTick \in Nat \ {0}
    /\ Delay \in [Disk \cup Network -> SUBSET (Nat \ {0})]
    /\ TimerDelay \subseteq Nat \ {0} /\ TimerDelay # {}

VARIABLES
    pending,        \* Interrupt::pending; due is when - totalTicks
    status,         \* Interrupt::status
    yieldOnReturn,  \* Interrupt::yieldOnReturn
    step,           \* what the CPU does: a thread runs, or CheckIfDue is
                    \* called from OneTick or from Idle
    current, ready, \* kernel->currentThread, the ready list
    user,           \* is the thread executing user instructions?
    oldStatus,      \* status to restore when a yield from OneTick ends
    waits, posted,  \* the device a thread waits for; its semaphore
    space,          \* does the thread have an address space?
    regs, userRegs, \* whose registers the machine, and each thread, holds
    pageTable       \* whose page table the machine uses

cpu == <<pending, status, yieldOnReturn, step>>
threads == <<current, ready, user, oldStatus, waits, posted>>
registers == <<space, regs, userRegs, pageTable>>
vars == <<cpu, threads, registers>>

Device == Disk \cup Network
MachineStatus == {"IdleMode", "SystemMode", "UserMode"}

\* The types of the variables; a device has at most one answer waiting.
TypeOK ==
    /\ pending \in Seq([type : Device \cup {"timer"}, due : Int])
    /\ status \in MachineStatus
    /\ yieldOnReturn \in BOOLEAN
    /\ step \in {"run", "OneTick", "Idle"}
    /\ current \in Thread /\ ready \in Seq(Thread)
    /\ user \in [Thread -> BOOLEAN]
    /\ oldStatus \in [Thread -> MachineStatus \cup {NULL}]
    /\ waits \in [Thread -> Disk \cup {NULL}]
    /\ posted \in [Disk -> 0..1]
    /\ space \in [Thread -> BOOLEAN]
    /\ regs \in Thread \cup {NULL} /\ pageTable \in Thread \cup {NULL}
    /\ userRegs \in [Thread -> Thread \cup {NULL}]

-----------------------------------------------------------------------------
\* SortedList::Insert: before the first element that is bigger.
Insert(list, item) ==
    LET bigger == {i \in DOMAIN list : item.due < list[i].due} IN
    IF bigger = {} THEN Append(list, item)
    ELSE InsertAt(list, CHOOSE i \in bigger : \A j \in bigger : i <= j, item)

Schedule(list, d, fromNow) == Insert(list, [type |-> d, due |-> fromNow])

\* The pending list when n ticks have gone by.
Later(n) == [i \in DOMAIN pending |-> [pending[i] EXCEPT !.due = @ - n]]

\* Kernel::Initialize: the timer and the polling devices are scheduled.
Init ==
    /\ \E n \in [Network -> UNION {Delay[d] : d \in Network}],
          first \in TimerDelay :
         /\ \A d \in Network : n[d] \in Delay[d]
         /\ pending = FoldLeft(LAMBDA l, d : Schedule(l, d, n[d]),
                               Schedule(<<>>, "timer", first),
                               SetToSeq(Network))
    /\ status = "SystemMode"
    /\ yieldOnReturn = FALSE
    /\ step = "run"
    /\ current = Main
    /\ ready = SetToSeq(Thread \ {Main})
    /\ user = [t \in Thread |-> FALSE]
    /\ oldStatus = [t \in Thread |-> NULL]
    /\ waits = [t \in Thread |-> NULL]
    /\ posted = [d \in Disk |-> 0]
    /\ space = [t \in Thread |-> FALSE]
    /\ regs = NULL /\ pageTable = NULL
    /\ userRegs = [t \in Thread |-> NULL]

-----------------------------------------------------------------------------
(* Time                                                                    *)

\* Mutant of Tick: the clock stands still in user mode.
TickSystemOnly(st) ==
    /\ pending' = Later(IF st = "SystemMode" THEN SystemTick ELSE 0)
    /\ step' = "OneTick"

\* The beginning of OneTick, with the machine in status st.
Tick(st) ==
    /\ pending' = Later(IF st = "SystemMode" THEN SystemTick ELSE UserTick)
    /\ step' = "OneTick"

\* SetLevel(IntOn) in the kernel, or the tick after a user instruction.
OneTick ==
    /\ step = "run"
    /\ Tick(status)
    /\ UNCHANGED <<status, yieldOnReturn, threads, registers>>

\* Timer::CallBack with Alarm::CallBack: ask for a yield unless idle, and
\* schedule the next timer interrupt.
TimerHandler(rest) ==
    /\ yieldOnReturn' = (yieldOnReturn \/ status # "IdleMode")
    /\ \E delay \in TimerDelay : pending' = Schedule(rest, "timer", delay)
    /\ UNCHANGED <<ready, posted>>

\* The thread sleeps, or is ready after having slept, in P: a thread that
\* has lost the CPU elsewhere while it has a request out is in a yield.
InP(t) ==
    /\ waits[t] # NULL /\ oldStatus[t] = NULL
    /\ t # current \/ step = "Idle"

\* NetworkInput::CallBack: poll, and schedule the next poll.
PollHandler(d, rest) ==
    /\ \E delay \in Delay[d] : pending' = Schedule(rest, d, delay)
    /\ UNCHANGED <<yieldOnReturn, ready, posted>>

\* Disk::CallBack with SynchDisk::CallBack: V, on behalf of the thread that
\* may be asleep in P by now.
DeviceHandler(d, rest) ==
    /\ pending' = rest
    /\ posted' = [posted EXCEPT ![d] = @ + 1]
    /\ ready' = ready \o SetToSeq({t \in Thread : waits[t] = d /\ InP(t)})
    /\ UNCHANGED yieldOnReturn

IsDue == pending # <<>> /\ Head(pending).due <= 0

\* Mutant of RunHandler: CheckIfDue runs one handler per tick.
RunHandlerIfFirst ==
    /\ step \in {"OneTick", "Idle"}
    /\ IsDue
    /\ LET d == Head(pending).type IN
       \/ d = "timer" /\ TimerHandler(Tail(pending))
       \/ d \in Network /\ PollHandler(d, Tail(pending))
       \/ d \in Disk /\ DeviceHandler(d, Tail(pending))
    /\ step' = IF step = "Idle" \/ yieldOnReturn' THEN step ELSE "run"
    /\ UNCHANGED <<status, current, user, oldStatus, waits, registers>>

\* Mutant of RunHandler: the interrupts that are due are taken last first.
RunHandlerLastFirst ==
    /\ step \in {"OneTick", "Idle"}
    /\ IsDue
    /\ LET last == CHOOSE i \in DOMAIN pending :
                      /\ pending[i].due <= 0
                      /\ \A j \in DOMAIN pending : j > i => pending[j].due > 0
           d == pending[last].type
           rest == RemoveAt(pending, last) IN
       \/ d = "timer" /\ TimerHandler(rest)
       \/ d \in Network /\ PollHandler(d, rest)
       \/ d \in Disk /\ DeviceHandler(d, rest)
    /\ UNCHANGED <<status, step, current, user, oldStatus, waits, registers>>

\* The loop of CheckIfDue takes the front interrupt off the list.
RunHandler ==
    /\ step \in {"OneTick", "Idle"}
    /\ IsDue
    /\ LET d == Head(pending).type IN
       \/ d = "timer" /\ TimerHandler(Tail(pending))
       \/ d \in Network /\ PollHandler(d, Tail(pending))
       \/ d \in Disk /\ DeviceHandler(d, Tail(pending))
    /\ UNCHANGED <<status, step, current, user, oldStatus, waits, registers>>

-----------------------------------------------------------------------------
(* Switching threads                                                       *)

\* Mutant of SwitchTo: the registers of the thread that leaves are not saved.
SwitchToUnsaved(n) ==
    /\ current' = n
    /\ regs' = IF space[n] THEN userRegs[n] ELSE regs
    /\ pageTable' = IF space[n] THEN n ELSE pageTable
    /\ UNCHANGED <<userRegs, space>>

\* Scheduler::Run: save the user state of the old thread, restore that of
\* the new one (each only if it has an address space).
SwitchTo(n) ==
    LET stored == IF space[current] THEN [userRegs EXCEPT ![current] = regs]
                  ELSE userRegs IN
    /\ current' = n
    /\ userRegs' = stored
    /\ regs' = IF space[n] THEN stored[n] ELSE regs
    /\ pageTable' = IF space[n] THEN n ELSE pageTable
    /\ UNCHANGED space

\* The front of the ready list, in status st, gets the CPU and ends the call
\* in which it lost it.  One that slept in P takes its unit.
Resume(st) ==
    LET n == Head(ready) IN
    /\ ready # <<>>
    /\ SwitchTo(n)
    /\ Tick(st)
    /\ IF InP(n)
       THEN /\ posted' = [posted EXCEPT ![waits[n]] = @ - 1]
            /\ waits' = [waits EXCEPT ![n] = NULL]
       ELSE UNCHANGED <<waits, posted>>

\* OneTick has run all handlers that were due; no one asked for a yield.
\* Suspended outer OneTicks return too, down to the one that set status.
EndTick ==
    /\ step = "OneTick"
    /\ ~IsDue /\ ~yieldOnReturn
    /\ step' = "run"
    /\ status' = IF oldStatus[current] = NULL THEN status
                 ELSE oldStatus[current]
    /\ oldStatus' = [oldStatus EXCEPT ![current] = NULL]
    /\ UNCHANGED <<pending, yieldOnReturn, current, ready, user, waits,
                   posted, registers>>

\* OneTick ends in Yield: another ready thread gets the CPU, or there is
\* none and Yield returns, by another OneTick.
TickYield ==
    /\ step = "OneTick"
    /\ ~IsDue /\ yieldOnReturn
    /\ yieldOnReturn' = FALSE
    /\ status' = "SystemMode"
    /\ oldStatus' = [oldStatus EXCEPT ![current] = IF @ = NULL THEN status ELSE @]
    /\ \/ /\ Resume("SystemMode")
          /\ ready' = Append(Tail(ready), current)
       \/ /\ ready = <<>>
          /\ Tick("SystemMode")
          /\ UNCHANGED <<current, ready, waits, posted, registers>>
    /\ UNCHANGED user

\* The kernel starts a request and goes on to wait for the interrupt.
Request(d) ==
    /\ step = "run" /\ ~user[current] /\ waits[current] = NULL
    /\ \A t \in Thread : waits[t] # d
    /\ \E delay \in Delay[d] : pending' = Schedule(pending, d, delay)
    /\ waits' = [waits EXCEPT ![current] = d]
    /\ UNCHANGED <<status, yieldOnReturn, step, current, ready, user,
                   oldStatus, posted, registers>>

\* The interrupt came before P: P does not sleep, and ticks as it returns.
WaitDone ==
    /\ step = "run" /\ waits[current] # NULL
    /\ posted[waits[current]] > 0
    /\ posted' = [posted EXCEPT ![waits[current]] = @ - 1]
    /\ waits' = [waits EXCEPT ![current] = NULL]
    /\ Tick(status)
    /\ UNCHANGED <<status, yieldOnReturn, current, ready, user, oldStatus,
                   registers>>

\* Thread::Sleep, in machine status st: another thread gets the CPU, or the
\* machine idles and the clock moves to the next interrupt.
FindNext(st) ==
    \/ /\ Resume(st)
       /\ ready' = Tail(ready)
       /\ status' = st
    \/ /\ ready = <<>>
       /\ status' = "IdleMode"
       /\ step' = "Idle"
       /\ pending' = Later(Head(pending).due)
       /\ UNCHANGED <<current, ready, waits, posted, registers>>

\* P finds nothing and sleeps.
Sleep ==
    /\ step = "run" /\ waits[current] # NULL
    /\ posted[waits[current]] = 0
    /\ FindNext(status)
    /\ UNCHANGED <<yieldOnReturn, user, oldStatus>>

\* Idle returns to the loop in Thread::Sleep.
IdleReturn ==
    /\ step = "Idle" /\ ~IsDue
    /\ FindNext("SystemMode")
    /\ UNCHANGED <<yieldOnReturn, user, oldStatus>>

-----------------------------------------------------------------------------
(* User programs                                                           *)

\* AddrSpace::Execute and the entry of Machine::Run.
Execute ==
    /\ step = "run" /\ ~space[current] /\ waits[current] = NULL
    /\ space' = [space EXCEPT ![current] = TRUE]
    /\ regs' = current /\ pageTable' = current
    /\ user' = [user EXCEPT ![current] = TRUE]
    /\ status' = "UserMode"
    /\ UNCHANGED <<pending, yieldOnReturn, step, current, ready, oldStatus,
                   waits, posted, userRegs>>

\* Machine::RaiseException, up to the call of the handler...
RaiseException ==
    /\ step = "run" /\ user[current]
    /\ user' = [user EXCEPT ![current] = FALSE]
    /\ status' = "SystemMode"
    /\ UNCHANGED <<pending, yieldOnReturn, step, current, ready, oldStatus,
                   waits, posted, registers>>

\* ... and its end, which the tick of Machine::Run follows.
ExceptionReturn ==
    /\ step = "run" /\ space[current] /\ ~user[current]
    /\ waits[current] = NULL
    /\ user' = [user EXCEPT ![current] = TRUE]
    /\ status' = "UserMode"
    /\ Tick("UserMode")
    /\ UNCHANGED <<yieldOnReturn, current, ready, oldStatus, waits, posted,
                   registers>>

-----------------------------------------------------------------------------
Next ==
    \/ OneTick \/ RunHandler \/ EndTick \/ TickYield \/ IdleReturn
    \/ \E d \in Disk : Request(d)
    \/ WaitDone \/ Sleep
    \/ Execute \/ RaiseException \/ ExceptionReturn

\* The simulator runs on.
Fairness == WF_vars(Next)

Spec == Init /\ [][Next]_vars /\ Fairness

-----------------------------------------------------------------------------
(* Properties                                                              *)

\* The machine status, one variable that threads save on their stacks over
\* a yield inside OneTick, is always right for the thread that runs:
\* UserMode exactly when it executes user instructions, IdleMode exactly in
\* Idle.  The clock's speed and the timer handler depend on it.
StatusIsRight ==
    /\ step = "run" => status = IF user[current] THEN "UserMode"
                                ELSE "SystemMode"
    /\ step = "Idle" <=> status = "IdleMode"

\* A user program never runs on another program's registers or page table,
\* although threads without an address space leave both as they find them.
UserStateIsOwn ==
    step = "run" /\ user[current] => regs = current /\ pageTable = current

\* No interrupt is late by a whole tick, and when a thread runs all that
\* were due have been taken (CheckIfDue's loop sees those that handlers
\* schedule while it runs).
OnTime ==
    \A i \in DOMAIN pending :
        /\ pending[i].due > -SystemTick
        /\ step = "run" => pending[i].due > 0

\* Handlers run in the order of their times, and never early: when a disk's
\* handler posts, its interrupt was due and no other was due before it.
EarliestFirst ==
    [][\A d \in Disk : posted'[d] > posted[d] =>
         \A i, j \in DOMAIN pending :
            pending[i].type = d => /\ pending[i].due <= 0
                                   /\ pending[i].due <= pending[j].due]_vars

\* There is always exactly one timer interrupt pending, so Idle never finds
\* the list empty and never stops the machine under sleeping threads.
TimerIsSet ==
    Cardinality({i \in DOMAIN pending : pending[i].type = "timer"}) = 1

\* The flag that the timer handler raises is taken down by the same OneTick:
\* no other thread, and no idle machine, inherits it.
YieldIsPrompt == yieldOnReturn => step = "OneTick"

\* Every interrupt that a device schedules comes, whatever the threads do:
\* each way round the loops of the kernel and of Machine::Run moves the
\* clock.  (That the thread waiting for it goes on is not promised: a thread
\* whose every return from Yield meets the next timer interrupt yields again
\* in the nested OneTick, and others can keep up that coincidence.)
InterruptComes ==
    \A d \in Disk : (\E i \in DOMAIN pending : pending[i].type = d)
                       ~> posted[d] = 1

\* The machine's state is that of the running thread, through the nested
\* ticks and yields of OneTick and the switches of Scheduler::Run.
StateFollowsThread == TypeOK /\ StatusIsRight /\ UserStateIsOwn

\* What is due has been handled when a thread runs, the timer is always set
\* again, and its request to yield is met by the tick that saw it.
HandlersOnTime == OnTime /\ TimerIsSet /\ YieldIsPrompt
==============================================================================
