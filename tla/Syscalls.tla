-------------------------------- MODULE Syscalls --------------------------------
(***************************************************************************)
(* userprog/exception.cc: the entry into the kernel.  The threads of user  *)
(* processes share the registers of the machine, which a context switch    *)
(* saves and restores.  A system call reads its arguments from them, may   *)
(* lose the processor while it waits, and then writes its result to        *)
(* register 2 and advances the program counter.  What the calls do to the  *)
(* rest of the kernel is in Processes, Files, SemTable and ConsoleCalls.   *)
(*                                                                         *)
(* Program counters count instructions.  No call is in a delay slot (Mips  *)
(* is about those that are).                                               *)
(***************************************************************************)
EXTENDS Naturals, Sequences, FiniteSets, Functions, TLC

CONSTANTS
    Thread,
    Main,        \* the thread of process 0
    Code,        \* the system call codes the programs put in register 2
    Fault,       \* the other exceptions they run into
    MaxCalls,    \* how many calls a program makes before it exits
    None

VARIABLES
    regs,        \* the registers of the machine: pc, next and r2
    saved,       \* the registers saved in each thread
    current,     \* the running thread, or None
    mode,        \* "user", "kernel" or "blocked" in a call, or "finished"
    type,        \* the local variable of ExceptionHandler, one per thread
    readyList,
    last,        \* the place and the code of the last call of each thread
    halted

vars == <<regs, saved, current, mode, type, readyList, last, halted>>

\* What a call does with register 2, and whether it may wait in between.
Value == [result |-> TRUE, waits |-> FALSE]
Waiting == [result |-> TRUE, waits |-> TRUE]
WaitingNoValue == [result |-> FALSE, waits |-> TRUE]

AddCase == [Add |-> Value]

ConsoleCases ==
    [ReadNum |-> Waiting, PrintNum |-> WaitingNoValue, ReadChar |-> Waiting,
     PrintChar |-> WaitingNoValue, ReadString |-> WaitingNoValue, PrintString |-> WaitingNoValue]

\* Create writes register 2 in SysCreate; Read and Write may be of the console.
FileCases ==
    [Create |-> Value, Open |-> Value, Close |-> Value, Read |-> Waiting,
     Write |-> Waiting, Seek |-> Value, Remove |-> Value]

\* Exec writes register 2 in SysExec.
ProcessCases == [Exec |-> Waiting, Join |-> Waiting, GetPID |-> Value]

SemaphoreCases == [CreateSemaphore |-> Waiting, Wait |-> Waiting, Signal |-> Waiting]

Returning == AddCase @@ ConsoleCases @@ FileCases @@ ProcessCases @@ SemaphoreCases

SocketCases == {"SocketTCP", "Connect", "Send", "Receive", "Close_Socket"}
NotImplemented == {"ExecV", "CreateFile", "ThreadFork", "ThreadYield", "ThreadExit", "ThreadJoin"}

\* The cases that end in SysHalt.
Halting == {"Halt"} \cup SocketCases \cup NotImplemented

IncreasePC(r) == [r EXCEPT !.pc = r.pc + 1, !.next = r.pc + 2]

\* The registers a thread sees.
Registers(t) == IF current = t THEN regs ELSE saved[t]

\* What the call with this code, made by t at this place, returns.
Result(t, pc) == <<t, pc>>

Start == [pc |-> 0, next |-> 1, r2 |-> <<>>]

Init ==
    /\ regs = Start
    /\ saved = [t \in Thread |-> Start]
    /\ current = Main
    /\ mode = [t \in Thread |-> "user"]
    /\ type = [t \in Thread |-> None]
    /\ readyList \in {q \in [1..Cardinality(Thread) - 1 -> Thread \ {Main}] : IsInjective(q)}
    /\ last = [t \in Thread |-> None]
    /\ halted = FALSE

\* The running thread executes a syscall instruction: RaiseException calls
\* ExceptionHandler, which reads the code.  Executed again at the same place,
\* the instruction finds the code it found before.
Trap(c) ==
    /\ ~halted
    /\ current # None
    /\ mode[current] = "user"
    /\ regs.pc < MaxCalls \/ c = "Exit"
    /\ last[current] # None /\ last[current].pc = regs.pc => c = last[current].code
    /\ regs' = [regs EXCEPT !.r2 = <<c>>]
    /\ mode' = [mode EXCEPT ![current] = "kernel"]
    /\ type' = [type EXCEPT ![current] = c]
    /\ last' = [last EXCEPT ![current] = [pc |-> regs.pc, code |-> c]]
    /\ UNCHANGED <<saved, current, readyList, halted>>

\* Any other exception prints a message and stops the machine.
OtherException(e) ==
    /\ ~halted
    /\ current # None
    /\ mode[current] = "user"
    /\ halted' = TRUE
    /\ UNCHANGED <<regs, saved, current, mode, type, readyList, last>>

InKernel(t) == ~halted /\ current = t /\ mode[t] = "kernel"

SysHalt(t) ==
    /\ InKernel(t)
    /\ type[t] \in Halting
    /\ halted' = TRUE
    /\ UNCHANGED <<regs, saved, current, mode, type, readyList, last>>

\* The end of a call: its result, if any, IncreasePC and return.
Return(t) ==
    /\ InKernel(t)
    /\ type[t] \in DOMAIN Returning
    /\ regs' = IncreasePC(IF Returning[type[t]].result
                          THEN [regs EXCEPT !.r2 = Result(t, regs.pc)]
                          ELSE regs)
    /\ mode' = [mode EXCEPT ![t] = "user"]
    /\ UNCHANGED <<saved, current, type, readyList, last, halted>>

\* The default case: a message, and back to the program.
Unexpected(t) ==
    /\ InKernel(t)
    /\ type[t] \notin DOMAIN Returning \cup Halting \cup {"Exit"}
    /\ mode' = [mode EXCEPT ![t] = "user"]
    /\ UNCHANGED <<regs, saved, current, type, readyList, last, halted>>

\* The end of SysExit: the thread finishes, or the machine when process 0
\* exits.  Another process has waited for its parent before (Block).
SysExit(t) ==
    /\ InKernel(t)
    /\ type[t] = "Exit"
    /\ IF t = Main
       THEN halted' = TRUE /\ UNCHANGED <<current, mode>>
       ELSE current' = None /\ mode' = [mode EXCEPT ![t] = "finished"] /\ UNCHANGED halted
    /\ UNCHANGED <<regs, saved, type, readyList, last>>

\* Calls that may wait.  Exit does in DecNumWait and ExitWait (PTable::ExitUpdate).
MayWait(t) ==
    \/ type[t] \in DOMAIN Returning /\ Returning[type[t]].waits
    \/ type[t] = "Exit" /\ t # Main

\* A call waits for a device, a lock or another process.
Block(t) ==
    /\ InKernel(t)
    /\ MayWait(t)
    /\ saved' = [saved EXCEPT ![t] = regs]
    /\ mode' = [mode EXCEPT ![t] = "blocked"]
    /\ current' = None
    /\ UNCHANGED <<regs, type, readyList, last, halted>>

\* What it waits for happens, and the call will go on.  It need not happen: no
\* one may type, signal, or join a process that exits.
Wake(t) ==
    /\ ~halted
    /\ mode[t] = "blocked"
    /\ mode' = [mode EXCEPT ![t] = "kernel"]
    /\ readyList' = Append(readyList, t)
    /\ UNCHANGED <<regs, saved, current, type, last, halted>>

\* The timer takes the processor away, from a program or inside a call.
Preempt(t) ==
    /\ ~halted
    /\ current = t
    /\ readyList # <<>>
    /\ saved' = [saved EXCEPT ![t] = regs]
    /\ readyList' = Append(readyList, t)
    /\ current' = None
    /\ UNCHANGED <<regs, mode, type, last, halted>>

\* Mutant of Run: the registers are restored only if the thread was running
\* its program.
RunKernelThread(t) ==
    /\ ~halted
    /\ current = None
    /\ readyList # <<>> /\ t = Head(readyList)
    /\ current' = t
    /\ readyList' = Tail(readyList)
    /\ regs' = IF mode[t] = "user" THEN saved[t] ELSE regs
    /\ UNCHANGED <<saved, mode, type, last, halted>>

\* Scheduler::Run, which restores the registers of the thread it starts.
Run(t) ==
    /\ ~halted
    /\ current = None
    /\ readyList # <<>> /\ t = Head(readyList)
    /\ current' = t
    /\ readyList' = Tail(readyList)
    /\ regs' = saved[t]
    /\ UNCHANGED <<saved, mode, type, last, halted>>

Next ==
    \/ \E c \in Code : Trap(c)
    \/ \E e \in Fault : OtherException(e)
    \/ \E t \in Thread :
          \/ SysHalt(t) \/ Return(t) \/ Unexpected(t) \/ SysExit(t)
          \/ Block(t) \/ Wake(t) \/ Preempt(t) \/ Run(t)

\* The machine goes on, and the timer does not take the processor away every
\* time that a call could end.
Fairness ==
    \A t \in Thread :
        /\ WF_vars(Run(t))
        /\ WF_vars(Preempt(t))
        /\ SF_vars(Return(t) \/ SysHalt(t) \/ SysExit(t))

Spec == Init /\ [][Next]_vars /\ Fairness
---------------------------------------------------------------------------------
(* Properties.                                                             *)

\* One thread runs, the others are ready, blocked or finished, and the
\* program counters stay within the programs.
TypeOK ==
    /\ regs.pc \in 0..MaxCalls
    /\ \A t \in Thread : saved[t].pc \in 0..MaxCalls
    /\ current \in Thread \cup {None}
    /\ \A t \in Thread :
           (t # current /\ t \notin Range(readyList)) <=> mode[t] \in {"blocked", "finished"}

\* A call that returns has put its own result in register 2 of the thread
\* that made it, and left it behind with the program counter, whatever the
\* other threads did with the registers while it waited.
ResultIsOwn ==
    \A t \in Thread : mode[t] = "user" /\ last[t] # None =>
        LET c == last[t].code
            r == Registers(t)
        IN  c \in DOMAIN Returning =>
                /\ r.pc = last[t].pc + 1
                /\ r.next = last[t].pc + 2
                /\ r.r2 = IF Returning[c].result THEN Result(t, last[t].pc) ELSE <<c>>

\* "If you are handling a system call, don't forget to increment the pc
\* before returning": a call that has a case and is in the kernel, for the
\* first time or after it has waited, comes to an end at which its thread is
\* past it, or has exited, or the machine has stopped, or it goes to sleep for
\* something that is still to happen.  No call loops in the kernel, returns to
\* its own instruction or stays ready for ever.
CallsEnd ==
    \A t \in Thread :
        (mode[t] = "kernel" /\ type[t] \in DOMAIN Returning \cup Halting \cup {"Exit"})
            ~> \/ halted \/ mode[t] \in {"finished", "blocked"}
               \/ last[t] # None /\ Registers(t).pc > last[t].pc
================================================================================
