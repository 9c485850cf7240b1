----------------------------- MODULE MCPrograms -----------------------------
(* What user programs can do with system calls, in any order:               *)
(*   "processes"  Exec, Join and Exit, of programs that join any slot, join *)
(*                twice, or exit before their children;                     *)
(*   "files"      the file calls of two processes;                          *)
(*   "console"    one program that reads from the console and prints.       *)
(* Each behaviour is about one of them.                                     *)
EXTENDS Files

VARIABLES
    part,
    machine, bm, bmsem, pcb, physMap, addrLock, proc,              \* Processes
    typed, keyboard, display, memory, before, consoleCall, result  \* ConsoleCalls

\* All short lines over a few characters: digits, a blank, a minus sign, a
\* letter, EOF.
Lines ==
    UNION {{Append(s, 10) : s \in [1..n -> {32, 45, 48, 49, 50, 56, 120, -1}]} : n \in 1..4}
        \cup {<<10, 49, 10>>, <<10, 10, 10, 56, 32>>}

\* What programs write to a file.
Buffers == {<<>>, <<1>>, <<1, 2>>}

Proc == INSTANCE Processes
          WITH MaxProcess <- 3, NumPhysPages <- 3, Program <- {"shell", "small", "large"},
               MainProgram <- "shell",
               NumPages <- [shell |-> 1, small |-> 1, large |-> 2],
               ExitCode <- {1}, MaxNumWait <- 1, Careful <- FALSE
Con == INSTANCE ConsoleCalls
         WITH Width <- 8, MemorySize <- 5, Limit <- 2, call <- consoleCall

fileState == <<disk, named, fileTable, state, execs, fds, leaked, stopped>>
procVars == <<machine, bm, bmsem, pcb, physMap, addrLock, proc>>
consoleVars == <<typed, keyboard, display, memory, before, consoleCall, result>>
mcVars == <<part, procVars, vars, consoleVars>>

MCInit ==
    /\ part \in {"processes", "files", "console"}
    /\ Init /\ Proc!Init /\ Con!Init
    /\ part # "console" => typed = <<10, 49, 10>> /\ consoleCall = Con!Idle

MCNext ==
    /\ UNCHANGED part
    /\ \/ part = "processes" /\ Proc!Next /\ UNCHANGED <<vars, consoleVars>>
       \/ part = "files" /\ Next /\ UNCHANGED <<procVars, consoleVars>>
       \/ part = "console" /\ Con!Next /\ UNCHANGED <<vars, procVars>>

MCSpec == MCInit /\ [][MCNext]_mcVars

\* No action of Files reads its history variable call, and no step follows
\* one that stops the kernel, which leaves the files as they were.
View == <<part, procVars, IF stopped THEN <<>> ELSE fileState, consoleVars>>

\* Processes: whatever programs join, and whenever they exit, the answer of a
\* Join is a status that an Exit has stored, and the slots and the pages are
\* neither lost nor handed out twice.
TableIsRight == Proc!TypeOK /\ Proc!StatusIsStored /\ Proc!ResourcesAccounted

\* ConsoleCalls: what is typed is stored, and printed as it was typed.
InputIsKept == part = "console" => Con!InputIsKept
=============================================================================
