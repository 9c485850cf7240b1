------------------------------- MODULE MCCalls -------------------------------
(* Processes that call Exec, Join and Exit ("processes"), and the entry of  *)
(* system calls of all kinds into the kernel ("calls").  Each behaviour is  *)
(* about one of the two.                                                    *)
EXTENDS MCProcesses

CONSTANT None

VARIABLES
    part,
    regs, saved, current, mode, type, readyList, last, halted  \* Syscalls

Users == {"main", "other"}

Sys == INSTANCE Syscalls
         WITH Thread <- Users, Main <- "main", Fault <- {"PageFaultException"}, MaxCalls <- 2,
              Code <- {"Add", "ReadNum", "PrintString", "Read", "GetPID", "Wait", "Exit",
                       "Halt", "Send", "ExecV", "RandomNum"}

sysVars == <<regs, saved, current, mode, type, readyList, last, halted>>
mcVars == <<part, vars, sysVars>>

MCInit == part \in {"processes", "calls"} /\ Init /\ Sys!Init

\* Once process 0 has exited, or a call has stopped the machine, it is off.
Off == halted /\ UNCHANGED sysVars

MCNext ==
    /\ UNCHANGED part
    /\ \/ part = "processes" /\ Next /\ UNCHANGED sysVars
       \/ part = "calls" /\ (Sys!Next \/ Off) /\ UNCHANGED vars

\* The fairness of each component, when the behaviour is about it.
MCSpec ==
    /\ MCInit /\ [][MCNext]_mcVars
    /\ \A p \in Pid : WF_vars(part = "processes" /\ KernelStep(p))
    /\ \A t \in Users :
          /\ WF_sysVars(part = "calls" /\ Sys!Run(t))
          /\ WF_sysVars(part = "calls" /\ Sys!Preempt(t))
          /\ SF_sysVars(part = "calls" /\ (Sys!Return(t) \/ Sys!SysHalt(t) \/ Sys!SysExit(t)))

\* Syscalls: one thread runs, and a call's result reaches the thread that made
\* it.
ResultIsOwn == Sys!TypeOK /\ Sys!ResultIsOwn

\* Processes and Syscalls: calls come back.  A Join returns once the child has
\* called Exit, and every call that has a case in ExceptionHandler ends or
\* sleeps until what it waits for happens.
CallsReturn == JoinReturns /\ Sys!CallsEnd
==============================================================================
