------------------------------ MODULE Processes ------------------------------
(***************************************************************************)
(* User processes: the process table (threads/ptable.cc), the process      *)
(* control blocks (threads/pcb.cc), the Exec, Join and Exit system calls   *)
(* (userprog/ksyscall.h, exception.cc) and the allocation of physical      *)
(* pages by AddrSpace::Load and ~AddrSpace (userprog/addrspace.cc).        *)
(*                                                                         *)
(* A process is named by its slot in the table.  Semaphores are those of   *)
(* module CountingSemaphore; a step ends where P or V returns, because     *)
(* there the timer can give the CPU to another thread.  pc says where a    *)
(* process's thread stands:                                                *)
(*   "none"     no thread                                                  *)
(*   "load"     StartProcess: before the P of addrLock in AddrSpace::Load  *)
(*   "alloc"    AddrSpace::Load with addrLock taken                        *)
(*   "user"     running the user program                                   *)
(*   "exec", "slot", "fork", "forked", "execed"   in PTable::ExecUpdate    *)
(*   "join", "count", "joinwait", "joinsleep", "joined"                    *)
(*                                                in PTable::JoinUpdate    *)
(*   "exit", "exitsleep", "uncount", "release", "exitwait", "remove"       *)
(*                                                in PTable::ExitUpdate    *)
(*   "stranded" asleep on a semaphore that was deleted                     *)
(*   "dangling" in a method of a control block that was destroyed          *)
(* "joinsleep" and "exitsleep" are told apart from "joinwait" and "exit"   *)
(* because a thread asleep on a semaphore of another process's block does  *)
(* not look its slot up again.                                             *)
(***************************************************************************)
EXTENDS Integers, FiniteSets, FiniteSetsExt

CONSTANTS
    MaxProcess,    \* MAX_PROCESS
    NumPhysPages,  \* pages of physical memory
    Program,       \* executables on the file system
    MainProgram,   \* the one given on the command line
    NumPages,      \* pages each needs
    ExitCode,      \* values a program may pass to Exit
    MaxNumWait,    \* bound on numwait, which may only grow
    Careful,       \* programs join every process they start, once, before
                   \* they exit, as test/shell.c and test/test2.c do
    NULL

Pid == 0..(MaxProcess - 1)
Page == 0..(NumPhysPages - 1)

ASSUME ProcessAssumption ==
    /\ MaxProcess \in Nat \ {0} /\ NumPhysPages \in Nat
    /\ MainProgram \in Program
    /\ NumPages \in [Program -> 1..NumPhysPages]
    /\ ExitCode \subseteq Int
    /\ MaxNumWait \in Nat
    /\ Careful \in BOOLEAN

VARIABLES
    machine,   \* "on", "halted" (Interrupt::Halt), "aborted" (an ASSERT or
               \* a NULL pointer) or "undefined" (a deleted object was used)
    bm,        \* PTable::bm, the slots in use
    bmsem,     \* PTable::bmsem
    pcb,       \* PTable::pcb
    physMap,   \* Kernel::gPhysPageBitMap, the pages in use
    addrLock,  \* Kernel::addrLock
    proc       \* the thread of each process and its program's own state

vars == <<machine, bm, bmsem, pcb, physMap, addrLock, proc>>

Places == {"none", "load", "alloc", "user",
           "exec", "slot", "fork", "forked", "execed",
           "join", "count", "joinwait", "joinsleep", "joined",
           "exit", "exitsleep", "uncount", "release", "exitwait", "remove",
           "stranded", "dangling"}

\* A process control block: its semaphores are gone once it is destroyed,
\* but its memory is not (Finish never returns from ~PCB), so its fields
\* can still be read.
PCB == [parentID : Pid \cup {-1}, exitcode : Int, numwait : Nat,
        joinsem : Nat, exitsem : Nat, multex : Nat, destroyed : BOOLEAN]

ASSUME NullAssumption == NULL \notin PCB

NewPCB(parent) == [parentID |-> parent, exitcode |-> 0, numwait |-> 0,
                   joinsem |-> 0, exitsem |-> 0, multex |-> 1,
                   destroyed |-> FALSE]

\* A process's thread: where it stands, the argument of the system call it
\* is in, the executable it runs, its pages, and the process ids its program
\* has got from Exec and not yet given to Join.
NoProc == [pc |-> "none", arg |-> NULL, prog |-> NULL, pages |-> {},
           kids |-> {}]

\* The types of the table, of its blocks and semaphores, and of the processes.
TypeOK ==
    /\ machine \in {"on", "halted", "aborted", "undefined"}
    /\ bm \subseteq Pid
    /\ bmsem \in {0, 1} /\ addrLock \in {0, 1}
    /\ \A p \in Pid : pcb[p] = NULL \/ pcb[p] \in PCB
    /\ physMap \subseteq Page
    /\ \A p \in Pid : /\ proc[p].pc \in Places
                      /\ proc[p].prog \in Program \cup {NULL}
                      /\ proc[p].pages \subseteq Page
                      /\ proc[p].kids \subseteq Pid

\* main.cc: initStartProcess has made process 0, whose program is to be
\* loaded.  The thread's processID, never assigned, is read as 0.
Init ==
    /\ machine = "on"
    /\ bm = {0}
    /\ bmsem = 1
    /\ pcb = [p \in Pid |-> IF p = 0 THEN NewPCB(-1) ELSE NULL]
    /\ physMap = {}
    /\ addrLock = 1
    /\ proc = [p \in Pid |->
                 IF p = 0 THEN [NoProc EXCEPT !.pc = "load",
                                              !.prog = MainProgram]
                 ELSE NoProc]

-----------------------------------------------------------------------------
At(p, place) == machine = "on" /\ proc[p].pc = place

Goto(p, place) == proc' = [proc EXCEPT ![p].pc = place]

\* Use of a semaphore of process q's control block after its deletion.
DeletedUse(q) ==
    /\ pcb[q].destroyed
    /\ machine' = "undefined"
    /\ UNCHANGED <<bm, bmsem, pcb, physMap, addrLock, proc>>

Usable(q) == pcb[q] # NULL /\ ~pcb[q].destroyed

\* p's P of semaphore sem of process q's control block succeeds.
TakeUnit(p, q, sem, place) ==
    /\ pcb[q][sem] > 0
    /\ pcb' = [pcb EXCEPT ![q][sem] = @ - 1]
    /\ Goto(p, place)
    /\ UNCHANGED <<machine, bm, bmsem, physMap, addrLock>>

\* The n lowest-numbered free pages, as Bitmap::FindAndSet hands them out.
LowestFree(n) ==
    LET free == Page \ physMap
    IN {i \in free : Cardinality({j \in free : j < i}) < n}

-----------------------------------------------------------------------------
(* StartProcess and AddrSpace::Load                                        *)

LoadP(p) ==
    /\ At(p, "load")
    /\ addrLock > 0
    /\ addrLock' = addrLock - 1
    /\ Goto(p, "alloc")
    /\ UNCHANGED <<machine, bm, bmsem, pcb, physMap>>

\* Take the pages and release addrLock.  With too few free pages Load fails:
\* the main program then halts, StartProcess hits ASSERT(FALSE).
Allocate(p) ==
    /\ At(p, "alloc")
    /\ addrLock' = addrLock + 1
    /\ LET n == NumPages[proc[p].prog]
       IN  \/ /\ n <= Cardinality(Page \ physMap)
              /\ physMap' = physMap \cup LowestFree(n)
              /\ proc' = [proc EXCEPT ![p].pc = "user",
                                      ![p].pages = LowestFree(n)]
              /\ UNCHANGED machine
           \/ /\ n > Cardinality(Page \ physMap)
              /\ machine' = IF p = 0 THEN "halted" ELSE "aborted"
              /\ UNCHANGED <<physMap, proc>>
    /\ UNCHANGED <<bm, bmsem, pcb>>

-----------------------------------------------------------------------------
(* Exec                                                                    *)

\* SysExec has found the executable and calls PTable::ExecUpdate.
Exec(p, name) ==
    /\ At(p, "user")
    /\ proc' = [proc EXCEPT ![p].pc = "exec", ![p].arg = name]
    /\ UNCHANGED <<machine, bm, bmsem, pcb, physMap, addrLock>>

ExecP(p) ==
    /\ At(p, "exec")
    /\ bmsem > 0
    /\ bmsem' = bmsem - 1
    /\ Goto(p, "slot")
    /\ UNCHANGED <<machine, bm, pcb, physMap, addrLock>>

\* The name of the calling thread.  The main thread is called "main"; a
\* forked thread keeps a pointer to the name buffer that SC_Exec deletes, so
\* the comparison with it may come out either way.
ThreadNameMatches(p) == IF p = 0 THEN {FALSE} ELSE BOOLEAN

\* ExecUpdate returns -1 and gives back bmsem.
ExecFail(p) ==
    /\ At(p, "slot")
    /\ \/ TRUE \in ThreadNameMatches(p)
       \/ proc[p].arg = proc[0].prog
       \/ bm = Pid
    /\ bmsem' = bmsem + 1
    /\ proc' = [proc EXCEPT ![p].pc = "user", ![p].arg = NULL]
    /\ UNCHANGED <<machine, bm, pcb, physMap, addrLock>>

\* A free slot is marked and gets a new control block; PCB::Exec takes its
\* multex, which no one else can have.  The child's executable waits in the
\* slot's filename.
ExecSlot(p) ==
    /\ At(p, "slot")
    /\ FALSE \in ThreadNameMatches(p)
    /\ proc[p].arg # proc[0].prog
    /\ bm # Pid
    /\ LET i == Min(Pid \ bm)
       IN  /\ bm' = bm \cup {i}
           /\ pcb' = [pcb EXCEPT ![i] = [NewPCB(p) EXCEPT !.multex = 0]]
           /\ proc' = [proc EXCEPT ![i].prog = proc[p].arg,
                                   ![p].pc = "fork", ![p].arg = i]
    /\ UNCHANGED <<machine, bmsem, physMap, addrLock>>

\* PCB::Exec makes the thread and forks it.
ExecFork(p) ==
    /\ At(p, "fork")
    /\ proc' = [proc EXCEPT ![proc[p].arg].pc = "load", ![p].pc = "forked"]
    /\ UNCHANGED <<machine, bm, bmsem, pcb, physMap, addrLock>>

ExecForked(p) ==
    /\ At(p, "forked")
    /\ pcb' = [pcb EXCEPT ![proc[p].arg].multex = @ + 1]
    /\ Goto(p, "execed")
    /\ UNCHANGED <<machine, bm, bmsem, physMap, addrLock>>

\* ExecUpdate gives back bmsem and returns the process id.
ExecReturn(p) ==
    /\ At(p, "execed")
    /\ bmsem' = bmsem + 1
    /\ proc' = [proc EXCEPT ![p].pc = "user", ![p].arg = NULL,
                            ![p].kids = @ \cup {proc[p].arg}]
    /\ UNCHANGED <<machine, bm, pcb, physMap, addrLock>>

-----------------------------------------------------------------------------
(* Join                                                                    *)

\* JoinUpdate(id): only the parent may join; a slot that never held a
\* process is a NULL pointer.
Join(p, id) ==
    /\ At(p, "user")
    /\ Careful => id \in proc[p].kids
    /\ pcb[p].numwait < MaxNumWait
    /\ \/ /\ pcb[id] = NULL
          /\ machine' = "aborted"
          /\ UNCHANGED <<bm, bmsem, pcb, physMap, addrLock, proc>>
       \/ /\ pcb[id] # NULL
          /\ pcb[id].parentID = p
          /\ proc' = [proc EXCEPT ![p].pc = "join", ![p].arg = id]
          /\ UNCHANGED <<machine, bm, bmsem, pcb, physMap, addrLock>>
       \/ /\ pcb[id] # NULL
          /\ pcb[id].parentID # p
          /\ UNCHANGED vars

\* IncNumWait on the caller's own control block: its P, then its V.
JoinCountP(p) ==
    /\ At(p, "join")
    /\ TakeUnit(p, p, "multex", "count")

JoinCount(p) ==
    /\ At(p, "count")
    /\ pcb' = [pcb EXCEPT ![p].numwait = @ + 1, ![p].multex = @ + 1]
    /\ Goto(p, "joinwait")
    /\ UNCHANGED <<machine, bm, bmsem, physMap, addrLock>>

\* JoinWait: P of the child's joinsem, which passes or goes to sleep.
JoinWait(p) ==
    /\ At(p, "joinwait")
    /\ LET c == proc[p].arg
       IN  \/ DeletedUse(c)
           \/ /\ Usable(c)
              /\ pcb[c].joinsem = 0
              /\ Goto(p, "joinsleep")
              /\ UNCHANGED <<machine, bm, bmsem, pcb, physMap, addrLock>>
           \/ /\ Usable(c)
              /\ TakeUnit(p, c, "joinsem", "joined")

JoinWake(p) ==
    /\ At(p, "joinsleep")
    /\ TakeUnit(p, proc[p].arg, "joinsem", "joined")

\* Mutant of JoinReturn: no ExitRelease.
JoinReturnKeep(p) ==
    /\ At(p, "joined")
    /\ proc' = [proc EXCEPT ![p].pc = "user", ![p].arg = NULL,
                            ![p].kids = @ \ {proc[p].arg}]
    /\ UNCHANGED <<machine, bm, bmsem, pcb, physMap, addrLock>>

\* Read the exit code, let the child go (V of its exitsem) and return.
JoinReturn(p) ==
    /\ At(p, "joined")
    /\ pcb' = [pcb EXCEPT ![proc[p].arg].exitsem = @ + 1]
    /\ proc' = [proc EXCEPT ![p].pc = "user", ![p].arg = NULL,
                            ![p].kids = @ \ {proc[p].arg}]
    /\ UNCHANGED <<machine, bm, bmsem, physMap, addrLock>>

-----------------------------------------------------------------------------
(* Exit                                                                    *)

\* ExitUpdate: the main process halts the machine, another one stores its
\* exit code.
Exit(p, ec) ==
    /\ At(p, "user")
    /\ Careful => proc[p].kids = {}
    /\ \/ /\ p = 0
          /\ machine' = "halted"
          /\ physMap' = physMap \ proc[p].pages
          /\ UNCHANGED <<pcb, proc>>
       \/ /\ p # 0
          /\ pcb' = [pcb EXCEPT ![p].exitcode = ec]
          /\ proc' = [proc EXCEPT ![p].pc = "exit", ![p].arg = ec]
          /\ UNCHANGED <<machine, physMap>>
    /\ UNCHANGED <<bm, bmsem, addrLock>>

\* DecNumWait on the parent's control block: its P, then its V.
ExitCountP(p) ==
    /\ At(p, "exit")
    /\ LET q == pcb[p].parentID
       IN  \/ DeletedUse(q)
           \/ /\ Usable(q)
              /\ pcb[q].multex = 0
              /\ Goto(p, "exitsleep")
              /\ UNCHANGED <<machine, bm, bmsem, pcb, physMap, addrLock>>
           \/ /\ Usable(q)
              /\ TakeUnit(p, q, "multex", "uncount")

ExitCountWake(p) ==
    /\ At(p, "exitsleep")
    /\ TakeUnit(p, pcb[p].parentID, "multex", "uncount")

\* Mutant of ExitUncount: a process no one is waiting for leaves at once.
ExitUncountLeave(p) ==
    /\ At(p, "uncount")
    /\ pcb' = [pcb EXCEPT ![pcb[p].parentID].numwait = IF @ > 0 THEN @ - 1 ELSE @,
                          ![pcb[p].parentID].multex = @ + 1]
    /\ Goto(p, IF pcb[pcb[p].parentID].numwait = 0 THEN "remove" ELSE "release")
    /\ UNCHANGED <<machine, bm, bmsem, physMap, addrLock>>

ExitUncount(p) ==
    /\ At(p, "uncount")
    /\ pcb' = [pcb EXCEPT ![pcb[p].parentID].numwait = IF @ > 0 THEN @ - 1 ELSE @,
                          ![pcb[p].parentID].multex = @ + 1]
    /\ Goto(p, "release")
    /\ UNCHANGED <<machine, bm, bmsem, physMap, addrLock>>

\* The V of DecNumWait finds multex deleted.
UncountDeleted(p) ==
    /\ At(p, "dangling")
    /\ machine' = "undefined"
    /\ UNCHANGED <<bm, bmsem, pcb, physMap, addrLock, proc>>

\* Mutant of JoinRelease: the process does not wait for its parent.
JoinReleaseLeave(p) ==
    /\ At(p, "release")
    /\ pcb' = [pcb EXCEPT ![p].joinsem = @ + 1]
    /\ Goto(p, "remove")
    /\ UNCHANGED <<machine, bm, bmsem, physMap, addrLock>>

\* JoinRelease: V of joinsem.
JoinRelease(p) ==
    /\ At(p, "release")
    /\ pcb' = [pcb EXCEPT ![p].joinsem = @ + 1]
    /\ Goto(p, "exitwait")
    /\ UNCHANGED <<machine, bm, bmsem, physMap, addrLock>>

\* ExitWait: P of exitsem, released by the parent's Join.
ExitWait(p) ==
    /\ At(p, "exitwait")
    /\ TakeUnit(p, p, "exitsem", "remove")

\* Where the destruction of process p's control block leaves another
\* process.
AfterDelete(q, p) ==
    CASE proc[q].pc = "joinsleep" /\ proc[q].arg = p -> "stranded"
      [] proc[q].pc = "exitsleep" /\ pcb[q].parentID = p -> "stranded"
      [] proc[q].pc = "uncount" /\ pcb[q].parentID = p -> "dangling"
      [] OTHER -> proc[q].pc

\* Mutant of Remove: the address space is not freed.
RemoveKeepPages(p) ==
    /\ At(p, "remove")
    /\ bm' = bm \ {p}
    /\ pcb' = [pcb EXCEPT ![p].destroyed = TRUE]
    /\ proc' = [q \in Pid |-> IF q = p THEN NoProc
                              ELSE [proc[q] EXCEPT !.pc = AfterDelete(q, p)]]
    /\ UNCHANGED <<machine, bmsem, physMap, addrLock>>

\* Remove: free the slot, delete the semaphores, free the pages and finish
\* the thread, with no point in between where another thread can run.  The
\* pointer in the table stays.
Remove(p) ==
    /\ At(p, "remove")
    /\ bm' = bm \ {p}
    /\ pcb' = [pcb EXCEPT ![p].destroyed = TRUE]
    /\ physMap' = physMap \ proc[p].pages
    /\ proc' = [q \in Pid |-> IF q = p THEN NoProc
                              ELSE [proc[q] EXCEPT !.pc = AfterDelete(q, p)]]
    /\ UNCHANGED <<machine, bmsem, addrLock>>

-----------------------------------------------------------------------------
\* The steps of a system call, or of starting a process, after its entry.
KernelStep(p) ==
    \/ LoadP(p) \/ Allocate(p)
    \/ ExecP(p) \/ ExecFail(p) \/ ExecSlot(p) \/ ExecFork(p)
    \/ ExecForked(p) \/ ExecReturn(p)
    \/ JoinCountP(p) \/ JoinCount(p) \/ JoinWait(p) \/ JoinWake(p)
    \/ JoinReturn(p)
    \/ ExitCountP(p) \/ ExitCountWake(p) \/ ExitUncount(p)
    \/ UncountDeleted(p) \/ JoinRelease(p) \/ ExitWait(p) \/ Remove(p)

Stopped == machine # "on" /\ UNCHANGED vars

Next ==
    \/ \E p \in Pid :
         \/ KernelStep(p)
         \/ \E name \in Program : Exec(p, name)
         \/ \E id \in Pid : Join(p, id)
         \/ \E ec \in ExitCode : Exit(p, ec)
    \/ Stopped

Spec == Init /\ [][Next]_vars

\* Threads in the kernel are scheduled in turn (ReadyRuns in Threads).
Fairness == \A p \in Pid : WF_vars(KernelStep(p))

FairSpec == Spec /\ Fairness

-----------------------------------------------------------------------------
(* Properties                                                              *)

\* The processes that hold bmsem, and the ones that hold addrLock.
InExecUpdate == {p \in Pid : proc[p].pc \in {"slot", "fork", "forked", "execed"}}

Allocating == {p \in Pid : proc[p].pc = "alloc"}

\* p is in JoinUpdate(c); p is in ExitUpdate.
Joining(p, c) == /\ proc[p].pc \in {"join", "count", "joinwait",
                                     "joinsleep", "joined"}
                 /\ proc[p].arg = c

Exiting(p) == proc[p].pc \in {"exit", "exitsleep", "uncount", "release",
                              "exitwait", "remove"}

\* A slot is marked in PTable::bm exactly while its control block has its
\* semaphores, and a marked slot has a thread or is being given one by the
\* one ExecUpdate in progress: slots are neither leaked nor handed out twice,
\* although ExitUpdate clears the bitmap without taking bmsem.
SlotsAccounted ==
    /\ bm = {p \in Pid : Usable(p)}
    /\ \A p \in bm : proc[p].pc = "none" =>
         \E q \in InExecUpdate : proc[q].pc = "fork" /\ proc[q].arg = p
    /\ Cardinality(InExecUpdate) + bmsem = 1

\* While the machine runs, a physical page is marked in gPhysPageBitMap
\* exactly while it belongs to a loaded process, and to one only:
\* AddrSpace::Load gives no page to two processes and the exit of a process
\* returns each of its pages, although ~AddrSpace clears the bitmap without
\* taking addrLock.
PagesAccounted ==
    machine = "on" =>
      /\ physMap = UNION {proc[p].pages : p \in Pid}
      /\ \A p, q \in Pid : p # q => proc[p].pages \cap proc[q].pages = {}
      /\ Cardinality(Allocating) + addrLock = 1

\* Nothing that processes share is lost or handed out twice.
ResourcesAccounted == SlotsAccounted /\ PagesAccounted

\* When Join has got past joinsem, the process whose block it reads has stored
\* the code that it passed to Exit and still waits to be released: the status
\* is complete and the block not destroyed, whichever process it is.
StatusIsStored ==
    \A p \in Pid : proc[p].pc = "joined" =>
        LET c == proc[p].arg
        IN  /\ proc[c].pc = "exitwait"
            /\ pcb[c].exitcode = proc[c].arg

\* "Only return once the user program "id" has finished.  Return the exit
\* status": what Join returns is what the caller's own child passed to Exit,
\* not the status of a later process in its slot, which JoinUpdate looks up
\* again after it has waited for multex.
JoinSeesExitStatus ==
    /\ StatusIsStored
    /\ \A p \in Pid : proc[p].pc = "joined" => pcb[proc[p].arg].parentID = p

\* Programs that join each process they start once, before they exit, are
\* safe: a process id returned by Exec and not yet joined names a process
\* that is still the caller's child (its slot cannot be given to another
\* one meanwhile), no system call uses a semaphore that ~PCB deleted, and
\* Join returns that child's status.
ChildrenStay ==
    /\ machine # "undefined"
    /\ \A p \in Pid : \A c \in proc[p].kids : c \in bm /\ pcb[c].parentID = p
    /\ JoinSeesExitStatus

\* Join returns once the child has called Exit, and the child then leaves the
\* table (which only Join's release of exitsem allows): in the handshake over
\* multex, joinsem and exitsem parent and child never wait for each other.
JoinReturns ==
    \A c \in Pid :
        (Exiting(c) /\ \E p \in Pid : Joining(p, c)) ~> (machine # "on" \/ c \notin bm)

\* The comment on ~Semaphore, "Assume no one is still waiting on the
\* semaphore!": when ~PCB deletes the semaphores no process is asleep on one.
NoOneWaitsOnDeleted == \A p \in Pid : proc[p].pc # "stranded"

==============================================================================
