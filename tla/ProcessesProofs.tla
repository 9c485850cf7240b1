--------------------------- MODULE ProcessesProofs ---------------------------
(***************************************************************************)
(* Proofs about Processes, for every size of the process table and of the  *)
(* memory, every set of programs and whether or not they are careful: the  *)
(* slots of the table and the pages of memory are accounted for.           *)
(***************************************************************************)
EXTENDS Processes, FiniteSetTheorems, WellFoundedInduction, TLAPS

\* Bitmap::FindAndSet finds a clear bit if there is one.
LEMMA MinIsMember ==
    ASSUME NEW S \in SUBSET Nat, S # {}
    PROVE  Min(S) \in S
<1>1. PICK x \in S : \A y \in S : ~(<<y, x>> \in OpToRel(<, Nat))
  BY NatLessThanWellFounded, WFMin
<1>2. OpToRel(<, Nat) = {r \in Nat \X Nat : r[1] < r[2]}
  BY DEF OpToRel
<1>3. \A y \in S : ~(y < x)
  BY <1>1, <1>2
<1>4. \A y \in S : x =< y
  BY <1>3
<1> QED
  BY <1>4 DEF Min

-----------------------------------------------------------------------------
(* The inductive invariant                                                 *)

ProcRecord == [pc : Places, arg : Pid \cup Program \cup ExitCode \cup {NULL},
               prog : Program \cup {NULL}, pages : SUBSET Page,
               kids : SUBSET Pid]

ExecSites == {"slot", "fork", "forked", "execed"}
JoinSites == {"join", "count", "joinwait", "joinsleep", "joined"}
ExitSites == {"exit", "exitsleep", "uncount", "release", "exitwait", "remove"}

Typed ==
    /\ machine \in {"on", "halted", "aborted", "undefined"}
    /\ bm \subseteq Pid
    /\ bmsem \in {0, 1} /\ addrLock \in {0, 1}
    /\ pcb \in [Pid -> PCB \cup {NULL}]
    /\ physMap \subseteq Page
    /\ proc \in [Pid -> ProcRecord]

\* A marked slot is one whose block has its semaphores; only marked slots
\* have threads; the slot that PCB::Exec is about to give a thread is marked
\* and has none; every other marked slot has one.
SlotsOk ==
    /\ \A p \in Pid : p \in bm <=> Usable(p)
    /\ \A p \in Pid : proc[p].pc # "none" => p \in bm
    /\ \A p \in Pid : proc[p].pc = "fork" =>
            proc[p].arg \in bm /\ proc[proc[p].arg].pc = "none"
    /\ \A p \in bm : proc[p].pc = "none" =>
            \E q \in Pid : proc[q].pc = "fork" /\ proc[q].arg = p

\* bmsem is free, or one process is in ExecUpdate; the same for addrLock.
OneExec ==
    \/ bmsem = 1 /\ \A p \in Pid : proc[p].pc \notin ExecSites
    \/ /\ bmsem = 0
       /\ \E p \in Pid : /\ proc[p].pc \in ExecSites
                         /\ \A q \in Pid : proc[q].pc \in ExecSites => q = p

OneAlloc ==
    \/ addrLock = 1 /\ \A p \in Pid : proc[p].pc # "alloc"
    \/ /\ addrLock = 0
       /\ \E p \in Pid : /\ proc[p].pc = "alloc"
                         /\ \A q \in Pid : proc[q].pc = "alloc" => q = p

\* The arguments that the parts of a system call pass on: slots that have
\* been used, and executables; only the main process's block has no parent.
ArgsOk ==
    /\ \A p \in Pid :
        /\ proc[p].pc \in {"exec", "slot"} => proc[p].arg \in Program
        /\ proc[p].pc \in {"fork", "forked", "execed"} \cup JoinSites =>
              proc[p].arg \in Pid /\ pcb[proc[p].arg] # NULL
        /\ proc[p].pc \in ExitSites => p # 0
    /\ \A p \in Pid \ {0} : pcb[p] # NULL =>
          pcb[p].parentID \in Pid /\ pcb[pcb[p].parentID] # NULL

\* A page is marked exactly if a process has it, and then only one; a process
\* that is not loaded has none.
PagesOk ==
    /\ \A p \in Pid : proc[p].pages \subseteq physMap
    /\ \A x \in physMap : \E p \in Pid : x \in proc[p].pages
    /\ \A p, q \in Pid : p # q => proc[p].pages \cap proc[q].pages = {}
    /\ \A p \in Pid : proc[p].pc \in {"none", "load", "alloc"} => proc[p].pages = {}

PInv ==
    /\ Typed /\ SlotsOk /\ OneExec /\ ArgsOk
    /\ machine = "on" => (PagesOk /\ OneAlloc)

-----------------------------------------------------------------------------
\* The machine with one process in the table satisfies the invariant.
LEMMA InitPInv ==
    Init => PInv
<1> SUFFICES ASSUME Init PROVE PInv
  OBVIOUS
<1>1. 0 \in Pid /\ Pid \subseteq Nat
  BY ProcessAssumption DEF Pid
<1>2. NewPCB(-1) \in PCB
  BY ProcessAssumption DEF NewPCB, PCB
<1>3. proc \in [Pid -> ProcRecord]
  BY <1>1, ProcessAssumption DEF Init, NoProc, ProcRecord, Places
<1>4. Typed
  BY <1>1, <1>2, <1>3 DEF Init, Typed
<1>5. \A p \in Pid : proc[p].pc = (IF p = 0 THEN "load" ELSE "none")
                     /\ proc[p].pages = {}
  BY DEF Init, NoProc
<1>6. \A p \in Pid : pcb[p] = (IF p = 0 THEN NewPCB(-1) ELSE NULL)
  BY DEF Init
<1>7. SlotsOk
  <2>1. Usable(0) /\ \A p \in Pid \ {0} : ~Usable(p)
    BY <1>1, <1>2, <1>6, NullAssumption DEF Usable, NewPCB
  <2>2. bm = {0}
    BY DEF Init
  <2> QED
    BY <1>1, <1>5, <2>1, <2>2 DEF SlotsOk
<1>8. OneExec
  BY <1>5 DEF Init, OneExec, ExecSites
<1>9. ArgsOk
  BY <1>1, <1>5, <1>6 DEF ArgsOk, JoinSites, ExitSites
<1>10. PagesOk /\ OneAlloc
  BY <1>5 DEF Init, PagesOk, OneAlloc
<1> QED
  BY <1>4, <1>7, <1>8, <1>9, <1>10 DEF PInv

\* A process with a thread has a control block.
LEMMA RunningHasBlock ==
    ASSUME PInv, NEW p \in Pid, proc[p].pc # "none"
    PROVE  p \in bm /\ pcb[p] \in PCB
  BY DEF PInv, Typed, SlotsOk, Usable

\* Most steps of a system call: process p goes from one place to another
\* outside of loading and of "fork", with its pages and its executable; the
\* blocks keep their parents and their semaphores.
LEMMA CallStep ==
    ASSUME PInv, machine = "on", NEW p \in Pid, NEW r \in ProcRecord,
           proc' = [proc EXCEPT ![p] = r],
           r.pages = proc[p].pages,
           proc[p].pc \notin {"none", "load", "alloc", "fork"},
           r.pc \notin {"none", "load", "alloc", "fork"},
           pcb' \in [Pid -> PCB \cup {NULL}],
           \A q \in Pid : pcb'[q] = NULL <=> pcb[q] = NULL,
           \A q \in Pid : pcb[q] # NULL =>
               pcb'[q].parentID = pcb[q].parentID
               /\ pcb'[q].destroyed = pcb[q].destroyed,
           UNCHANGED <<machine, bm, physMap, addrLock>>,
           bmsem' \in {0, 1}, OneExec',
           r.pc \in {"exec", "slot"} => r.arg \in Program,
           r.pc \in {"forked", "execed"} \cup JoinSites => r.arg \in Pid /\ pcb[r.arg] # NULL,
           r.pc \in ExitSites => p # 0
    PROVE  PInv'
<1>1. proc \in [Pid -> ProcRecord]
  BY DEF PInv, Typed
<1>2. \A q \in Pid : proc'[q] = IF q = p THEN r ELSE proc[q]
  BY <1>1
<1>3. Typed'
  <2>1. proc' \in [Pid -> ProcRecord]
    BY <1>1
  <2> QED
    BY <2>1 DEF PInv, Typed
<1>4. SlotsOk'
  <2>1. \A q \in Pid : Usable(q)' <=> Usable(q)
    BY DEF Usable
  <2>2. \A q \in Pid : q \in bm' <=> Usable(q)'
    BY <2>1 DEF PInv, SlotsOk
  <2>3. \A q \in Pid : (proc'[q].pc = "none") <=> (proc[q].pc = "none")
    BY <1>2
  <2>4. \A q \in Pid : proc'[q].pc = "fork" <=> proc[q].pc = "fork"
    BY <1>2
  <2>5. \A q \in Pid : proc[q].pc = "fork" => proc'[q].arg = proc[q].arg
    BY <1>2
  <2>6. bm \subseteq Pid /\ bm' = bm
    BY DEF PInv, Typed
  <2> QED
    BY <2>2, <2>3, <2>4, <2>5, <2>6 DEF PInv, SlotsOk
<1>5. ArgsOk'
  <2>1. \A q \in Pid :
        /\ proc'[q].pc \in {"exec", "slot"} => proc'[q].arg \in Program
        /\ proc'[q].pc \in {"fork", "forked", "execed"} \cup JoinSites =>
              proc'[q].arg \in Pid /\ pcb[proc'[q].arg] # NULL
        /\ proc'[q].pc \in ExitSites => q # 0
    BY <1>2 DEF PInv, ArgsOk
  <2>2. \A q \in Pid \ {0} : pcb'[q] # NULL =>
          pcb'[q].parentID \in Pid /\ pcb'[pcb'[q].parentID] # NULL
    BY DEF PInv, ArgsOk
  <2> QED
    BY <2>1, <2>2 DEF ArgsOk
<1>6. PagesOk' /\ OneAlloc'
  <2>1. \A q \in Pid : proc'[q].pages = proc[q].pages
    BY <1>2
  <2>2. \A q \in Pid : \A s \in {"none", "load", "alloc"} :
            proc'[q].pc = s <=> proc[q].pc = s
    BY <1>2
  <2>3. PagesOk'
    BY <2>1, <2>2 DEF PInv, PagesOk
  <2> QED
    BY <2>2, <2>3 DEF PInv, OneAlloc
<1> QED
  BY <1>3, <1>4, <1>5, <1>6 DEF PInv

\* A change of one block that keeps its parent and its semaphores.
BlockChange(q) ==
    \E b \in PCB : /\ pcb[q] \in PCB
                   /\ b.parentID = pcb[q].parentID
                   /\ b.destroyed = pcb[q].destroyed
                   /\ pcb' = [pcb EXCEPT ![q] = b]

\* The steps of that kind that neither begin nor end ExecUpdate.
LEMMA QuietStep ==
    ASSUME PInv, machine = "on", NEW p \in Pid, NEW r \in ProcRecord,
           proc' = [proc EXCEPT ![p] = r],
           r.pages = proc[p].pages,
           proc[p].pc \notin {"none", "load", "alloc", "fork"},
           r.pc \notin {"none", "load", "alloc", "fork"},
           r.pc \in ExecSites <=> proc[p].pc \in ExecSites,
           UNCHANGED pcb \/ \E q \in Pid : BlockChange(q),
           UNCHANGED <<machine, bm, bmsem, physMap, addrLock>>,
           r.pc \in {"exec", "slot"} => r.arg \in Program,
           r.pc \in {"forked", "execed"} \cup JoinSites => r.arg \in Pid /\ pcb[r.arg] # NULL,
           r.pc \in ExitSites => p # 0
    PROVE  PInv'
<1>1. pcb \in [Pid -> PCB \cup {NULL}] /\ proc \in [Pid -> ProcRecord] /\ bmsem \in {0, 1}
  BY DEF PInv, Typed
<1>2. /\ pcb' \in [Pid -> PCB \cup {NULL}]
      /\ \A q \in Pid : pcb'[q] = NULL <=> pcb[q] = NULL
      /\ \A q \in Pid : pcb[q] # NULL => pcb'[q].parentID = pcb[q].parentID
                                         /\ pcb'[q].destroyed = pcb[q].destroyed
  <2>1. CASE UNCHANGED pcb
    BY <1>1, <2>1
  <2>2. CASE \E q \in Pid : BlockChange(q)
    <3>1. PICK q \in Pid, b \in PCB :
              /\ pcb[q] \in PCB
              /\ b.parentID = pcb[q].parentID /\ b.destroyed = pcb[q].destroyed
              /\ pcb' = [pcb EXCEPT ![q] = b]
      BY <2>2 DEF BlockChange
    <3>2. \A u \in Pid : pcb'[u] = IF u = q THEN b ELSE pcb[u]
      BY <1>1, <3>1
    <3>3. pcb' \in [Pid -> PCB \cup {NULL}]
      BY <1>1, <3>1
    <3> QED
      BY <3>1, <3>2, <3>3, NullAssumption
  <2> QED
    BY <2>1, <2>2
<1>3. OneExec'
  <2>1. \A q \in Pid : proc'[q].pc \in ExecSites <=> proc[q].pc \in ExecSites
    BY <1>1
  <2> QED
    BY <2>1 DEF PInv, OneExec
<1> QED
  BY <1>1, <1>2, <1>3, CallStep

\* A process in JoinUpdate.
LEMMA JoinArg ==
    ASSUME PInv, NEW p \in Pid, proc[p].pc \in JoinSites \cup {"forked", "execed"}
    PROVE  proc[p].arg \in Pid /\ pcb[proc[p].arg] \in PCB
  BY DEF PInv, Typed, ArgsOk

\* A process in ExitUpdate is not the main process, and its parent has a
\* control block.
LEMMA ExitParent ==
    ASSUME PInv, NEW p \in Pid, proc[p].pc \in ExitSites
    PROVE  p # 0 /\ pcb[p] \in PCB /\ pcb[p].parentID \in Pid
           /\ pcb[pcb[p].parentID] \in PCB
<1>1. p # 0
  BY DEF PInv, ArgsOk
<1>2. pcb[p] \in PCB
  BY RunningHasBlock DEF ExitSites
<1>3. pcb[p].parentID \in Pid /\ pcb[pcb[p].parentID] # NULL
  BY <1>1, <1>2, NullAssumption DEF PInv, ArgsOk
<1> QED
  BY <1>1, <1>2, <1>3 DEF PInv, Typed

\* A step after which the machine has stopped, and nothing else has changed.
LEMMA StopStep ==
    ASSUME PInv, machine = "on", machine' \in {"halted", "aborted", "undefined"},
           UNCHANGED <<bm, bmsem, pcb, physMap, addrLock, proc>>
    PROVE  PInv'
<1>1. Typed'
  BY DEF PInv, Typed
<1>2. SlotsOk'
  BY DEF PInv, SlotsOk, Usable
<1>3. OneExec' /\ ArgsOk'
  BY DEF PInv, OneExec, ArgsOk
<1> QED
  BY <1>1, <1>2, <1>3 DEF PInv

\* The steps that only go on to another place of the same system call.
LEMMA GotoStep ==
    ASSUME PInv, machine = "on", NEW p \in Pid, NEW s \in Places, Goto(p, s),
           proc[p].pc \notin {"none", "load", "alloc", "fork"},
           s \notin {"none", "load", "alloc", "fork", "exec", "slot"},
           s \in ExecSites <=> proc[p].pc \in ExecSites,
           UNCHANGED pcb \/ \E q \in Pid : BlockChange(q),
           UNCHANGED <<machine, bm, bmsem, physMap, addrLock>>,
           s \in {"forked", "execed"} => proc[p].pc = "forked",
           s \in JoinSites => proc[p].pc \in JoinSites,
           s \in ExitSites => proc[p].pc \in ExitSites
    PROVE  PInv'
<1> DEFINE r == [proc[p] EXCEPT !.pc = s]
<1>1. proc \in [Pid -> ProcRecord]
  BY DEF PInv, Typed
<1>2. /\ r \in ProcRecord /\ r.pc = s
      /\ r.arg = proc[p].arg /\ r.pages = proc[p].pages
  BY <1>1 DEF ProcRecord
<1>3. proc' = [proc EXCEPT ![p] = r]
  BY DEF Goto
<1>4. s \in {"forked", "execed"} \cup JoinSites => r.arg \in Pid /\ pcb[r.arg] # NULL
  BY <1>2 DEF PInv, ArgsOk
<1>5. s \in ExitSites => p # 0
  BY DEF PInv, ArgsOk
<1> HIDE DEF r
<1> QED
  BY <1>2, <1>3, <1>4, <1>5, QuietStep

\* A P that succeeds changes one semaphore of one block.
LEMMA UnitTaken ==
    ASSUME NEW q \in Pid, pcb \in [Pid -> PCB \cup {NULL}], pcb[q] \in PCB, NEW p, NEW s,
           \/ TakeUnit(p, q, "joinsem", s) \/ TakeUnit(p, q, "exitsem", s)
           \/ TakeUnit(p, q, "multex", s)
    PROVE  /\ Goto(p, s) /\ BlockChange(q)
           /\ UNCHANGED <<machine, bm, bmsem, physMap, addrLock>>
<1>1. CASE TakeUnit(p, q, "joinsem", s)
  <2> DEFINE b == [pcb[q] EXCEPT !.joinsem = @ - 1]
  <2>1. b \in PCB /\ b.parentID = pcb[q].parentID /\ b.destroyed = pcb[q].destroyed
    BY <1>1 DEF TakeUnit, PCB
  <2>2. pcb' = [pcb EXCEPT ![q] = b]
    BY <1>1 DEF TakeUnit
  <2> QED
    BY <1>1, <2>1, <2>2 DEF TakeUnit, BlockChange
<1>2. CASE TakeUnit(p, q, "exitsem", s)
  <2> DEFINE b == [pcb[q] EXCEPT !.exitsem = @ - 1]
  <2>1. b \in PCB /\ b.parentID = pcb[q].parentID /\ b.destroyed = pcb[q].destroyed
    BY <1>2 DEF TakeUnit, PCB
  <2>2. pcb' = [pcb EXCEPT ![q] = b]
    BY <1>2 DEF TakeUnit
  <2> QED
    BY <1>2, <2>1, <2>2 DEF TakeUnit, BlockChange
<1>3. CASE TakeUnit(p, q, "multex", s)
  <2> DEFINE b == [pcb[q] EXCEPT !.multex = @ - 1]
  <2>1. b \in PCB /\ b.parentID = pcb[q].parentID /\ b.destroyed = pcb[q].destroyed
    BY <1>3 DEF TakeUnit, PCB
  <2>2. pcb' = [pcb EXCEPT ![q] = b]
    BY <1>3 DEF TakeUnit
  <2> QED
    BY <1>3, <2>1, <2>2 DEF TakeUnit, BlockChange
<1> QED
  BY <1>1, <1>2, <1>3

-----------------------------------------------------------------------------
(* One lemma for each system call                                          *)

\* The steps of JoinUpdate.
LEMMA JoinPInv ==
    ASSUME PInv, NEW p \in Pid,
           \/ \E id \in Pid : Join(p, id)
           \/ JoinCountP(p) \/ JoinCount(p) \/ JoinWait(p) \/ JoinWake(p)
           \/ JoinReturn(p)
    PROVE  PInv' \/ UNCHANGED vars
<1> USE DEF JoinSites, ExecSites, ExitSites
<1>0. machine = "on" /\ proc[p] \in ProcRecord /\ proc[p].pc # "none"
  BY DEF Join, JoinCountP, JoinCount, JoinWait, JoinWake, JoinReturn, At, PInv, Typed
<1>1. pcb[p] \in PCB
  BY <1>0, RunningHasBlock
<1>2. ASSUME NEW id \in Pid, Join(p, id) PROVE PInv' \/ UNCHANGED vars
  <2>1. CASE machine' = "aborted" /\ UNCHANGED <<bm, bmsem, pcb, physMap, addrLock, proc>>
    BY <1>0, <2>1, StopStep
  <2>2. CASE /\ pcb[id] # NULL
             /\ proc' = [proc EXCEPT ![p].pc = "join", ![p].arg = id]
             /\ UNCHANGED <<machine, bm, bmsem, pcb, physMap, addrLock>>
    <3> DEFINE r == [proc[p] EXCEPT !.pc = "join", !.arg = id]
    <3>1. r \in ProcRecord /\ r.pc = "join" /\ r.arg = id /\ r.pages = proc[p].pages
      BY <1>0 DEF ProcRecord, Places
    <3>2. proc' = [proc EXCEPT ![p] = r]
      BY <2>2 DEF PInv, Typed
    <3>3. proc[p].pc = "user"
      BY <1>2 DEF Join, At
    <3> HIDE DEF r
    <3> QED
      BY <1>0, <2>2, <3>1, <3>2, <3>3, QuietStep
  <2> QED
    BY <1>2, <2>1, <2>2 DEF Join
<1>3. ASSUME JoinCountP(p) PROVE PInv'
  <2>1. Goto(p, "count") /\ BlockChange(p) /\ UNCHANGED <<machine, bm, bmsem, physMap, addrLock>>
    BY <1>1, <1>3, UnitTaken DEF JoinCountP, PInv, Typed
  <2> QED
    BY <1>0, <1>3, <2>1, GotoStep DEF JoinCountP, At, Places
<1>4. ASSUME JoinCount(p) PROVE PInv'
  <2> DEFINE b == [pcb[p] EXCEPT !.numwait = @ + 1, !.multex = @ + 1]
  <2>1. b \in PCB /\ b.parentID = pcb[p].parentID /\ b.destroyed = pcb[p].destroyed
    <3>1. pcb[p].numwait + 1 \in Nat /\ pcb[p].multex + 1 \in Nat
      BY <1>1 DEF PCB
    <3> QED
      BY <1>1, <3>1 DEF PCB
  <2>2. pcb' = [pcb EXCEPT ![p] = b]
    BY <1>4 DEF JoinCount, PInv, Typed
  <2>3. BlockChange(p)
    BY <1>1, <2>1, <2>2 DEF BlockChange
  <2> QED
    BY <1>0, <1>4, <2>3, GotoStep DEF JoinCount, At, Places
<1>5. ASSUME JoinWait(p) \/ JoinWake(p) PROVE PInv'
  <2> DEFINE c == proc[p].arg
  <2>1. c \in Pid /\ pcb[c] \in PCB
    BY <1>5, JoinArg DEF JoinWait, JoinWake, At
  <2>2. CASE DeletedUse(c)
    BY <1>0, <2>2, StopStep DEF DeletedUse
  <2>3. CASE /\ JoinWait(p) /\ Goto(p, "joinsleep")
             /\ UNCHANGED <<machine, bm, bmsem, pcb, physMap, addrLock>>
    BY <1>0, <2>3, GotoStep DEF JoinWait, At, Places
  <2>4. CASE TakeUnit(p, c, "joinsem", "joined")
    <3>1. /\ Goto(p, "joined") /\ BlockChange(c)
          /\ UNCHANGED <<machine, bm, bmsem, physMap, addrLock>>
      BY <2>1, <2>4, UnitTaken DEF PInv, Typed
    <3> QED
      BY <1>0, <1>5, <2>1, <3>1, GotoStep DEF JoinWait, JoinWake, At, Places
  <2> QED
    BY <1>5, <2>2, <2>3, <2>4 DEF JoinWait, JoinWake
<1>6. ASSUME JoinReturn(p) PROVE PInv'
  <2> DEFINE c == proc[p].arg
             b == [pcb[c] EXCEPT !.exitsem = @ + 1]
             r == [proc[p] EXCEPT !.pc = "user", !.arg = NULL, !.kids = @ \ {c}]
  <2>1. c \in Pid /\ pcb[c] \in PCB
    BY <1>6, JoinArg DEF JoinReturn, At
  <2>2. b \in PCB /\ b.parentID = pcb[c].parentID /\ b.destroyed = pcb[c].destroyed
    BY <2>1 DEF PCB
  <2>3. pcb' = [pcb EXCEPT ![c] = b]
    BY <1>6 DEF JoinReturn
  <2>4. BlockChange(c)
    BY <2>1, <2>2, <2>3 DEF BlockChange
  <2>5. r \in ProcRecord /\ r.pc = "user" /\ r.pages = proc[p].pages
    BY <1>0 DEF ProcRecord, Places
  <2>6. proc' = [proc EXCEPT ![p] = r]
    BY <1>6 DEF JoinReturn, PInv, Typed
  <2> HIDE DEF r, b
  <2> QED
    BY <1>0, <1>6, <2>1, <2>4, <2>5, <2>6, QuietStep DEF JoinReturn, At
<1> QED
  BY <1>2, <1>3, <1>4, <1>5, <1>6

\* The steps of ExitUpdate up to Remove.
LEMMA ExitPInv ==
    ASSUME PInv, NEW p \in Pid,
           \/ \E ec \in ExitCode : Exit(p, ec)
           \/ ExitCountP(p) \/ ExitCountWake(p) \/ ExitUncount(p)
           \/ UncountDeleted(p) \/ JoinRelease(p) \/ ExitWait(p)
    PROVE  PInv'
<1> USE DEF JoinSites, ExecSites, ExitSites
<1>0. machine = "on" /\ proc[p] \in ProcRecord /\ proc[p].pc # "none"
      /\ pcb \in [Pid -> PCB \cup {NULL}] /\ proc \in [Pid -> ProcRecord]
  BY DEF Exit, ExitCountP, ExitCountWake, ExitUncount, UncountDeleted, JoinRelease,
         ExitWait, At, PInv, Typed
<1>1. pcb[p] \in PCB
  BY <1>0, RunningHasBlock
<1>2. ASSUME NEW ec \in ExitCode, Exit(p, ec) PROVE PInv'
  <2>1. CASE /\ machine' = "halted" /\ physMap' = physMap \ proc[p].pages
             /\ UNCHANGED <<pcb, proc, bm, bmsem, addrLock>>
    <3>1. Typed'
      BY <2>1 DEF PInv, Typed
    <3>2. SlotsOk'
      BY <2>1 DEF PInv, SlotsOk, Usable
    <3>3. OneExec' /\ ArgsOk'
      BY <2>1 DEF PInv, OneExec, ArgsOk
    <3> QED
      BY <2>1, <3>1, <3>2, <3>3 DEF PInv
  <2>2. CASE /\ p # 0 /\ pcb' = [pcb EXCEPT ![p].exitcode = ec]
             /\ proc' = [proc EXCEPT ![p].pc = "exit", ![p].arg = ec]
             /\ UNCHANGED <<machine, physMap, bm, bmsem, addrLock>>
    <3> DEFINE r == [proc[p] EXCEPT !.pc = "exit", !.arg = ec]
               b == [pcb[p] EXCEPT !.exitcode = ec]
    <3>1. b \in PCB /\ b.parentID = pcb[p].parentID /\ b.destroyed = pcb[p].destroyed
      BY <1>1, ProcessAssumption DEF PCB
    <3>2. pcb' = [pcb EXCEPT ![p] = b]
      BY <2>2
    <3>3. BlockChange(p)
      BY <1>1, <3>1, <3>2 DEF BlockChange
    <3>4. r \in ProcRecord /\ r.pc = "exit" /\ r.pages = proc[p].pages
      BY <1>0 DEF ProcRecord, Places
    <3>5. proc' = [proc EXCEPT ![p] = r]
      BY <1>0, <2>2
    <3>6. proc[p].pc = "user"
      BY <1>2 DEF Exit, At
    <3> HIDE DEF r, b
    <3> QED
      BY <1>0, <2>2, <3>3, <3>4, <3>5, <3>6, QuietStep
  <2> QED
    BY <1>2, <2>1, <2>2 DEF Exit
<1>3. ASSUME ExitCountP(p) \/ ExitCountWake(p) PROVE PInv'
  <2> DEFINE q == pcb[p].parentID
  <2>1. q \in Pid /\ pcb[q] \in PCB
    BY <1>3, ExitParent DEF ExitCountP, ExitCountWake, At
  <2>2. CASE DeletedUse(q)
    BY <1>0, <2>2, StopStep DEF DeletedUse
  <2>3. CASE /\ ExitCountP(p) /\ Goto(p, "exitsleep")
             /\ UNCHANGED <<machine, bm, bmsem, pcb, physMap, addrLock>>
    BY <1>0, <2>3, GotoStep DEF ExitCountP, At, Places
  <2>4. CASE TakeUnit(p, q, "multex", "uncount")
    <3>1. /\ Goto(p, "uncount") /\ BlockChange(q)
          /\ UNCHANGED <<machine, bm, bmsem, physMap, addrLock>>
      BY <1>0, <2>1, <2>4, UnitTaken
    <3> QED
      BY <1>0, <1>3, <2>1, <3>1, GotoStep DEF ExitCountP, ExitCountWake, At, Places
  <2> QED
    BY <1>3, <2>2, <2>3, <2>4 DEF ExitCountP, ExitCountWake
<1>4. ASSUME ExitUncount(p) PROVE PInv'
  <2> DEFINE q == pcb[p].parentID
             n == IF pcb[q].numwait > 0 THEN pcb[q].numwait - 1 ELSE pcb[q].numwait
             b == [pcb[q] EXCEPT !.numwait = n, !.multex = @ + 1]
  <2>1. q \in Pid /\ pcb[q] \in PCB
    BY <1>4, ExitParent DEF ExitUncount, At
  <2>2. n \in Nat /\ pcb[q].multex + 1 \in Nat
    BY <2>1 DEF PCB
  <2>3. b \in PCB /\ b.parentID = pcb[q].parentID /\ b.destroyed = pcb[q].destroyed
    <3> HIDE DEF q, n
    <3> QED
      BY <2>1, <2>2 DEF PCB
  <2>4. pcb' = [pcb EXCEPT ![q] = b]
    BY <1>0, <1>4 DEF ExitUncount
  <2> HIDE DEF b
  <2>5. BlockChange(q)
    BY <2>1, <2>3, <2>4 DEF BlockChange
  <2> QED
    BY <1>0, <1>4, <2>1, <2>5, GotoStep DEF ExitUncount, At, Places
<1>5. ASSUME UncountDeleted(p) PROVE PInv'
  BY <1>0, <1>5, StopStep DEF UncountDeleted
<1>6. ASSUME JoinRelease(p) PROVE PInv'
  <2> DEFINE b == [pcb[p] EXCEPT !.joinsem = @ + 1]
  <2>1. b \in PCB /\ b.parentID = pcb[p].parentID /\ b.destroyed = pcb[p].destroyed
    BY <1>1 DEF PCB
  <2>2. pcb' = [pcb EXCEPT ![p] = b]
    BY <1>0, <1>6 DEF JoinRelease
  <2>3. BlockChange(p)
    BY <1>1, <2>1, <2>2 DEF BlockChange
  <2> QED
    BY <1>0, <1>6, <2>3, GotoStep DEF JoinRelease, At, Places
<1>7. ASSUME ExitWait(p) PROVE PInv'
  <2>1. /\ Goto(p, "remove") /\ BlockChange(p)
        /\ UNCHANGED <<machine, bm, bmsem, physMap, addrLock>>
    BY <1>0, <1>1, <1>7, UnitTaken DEF ExitWait
  <2> QED
    BY <1>0, <1>7, <2>1, GotoStep DEF ExitWait, At, Places
<1> QED
  BY <1>2, <1>3, <1>4, <1>5, <1>6, <1>7

\* AddrSpace::Load waits for addrLock.
LEMMA LoadPInv ==
    ASSUME PInv, NEW p \in Pid, LoadP(p)
    PROVE  PInv'
<1>1. /\ machine = "on" /\ proc[p].pc = "load" /\ addrLock = 1 /\ addrLock' = 0
      /\ proc' = [proc EXCEPT ![p].pc = "alloc"]
      /\ UNCHANGED <<machine, bm, bmsem, pcb, physMap>>
  BY DEF LoadP, At, Goto, PInv, Typed
<1>2. proc \in [Pid -> ProcRecord]
  BY DEF PInv, Typed
<1>3. \A q \in Pid : /\ proc'[q].pc = IF q = p THEN "alloc" ELSE proc[q].pc
                     /\ proc'[q].arg = proc[q].arg /\ proc'[q].pages = proc[q].pages
  BY <1>1, <1>2 DEF ProcRecord
<1>4. Typed'
  <2>1. proc' \in [Pid -> ProcRecord]
    BY <1>1, <1>2 DEF ProcRecord, Places
  <2> QED
    BY <1>1, <2>1 DEF PInv, Typed
<1>5. SlotsOk'
  <2>1. \A q \in Pid : /\ proc'[q].pc = "none" <=> proc[q].pc = "none"
                       /\ proc'[q].pc = "fork" <=> proc[q].pc = "fork"
    BY <1>1, <1>3
  <2>2. \A q \in Pid : Usable(q)' <=> Usable(q)
    BY <1>1 DEF Usable
  <2>3. bm' = bm /\ bm \subseteq Pid
    BY <1>1 DEF PInv, Typed
  <2> QED
    BY <1>3, <2>1, <2>2, <2>3 DEF PInv, SlotsOk
<1>6. OneExec'
  <2>1. \A q \in Pid : proc'[q].pc \in ExecSites <=> proc[q].pc \in ExecSites
    BY <1>1, <1>3 DEF ExecSites
  <2> QED
    BY <1>1, <2>1 DEF PInv, OneExec
<1>7. ArgsOk'
  BY <1>1, <1>3 DEF PInv, ArgsOk, JoinSites, ExitSites
<1>8. PagesOk'
  BY <1>1, <1>3 DEF PInv, PagesOk
<1>9. OneAlloc'
  BY <1>1, <1>3 DEF PInv, OneAlloc
<1> QED
  BY <1>4, <1>5, <1>6, <1>7, <1>8, <1>9 DEF PInv

\* AddrSpace::Load takes free pages for a process that has none.
LEMMA AllocatePInv ==
    ASSUME PInv, NEW p \in Pid, Allocate(p)
    PROVE  PInv'
<1>0. /\ machine = "on" /\ proc[p].pc = "alloc"
      /\ UNCHANGED <<bm, bmsem, pcb>>
      /\ proc \in [Pid -> ProcRecord]
  BY DEF Allocate, At, PInv, Typed
<1>1. /\ addrLock = 0 /\ addrLock' = 1
      /\ \A q \in Pid : proc[q].pc = "alloc" => q = p
  BY <1>0 DEF Allocate, PInv, OneAlloc
<1>2. CASE machine' \in {"halted", "aborted"} /\ UNCHANGED <<physMap, proc>>
  <2>1. Typed'
    BY <1>0, <1>1, <1>2 DEF PInv, Typed
  <2>2. SlotsOk'
    BY <1>0, <1>2 DEF PInv, SlotsOk, Usable
  <2>3. OneExec' /\ ArgsOk'
    BY <1>0, <1>2 DEF PInv, OneExec, ArgsOk
  <2> QED
    BY <1>2, <2>1, <2>2, <2>3 DEF PInv
<1>3. ASSUME NEW F, F \subseteq Page \ physMap,
             physMap' = physMap \cup F,
             proc' = [proc EXCEPT ![p].pc = "user", ![p].pages = F],
             UNCHANGED machine
      PROVE  PInv'
  <2>1. \A q \in Pid : /\ proc'[q].pc = IF q = p THEN "user" ELSE proc[q].pc
                       /\ proc'[q].pages = IF q = p THEN F ELSE proc[q].pages
                       /\ proc'[q].arg = proc[q].arg
    BY <1>0, <1>3 DEF ProcRecord
  <2>2. Typed'
    <3> DEFINE r == [proc[p] EXCEPT !.pc = "user", !.pages = F]
    <3>3. r \in ProcRecord
      <4>1. F \in SUBSET Page
        BY <1>3
      <4>2. proc[p] \in ProcRecord
        BY <1>0
      <4> QED
        BY <4>1, <4>2 DEF ProcRecord, Places
    <3>4. proc' = [proc EXCEPT ![p] = r]
      BY <1>0, <1>3
    <3> HIDE DEF r
    <3>1. proc' \in [Pid -> ProcRecord]
      BY <1>0, <3>3, <3>4
    <3>2. physMap' \subseteq Page
      BY <1>3 DEF PInv, Typed
    <3> QED
      BY <1>0, <1>1, <1>3, <3>1, <3>2 DEF PInv, Typed
  <2>3. SlotsOk'
    <3>1. \A q \in Pid : /\ proc'[q].pc = "none" <=> proc[q].pc = "none"
                         /\ proc'[q].pc = "fork" <=> proc[q].pc = "fork"
      BY <1>0, <2>1
    <3>2. \A q \in Pid : Usable(q)' <=> Usable(q)
      BY <1>0 DEF Usable
    <3>3. bm' = bm /\ bm \subseteq Pid
      BY <1>0 DEF PInv, Typed
    <3> QED
      BY <2>1, <3>1, <3>2, <3>3 DEF PInv, SlotsOk
  <2>4. OneExec'
    <3>1. \A q \in Pid : proc'[q].pc \in ExecSites <=> proc[q].pc \in ExecSites
      BY <1>0, <2>1 DEF ExecSites
    <3> QED
      BY <1>0, <3>1 DEF PInv, OneExec
  <2>5. ArgsOk'
    BY <1>0, <2>1 DEF PInv, ArgsOk, JoinSites, ExitSites
  <2>6. PagesOk'
    <3>1. PagesOk /\ proc[p].pages = {}
      BY <1>0 DEF PInv, PagesOk
    <3>2. \A q \in Pid : proc'[q].pages \subseteq physMap'
      <4>1. F \subseteq physMap' /\ \A q \in Pid : proc[q].pages \subseteq physMap'
        BY <1>3, <3>1 DEF PagesOk
      <4> QED
        BY <2>1, <4>1
    <3>3. ASSUME NEW x \in physMap' PROVE \E q \in Pid : x \in proc'[q].pages
      <4>1. CASE x \in F
        BY <2>1, <4>1
      <4>2. CASE x \in physMap
        <5>1. PICK q \in Pid : x \in proc[q].pages
          BY <3>1, <4>2 DEF PagesOk
        <5> QED
          BY <2>1, <3>1, <5>1
      <4> QED
        BY <1>3, <4>1, <4>2
    <3>4. \A q, u \in Pid : q # u => proc'[q].pages \cap proc'[u].pages = {}
      <4>1. \A q \in Pid : q # p => proc[q].pages \cap F = {}
        BY <1>3, <3>1 DEF PagesOk
      <4> QED
        BY <2>1, <3>1, <4>1 DEF PagesOk
    <3>5. \A q \in Pid : proc'[q].pc \in {"none", "load", "alloc"} => proc'[q].pages = {}
      BY <2>1, <3>1 DEF PagesOk
    <3> QED
      BY <3>2, <3>3, <3>4, <3>5 DEF PagesOk
  <2>7. OneAlloc'
    BY <1>1, <2>1 DEF OneAlloc
  <2> QED
    BY <2>2, <2>3, <2>4, <2>5, <2>6, <2>7 DEF PInv
<1>4. \A n : LowestFree(n) \subseteq Page \ physMap
  BY DEF LowestFree
<1> QED
  BY <1>2, <1>3, <1>4 DEF Allocate

\* The steps of ExecUpdate that begin and end it.
LEMMA ExecEndsPInv ==
    ASSUME PInv, NEW p \in Pid,
           \/ \E name \in Program : Exec(p, name)
           \/ ExecP(p) \/ ExecFail(p) \/ ExecForked(p) \/ ExecReturn(p)
    PROVE  PInv'
<1> USE DEF JoinSites, ExecSites, ExitSites
<1>0. machine = "on" /\ proc[p] \in ProcRecord
      /\ pcb \in [Pid -> PCB \cup {NULL}] /\ proc \in [Pid -> ProcRecord]
  BY DEF Exec, ExecP, ExecFail, ExecForked, ExecReturn, At, PInv, Typed
<1>1. ASSUME NEW name \in Program, Exec(p, name) PROVE PInv'
  <2> DEFINE r == [proc[p] EXCEPT !.pc = "exec", !.arg = name]
  <2>1. r \in ProcRecord /\ r.pc = "exec" /\ r.arg = name /\ r.pages = proc[p].pages
    BY <1>0 DEF ProcRecord, Places
  <2>2. proc' = [proc EXCEPT ![p] = r]
    BY <1>0, <1>1 DEF Exec
  <2> HIDE DEF r
  <2> QED
    BY <1>0, <1>1, <2>1, <2>2, QuietStep DEF Exec, At
<1>2. ASSUME ExecP(p) PROVE PInv'
  <2> DEFINE r == [proc[p] EXCEPT !.pc = "slot"]
  <2>1. r \in ProcRecord /\ r.pc = "slot" /\ r.arg = proc[p].arg /\ r.pages = proc[p].pages
    BY <1>0 DEF ProcRecord, Places
  <2>2. proc' = [proc EXCEPT ![p] = r]
    BY <1>0, <1>2 DEF ExecP, Goto
  <2>3. /\ proc[p].pc = "exec" /\ bmsem = 1 /\ bmsem' = 0
        /\ UNCHANGED <<machine, bm, pcb, physMap, addrLock>>
    BY <1>2 DEF ExecP, At, PInv, Typed
  <2>4. r.arg \in Program
    BY <2>1, <2>3 DEF PInv, ArgsOk
  <2> HIDE DEF r
  <2>5. \A q \in Pid : proc'[q].pc = IF q = p THEN "slot" ELSE proc[q].pc
    BY <1>0, <2>1, <2>2
  <2>6. OneExec'
    BY <2>3, <2>5 DEF PInv, OneExec
  <2> QED
    BY <1>0, <2>1, <2>2, <2>3, <2>4, <2>6, CallStep
<1>3. ASSUME proc[p].pc \in ExecSites \ {"fork"}, NEW k \in SUBSET Pid,
             bmsem' = bmsem + 1,
             proc' = [proc EXCEPT ![p].pc = "user", ![p].arg = NULL, ![p].kids = k],
             UNCHANGED <<machine, bm, pcb, physMap, addrLock>>
      PROVE  PInv'
  <2> DEFINE r == [proc[p] EXCEPT !.pc = "user", !.arg = NULL, !.kids = k]
  <2>1. r \in ProcRecord /\ r.pc = "user" /\ r.pages = proc[p].pages
    BY <1>0 DEF ProcRecord, Places
  <2>2. proc' = [proc EXCEPT ![p] = r]
    BY <1>0, <1>3
  <2> HIDE DEF r
  <2>3. bmsem = 0 /\ bmsem' = 1 /\ \A q \in Pid : proc[q].pc \in ExecSites => q = p
    BY <1>3 DEF PInv, OneExec
  <2>4. \A q \in Pid : proc'[q].pc = IF q = p THEN "user" ELSE proc[q].pc
    BY <1>0, <2>1, <2>2
  <2>5. OneExec'
    BY <2>3, <2>4 DEF OneExec
  <2> QED
    BY <1>0, <1>3, <2>1, <2>2, <2>3, <2>5, CallStep
<1>4. ASSUME ExecFail(p) PROVE PInv'
  <2>1. proc' = [proc EXCEPT ![p].pc = "user", ![p].arg = NULL,
                             ![p].kids = proc[p].kids]
    BY <1>0, <1>4 DEF ExecFail, ProcRecord
  <2>2. proc[p].kids \in SUBSET Pid
    BY <1>0 DEF ProcRecord
  <2> QED
    BY <1>3, <1>4, <2>1, <2>2 DEF ExecFail, At
<1>5. ASSUME ExecForked(p) PROVE PInv'
  <2> DEFINE c == proc[p].arg
             b == [pcb[c] EXCEPT !.multex = @ + 1]
  <2>1. c \in Pid /\ pcb[c] \in PCB
    BY <1>5, JoinArg DEF ExecForked, At
  <2>2. b \in PCB /\ b.parentID = pcb[c].parentID /\ b.destroyed = pcb[c].destroyed
    BY <2>1 DEF PCB
  <2>3. pcb' = [pcb EXCEPT ![c] = b]
    BY <1>0, <1>5 DEF ExecForked
  <2>4. BlockChange(c)
    BY <2>1, <2>2, <2>3 DEF BlockChange
  <2> QED
    BY <1>0, <1>5, <2>1, <2>4, GotoStep DEF ExecForked, At, Places
<1>6. ASSUME ExecReturn(p) PROVE PInv'
  <2>1. proc[p].pc = "execed" /\ proc[p].arg \in Pid
    BY <1>6, JoinArg DEF ExecReturn, At
  <2>2. proc[p].kids \cup {proc[p].arg} \in SUBSET Pid
    BY <1>0, <2>1 DEF ProcRecord
  <2> QED
    BY <1>3, <1>6, <2>1, <2>2 DEF ExecReturn
<1> QED
  BY <1>1, <1>2, <1>4, <1>5, <1>6

\* A clear slot, which has no thread, is marked for a child.
LEMMA ExecSlotPInv ==
    ASSUME PInv, NEW p \in Pid, ExecSlot(p)
    PROVE  PInv'
<1>0. /\ machine = "on" /\ proc[p].pc = "slot" /\ bm # Pid
      /\ UNCHANGED <<machine, bmsem, physMap, addrLock>>
      /\ proc \in [Pid -> ProcRecord] /\ pcb \in [Pid -> PCB \cup {NULL}]
      /\ bm \subseteq Pid
  BY DEF ExecSlot, At, PInv, Typed
<1>1. PICK i \in Pid \ bm :
        /\ bm' = bm \cup {i}
        /\ pcb' = [pcb EXCEPT ![i] = [NewPCB(p) EXCEPT !.multex = 0]]
        /\ proc' = [proc EXCEPT ![i].prog = proc[p].arg,
                                ![p].pc = "fork", ![p].arg = i]
  <2>1. Pid \ bm \subseteq Nat /\ Pid \ bm # {}
    <3>1. Pid \subseteq Nat
      BY ProcessAssumption DEF Pid
    <3>2. Pid \ bm # {}
      BY <1>0
    <3> QED
      BY <3>1, <3>2
  <2>2. Min(Pid \ bm) \in Pid \ bm
    BY <2>1, MinIsMember
  <2> QED
    BY <2>2 DEF ExecSlot
<1>2. /\ p \in bm /\ i \in Pid /\ i # p /\ proc[i].pc = "none"
      /\ proc[p].arg \in Program /\ pcb[p] \in PCB
  BY <1>0, <1>1, RunningHasBlock DEF PInv, SlotsOk, ArgsOk
<1> DEFINE b == [NewPCB(p) EXCEPT !.multex = 0]
<1>3. b \in PCB /\ b.parentID = p /\ b.destroyed = FALSE
  <2>1. NewPCB(p) \in PCB
    BY DEF NewPCB, PCB
  <2>2. b \in PCB
    BY <2>1 DEF PCB
  <2>3. b.parentID = NewPCB(p).parentID /\ b.destroyed = NewPCB(p).destroyed
    BY <2>1 DEF PCB
  <2>4. NewPCB(p).parentID = p
    BY DEF NewPCB
  <2>5. NewPCB(p).destroyed = FALSE
    BY DEF NewPCB
  <2> QED
    BY <2>2, <2>3, <2>4, <2>5
<1>4. pcb' = [pcb EXCEPT ![i] = b]
  BY <1>1
<1> HIDE DEF b
<1>5. \A q \in Pid : pcb'[q] = IF q = i THEN b ELSE pcb[q]
  BY <1>0, <1>4
<1>6. /\ proc'[p] = [proc[p] EXCEPT !.pc = "fork", !.arg = i]
      /\ proc'[i] = [proc[i] EXCEPT !.prog = proc[p].arg]
      /\ \A q \in Pid \ {p, i} : proc'[q] = proc[q]
      /\ proc' = [q \in Pid |-> proc'[q]]
  BY <1>0, <1>1, <1>2
<1>7. \A q \in Pid : /\ proc'[q].pc = IF q = p THEN "fork" ELSE proc[q].pc
                     /\ proc'[q].arg = IF q = p THEN i ELSE proc[q].arg
                     /\ proc'[q].pages = proc[q].pages
  <2>1. /\ proc'[p].pc = "fork" /\ proc'[p].arg = i /\ proc'[p].pages = proc[p].pages
    BY <1>0, <1>6 DEF ProcRecord
  <2>2. /\ proc'[i].pc = proc[i].pc /\ proc'[i].arg = proc[i].arg
        /\ proc'[i].pages = proc[i].pages
    BY <1>0, <1>2, <1>6 DEF ProcRecord
  <2> QED
    BY <1>2, <1>6, <2>1, <2>2
<1>8. Typed'
  <2>1. proc'[p] \in ProcRecord
    <3>1. proc[p] \in ProcRecord
      BY <1>0
    <3> QED
      BY <1>2, <1>6, <3>1 DEF ProcRecord, Places
  <2>2. proc'[i] \in ProcRecord
    BY <1>0, <1>2, <1>6 DEF ProcRecord
  <2>3. proc' \in [Pid -> ProcRecord]
    BY <1>0, <1>6, <2>1, <2>2
  <2>4. pcb' \in [Pid -> PCB \cup {NULL}]
    BY <1>0, <1>3, <1>4
  <2> QED
    BY <1>0, <1>1, <2>3, <2>4 DEF PInv, Typed
<1>9. \A q \in Pid : proc[q].pc \in ExecSites => q = p
  BY <1>0 DEF PInv, OneExec, ExecSites
<1>10. SlotsOk'
  <2>1. \A q \in Pid : q \in bm' <=> Usable(q)'
    <3>1. Usable(i)'
      BY <1>2, <1>3, <1>5, NullAssumption DEF Usable
    <3>2. \A q \in Pid \ {i} : Usable(q)' <=> Usable(q)
      BY <1>5 DEF Usable
    <3> QED
      BY <1>1, <3>1, <3>2 DEF PInv, SlotsOk
  <2>2. \A q \in Pid : proc'[q].pc # "none" => q \in bm'
    BY <1>1, <1>2, <1>7 DEF PInv, SlotsOk
  <2>3. \A q \in Pid : proc'[q].pc = "fork" =>
            proc'[q].arg \in bm' /\ proc'[proc'[q].arg].pc = "none"
    <3>1. \A q \in Pid : proc'[q].pc = "fork" => q = p
      BY <1>7, <1>9 DEF ExecSites
    <3>2. proc'[p].arg = i /\ i \in bm' /\ proc'[i].pc = "none"
      BY <1>1, <1>2, <1>7
    <3> QED
      BY <3>1, <3>2
  <2>4. \A q \in bm : proc[q].pc # "none"
    BY <1>0, <1>9 DEF PInv, SlotsOk, ExecSites
  <2>5. \A q \in bm' : proc'[q].pc = "none" =>
            \E u \in Pid : proc'[u].pc = "fork" /\ proc'[u].arg = q
    BY <1>0, <1>1, <1>7, <2>4
  <2> QED
    BY <2>1, <2>2, <2>3, <2>5 DEF SlotsOk
<1>11. OneExec'
  BY <1>0, <1>7, <1>9 DEF PInv, OneExec, ExecSites
<1>12. ArgsOk'
  <2>1. \A q \in Pid : pcb[q] # NULL => pcb'[q] # NULL
    BY <1>3, <1>5, NullAssumption
  <2>2. \A q \in Pid :
        /\ proc'[q].pc \in {"exec", "slot"} => proc'[q].arg \in Program
        /\ proc'[q].pc \in {"fork", "forked", "execed"} \cup JoinSites =>
              proc'[q].arg \in Pid /\ pcb'[proc'[q].arg] # NULL
        /\ proc'[q].pc \in ExitSites => q # 0
    BY <1>3, <1>5, <1>7, <2>1, NullAssumption DEF PInv, ArgsOk, JoinSites, ExitSites
  <2>3. \A q \in Pid \ {0} : pcb'[q] # NULL =>
          pcb'[q].parentID \in Pid /\ pcb'[pcb'[q].parentID] # NULL
    BY <1>2, <1>3, <1>5, <2>1, NullAssumption DEF PInv, ArgsOk
  <2> QED
    BY <2>2, <2>3 DEF ArgsOk
<1>13. PagesOk' /\ OneAlloc'
  <2>1. \A q \in Pid : \A s \in {"none", "load", "alloc"} :
            proc'[q].pc = s <=> proc[q].pc = s
    BY <1>0, <1>7
  <2>2. PagesOk'
    BY <1>0, <1>7, <2>1 DEF PInv, PagesOk
  <2> QED
    BY <1>0, <2>1, <2>2 DEF PInv, OneAlloc
<1> QED
  BY <1>8, <1>10, <1>11, <1>12, <1>13 DEF PInv

\* The child's thread begins.
LEMMA ExecForkPInv ==
    ASSUME PInv, NEW p \in Pid, ExecFork(p)
    PROVE  PInv'
<1>0. /\ machine = "on" /\ proc[p].pc = "fork"
      /\ UNCHANGED <<machine, bm, bmsem, pcb, physMap, addrLock>>
      /\ proc \in [Pid -> ProcRecord] /\ bm \subseteq Pid
  BY DEF ExecFork, At, PInv, Typed
<1>1. PICK c \in Pid :
        /\ c = proc[p].arg /\ c \in bm /\ proc[c].pc = "none" /\ c # p
        /\ proc' = [proc EXCEPT ![c].pc = "load", ![p].pc = "forked"]
  BY <1>0 DEF ExecFork, PInv, SlotsOk
<1>2. /\ proc'[p] = [proc[p] EXCEPT !.pc = "forked"]
      /\ proc'[c] = [proc[c] EXCEPT !.pc = "load"]
      /\ \A q \in Pid \ {p, c} : proc'[q] = proc[q]
      /\ proc' = [q \in Pid |-> proc'[q]]
  BY <1>0, <1>1
<1>3. \A q \in Pid : /\ proc'[q].pc = IF q = p THEN "forked" ELSE
                                      IF q = c THEN "load" ELSE proc[q].pc
                     /\ proc'[q].arg = proc[q].arg
                     /\ proc'[q].pages = proc[q].pages
  BY <1>0, <1>1, <1>2 DEF ProcRecord
<1>4. Typed'
  <2>1. proc'[p] \in ProcRecord /\ proc'[c] \in ProcRecord
    BY <1>0, <1>2 DEF ProcRecord, Places
  <2>2. proc' \in [Pid -> ProcRecord]
    BY <1>0, <1>2, <2>1
  <2> QED
    BY <1>0, <2>2 DEF PInv, Typed
<1>5. \A q \in Pid : proc[q].pc \in ExecSites => q = p
  BY <1>0 DEF PInv, OneExec, ExecSites
<1>6. SlotsOk'
  <2>1. \A q \in Pid : q \in bm' <=> Usable(q)'
    BY <1>0 DEF PInv, SlotsOk, Usable
  <2>2. \A q \in Pid : proc'[q].pc # "none" => q \in bm'
    BY <1>0, <1>1, <1>3 DEF PInv, SlotsOk
  <2>3. \A q \in Pid : proc'[q].pc # "fork"
    BY <1>3, <1>5 DEF ExecSites
  <2>4. \A q \in bm : proc[q].pc = "none" => q = c
    BY <1>0, <1>1, <1>5 DEF PInv, SlotsOk, ExecSites
  <2>5. \A q \in bm' : proc'[q].pc # "none"
    BY <1>0, <1>3, <2>4
  <2> QED
    BY <2>1, <2>2, <2>3, <2>5 DEF SlotsOk
<1>7. OneExec'
  BY <1>0, <1>1, <1>3, <1>5 DEF PInv, OneExec, ExecSites
<1>8. ArgsOk'
  BY <1>0, <1>1, <1>3 DEF PInv, ArgsOk, JoinSites, ExitSites
<1>9. PagesOk'
  BY <1>0, <1>1, <1>3 DEF PInv, PagesOk
<1>10. OneAlloc'
  BY <1>0, <1>1, <1>3 DEF PInv, OneAlloc
<1> QED
  BY <1>4, <1>6, <1>7, <1>8, <1>9, <1>10 DEF PInv

\* A process leaves: its slot is cleared, its semaphores are deleted and its
\* pages are freed together.
LEMMA RemovePInv ==
    ASSUME PInv, NEW p \in Pid, Remove(p)
    PROVE  PInv'
<1>0. /\ machine = "on" /\ proc[p].pc = "remove"
      /\ bm' = bm \ {p} /\ physMap' = physMap \ proc[p].pages
      /\ pcb' = [pcb EXCEPT ![p].destroyed = TRUE]
      /\ proc' = [q \in Pid |-> IF q = p THEN NoProc
                                ELSE [proc[q] EXCEPT !.pc = AfterDelete(q, p)]]
      /\ UNCHANGED <<machine, bmsem, addrLock>>
      /\ proc \in [Pid -> ProcRecord] /\ pcb \in [Pid -> PCB \cup {NULL}]
      /\ bm \subseteq Pid
  BY DEF Remove, At, PInv, Typed
<1>1. pcb[p] \in PCB /\ p \in bm
  BY <1>0, RunningHasBlock
<1> DEFINE b == [pcb[p] EXCEPT !.destroyed = TRUE]
<1>2. b \in PCB /\ b.parentID = pcb[p].parentID
  BY <1>1 DEF PCB
<1>3. b.destroyed
  BY <1>1 DEF PCB
<1>4. pcb' = [pcb EXCEPT ![p] = b]
  BY <1>0
<1> HIDE DEF b
<1>5. \A q \in Pid : pcb'[q] = IF q = p THEN b ELSE pcb[q]
  BY <1>0, <1>4
<1>6. \A q \in Pid : /\ AfterDelete(q, p) \in {proc[q].pc, "stranded", "dangling"}
                     /\ AfterDelete(q, p) # proc[q].pc =>
                          proc[q].pc \in {"joinsleep", "exitsleep", "uncount"}
  BY DEF AfterDelete
<1>7. \A q \in Pid \ {p} : proc'[q] = [proc[q] EXCEPT !.pc = AfterDelete(q, p)]
  BY <1>0
<1>8. proc'[p] = NoProc
  BY <1>0
<1>9. \A q \in Pid \ {p} :
         /\ proc'[q].pc = AfterDelete(q, p) /\ proc'[q].arg = proc[q].arg
         /\ proc'[q].pages = proc[q].pages
  BY <1>0, <1>7 DEF ProcRecord
<1>10. proc'[p].pc = "none" /\ proc'[p].pages = {}
  BY <1>8 DEF NoProc
<1>11. \A q \in Pid \ {p} : \A s \in {"none", "fork", "alloc", "load", "exec"} \cup ExecSites :
          proc'[q].pc = s <=> proc[q].pc = s
  BY <1>6, <1>9 DEF ExecSites
<1>12. Typed'
  <2>1. NoProc \in ProcRecord
    BY DEF NoProc, ProcRecord, Places
  <2>2. \A q \in Pid \ {p} : proc'[q] \in ProcRecord
    <3>1. \A q \in Pid : AfterDelete(q, p) \in Places
      BY <1>0, <1>6 DEF ProcRecord, Places
    <3>2. \A q \in Pid \ {p} : [proc[q] EXCEPT !.pc = AfterDelete(q, p)] \in ProcRecord
      BY <1>0, <3>1 DEF ProcRecord
    <3> QED
      BY <1>7, <3>2
  <2>3. \A q \in Pid : proc'[q] \in ProcRecord
    BY <1>8, <2>1, <2>2
  <2>4. proc' \in [Pid -> ProcRecord]
    <3>1. proc' = [q \in Pid |-> proc'[q]]
      BY <1>0
    <3> QED
      BY <2>3, <3>1
  <2>5. pcb' \in [Pid -> PCB \cup {NULL}]
    BY <1>0, <1>2, <1>4
  <2>6. bm' \subseteq Pid /\ physMap' \subseteq Page
    BY <1>0 DEF PInv, Typed
  <2> QED
    BY <1>0, <2>4, <2>5, <2>6 DEF PInv, Typed
<1>13. SlotsOk'
  <2>1. \A q \in Pid : q \in bm' <=> Usable(q)'
    <3>1. ~Usable(p)'
      BY <1>3, <1>5 DEF Usable
    <3>2. \A q \in Pid \ {p} : Usable(q)' <=> Usable(q)
      BY <1>5 DEF Usable
    <3> QED
      BY <1>0, <3>1, <3>2 DEF PInv, SlotsOk
  <2>2. \A q \in Pid : proc'[q].pc # "none" => q \in bm'
    <3>1. \A q \in Pid \ {p} : proc'[q].pc = "none" <=> proc[q].pc = "none"
      BY <1>11
    <3>2. \A q \in Pid \ {p} : proc[q].pc # "none" => q \in bm \ {p}
      BY DEF PInv, SlotsOk
    <3> QED
      BY <1>0, <1>10, <3>1, <3>2
  <2>3. ASSUME NEW q \in Pid, proc'[q].pc = "fork"
        PROVE  proc'[q].arg \in bm' /\ proc'[proc'[q].arg].pc = "none"
    <3>1. q # p /\ proc[q].pc = "fork" /\ proc'[q].arg = proc[q].arg
      BY <1>9, <1>10, <1>11, <2>3
    <3>2. proc[q].arg \in bm /\ proc[proc[q].arg].pc = "none"
      BY <3>1 DEF PInv, SlotsOk
    <3>3. proc[q].arg # p /\ proc[q].arg \in Pid
      BY <1>0, <3>2
    <3>4. proc'[proc[q].arg].pc = "none"
      BY <1>11, <3>2, <3>3
    <3> QED
      BY <1>0, <3>1, <3>2, <3>3, <3>4
  <2>4. ASSUME NEW q \in bm', proc'[q].pc = "none"
        PROVE  \E u \in Pid : proc'[u].pc = "fork" /\ proc'[u].arg = q
    <3>1. q \in bm /\ q # p /\ q \in Pid
      BY <1>0
    <3>2. proc[q].pc = "none"
      BY <1>11, <2>4, <3>1
    <3>3. PICK u \in Pid : proc[u].pc = "fork" /\ proc[u].arg = q
      BY <3>1, <3>2 DEF PInv, SlotsOk
    <3>4. u # p
      BY <1>0, <3>3
    <3> QED
      BY <1>9, <1>11, <3>3, <3>4
  <2> QED
    BY <2>1, <2>2, <2>3, <2>4 DEF SlotsOk
<1>14. OneExec'
  <2>1. \A q \in Pid : proc'[q].pc \in ExecSites <=> proc[q].pc \in ExecSites
    BY <1>0, <1>10, <1>11 DEF ExecSites
  <2> QED
    BY <1>0, <2>1 DEF PInv, OneExec
<1>15. ArgsOk'
  <2>1. \A q \in Pid : (pcb'[q] = NULL <=> pcb[q] = NULL)
                       /\ (pcb[q] # NULL => pcb'[q].parentID = pcb[q].parentID)
    BY <1>1, <1>2, <1>5, NullAssumption
  <2>2. \A q \in Pid \ {p} :
        /\ proc'[q].pc \in {"exec", "slot"} => proc[q].pc \in {"exec", "slot"}
        /\ proc'[q].pc \in {"fork", "forked", "execed"} \cup JoinSites =>
             proc[q].pc \in {"fork", "forked", "execed"} \cup JoinSites
        /\ proc'[q].pc \in ExitSites => proc[q].pc \in ExitSites
    BY <1>6, <1>9 DEF JoinSites, ExitSites
  <2>3. \A q \in Pid :
        /\ proc'[q].pc \in {"exec", "slot"} => proc'[q].arg \in Program
        /\ proc'[q].pc \in {"fork", "forked", "execed"} \cup JoinSites =>
              proc'[q].arg \in Pid /\ pcb'[proc'[q].arg] # NULL
        /\ proc'[q].pc \in ExitSites => q # 0
    <3>1. proc'[p].pc \notin {"exec", "slot", "fork", "forked", "execed"} \cup JoinSites \cup ExitSites
      BY <1>10 DEF JoinSites, ExitSites
    <3> QED
      BY <1>9, <2>1, <2>2, <3>1 DEF PInv, ArgsOk
  <2>4. \A q \in Pid \ {0} : pcb'[q] # NULL =>
          pcb'[q].parentID \in Pid /\ pcb'[pcb'[q].parentID] # NULL
    BY <2>1 DEF PInv, ArgsOk
  <2> QED
    BY <2>3, <2>4 DEF ArgsOk
<1>16. PagesOk'
  <2>0. PagesOk
    BY <1>0 DEF PInv
  <2>1. \A q \in Pid : proc'[q].pages \subseteq physMap'
    <3>1. \A q \in Pid \ {p} : proc[q].pages \subseteq physMap \ proc[p].pages
      BY <2>0 DEF PagesOk
    <3> QED
      BY <1>0, <1>9, <1>10, <3>1
  <2>2. ASSUME NEW x \in physMap' PROVE \E q \in Pid : x \in proc'[q].pages
    <3>1. x \in physMap /\ x \notin proc[p].pages
      BY <1>0
    <3>2. PICK q \in Pid : x \in proc[q].pages
      BY <2>0, <3>1 DEF PagesOk
    <3> QED
      BY <1>9, <3>1, <3>2
  <2>3. \A q, u \in Pid : q # u => proc'[q].pages \cap proc'[u].pages = {}
    BY <1>9, <1>10, <2>0 DEF PagesOk
  <2>4. \A q \in Pid : proc'[q].pc \in {"none", "load", "alloc"} => proc'[q].pages = {}
    BY <1>9, <1>10, <1>11, <2>0 DEF PagesOk
  <2> QED
    BY <2>1, <2>2, <2>3, <2>4 DEF PagesOk
<1>17. OneAlloc'
  <2>1. \A q \in Pid : proc'[q].pc = "alloc" <=> proc[q].pc = "alloc"
    BY <1>0, <1>10, <1>11
  <2> QED
    BY <1>0, <2>1 DEF PInv, OneAlloc
<1> QED
  BY <1>12, <1>13, <1>14, <1>15, <1>16, <1>17 DEF PInv

-----------------------------------------------------------------------------
\* Every step, and every stuttering step, keeps the invariant.
LEMMA NextPInv ==
    PInv /\ [Next]_vars => PInv'
<1> SUFFICES ASSUME PInv, [Next]_vars PROVE PInv'
  OBVIOUS
<1>1. CASE UNCHANGED vars
  <2>1. Typed' /\ OneExec' /\ ArgsOk' /\ PagesOk' = PagesOk /\ OneAlloc' = OneAlloc
    BY <1>1 DEF vars, PInv, Typed, OneExec, ArgsOk, PagesOk, OneAlloc
  <2>2. SlotsOk'
    BY <1>1 DEF vars, PInv, SlotsOk, Usable
  <2>3. machine' = machine
    BY <1>1 DEF vars
  <2> QED
    BY <2>1, <2>2, <2>3 DEF PInv
<1>2. ASSUME NEW p \in Pid,
             \/ KernelStep(p)
             \/ \E name \in Program : Exec(p, name)
             \/ \E id \in Pid : Join(p, id)
             \/ \E ec \in ExitCode : Exit(p, ec)
      PROVE  PInv' \/ UNCHANGED vars
  BY <1>2, LoadPInv, AllocatePInv, ExecEndsPInv, ExecSlotPInv, ExecForkPInv, JoinPInv,
     ExitPInv, RemovePInv DEF KernelStep
<1> QED
  BY <1>1, <1>2 DEF Next, Stopped

\* The invariant holds in every reachable state of the processes.
THEOREM ProcessInvariant ==
    Spec => []PInv
  BY InitPInv, NextPInv, PTL DEF Spec

\* The slots of PTable are accounted for: SlotsAccounted, although ExitUpdate
\* clears the bitmap without taking bmsem.
THEOREM SlotsAreAccounted ==
    Spec => []SlotsAccounted
<1>1. PInv => SlotsAccounted
  <2> SUFFICES ASSUME PInv PROVE SlotsAccounted
    OBVIOUS
  <2>1. bm = {p \in Pid : Usable(p)}
    BY DEF PInv, Typed, SlotsOk
  <2>2. \A p \in bm : proc[p].pc = "none" =>
          \E q \in InExecUpdate : proc[q].pc = "fork" /\ proc[q].arg = p
    BY DEF PInv, SlotsOk, InExecUpdate
  <2>3. Cardinality(InExecUpdate) + bmsem = 1
    <3>1. CASE bmsem = 1 /\ InExecUpdate = {}
      BY <3>1, FS_EmptySet
    <3>2. ASSUME bmsem = 0, NEW p \in Pid, InExecUpdate = {p}
          PROVE  Cardinality(InExecUpdate) + bmsem = 1
      <4>1. Cardinality(InExecUpdate) = 1
        BY <3>2, FS_Singleton, Zenon
      <4> QED
        BY <3>2, <4>1
    <3>3. ASSUME bmsem = 1, \A p \in Pid : proc[p].pc \notin ExecSites
          PROVE  InExecUpdate = {}
      BY <3>3 DEF InExecUpdate, ExecSites
    <3>4. ASSUME NEW p \in Pid, proc[p].pc \in ExecSites,
                 \A q \in Pid : proc[q].pc \in ExecSites => q = p
          PROVE  InExecUpdate = {p}
      BY <3>4 DEF InExecUpdate, ExecSites
    <3> QED
      <4>1. CASE bmsem = 1 /\ \A p \in Pid : proc[p].pc \notin ExecSites
        BY <3>1, <3>3, <4>1
      <4>2. CASE /\ bmsem = 0
                 /\ \E p \in Pid : /\ proc[p].pc \in ExecSites
                                   /\ \A q \in Pid : proc[q].pc \in ExecSites => q = p
        <5>1. \E p \in Pid : InExecUpdate = {p}
          BY <3>4, <4>2
        <5> QED
          BY <3>2, <4>2, <5>1
      <4> QED
        BY <4>1, <4>2 DEF PInv, OneExec
  <2> QED
    BY <2>1, <2>2, <2>3 DEF SlotsAccounted
<1> QED
  BY <1>1, ProcessInvariant, PTL

\* The pages of memory are accounted for: PagesAccounted, although
\* ~AddrSpace clears the bitmap without taking addrLock.
THEOREM PagesAreAccounted ==
    Spec => []PagesAccounted
<1>1. PInv => PagesAccounted
  <2> SUFFICES ASSUME PInv, machine = "on"
               PROVE  /\ physMap = UNION {proc[p].pages : p \in Pid}
                      /\ \A p, q \in Pid : p # q => proc[p].pages \cap proc[q].pages = {}
                      /\ Cardinality(Allocating) + addrLock = 1
    BY DEF PagesAccounted
  <2>1. physMap = UNION {proc[p].pages : p \in Pid}
    BY DEF PInv, PagesOk
  <2>2. \A p, q \in Pid : p # q => proc[p].pages \cap proc[q].pages = {}
    BY DEF PInv, PagesOk
  <2>3. Cardinality(Allocating) + addrLock = 1
    <3>1. CASE addrLock = 1 /\ Allocating = {}
      BY <3>1, FS_EmptySet
    <3>2. ASSUME addrLock = 0, NEW p \in Pid, Allocating = {p}
          PROVE  Cardinality(Allocating) + addrLock = 1
      <4>1. Cardinality(Allocating) = 1
        BY <3>2, FS_Singleton, Zenon
      <4> QED
        BY <3>2, <4>1
    <3>3. ASSUME addrLock = 1, \A p \in Pid : proc[p].pc # "alloc"
          PROVE  Allocating = {}
      BY <3>3 DEF Allocating
    <3>4. ASSUME NEW p \in Pid, proc[p].pc = "alloc",
                 \A q \in Pid : proc[q].pc = "alloc" => q = p
          PROVE  Allocating = {p}
      BY <3>4 DEF Allocating
    <3> QED
      <4>1. CASE addrLock = 1 /\ \A p \in Pid : proc[p].pc # "alloc"
        BY <3>1, <3>3, <4>1
      <4>2. CASE /\ addrLock = 0
                 /\ \E p \in Pid : /\ proc[p].pc = "alloc"
                                   /\ \A q \in Pid : proc[q].pc = "alloc" => q = p
        <5>1. \E p \in Pid : Allocating = {p}
          BY <3>4, <4>2
        <5> QED
          BY <3>2, <4>2, <5>1
      <4> QED
        BY <4>1, <4>2 DEF PInv, OneAlloc
  <2> QED
    BY <2>1, <2>2, <2>3
<1> QED
  BY <1>1, ProcessInvariant, PTL

\* Slots and pages together: nothing that processes share is lost or handed
\* out twice, however Exec, Join and Exit interleave and fail.
THEOREM ResourcesAreAccounted ==
    Spec => []ResourcesAccounted
<1>1. SlotsAccounted /\ PagesAccounted => ResourcesAccounted
  BY DEF ResourcesAccounted
<1> QED
  BY <1>1, SlotsAreAccounted, PagesAreAccounted, PTL
==============================================================================
