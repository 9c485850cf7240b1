------------------------------- MODULE Files --------------------------------
(***************************************************************************)
(* The files of user programs: the file calls of userprog/ksyscall.h and   *)
(* userprog/exception.cc, the table of open files in each PCB              *)
(* (threads/pcb.cc) and the stub file system (filesys/filesys.h,           *)
(* filesys/openfile.h), which stands on the files of the host (lib/sysdep).*)
(*                                                                         *)
(* A call on a file runs to its end before another process does, since no  *)
(* interrupt is taken in it.  Processes interleave call by call.  Exec and *)
(* Load also need descriptors, and other processes run between their steps.*)
(***************************************************************************)
EXTENDS Integers, Sequences, FiniteSets

CONSTANTS
    Process,
    Main,       \* the process the kernel starts with
    Name,       \* file names, "stdin" and "stdout" among them
    UserName,   \* the names that programs use
    TableSize,  \* length of fileTable (10)
    MaxFds,     \* descriptors that the host lets the kernel have open
    Buffer,     \* what programs write
    CloseId,    \* the ids that programs close
    MaxLength,  \* bound: length of a file, and of a read
    MaxExecs,   \* bound: how many Execs there are
    NULL

ASSUME FilesAssumption ==
    /\ {"stdin", "stdout"} \cup UserName \subseteq Name
    /\ Main \in Process
    /\ Buffer \subseteq Seq(Nat)
    /\ TableSize \in Nat /\ TableSize >= 2
    /\ MaxFds \in Nat /\ MaxFds >= 5  \* the kernel starts its first program

NUL == 0
ConsoleInput == 0
ConsoleOutput == 1
Id == 0..TableSize - 1

VARIABLES
    disk,      \* host: the contents of the files that are named or open
    named,     \* host: the file each name stands for, or NULL
    fileTable, \* the open files of each process, or NULL
    state,     \* "absent", or how far the process is (see Exec below)
    execs,     \* how many Execs there were
    fds,       \* descriptors that the host has open for the kernel
    leaked,    \* history: how many of them a process left open
    stopped,   \* has the kernel halted, or an assertion aborted it?
    call       \* history: the last call, its arguments and its result

vars == <<disk, named, fileTable, state, execs, fds, leaked,
          stopped, call>>

File == 1..Cardinality(Name) + Cardinality(Process) * TableSize
OpenFile == [file : File, pos : Nat, currentOffset : Nat, type : 0..3,
             name : Name]

\* Names lead to files, file tables hold open files, and the descriptors in
\* use stay within the host's limit.
TypeOK ==
    /\ DOMAIN disk \subseteq File
    /\ \A f \in DOMAIN disk : disk[f] \in Seq(Nat)
    /\ named \in [Name -> File \cup {NULL}]
    /\ fileTable \in [Process -> [Id -> OpenFile \cup {NULL}]]
    /\ state \in [Process -> {"absent", "new", "loading", "running", "exec"}]
    /\ fds \in 0..MaxFds /\ leaked \in 0..MaxFds

NoCall == [op |-> "none", proc |-> NULL, id |-> -1, result |-> 0,
           data |-> <<>>]
Called(op, p, id, result, data) ==
    call' = [op |-> op, proc |-> p, id |-> id, result |-> result, data |-> data]

Open(p) == {i \in Id : fileTable[p][i] # NULL}
Opened == Cardinality({pi \in Process \X Id : fileTable[pi[1]][pi[2]] # NULL})
Loading == {p \in Process : state[p] = "loading"}

\* The host keeps a file while a name or an open file holds it.
HeldBy(names, table, f) ==
    \/ \E n \in Name : names[n] = f
    \/ \E p \in Process : \E i \in Id : table[p][i] # NULL /\ table[p][i].file = f
Release ==
    disk' = [f \in {g \in DOMAIN disk : HeldBy(named', fileTable', g)} |-> disk[f]]
FreeFile(files) == CHOOSE f \in File : f \notin DOMAIN files

\* open(name, O_RDWR | O_CREAT | O_TRUNC) and close: FileSystem::Create.  The
\* descriptor it needs must be available: OpenForWrite asserts it.
CreateOn(files, names, n) ==
    LET f == IF names[n] = NULL THEN FreeFile(files) ELSE names[n] IN
    <<[g \in DOMAIN files \cup {f} |-> IF g = f THEN <<>> ELSE files[g]],
      [names EXCEPT ![n] = f]>>

NewOpenFile(f, type, n) ==
    [file |-> f, pos |-> 0, currentOffset |-> 0, type |-> type, name |-> n]

\* FileSystem has opened stdin and stdout, and initStartProcess has given the
\* first program its PCB, which opened them again.
Init ==
    /\ disk = [f \in 1..2 |-> <<>>]
    /\ named = [n \in Name |-> CASE n = "stdin" -> 1 [] n = "stdout" -> 2
                                 [] OTHER -> NULL]
    /\ fileTable = [p \in Process |-> [i \in Id |->
                       CASE p = Main /\ i = 0 -> NewOpenFile(1, 2, "stdin")
                         [] p = Main /\ i = 1 -> NewOpenFile(2, 3, "stdout")
                         [] OTHER -> NULL]]
    /\ state = [p \in Process |-> IF p = Main THEN "running" ELSE "absent"]
    /\ execs = 0
    /\ fds = 4
    /\ leaked = 0
    /\ stopped = FALSE
    /\ call = NoCall

Calls(p) == state[p] = "running" /\ ~stopped
Keep == UNCHANGED <<state, execs, leaked, stopped>>

\* A call that changes nothing and returns r.
Answers(op, p, id, r) ==
    /\ Called(op, p, id, r, <<>>)
    /\ UNCHANGED <<disk, named, fileTable, fds>>
    /\ Keep

\* Halt, or an assertion that fails.
Stop ==
    /\ stopped' = TRUE /\ call' = NoCall
    /\ UNCHANGED <<disk, named, fileTable, state, execs, fds, leaked>>

-----------------------------------------------------------------------------
(* Processes come and go                                                   *)

\* SysExec: the program's file is opened and closed, to see that it is there.
ExecOpen(p) ==
    /\ Calls(p)
    /\ \/ Answers("Exec", p, -1, -1)  \* no such file, or no descriptor for it
       \/ /\ fds < MaxFds
          /\ state' = [state EXCEPT ![p] = "exec"]
          /\ execs < MaxExecs /\ execs' = execs + 1
          /\ call' = NoCall
          /\ UNCHANGED <<disk, named, fileTable, fds, leaked, stopped>>

\* PTable::ExecUpdate, which may refuse (see Processes), and PCB::PCB: stdin
\* and stdout are created (emptied) and opened.  Another process may have run
\* while the caller waited for the table's semaphore.
ExecUpdate(p, child) ==
    /\ state[p] = "exec" /\ ~stopped
    /\ \/ /\ state' = [state EXCEPT ![p] = "running"]
          /\ Called("Exec", p, -1, -1, <<>>)
          /\ UNCHANGED <<disk, named, fileTable, execs, fds, leaked, stopped>>
       \/ /\ state[child] = "absent"
          /\ IF fds >= MaxFds THEN Stop
             ELSE LET a == CreateOn(disk, named, "stdin")
                      b == CreateOn(a[1], a[2], "stdout") IN
                  /\ state' = [state EXCEPT ![p] = "running", ![child] = "new"]
                  /\ disk' = b[1] /\ named' = b[2]
                  /\ fileTable' = [fileTable EXCEPT ![child] =
                        [i \in Id |->
                            CASE i = 0 -> NewOpenFile(named'["stdin"], 2, "stdin")
                              [] i = 1 /\ fds + 1 < MaxFds ->
                                    NewOpenFile(named'["stdout"], 3, "stdout")
                              [] OTHER -> NULL]]
                  /\ fds' = IF fds + 1 < MaxFds THEN fds + 2 ELSE fds + 1
                  /\ Called("Exec", p, -1, 0, <<>>)
                  /\ UNCHANGED <<execs, leaked, stopped>>

\* StartProcess and AddrSpace::Load, which opens the program's file again and
\* has it open while it waits for addrLock.
LoadOpen(p) ==
    /\ state[p] = "new" /\ ~stopped
    /\ IF fds >= MaxFds THEN Stop
       ELSE /\ fds' = fds + 1
            /\ state' = [state EXCEPT ![p] = "loading"]
            /\ call' = NoCall
            /\ UNCHANGED <<disk, named, fileTable, execs, leaked, stopped>>

\* The rest of Load: the program runs, or there was no memory for it.
LoadClose(p) ==
    /\ state[p] = "loading" /\ ~stopped
    /\ \/ Stop
       \/ /\ fds' = fds - 1
          /\ state' = [state EXCEPT ![p] = "running"]
          /\ Called("Load", p, -1, 0, <<>>)
          /\ UNCHANGED <<disk, named, fileTable, execs, leaked, stopped>>

\* PTable::ExitUpdate: the first program halts the machine.  For the others
\* PCB::~PCB calls Finish, which does not return, so the loop after it, which
\* would close the files, is not reached.
Exit(p) ==
    /\ Calls(p)
    /\ IF p = Main THEN Stop
       ELSE /\ state' = [state EXCEPT ![p] = "absent"]
            /\ leaked' = leaked + Cardinality(Open(p))
            /\ fileTable' = [fileTable EXCEPT ![p] = [i \in Id |-> NULL]]
            /\ Called("Exit", p, -1, 0, <<>>)
            /\ UNCHANGED <<named, execs, fds, stopped>>
            /\ Release

-----------------------------------------------------------------------------
(* The file calls                                                          *)

\* SysCreate.
Create(p, n) ==
    /\ Calls(p)
    /\ IF fds >= MaxFds THEN Stop
       ELSE /\ disk' = CreateOn(disk, named, n)[1]
            /\ named' = CreateOn(disk, named, n)[2]
            /\ Called("Create", p, -1, 0, <<>>)
            /\ UNCHANGED <<fileTable, fds>> /\ Keep

\* SysRemove.
Remove(p, n) ==
    /\ Calls(p)
    /\ IF named[n] = NULL THEN Answers("Remove", p, -1, -1)
       ELSE /\ named' = [named EXCEPT ![n] = NULL]
            /\ Called("Remove", p, -1, 0, <<>>)
            /\ UNCHANGED <<fileTable, fds>> /\ Release /\ Keep

\* SysOpen and PCB::Open.  A name that is open already is refused, when it
\* is recognised: OpenFile copied it without its terminator, so what the
\* comparison reads after it is not defined.
OpenCall(p, n, type) ==
    LET twins == {i \in Open(p) : fileTable[p][i].name = n}
        free == (2..TableSize - 1) \ Open(p)
        slot == CHOOSE i \in free : \A j \in free : i <= j
    IN
    /\ Calls(p)
    /\ \E recognised \in SUBSET twins :
        IF recognised # {} \/ free = {} THEN Answers("Open", p, -1, -1)
        ELSE IF type \notin {0, 1}
        THEN Answers("Open", p, -1, IF type = 2 THEN 0 ELSE 1)
        ELSE IF named[n] = NULL \/ fds >= MaxFds THEN Answers("Open", p, -1, -1)
        ELSE /\ fileTable' = [fileTable EXCEPT ![p][slot] =
                                 NewOpenFile(named[n], type, n)]
             /\ Called("Open", p, slot, slot, <<>>)
             /\ fds' = fds + 1 /\ UNCHANGED <<disk, named>> /\ Keep

\* SysClose and PCB::Close; the console can be closed like any file.
CloseCall(p, id) ==
    /\ Calls(p)
    /\ IF id \notin Open(p) THEN Answers("Close", p, id, -1)
       ELSE /\ fileTable' = [fileTable EXCEPT ![p][id] = NULL]
            /\ Called("Close", p, id, 0, <<>>)
            /\ fds' = fds - 1 /\ UNCHANGED named /\ Release /\ Keep

\* Mutant of CopiedOut: off by one, the last byte is not copied.
CopiedOutShort(s) == SubSeq(s, 1, Len(s) - 1)

\* System2User copies up to and including the first NUL.  What follows in
\* the program's buffer is not written.
CopiedOut(s) ==
    LET nuls == {i \in DOMAIN s : s[i] = NUL} IN
    IF nuls = {} THEN s
    ELSE SubSeq(s, 1, CHOOSE i \in nuls : \A j \in nuls : i <= j)

\* User2System copies up to the first NUL into a buffer of zeros.
CopiedIn(s) ==
    [i \in DOMAIN s |-> IF \E j \in 1..i : s[j] = NUL THEN NUL ELSE s[i]]

\* Mutant of ReadCall: currentOffset is not advanced.
ReadCallStay(p, id, size) ==
    LET o == fileTable[p][id]
        rest == SubSeq(disk[o.file], o.pos + 1, Len(disk[o.file]))
        got == SubSeq(rest, 1, IF size < Len(rest) THEN size ELSE Len(rest)) IN
    /\ Calls(p)
    /\ IF id = ConsoleOutput \/ id \notin Open(p) THEN Answers("Read", p, id, -1)
       ELSE IF id = ConsoleInput
       THEN \E n \in 0..size : Answers("Read", p, id, n)
       ELSE /\ fileTable' = [fileTable EXCEPT ![p][id].pos = o.pos + Len(got)]
            /\ IF got = <<>> THEN Called("Read", p, id, -2, <<>>)
               ELSE Called("Read", p, id, Len(got), CopiedOut(got))
            /\ UNCHANGED <<disk, named, fds>> /\ Keep

\* SC_Read, PCB::Read, OpenFile::Read.  PCB::Read first sets currentOffset
\* from the host's position.  A line from the console may be empty.
ReadCall(p, id, size) ==
    LET o == fileTable[p][id]
        rest == SubSeq(disk[o.file], o.pos + 1, Len(disk[o.file]))
        got == SubSeq(rest, 1, IF size < Len(rest) THEN size ELSE Len(rest)) IN
    /\ Calls(p)
    /\ IF id = ConsoleOutput \/ id \notin Open(p) THEN Answers("Read", p, id, -1)
       ELSE IF id = ConsoleInput
       THEN \E n \in 0..size : Answers("Read", p, id, n)
       ELSE /\ fileTable' = [fileTable EXCEPT ![p][id].pos = o.pos + Len(got),
                            ![p][id].currentOffset = o.pos + Len(got)]
            /\ IF got = <<>> THEN Called("Read", p, id, -2, <<>>)
               ELSE Called("Read", p, id, Len(got), CopiedOut(got))
            /\ UNCHANGED <<disk, named, fds>> /\ Keep

\* write at a position of the host file; a gap is filled with zeros.
Written(s, pos, b) ==
    [i \in 1..(IF Len(s) < pos + Len(b) THEN pos + Len(b) ELSE Len(s)) |->
        IF i - pos \in DOMAIN b THEN b[i - pos]
        ELSE IF i <= Len(s) THEN s[i] ELSE NUL]

\* How many bytes of b Write prints on the console: up to a NUL (a newline
\* ends it too, and one is added).
Printed(b) == Len(SelectSeq(CopiedIn(b), LAMBDA c : c # NUL))

\* SC_Write, PCB::Write, OpenFile::Write.
WriteCall(p, id, b) ==
    LET o == fileTable[p][id] IN
    /\ Calls(p)
    /\ IF id = ConsoleInput \/ id \notin Open(p) \/ o.type = 1
       THEN Answers("Write", p, id, -1)
       ELSE IF id = ConsoleOutput
       THEN Answers("Write", p, id, Printed(b))
       ELSE /\ o.pos + Len(b) <= MaxLength
            /\ fileTable' = [fileTable EXCEPT
                  ![p][id].pos = o.pos + Len(b),
                  ![p][id].currentOffset = o.pos + Len(b)]
            /\ disk' = IF b = <<>> THEN disk
                       ELSE [disk EXCEPT ![o.file] = Written(@, o.pos, CopiedIn(b))]
            /\ Called("Write", p, id, IF b = <<>> THEN -1 ELSE Len(b), b)
            /\ UNCHANGED <<named, fds>> /\ Keep

\* SysSeek, PCB::Seek, OpenFile::Seek and Length.  Length goes to the end of
\* the file and back to currentOffset.
SeekCall(p, id, position) ==
    LET o == fileTable[p][id]
        length == Len(disk[o.file])
        to == IF position = -1 THEN length ELSE position IN
    /\ Calls(p)
    /\ IF id \notin Open(p) \ {ConsoleInput, ConsoleOutput}
       THEN Answers("Seek", p, id, -1)
       ELSE IF to \notin 0..length
       THEN /\ fileTable' = [fileTable EXCEPT ![p][id].pos = o.currentOffset]
            /\ Called("Seek", p, id, -1, <<>>)
            /\ UNCHANGED <<disk, named, fds>> /\ Keep
       ELSE /\ fileTable' = [fileTable EXCEPT ![p][id].pos = to,
                                              ![p][id].currentOffset = to]
            /\ Called("Seek", p, id, to, <<>>)
            /\ UNCHANGED <<disk, named, fds>> /\ Keep

Next ==
    \E p \in Process :
        \/ ExecOpen(p) \/ LoadOpen(p) \/ LoadClose(p) \/ Exit(p)
        \/ \E child \in Process : ExecUpdate(p, child)
        \/ \E n \in UserName : \/ Create(p, n) \/ Remove(p, n)
                           \/ \E type \in 0..3 : OpenCall(p, n, type)
        \/ \E id \in CloseId : CloseCall(p, id)
        \/ \E id \in Id : \/ \E size \in 0..MaxLength : ReadCall(p, id, size)
                          \/ \E b \in Buffer : WriteCall(p, id, b)
                          \/ \E pos \in -1..MaxLength + 1 : SeekCall(p, id, pos)

Spec == Init /\ [][Next]_vars

-----------------------------------------------------------------------------
(* Properties                                                              *)

\* The offset that OpenFile keeps and the position that the host keeps for
\* its descriptor never drift apart, although Read and Write use one and
\* then the other, and Length moves the host's.
OffsetsAgree ==
    \A p \in Process : \A i \in Open(p) :
        fileTable[p][i].pos = fileTable[p][i].currentOffset

\* Every descriptor that the host has open is FileSystem's, is in the table
\* of a process, is that of a program being loaded, or was left open by a
\* process that has exited: no call opens a file and forgets it, or closes
\* one twice.
DescriptorsAccounted == fds = 2 + leaked + Opened + Cardinality(Loading)

\* The step is a call on an open file, not on the console.
OnFile(op) ==
    /\ call'.op = op /\ Calls(call'.proc)
    /\ call'.id \in Open(call'.proc) \ {ConsoleInput, ConsoleOutput}
CalledFile == fileTable[call'.proc][call'.id]

\* A process cannot change a file through a descriptor opened read only, nor
\* through any but a Write: whatever else changes a file empties it (Create,
\* and the PCB of a new process for stdin and stdout).
OnlyWritersChange ==
    \A f \in DOMAIN disk' : disk'[f] # <<>> /\ ~(f \in DOMAIN disk /\ disk[f] = disk'[f]) =>
        OnFile("Write") /\ CalledFile.file = f /\ CalledFile.type = 0

\* A Read or a Write that returns n has moved exactly the n bytes at the
\* position where the calls before it left the file, and has left the
\* position behind them: the program's buffer and the file hold the same.
\* Other processes may have written to, emptied or removed the file between.
\* It is so for text: a NUL among the bytes ends the copy to or from the
\* program's buffer early.
TextTransfersAreExact ==
    LET n == call'.result
        o == CalledFile
        At(d) == SubSeq(d[o.file], o.currentOffset + 1, o.currentOffset + n)
        Exact(d) == (\A k \in DOMAIN At(d) : At(d)[k] # NUL) =>
            /\ call'.data = At(d)
            /\ fileTable'[call'.proc][call'.id].currentOffset = o.currentOffset + n
    IN /\ OnFile("Read") /\ n > 0 => Exact(disk)
       /\ OnFile("Write") /\ n > 0 => Exact(disk')

\* A process that starts has the console open for input and for output, as
\* syscall.h says of an address space.
StartHasConsole ==
    call.op = "Load" => {ConsoleInput, ConsoleOutput} \subseteq Open(call.proc)

\* What the kernel and the host know of the open files agrees: the types of
\* the tables, the positions, and the number of descriptors.
OpenFilesAgree == TypeOK /\ OffsetsAgree /\ DescriptorsAccounted

\* Read and Write move exactly the bytes they say, and nothing else changes
\* what a file holds.
TransfersAreExact == [][TextTransfersAreExact /\ OnlyWritersChange]_vars
=============================================================================
