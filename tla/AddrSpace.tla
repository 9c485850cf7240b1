----------------------------- MODULE AddrSpace ------------------------------
(***************************************************************************)
(* Address spaces: AddrSpace::Load, ~AddrSpace and AddrSpace::Translate    *)
(* (userprog/addrspace.cc) and the access to memory by a running program,  *)
(* Machine::Translate, ReadMem and WriteMem (machine/translate.cc).        *)
(*                                                                         *)
(* A byte of an executable is named by where its header says it belongs:   *)
(* the byte of virtual address a is a + 1.  Memory holds such names, 0, or *)
(* what programs wrote.  An executable is its header, so a header also     *)
(* says what each byte of the file is.                                     *)
(***************************************************************************)
EXTENDS Integers, FiniteSets

CONSTANTS
    Process,
    Executable,     \* NOFF headers of the programs that are run
    PageSize,       \* 128
    NumPhysPages,   \* 128
    UserStackSize,  \* 1024
    AddressBits,    \* 32
    Value,          \* bytes that programs write
    MaxWrites,      \* bound: how many writes are made
    NULL

ASSUME AddrSpaceAssumption ==
    /\ PageSize \in Nat \ {0} /\ PageSize % 4 = 0
    /\ NumPhysPages \in Nat \ {0} /\ UserStackSize \in Nat
    /\ NumPhysPages * PageSize <= 2^(AddressBits - 1)

VARIABLES
    mainMemory,       \* Machine::mainMemory
    gPhysPageBitMap,  \* the frames in use
    addrLock,         \* is the semaphore free?
    pc,               \* where the thread of each process is in StartProcess
    header,           \* noffH, read from the executable
    pageTable,        \* the entries, in the order of the virtual pages
    machine,          \* "on", "halted" (an exception) or "aborted" (ASSERT)
    writes

vars == <<mainMemory, gPhysPageBitMap, addrLock, pc, header, pageTable,
          machine, writes>>

Frame == 0..NumPhysPages - 1
MemorySize == NumPhysPages * PageSize
TranslationEntry == [physicalPage : Frame, valid : BOOLEAN, readOnly : BOOLEAN,
                     dirty : BOOLEAN]

DivRoundUp(n, s) == (n \div s) + (IF n % s > 0 THEN 1 ELSE 0)
Smaller(a, b) == IF a < b THEN a ELSE b

\* The segments whose bytes are in the file.
Segments(h) == {h.code, h.initData, h.readonlyData}
FileByte(h, x) ==
    LET s == CHOOSE s \in Segments(h) : x - s.inFileAddr \in 0..s.size - 1
    IN s.virtualAddr + (x - s.inFileAddr) + 1

Size(h) == h.code.size + h.readonlyData.size + h.initData.size +
           h.uninitData.size + UserStackSize
NumPages(h) == DivRoundUp(Size(h), PageSize)

\* The types of the variables: page tables hold frames of the machine, and a
\* process is at one of the places of Load or runs.
TypeOK ==
    /\ mainMemory \in [0..MemorySize - 1 -> Nat]
    /\ gPhysPageBitMap \subseteq Frame
    /\ addrLock \in BOOLEAN
    /\ pc \in [Process -> {"none", "load", "alloc", "copy", "run"}]
    /\ \A p \in Process : \A i \in DOMAIN pageTable[p] :
            pageTable[p][i] \in TranslationEntry
    /\ machine \in {"on", "halted", "aborted"}

Init ==
    /\ mainMemory = [a \in 0..MemorySize - 1 |-> 0]
    /\ gPhysPageBitMap = {}
    /\ addrLock = TRUE
    /\ pc = [p \in Process |-> "none"]
    /\ header = [p \in Process |-> NULL]
    /\ pageTable = [p \in Process |-> <<>>]
    /\ machine = "on"
    /\ writes = 0

-----------------------------------------------------------------------------
(* Loading                                                                 *)

\* StartProcess calls Load, which opens the file and reads the header.
StartLoad(p) ==
    /\ machine = "on" /\ pc[p] = "none"
    /\ \E h \in Executable : header' = [header EXCEPT ![p] = h]
    /\ pc' = [pc EXCEPT ![p] = "load"]
    /\ UNCHANGED <<mainMemory, gPhysPageBitMap, addrLock, pageTable, machine, writes>>

LoadP(p) ==
    /\ machine = "on" /\ pc[p] = "load" /\ addrLock
    /\ addrLock' = FALSE
    /\ pc' = [pc EXCEPT ![p] = "alloc"]
    /\ UNCHANGED <<mainMemory, gPhysPageBitMap, header, pageTable, machine, writes>>

\* FindAndSet, n times: the n lowest free frames in increasing order.
FindFrames(n) ==
    LET free == Frame \ gPhysPageBitMap
        Below(f) == Cardinality({g \in free : g < f})
    IN [i \in 0..n - 1 |-> CHOOSE f \in free : Below(f) = i]

\* The rest of Load up to the V of addrLock.  A program that does not fit, in
\* the machine or in what is free of it, ends in an assertion, here or in
\* StartProcess.
LoadAllocate(p) ==
    LET n == NumPages(header[p])
        frames == FindFrames(n)
        new == {frames[i] : i \in 0..n - 1} IN
    /\ machine = "on" /\ pc[p] = "alloc"
    /\ IF n > NumPhysPages \/ n > NumPhysPages - Cardinality(gPhysPageBitMap)
       THEN machine' = "aborted"
            /\ UNCHANGED <<mainMemory, gPhysPageBitMap, addrLock, pc, pageTable>>
       ELSE /\ pageTable' = [pageTable EXCEPT ![p] = [i \in 0..n - 1 |->
                  [physicalPage |-> frames[i], valid |-> TRUE,
                   readOnly |-> FALSE, dirty |-> FALSE]]]
            /\ gPhysPageBitMap' = gPhysPageBitMap \cup new
            /\ mainMemory' = [a \in DOMAIN mainMemory |->
                  IF a \div PageSize \in new THEN 0 ELSE mainMemory[a]]
            /\ addrLock' = TRUE
            /\ pc' = [pc EXCEPT ![p] = "copy"]
            /\ UNCHANGED machine
    /\ UNCHANGED <<header, writes>>

\* The calls of ReadAt that copy n bytes at x of the file to the pages from
\* page i on: page, offset in it, length, place in the file.
PageReads(i, n, x) ==
    {<<i + j, 0, Smaller(PageSize, n - j * PageSize), x + j * PageSize>> :
        j \in 0..DivRoundUp(n, PageSize) - 1}

\* A segment s is put behind the n bytes before it, of which i pages are
\* taken: what fits into the last of these, then whole pages.  Where there
\* is no page yet, those first bytes are not read.
Offset(n) == IF n = 0 THEN 0 ELSE ((n - 1) % PageSize) + 1
First(n, s) == Smaller(PageSize - Offset(n), s.size)
SegmentReads(i, n, s) ==
    (IF Offset(n) # PageSize /\ i > 0
     THEN {<<i - 1, Offset(n), First(n, s), s.inFileAddr>>} ELSE {})
    \cup PageReads(i, s.size - First(n, s), s.inFileAddr + First(n, s))
PagesAfter(i, n, s) == i + DivRoundUp(s.size - First(n, s), PageSize)

\* The code, then the initialised data, then the read only data, packed.
Reads(h) ==
    LET c == h.code.size
        i == DivRoundUp(c, PageSize)
    IN PageReads(0, c, h.code.inFileAddr)
       \cup SegmentReads(i, c, h.initData)
       \cup SegmentReads(PagesAfter(i, c, h.initData), c + h.initData.size,
                         h.readonlyData)

\* Each goes to the frame of its page, moved by the address of the code.
LoadCopy(p) ==
    LET At(r) == header[p].code.virtualAddr
                 + pageTable[p][r[1]].physicalPage * PageSize + r[2] IN
    /\ machine = "on" /\ pc[p] = "copy"
    /\ mainMemory' = [a \in DOMAIN mainMemory |->
          LET here == {r \in Reads(header[p]) : a - At(r) \in 0..r[3] - 1} IN
          IF here = {} THEN mainMemory[a]
          ELSE LET r == CHOOSE r \in here : TRUE
               IN FileByte(header[p], r[4] + (a - At(r)))]
    /\ pc' = [pc EXCEPT ![p] = "run"]
    /\ UNCHANGED <<gPhysPageBitMap, addrLock, header, pageTable, machine, writes>>

\* Mutant of Exit: one page too few is given back.
ExitKeepsFrame(p) ==
    /\ machine = "on" /\ pc[p] = "run"
    /\ gPhysPageBitMap' = gPhysPageBitMap \
          {pageTable[p][i].physicalPage : i \in DOMAIN pageTable[p] \ {0}}
    /\ pageTable' = [pageTable EXCEPT ![p] = <<>>]
    /\ header' = [header EXCEPT ![p] = NULL]
    /\ pc' = [pc EXCEPT ![p] = "none"]
    /\ UNCHANGED <<mainMemory, addrLock, machine, writes>>

\* Thread::FreeSpace and ~AddrSpace.
Exit(p) ==
    /\ machine = "on" /\ pc[p] = "run"
    /\ gPhysPageBitMap' = gPhysPageBitMap \
          {pageTable[p][i].physicalPage : i \in DOMAIN pageTable[p]}
    /\ pageTable' = [pageTable EXCEPT ![p] = <<>>]
    /\ header' = [header EXCEPT ![p] = NULL]
    /\ pc' = [pc EXCEPT ![p] = "none"]
    /\ UNCHANGED <<mainMemory, addrLock, machine, writes>>

-----------------------------------------------------------------------------
(* Access to memory                                                        *)

Unsigned(a) == a % 2^AddressBits

\* Machine::Translate without a TLB: the physical address, or NULL for an
\* exception.
Translate(p, virtAddr, size, writing) ==
    LET vpn == Unsigned(virtAddr) \div PageSize
        entry == pageTable[p][vpn] IN
    IF \/ virtAddr % size # 0
       \/ vpn \notin DOMAIN pageTable[p]
       \/ ~entry.valid
       \/ writing /\ entry.readOnly
       \/ entry.physicalPage >= NumPhysPages
    THEN NULL
    ELSE entry.physicalPage * PageSize + (Unsigned(virtAddr) % PageSize)

\* AddrSpace::Translate, of a byte.
SpaceTranslate(p, vaddr, isReadWrite) ==
    LET vpn == vaddr \div PageSize
        pte == pageTable[p][vpn] IN
    IF \/ vpn \notin DOMAIN pageTable[p]
       \/ isReadWrite /\ pte.readOnly
       \/ pte.physicalPage >= NumPhysPages
    THEN NULL
    ELSE pte.physicalPage * PageSize + (vaddr % PageSize)

\* Mutant of Access: the mask of the value is too narrow.
AccessMasked(p, virtAddr, size, writing, value) ==
    LET at == Translate(p, virtAddr, size, writing)
        vpn == Unsigned(virtAddr) \div PageSize IN
    /\ machine = "on" /\ pc[p] = "run"
    /\ IF at = NULL
       THEN machine' = "halted" /\ UNCHANGED <<mainMemory, pageTable>>
       ELSE /\ pageTable' = [pageTable EXCEPT ![p][vpn].dirty = @ \/ writing]
            /\ mainMemory' =
                 IF writing
                 THEN [a \in DOMAIN mainMemory |->
                        IF a \in at..at + size - 1 THEN value % 16 ELSE mainMemory[a]]
                 ELSE mainMemory
            /\ UNCHANGED machine
    /\ UNCHANGED <<gPhysPageBitMap, addrLock, pc, header>>

\* ReadMem and WriteMem.  An exception halts the machine.  The use bit, which
\* nothing reads, is left out.
Access(p, virtAddr, size, writing, value) ==
    LET at == Translate(p, virtAddr, size, writing)
        vpn == Unsigned(virtAddr) \div PageSize IN
    /\ machine = "on" /\ pc[p] = "run"
    /\ IF at = NULL
       THEN machine' = "halted" /\ UNCHANGED <<mainMemory, pageTable>>
       ELSE /\ pageTable' = [pageTable EXCEPT ![p][vpn].dirty = @ \/ writing]
            /\ mainMemory' =
                 IF writing
                 THEN [a \in DOMAIN mainMemory |->
                        IF a \in at..at + size - 1 THEN value ELSE mainMemory[a]]
                 ELSE mainMemory
            /\ UNCHANGED machine
    /\ UNCHANGED <<gPhysPageBitMap, addrLock, pc, header>>

\* A program may use any address, also one that is negative as an int.
Address == -(2^(AddressBits - 1))..2^(AddressBits - 1) - 1

ReadMem(p) ==
    /\ \E a \in Address, size \in {1, 2, 4} : Access(p, a, size, FALSE, 0)
    /\ UNCHANGED writes
WriteMem(p) ==
    /\ writes < MaxWrites /\ writes' = writes + 1
    /\ \E a \in Address, size \in {1, 2, 4}, v \in Value :
            Access(p, a, size, TRUE, v)

Next ==
    \E p \in Process :
        \/ StartLoad(p) \/ LoadP(p) \/ LoadAllocate(p) \/ LoadCopy(p)
        \/ Exit(p) \/ ReadMem(p) \/ WriteMem(p)

Spec == Init /\ [][Next]_vars

-----------------------------------------------------------------------------
(* Properties                                                              *)

Mapped(p) == 0..Cardinality(DOMAIN pageTable[p]) * PageSize - 1

\* A program that has code.  The first bytes of the data of another are lost.
Runnable(h) == h.code.size > 0

\* The memory that a header describes: each segment at its virtualAddr, the
\* uninitialised data and the stack zero.
Image(h) ==
    [v \in 0..NumPages(h) * PageSize - 1 |->
        IF \E s \in Segments(h) : v - s.virtualAddr \in 0..s.size - 1
        THEN v + 1 ELSE 0]

Memory ==
    [p \in Process |-> IF pc[p] # "run" THEN NULL
        ELSE [v \in Mapped(p) |-> mainMemory[SpaceTranslate(p, v, FALSE)]]]

\* Every frame marked in the bitmap is in exactly one page table, and only
\* those are marked: frames are neither shared, lost nor handed out twice,
\* also while several programs are being loaded.
FramesAreOwned ==
    LET owners(f) == {pi \in Process \X Frame :
            pi[2] \in DOMAIN pageTable[pi[1]]
            /\ pageTable[pi[1]][pi[2]].physicalPage = f}
    IN \A f \in Frame :
        Cardinality(owners(f)) = (IF f \in gPhysPageBitMap THEN 1 ELSE 0)

\* The two translations, that of the machine and that of the address space,
\* agree on every byte, and none leads outside the memory of the process.
TranslationsAgree ==
    \A p \in Process, a \in Address, w \in BOOLEAN : pc[p] = "run" =>
        Translate(p, a, 1, w) = SpaceTranslate(p, Unsigned(a), w)

\* Load puts every segment at the virtualAddr that the header gives, and
\* zeros everywhere else, however the segments meet the page boundaries.
ImageIsLoaded ==
    writes = 0 => \A p \in Process : pc[p] = "run" /\ Runnable(header[p]) =>
        Memory[p] = Image(header[p])

\* A page whose dirty bit is clear still holds what Load put there, so that
\* it need not be saved to be replaced.
CleanPagesAreUnchanged ==
    \A p \in Process : pc[p] = "run" /\ Runnable(header[p]) =>
        \A v \in Mapped(p) : ~pageTable[p][v \div PageSize].dirty =>
            Memory[p][v] = Image(header[p])[v]

\* Frames, page tables, dirty bits and the loaded image are right together.
SpacesAreRight ==
    /\ TypeOK /\ FramesAreOwned /\ TranslationsAgree
    /\ ImageIsLoaded /\ CleanPagesAreUnchanged
=============================================================================
