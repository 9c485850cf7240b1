------------------------------ MODULE DiskFiles ------------------------------
(***************************************************************************)
(* The file system on the simulated disk: FileSystem (filesys.cc),         *)
(* Directory, FileHeader, PersistentBitmap and the OpenFile of             *)
(* openfile.cc.  The makefiles define FILESYS_STUB and leave it out; the   *)
(* end of its constructor uses members that the class does not declare and *)
(* is not modelled.                                                        *)
(*                                                                         *)
(* An operation reads the structures it needs, changes its copies and      *)
(* writes them back sector by sector, in the order of the code; what it    *)
(* still has to write is in writes.  Operations do not overlap: the code   *)
(* "assumes there is no concurrent access".  Sector reads and writes are   *)
(* those of AtomicDisk.                                                    *)
(***************************************************************************)
EXTENDS Integers, Sequences, FiniteSets, FiniteSetsExt, Functions

Seqs == INSTANCE SequencesExt

CONSTANTS
    NumSectors, SectorSize,
    NumDirect,        \* data sectors a header has room for
    NumDirEntries,
    SplitEntry,       \* the directory entry that lies across its two sectors
    Name,             \* the names that programs use
    Prefix,           \* the first FileNameMaxLen characters of a name
    Handle,           \* OpenFile objects
    Byte,             \* a set of natural numbers
    CloseFirst,       \* TRUE if programs do not remove a file that is open
    MaxSize           \* bytes of a new file; never more than a header's room

ASSUME SizeAssumption == MaxSize <= NumDirect * SectorSize

FreeMapSector == 0
DirectorySector == 1
Sector == 0..NumSectors - 1
Entry == 0..NumDirEntries - 1

\* What a buffer holds before anything is copied to it.
Junk == -1
Block == [0..SectorSize - 1 -> Byte \cup {Junk}]

\* FileHeader; the sectors of a header that was never written are garbage.
FileHeader(numBytes, dataSectors) == [numBytes |-> numBytes, dataSectors |-> dataSectors]
Garbage == FileHeader(-1, <<>>)

VARIABLES
    header,     \* what each sector holds, taken as a file header
    data,       \* what it holds, taken as data
    map,        \* the sectors marked in the bitmap on disk
    dir,        \* the directory on disk
    writes,     \* the sectors the operation under way still writes
    handles,    \* the open files: their header, position and name
    read,       \* the last ReadAt: header, position, count and the bytes
    created     \* the names created and not removed since

vars == <<header, data, map, dir, writes, handles, read, created>>

Closed == [hdr |-> Garbage, pos |-> 0, sector |-> -1]
NoRead == [hdr |-> Garbage, pos |-> 0, count |-> 0, bytes |-> <<>>]
FreeEntry == [inUse |-> FALSE, name |-> "", sector |-> 0]

\* What is on disk is well formed: headers name sectors of the disk and have
\* no more bytes than room, entries name sectors, positions stay in bounds.
TypeOK ==
    /\ data \in [Sector -> Block]
    /\ \A s \in Sector : header[s].numBytes \in -1..NumDirect * SectorSize
                         /\ Range(header[s].dataSectors) \subseteq Sector
    /\ map \subseteq Sector
    /\ dir \in [Entry -> [inUse : BOOLEAN, sector : Sector,
                          name : {""} \cup {Prefix[n] : n \in Name}]]
    /\ \A h \in Handle : handles[h].pos \in 0..MaxSize

-----------------------------------------------------------------------------
(* The structures in memory                                                *)

DivRoundUp(n, s) == (n + s - 1) \div s

\* FindAndSet, n times: the lowest sectors that are free in m.
FindAndSet(m, n) == SubSeq(Seqs!SetToSortSeq(Sector \ m, <), 1, n)

\* FileHeader::Allocate: the data sectors, if the bitmap has enough.
NumSectorsOf(fileSize) == DivRoundUp(fileSize, SectorSize)
CanAllocate(m, fileSize) == Cardinality(Sector \ m) >= NumSectorsOf(fileSize)
Allocate(m, fileSize) == FileHeader(fileSize, FindAndSet(m, NumSectorsOf(fileSize)))

\* FileHeader::Deallocate
Deallocate(m, h) == m \ Range(h.dataSectors)

\* Directory::FindIndex: the entry in use whose name has the same beginning.
\* The directory has at most one.
FindIndex(d, n) == {i \in Entry : d[i].inUse /\ d[i].name = Prefix[n]}
Find(d, n) == d[Min(FindIndex(d, n))].sector

\* Directory::Add and Remove, for a name that may be added or is there.
CanAdd(d, n) == FindIndex(d, n) = {} /\ \E i \in Entry : ~d[i].inUse
AddEntry(d, n, s) ==
    [d EXCEPT ![Min({i \in Entry : ~d[i].inUse})] =
        [inUse |-> TRUE, name |-> Prefix[n], sector |-> s]]
RemoveEntry(d, n) == [d EXCEPT ![Min(FindIndex(d, n))].inUse = FALSE]

-----------------------------------------------------------------------------
(* Sector writes                                                           *)

\* The steps of WriteBack: a header is one sector and so is the bitmap; the
\* directory is two, and the name of one entry comes with the second.
HeaderWrite(s, h) == <<[to |-> "header", sector |-> s, hdr |-> h]>>
MapWrite(m) == <<[to |-> "map", map |-> m]>>
DirWrite(d) == <<[to |-> "dir1", dir |-> d], [to |-> "dir2", dir |-> d]>>
DataWrite(s, b) == [to |-> "data", sector |-> s, block |-> b]

InPart(part, d) ==
    [i \in Entry |->
        CASE i < SplitEntry -> IF part = 1 THEN d[i] ELSE dir[i]
          [] i > SplitEntry -> IF part = 2 THEN d[i] ELSE dir[i]
          [] OTHER -> IF part = 1 THEN [d[i] EXCEPT !.name = dir[i].name]
                      ELSE [dir[i] EXCEPT !.name = d[i].name]]

\* What lay in the sector is no header, or no data, any more.
WriteSector ==
    /\ writes # <<>>
    /\ LET w == Head(writes) IN
       \/ /\ w.to = "header"
          /\ header' = [header EXCEPT ![w.sector] = w.hdr]
          /\ data' = [data EXCEPT ![w.sector] = [x \in 0..SectorSize - 1 |-> Junk]]
          /\ UNCHANGED <<map, dir>>
       \/ /\ w.to = "data"
          /\ data' = [data EXCEPT ![w.sector] = w.block]
          /\ header' = [header EXCEPT ![w.sector] = Garbage]
          /\ UNCHANGED <<map, dir>>
       \/ w.to = "map" /\ map' = w.map /\ UNCHANGED <<header, data, dir>>
       \/ w.to = "dir1" /\ dir' = InPart(1, w.dir) /\ UNCHANGED <<header, data, map>>
       \/ w.to = "dir2" /\ dir' = InPart(2, w.dir) /\ UNCHANGED <<header, data, map>>
    /\ writes' = Tail(writes)
    /\ UNCHANGED <<handles, read, created>>

Ready == writes = <<>>

-----------------------------------------------------------------------------
(* FileSystem                                                              *)

\* FileSystem::FileSystem with format: the bitmap and the directory get their
\* headers in the first two sectors and their data behind them.
MapHeader == Allocate({FreeMapSector, DirectorySector}, SectorSize)
System0 == {FreeMapSector, DirectorySector} \cup Range(MapHeader.dataSectors)
DirHeader == Allocate(System0, 2 * SectorSize)
System == System0 \cup Range(DirHeader.dataSectors)

Init ==
    /\ header = [s \in Sector |-> Garbage]
    /\ data = [s \in Sector |-> [x \in 0..SectorSize - 1 |-> Junk]]
    /\ map = {}
    /\ dir = [i \in Entry |-> FreeEntry]
    /\ writes = HeaderWrite(FreeMapSector, MapHeader) \o HeaderWrite(DirectorySector, DirHeader)
                \o MapWrite(System) \o DirWrite([i \in Entry |-> FreeEntry])
    /\ handles = [h \in Handle |-> Closed]
    /\ read = NoRead
    /\ created = {}

\* Mutant of Create: the directory goes to disk before the header.
CreateEntryFirst(n, initialSize) ==
    LET sector == FindAndSet(map, 1)[1]
        map1 == map \cup {sector}
        hdr == Allocate(map1, initialSize) IN
    /\ Ready
    /\ FindIndex(dir, n) = {} /\ map # Sector /\ CanAdd(dir, n)
    /\ CanAllocate(map1, initialSize)
    /\ writes' = DirWrite(AddEntry(dir, n, sector)) \o HeaderWrite(sector, hdr)
                 \o MapWrite(map1 \cup Range(hdr.dataSectors))
    /\ created' = created \cup {n}
    /\ UNCHANGED <<header, data, map, dir, handles, read>>

\* FileSystem::Create; when it fails, its copies are discarded.
MayCreate(n, initialSize) ==
    /\ FindIndex(dir, n) = {} /\ map # Sector /\ CanAdd(dir, n)
    /\ CanAllocate(map \cup {FindAndSet(map, 1)[1]}, initialSize)

Create(n, initialSize) ==
    LET sector == FindAndSet(map, 1)[1]
        map1 == map \cup {sector}
        hdr == Allocate(map1, initialSize) IN
    /\ Ready /\ MayCreate(n, initialSize)
    /\ writes' = HeaderWrite(sector, hdr) \o DirWrite(AddEntry(dir, n, sector))
                 \o MapWrite(map1 \cup Range(hdr.dataSectors))
    /\ created' = created \cup {n}
    /\ UNCHANGED <<header, data, map, dir, handles, read>>

\* FileSystem::Remove
Remove(n) ==
    LET sector == Find(dir, n) IN
    /\ Ready /\ FindIndex(dir, n) # {}
    /\ writes' = MapWrite(Deallocate(map, header[sector]) \ {sector})
                 \o DirWrite(RemoveEntry(dir, n))
    /\ created' = created \ {n}
    /\ UNCHANGED <<header, data, map, dir, handles, read>>

\* FileSystem::Open and OpenFile::OpenFile; ~OpenFile
Open(h, n) ==
    /\ Ready /\ handles[h] = Closed /\ FindIndex(dir, n) # {}
    /\ handles' = [handles EXCEPT ![h] = [hdr |-> header[Find(dir, n)], pos |-> 0,
                                          sector |-> Find(dir, n)]]
    /\ UNCHANGED <<header, data, map, dir, writes, read, created>>

Close(h) ==
    /\ Ready /\ handles[h] # Closed
    /\ handles' = [handles EXCEPT ![h] = Closed]
    /\ UNCHANGED <<header, data, map, dir, writes, read, created>>

-----------------------------------------------------------------------------
(* OpenFile: transfers of any bytes through whole sectors                  *)

\* ReadAt and WriteAt transfer nothing, or what is inside of the file.
Transferred(hdr, numBytes, position) ==
    IF numBytes <= 0 \/ position >= hdr.numBytes THEN 0
    ELSE Min({numBytes, hdr.numBytes - position})

First(position) == position \div SectorSize
Last(position, count) == (position + count - 1) \div SectorSize

\* FileHeader::ByteToSector
ByteToSector(hdr, offset) == hdr.dataSectors[(offset \div SectorSize) + 1]

\* The bytes that ReadAt copies: the sectors are read into a buffer.
ReadAt(hdr, count, position) ==
    LET first == First(position)
        buf == [x \in 0..(Last(position, count) - first + 1) * SectorSize - 1 |->
                  data[ByteToSector(hdr, first * SectorSize + x)][x % SectorSize]]
        from == position - first * SectorSize
    IN [i \in 1..count |-> buf[from + i - 1]]

Read(h, numBytes) ==
    LET f == handles[h]
        count == Transferred(f.hdr, numBytes, f.pos) IN
    /\ Ready /\ f # Closed
    /\ read' = [hdr |-> f.hdr, pos |-> f.pos, count |-> count,
                bytes |-> IF count = 0 THEN <<>> ELSE ReadAt(f.hdr, count, f.pos)]
    /\ handles' = [handles EXCEPT ![h].pos = @ + count]
    /\ UNCHANGED <<header, data, map, dir, writes, created>>

\* Mutant of WriteBlocks: the last sector is read only when it is not the first.
WriteBlocksFirstOnly(hdr, from, position) ==
    LET count == Len(from)
        first == First(position)
        last == Last(position, count)
        firstAligned == position = first * SectorSize
        lastAligned == position + count = (last + 1) * SectorSize
        IsRead(s) == \/ s = first /\ ~firstAligned
                     \/ s = last /\ ~lastAligned /\ first # last
        Old(s, x) == IF IsRead(s) /\ s * SectorSize + x < hdr.numBytes
                     THEN data[hdr.dataSectors[s + 1]][x] ELSE Junk
    IN [i \in 1..last - first + 1 |->
          LET s == first + i - 1 IN
          DataWrite(hdr.dataSectors[s + 1],
            [x \in 0..SectorSize - 1 |->
               LET k == s * SectorSize + x - position
               IN IF k \in 0..count - 1 THEN from[k + 1] ELSE Old(s, x)])]

\* The sectors that WriteAt writes: a buffer, into which the first and the last
\* sector are read if they are not overwritten as a whole.
WriteBlocks(hdr, from, position) ==
    LET count == Len(from)
        first == First(position)
        last == Last(position, count)
        firstAligned == position = first * SectorSize
        lastAligned == position + count = (last + 1) * SectorSize
        IsRead(s) == \/ s = first /\ ~firstAligned
                     \/ s = last /\ ~lastAligned /\ (first # last \/ firstAligned)
        Old(s, x) == IF IsRead(s) /\ s * SectorSize + x < hdr.numBytes
                     THEN data[hdr.dataSectors[s + 1]][x] ELSE Junk
    IN [i \in 1..last - first + 1 |->
          LET s == first + i - 1 IN
          DataWrite(hdr.dataSectors[s + 1],
            [x \in 0..SectorSize - 1 |->
               LET k == s * SectorSize + x - position
               IN IF k \in 0..count - 1 THEN from[k + 1] ELSE Old(s, x)])]

Write(h, from) ==
    LET f == handles[h]
        count == Transferred(f.hdr, Len(from), f.pos) IN
    /\ Ready /\ f # Closed
    /\ writes' = IF count = 0 THEN <<>>
                 ELSE WriteBlocks(f.hdr, SubSeq(from, 1, count), f.pos)
    /\ handles' = [handles EXCEPT ![h].pos = @ + count]
    /\ UNCHANGED <<header, data, map, dir, read, created>>

Seek(h, position) ==
    /\ Ready /\ handles[h] # Closed
    /\ handles' = [handles EXCEPT ![h].pos = position]
    /\ UNCHANGED <<header, data, map, dir, writes, read, created>>

-----------------------------------------------------------------------------
IsOpen(n) == \E h \in Handle : handles[h].sector = Find(dir, n)

Next ==
    \/ WriteSector
    \/ \E n \in Name : Remove(n) /\ (CloseFirst => ~IsOpen(n))
    \/ \E n \in Name, size \in 0..MaxSize : Create(n, size)
    \/ \E h \in Handle :
         \/ \E n \in Name : Open(h, n)
         \/ Close(h)
         \/ \E k \in 1..MaxSize : Read(h, k)
         \/ \E k \in 1..MaxSize, b \in Byte : Write(h, [i \in 1..k |-> b])
         \/ \E position \in 0..MaxSize : Seek(h, position)

Spec == Init /\ [][Next]_vars

-----------------------------------------------------------------------------
(* Properties                                                              *)

\* The sectors of the file that entry i names, and the bytes of a file.
Footprint(i) == {dir[i].sector} \cup Range(header[dir[i].sector].dataSectors)
InUse == {i \in Entry : dir[i].inUse}
Contents(d, hdr, k) == d[hdr.dataSectors[(k \div SectorSize) + 1]][k % SectorSize]

\* Between operations the bitmap on disk marks the sectors of the system and
\* of the files in the directory, and no others: however operations succeed
\* and fail, no sector is lost and none is free that is in use.
FreeMapIsExact ==
    Ready => map = System \cup UNION {Footprint(i) : i \in InUse}

\* At every moment, in the middle of an operation too, an entry of the
\* directory on disk names a sector with a file header: Create writes the
\* header before the directory.
EntriesHaveHeaders == \A i \in InUse : header[dir[i].sector] # Garbage

\* At every moment the files in the directory on disk have no sector in common,
\* with each other or with the system's files.
NoSharing == \A i \in InUse :
    /\ Footprint(i) \cap System = {}
    /\ dir[i].sector \notin Range(header[dir[i].sector].dataSectors)
    /\ \A j \in InUse \ {i} : Footprint(i) \cap Footprint(j) = {}

\* A read returns the bytes of the file at the position, whatever the
\* boundaries of its sectors.
ReadIsExact == read' # read =>
    \A i \in 1..read'.count : read'.bytes[i] = Contents(data, read'.hdr, read'.pos + i - 1)

\* The sectors that a write puts on disk have the new bytes, all the same in
\* this model, where they belong, and elsewhere the bytes of before.
RECURSIVE After(_, _)
After(d, ws) == IF ws = <<>> THEN d
                ELSE After([d EXCEPT ![Head(ws).sector] = Head(ws).block], Tail(ws))
WriteIsExact == \A h \in Handle :
    LET f == handles[h]
        region == f.pos..handles'[h].pos - 1
    IN writes' # <<>> /\ writes = <<>> /\ handles' # handles /\ region # {} =>
         \E b \in Byte : \A i \in InUse :
           LET hdr == header[dir[i].sector] IN
           \A k \in 0..hdr.numBytes - 1 :
             Contents(After(data, writes'), hdr, k) =
               IF dir[i].sector = f.sector /\ k \in region THEN b
               ELSE Contents(data, hdr, k)

\* Between operations the directory finds the names that were created and not
\* removed since: a create is refused as "already in directory" for no other
\* name.
DirectoryIsRight ==
    Ready => \A n \in Name : (FindIndex(dir, n) # {}) = (n \in created)

\* The structures on disk agree: directory, headers and bitmap, whatever
\* operations fail.
DiskIsConsistent ==
    TypeOK /\ FreeMapIsExact /\ EntriesHaveHeaders /\ NoSharing /\ DirectoryIsRight

\* Reads and writes of OpenFile are exact across sector boundaries.
TransfersAreExact == [][ReadIsExact /\ WriteIsExact]_vars
=============================================================================
