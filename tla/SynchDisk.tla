----------------------------- MODULE SynchDisk ------------------------------
(***************************************************************************)
(* The simulated disk (machine/disk.cc) with its clock, head and track     *)
(* buffer, and SynchDisk (filesys/synchdisk.cc), which lets a thread wait  *)
(* for its request.  A lock and a semaphore are atomic here: modules       *)
(* Monitor and Threads show that they may be taken so.                     *)
(***************************************************************************)
EXTENDS Integers

CONSTANTS
    Thread, Data,
    SectorsPerTrack, NumTracks,
    RotationTime,   \* ticks for one sector to pass under the head
    SeekTime,       \* ticks to move the head by one track
    MaxTime,        \* bound: no call begins after this time
    NULL

Sector == 0..SectorsPerTrack * NumTracks - 1
Track(s) == s \div SectorsPerTrack
Offset(s) == s % SectorsPerTrack

VARIABLES
    now,        \* kernel->stats->totalTicks
    sectors,    \* the UNIX file
    active, lastSector, bufferInit, \* as in class Disk
    due,        \* time of the pending DiskInt, or 0
    semaphore,  \* value of the semaphore "synch disk"
    lock,       \* holder of the lock, or NULL
    place,      \* where each thread is in ReadSector or WriteSector
    op,         \* its arguments; data is the buffer
    finished,   \* history: has the thread's own request been completed?
    fromBuffer  \* history: is the pending request served by the track buffer?

diskVars == <<sectors, active, lastSector, bufferInit, due, fromBuffer>>
vars == <<now, sectors, active, lastSector, bufferInit, due, semaphore, lock,
          place, op, finished, fromBuffer>>

Request == [sector : Sector, writing : BOOLEAN, data : Data]

\* The types of the variables; the wrapper's semaphore never has more than one
\* unit.
TypeOK ==
    /\ active \in BOOLEAN /\ lastSector \in Sector
    /\ sectors \in [Sector -> Data]
    /\ semaphore \in 0..1
    /\ op \in [Thread -> Request]
    /\ place \in [Thread -> {"idle", "acquire", "request", "P", "release",
                             "assertion failed"}]

-----------------------------------------------------------------------------
(* The latency of a request                                                *)

Abs(n) == IF n < 0 THEN -n ELSE n

Seek(s) == Abs(Track(s) - Track(lastSector)) * SeekTime

\* The rotation that TimeToSeek returns: up to the next sector boundary.
Rotation(s) ==
    LET over == (now + Seek(s)) % RotationTime IN
    IF over > 0 THEN RotationTime - over ELSE 0

ModuloDiff(to, from) ==
    ((Offset(to) - Offset(from)) + SectorsPerTrack) % SectorsPerTrack

TimeAfter(s) == now + Seek(s) + Rotation(s)

\* Mutant of TrackBufferApplies: one sector too early.
TrackBufferAppliesEarly(s, writing) ==
    /\ ~writing /\ Seek(s) = 0
    /\ (TimeAfter(s) - bufferInit) \div RotationTime
            >= ModuloDiff(s, bufferInit \div RotationTime)

TrackBufferApplies(s, writing) ==
    /\ ~writing /\ Seek(s) = 0
    /\ (TimeAfter(s) - bufferInit) \div RotationTime
            > ModuloDiff(s, bufferInit \div RotationTime)

ComputeLatency(s, writing) ==
    IF TrackBufferApplies(s, writing) THEN RotationTime
    ELSE Seek(s) + Rotation(s)
            + ModuloDiff(s, TimeAfter(s) \div RotationTime) * RotationTime
            + RotationTime

\* UpdateLast.
UpdateLast(s) ==
    /\ bufferInit' = IF Seek(s) # 0 THEN TimeAfter(s) ELSE bufferInit
    /\ lastSector' = s

-----------------------------------------------------------------------------
Init ==
    /\ now = 0
    /\ sectors \in [Sector -> Data]
    /\ active = FALSE /\ lastSector = 0 /\ bufferInit = 0
    /\ due = 0
    /\ semaphore = 0
    /\ lock = NULL
    /\ place = [t \in Thread |-> "idle"]
    /\ op \in {[t \in Thread |-> r] : r \in Request}
    /\ finished = [t \in Thread |-> FALSE]
    /\ fromBuffer = FALSE

Goto(t, p) == place' = [place EXCEPT ![t] = p]

\* ReadSector or WriteSector is called.
Call(t, r) ==
    /\ place[t] = "idle" /\ now <= MaxTime
    /\ Goto(t, "acquire")
    /\ op' = [op EXCEPT ![t] = r]
    /\ finished' = [finished EXCEPT ![t] = FALSE]
    /\ UNCHANGED <<now, semaphore, lock, diskVars>>

Acquire(t) ==
    /\ place[t] = "acquire" /\ lock = NULL
    /\ lock' = t
    /\ Goto(t, "request")
    /\ UNCHANGED <<now, op, finished, semaphore, diskVars>>

\* Disk::ReadRequest and Disk::WriteRequest.
SendRequest(t) ==
    LET r == op[t]
        ticks == ComputeLatency(r.sector, r.writing) IN
    /\ place[t] = "request"
    /\ IF active THEN Goto(t, "assertion failed") /\ UNCHANGED <<op, diskVars>>
       ELSE /\ IF r.writing
               THEN sectors' = [sectors EXCEPT ![r.sector] = r.data]
                    /\ UNCHANGED op
               ELSE op' = [op EXCEPT ![t].data = sectors[r.sector]]
                    /\ UNCHANGED sectors
            /\ active' = TRUE
            /\ UpdateLast(r.sector)
            /\ due' = now + ticks
            /\ fromBuffer' = TrackBufferApplies(r.sector, r.writing)
            /\ Goto(t, "P")
    /\ UNCHANGED <<now, finished, semaphore, lock>>

\* Mutant of P: it does not wait.
PSkipped(t) ==
    /\ place[t] = "P"
    /\ Goto(t, "release")
    /\ UNCHANGED <<now, op, finished, semaphore, lock, diskVars>>

P(t) ==
    /\ place[t] = "P" /\ semaphore > 0
    /\ semaphore' = semaphore - 1
    /\ Goto(t, "release")
    /\ UNCHANGED <<now, op, finished, lock, diskVars>>

Release(t) ==
    /\ place[t] = "release"
    /\ lock' = NULL
    /\ Goto(t, "idle")
    /\ UNCHANGED <<now, op, finished, semaphore, diskVars>>

\* Disk::CallBack and SynchDisk::CallBack.
DiskInterrupt ==
    /\ due # 0 /\ now >= due
    /\ due' = 0 /\ active' = FALSE
    /\ semaphore' = semaphore + 1
    /\ finished' = [t \in Thread |-> finished[t] \/ place[t] = "P"]
    /\ UNCHANGED <<now, lock, place, op, sectors, lastSector, bufferInit,
                   fromBuffer>>

\* Time passes; an interrupt is not late (module Interrupts).
Elapse ==
    /\ due # 0 \/ now <= MaxTime
    /\ due = 0 \/ now < due
    /\ now' = now + 1
    /\ UNCHANGED <<diskVars, semaphore, lock, place, op, finished>>

Step(t) == Acquire(t) \/ SendRequest(t) \/ P(t) \/ Release(t)

Next ==
    \/ \E t \in Thread : (\E r \in Request : Call(t, r)) \/ Step(t)
    \/ DiskInterrupt
    \/ Elapse

Fairness ==
    /\ \A t \in Thread : WF_vars(SendRequest(t)) /\ WF_vars(P(t)) /\ WF_vars(Release(t))
    /\ WF_vars(\E t \in Thread : Acquire(t))
    /\ WF_vars(DiskInterrupt) /\ WF_vars(Elapse)

Spec == Init /\ [][Next]_vars /\ Fairness

-----------------------------------------------------------------------------
(* Properties                                                              *)

\* ReadSector and WriteSector return "only after the data has been" read or
\* written: after the interrupt of the thread's own request, not of another.
NoEarlyReturn == \A t \in Thread : place[t] = "release" => finished[t]

\* A request is in progress exactly while its interrupt is pending, and its
\* end is remembered exactly once, for the thread that holds the lock; so
\* ASSERT(!active) in ReadRequest and WriteRequest holds.
OneCompletionPerRequest ==
    /\ \A t \in Thread : place[t] # "assertion failed"
    /\ active <=> due # 0
    /\ semaphore = 1 => lock # NULL /\ place[lock] = "P" /\ ~active
    /\ active => lock # NULL /\ place[lock] = "P"

\* The disk turns one sector in RotationTime, whatever it is asked to do.  A
\* request that the track buffer does not serve ends on the sector boundary
\* at which the requested sector has just passed under the head, no earlier
\* than the seek and one transfer and no later than one turn after that.
EndsAfterSector ==
    due' # 0 /\ due = 0 /\ ~fromBuffer' =>
        /\ due' % RotationTime = 0
        /\ Offset(due' \div RotationTime - 1) = Offset(lastSector')
        /\ due' >= now + Seek(lastSector') + RotationTime
        /\ due' < now + Seek(lastSector')
                    + (SectorsPerTrack + 1) * RotationTime

\* The track buffer serves only a sector of the present track that has
\* passed under the head, from its beginning to its end, since the head came
\* to this track.
BufferHasSector ==
    due' # 0 /\ due = 0 /\ fromBuffer' =>
        LET s == lastSector' IN
        /\ Track(s) = Track(lastSector)
        /\ \E k \in 0..now :
               /\ k * RotationTime >= bufferInit
               /\ (k + 1) * RotationTime <= TimeAfter(s)
               /\ Offset(k) = Offset(s)

\* While threads wait for the disk, or for the lock, one of them after the
\* other gets its answer.
RequestReturns ==
    (\E t \in Thread : place[t] \in {"acquire", "request", "P"})
        ~> (\E t \in Thread : place[t] = "release")

\* The disk behaves as if each request took effect at once.
Atomic == INSTANCE AtomicDisk WITH
    stage <- [t \in Thread |->
                CASE place[t] \in {"acquire", "request"} -> "called"
                  [] place[t] \in {"P", "release"} -> "performed"
                  [] OTHER -> "idle"]

ImplementsAtomicDisk == Atomic!Spec

\* ComputeLatency and TrackBufferApplies tell where the head is.
LatencyIsRight == [][EndsAfterSector /\ BufferHasSector]_vars
=============================================================================
