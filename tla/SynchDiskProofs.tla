--------------------------- MODULE SynchDiskProofs ---------------------------
(***************************************************************************)
(* Proofs about SynchDisk, for every set of threads and every geometry and *)
(* timing of the disk: a request returns after its own completion, never   *)
(* finds the disk busy, and takes effect at once.                          *)
(***************************************************************************)
EXTENDS SynchDisk, TLAPS

\* The geometry and the times of machine/disk.h, and the name for "nobody".
DiskConstants ==
    /\ SectorsPerTrack \in Nat \ {0} /\ NumTracks \in Nat \ {0}
    /\ RotationTime \in Nat \ {0} /\ SeekTime \in Nat
    /\ NULL \notin Thread

Places == {"idle", "acquire", "request", "P", "release", "assertion failed"}

\* The inductive invariant.  The lock's holder is the one thread between
\* Acquire and Release; only it can have a request in progress or a
\* completion to take, never both, and a completion is its own.
DInv ==
    /\ TypeOK
    /\ now \in Nat /\ due \in Nat
    /\ lock \in Thread \cup {NULL}
    /\ finished \in [Thread -> BOOLEAN]
    /\ \A t \in Thread : place[t] # "assertion failed"
    /\ \A t \in Thread : place[t] \in {"request", "P", "release"} <=> lock = t
    /\ active <=> due # 0
    /\ (active \/ semaphore = 1) => (lock # NULL /\ place[lock] = "P")
    /\ ~(active /\ semaphore = 1)
    /\ \A t \in Thread : place[t] = "P" => (active \/ finished[t])
    /\ \A t \in Thread : place[t] = "release" => finished[t]

\* TypeOK without its Boolean, which is the part arithmetic is needed for.
PlainTypes ==
    /\ lastSector \in Sector
    /\ sectors \in [Sector -> Data]
    /\ semaphore \in 0..1
    /\ op \in [Thread -> Request]
    /\ place \in [Thread -> Places]

\* The two are equivalent for a Boolean flag, before and after a step.
LEMMA TypesSplit ==
    /\ TypeOK <=> (PlainTypes /\ active \in BOOLEAN)
    /\ TypeOK' <=> (PlainTypes' /\ active' \in BOOLEAN)
  BY Zenon DEF TypeOK, PlainTypes, Places

\* The product of two naturals is one (to keep it out of larger leaves).
LEMMA Product ==
    \A a, b \in Nat : a * b \in Nat
  OBVIOUS

\* Disk::ModuloDiff is a number of sectors, less than a track.
LEMMA DiffIsNat ==
    ASSUME DiskConstants, NEW a \in Int, NEW b \in Int
    PROVE  ModuloDiff(a, b) \in Nat
<1>1. /\ SectorsPerTrack \in Nat /\ SectorsPerTrack > 0
      /\ Offset(a) \in Int /\ Offset(b) \in Int
  BY DEF DiskConstants, Offset
<1>2. (Offset(a) - Offset(b)) + SectorsPerTrack \in Int
  BY <1>1
<1>3. \A x \in Int : x % SectorsPerTrack \in Nat
  BY <1>1
<1> QED
  BY <1>2, <1>3 DEF ModuloDiff

\* A request takes time: the interrupt that Disk schedules is in the future.
LEMMA LatencyIsPositive ==
    ASSUME DiskConstants, now \in Nat, lastSector \in Sector,
           NEW s \in Sector, NEW w \in BOOLEAN
    PROVE  now + ComputeLatency(s, w) \in Nat \ {0}
<1> USE DEF DiskConstants
<1>1. Sector \subseteq Int /\ \A x \in Int : Track(x) \in Int
  BY DEF Sector, Track
<1>2. Abs(Track(s) - Track(lastSector)) \in Nat
  BY <1>1 DEF Abs
<1>3. Seek(s) \in Nat
  BY <1>2, Product DEF Seek
<1>4. Rotation(s) \in Nat
  <2>1. \A x \in Nat : x % RotationTime \in 0..(RotationTime - 1)
    OBVIOUS
  <2>2. (now + Seek(s)) % RotationTime \in 0..(RotationTime - 1)
    BY <1>3, <2>1
  <2> QED
    BY <2>2 DEF Rotation
<1>5. TimeAfter(s) \div RotationTime \in Int
  BY <1>3, <1>4 DEF TimeAfter
<1>6. ModuloDiff(s, TimeAfter(s) \div RotationTime) \in Nat
  BY <1>1, <1>5, DiffIsNat
<1>7. ModuloDiff(s, TimeAfter(s) \div RotationTime) * RotationTime \in Nat
  BY <1>6, Product
<1> QED
  BY <1>3, <1>4, <1>7 DEF ComputeLatency

\* The idle disk satisfies the invariant.
LEMMA InitDInv ==
    ASSUME DiskConstants, Init
    PROVE  DInv
<1>1. 0 \in Sector
  <2>1. SectorsPerTrack * NumTracks \in Nat /\ SectorsPerTrack * NumTracks >= 1
    BY DEF DiskConstants
  <2> QED
    BY <2>1 DEF Sector
<1>2. op \in [Thread -> Request]
  <2>1. PICK r \in Request : op = [t \in Thread |-> r]
    BY DEF Init
  <2> QED
    BY <2>1
<1>3. PlainTypes /\ active \in BOOLEAN
  <2>1. /\ lastSector = 0 /\ sectors \in [Sector -> Data] /\ semaphore = 0
        /\ place = [t \in Thread |-> "idle"]
    BY DEF Init
  <2>2. PlainTypes
    BY <1>1, <1>2, <2>1 DEF PlainTypes, Places
  <2> QED
    BY <2>2 DEF Init
<1>4. TypeOK
  BY <1>3, TypesSplit
<1> QED
  BY <1>4 DEF Init, DInv, DiskConstants

\* Read or write request: the holder of the lock starts the idle disk.
LEMMA SendRequestDInv ==
    ASSUME DiskConstants, DInv, NEW t \in Thread, SendRequest(t)
    PROVE  DInv' /\ ~active
<1>1. place[t] = "request" /\ lock = t /\ ~active /\ semaphore = 0
  <2>1. place[t] = "request"
    BY DEF SendRequest
  <2>2. lock = t
    BY <2>1 DEF DInv
  <2>3. ~active /\ semaphore # 1
    BY <2>1, <2>2 DEF DInv
  <2>4. PlainTypes
    BY TypesSplit DEF DInv
  <2> QED
    BY <2>1, <2>2, <2>3, <2>4 DEF PlainTypes
<1>2. op[t] \in Request
  BY DEF DInv, TypeOK
<1>3. op[t].sector \in Sector /\ op[t].writing \in BOOLEAN /\ op[t].data \in Data
  BY <1>2 DEF Request
<1>4. due' \in Nat \ {0}
  BY <1>1, <1>3, LatencyIsPositive DEF SendRequest, DInv, TypeOK
<1>5. /\ place' = [place EXCEPT ![t] = "P"] /\ active' = TRUE
      /\ lastSector' = op[t].sector
      /\ UNCHANGED <<now, finished, semaphore, lock>>
  BY <1>1 DEF SendRequest, Goto, UpdateLast
<1>6. sectors' \in [Sector -> Data]
  BY <1>1, <1>3 DEF SendRequest, DInv, TypeOK
<1>7. op' \in [Thread -> Request]
  <2>1. sectors[op[t].sector] \in Data
    BY <1>3 DEF DInv, TypeOK
  <2>2. op' = op \/ op' = [op EXCEPT ![t].data = sectors[op[t].sector]]
    BY <1>1 DEF SendRequest
  <2>3. [op[t] EXCEPT !.data = sectors[op[t].sector]] \in Request
    BY <1>2, <2>1 DEF Request
  <2> QED
    BY <2>2, <2>3 DEF DInv, TypeOK
<1>8. TypeOK'
  BY <1>1, <1>3, <1>5, <1>6, <1>7 DEF DInv, TypeOK
<1> QED
  BY <1>1, <1>4, <1>5, <1>8 DEF DInv, TypeOK, DiskConstants

\* Every step, and every stuttering step, keeps the invariant.
LEMMA NextDInv ==
    ASSUME DiskConstants, DInv, [Next]_vars
    PROVE  DInv'
<1>1. ASSUME NEW t \in Thread, NEW r \in Request, Call(t, r) PROVE DInv'
  BY <1>1 DEF Call, Goto, diskVars, DInv, TypeOK, DiskConstants
<1>2. ASSUME NEW t \in Thread, Acquire(t) PROVE DInv'
  BY <1>2 DEF Acquire, Goto, diskVars, DInv, TypeOK, DiskConstants
<1>3. ASSUME NEW t \in Thread, SendRequest(t) PROVE DInv'
  BY <1>3, SendRequestDInv
<1>4. ASSUME NEW t \in Thread, P(t) PROVE DInv'
  <2>1. /\ place[t] = "P" /\ place' = [place EXCEPT ![t] = "release"]
        /\ semaphore > 0 /\ semaphore' = semaphore - 1
    BY <1>4 DEF P, Goto
  <2>2. UNCHANGED <<now, op, finished, lock, sectors, active, lastSector, due>>
    BY <1>4 DEF P, diskVars
  <2>3. PlainTypes
    BY TypesSplit DEF DInv
  <2>4. semaphore = 1 /\ semaphore' = 0
    BY <2>1, <2>3 DEF PlainTypes
  <2>5. lock = t /\ ~active /\ finished[t]
    BY <2>1, <2>4 DEF DInv
  <2>6. PlainTypes'
    <3>1. UNCHANGED <<op, sectors, lastSector>>
      BY <2>2
    <3>2. place' \in [Thread -> Places]
      BY <2>1, <2>3 DEF PlainTypes, Places
    <3>3. semaphore' \in 0..1
      BY <2>4
    <3> QED
      BY <2>3, <3>1, <3>2, <3>3 DEF PlainTypes
  <2>7. TypeOK'
    BY <2>2, <2>6, TypesSplit DEF DInv
  <2>8. /\ \A u \in Thread : place'[u] = (IF u = t THEN "release" ELSE place[u])
        /\ 0 # 1
    BY <2>1, <2>3 DEF PlainTypes
  <2> QED
    BY <2>2, <2>4, <2>5, <2>7, <2>8 DEF DInv
<1>5. ASSUME NEW t \in Thread, Release(t) PROVE DInv'
  BY <1>5 DEF Release, Goto, diskVars, DInv, TypeOK, DiskConstants
<1>6. ASSUME DiskInterrupt PROVE DInv'
  <2>1. /\ due # 0 /\ due' = 0 /\ active' = FALSE /\ semaphore' = semaphore + 1
        /\ finished' = [t \in Thread |-> finished[t] \/ place[t] = "P"]
        /\ UNCHANGED <<now, lock, place, op, sectors, lastSector>>
    BY <1>6 DEF DiskInterrupt
  <2>2. active /\ semaphore # 1 /\ lock # NULL /\ place[lock] = "P"
    BY <2>1 DEF DInv
  <2>3. PlainTypes
    BY TypesSplit DEF DInv
  <2>4. semaphore' = 1
    BY <2>1, <2>2, <2>3 DEF PlainTypes
  <2>5. PlainTypes'
    BY <2>1, <2>3, <2>4 DEF PlainTypes
  <2>6. TypeOK'
    BY <2>1, <2>5, TypesSplit
  <2>7. /\ finished' \in [Thread -> BOOLEAN]
        /\ \A t \in Thread : place[t] = "P" => finished'[t]
        /\ \A t \in Thread : finished[t] => finished'[t]
    BY <2>1
  <2> QED
    BY <2>1, <2>2, <2>4, <2>6, <2>7 DEF DInv
<1>7. ASSUME Elapse PROVE DInv'
  <2>1. /\ now' = now + 1
        /\ UNCHANGED <<sectors, active, lastSector, due, semaphore, lock, place, op, finished>>
    BY <1>7 DEF Elapse, diskVars
  <2>2. now \in Nat
    BY DEF DInv
  <2>3. now' \in Nat
    BY <2>1, <2>2
  <2>4. TypeOK'
    BY <2>1 DEF DInv, TypeOK
  <2> QED
    BY <2>1, <2>3, <2>4 DEF DInv
<1>8. CASE UNCHANGED vars
  BY <1>8 DEF vars, DInv, TypeOK
<1> QED
  BY <1>1, <1>2, <1>3, <1>4, <1>5, <1>6, <1>7, <1>8 DEF Next, Step

\* The invariant holds in every reachable state of the disk.
THEOREM DiskInvariant ==
    ASSUME DiskConstants
    PROVE  Spec => []DInv
<1>1. Init => DInv
  BY InitDInv
<1>2. DInv /\ [Next]_vars => DInv'
  BY NextDInv
<1> QED
  BY <1>1, <1>2, PTL DEF Spec

\* SynchDisk's ReadSector and WriteSector return only after the interrupt of
\* their own request.
THEOREM NoReturnIsEarly ==
    ASSUME DiskConstants
    PROVE  Spec => []NoEarlyReturn
<1>1. DInv => NoEarlyReturn
  BY DEF DInv, NoEarlyReturn
<1> QED
  BY <1>1, DiskInvariant, PTL

\* ASSERT(!active) of ReadRequest and WriteRequest holds, and each request
\* has one completion, which goes to the thread that holds the lock.
THEOREM EveryRequestCompletesOnce ==
    ASSUME DiskConstants
    PROVE  Spec => []OneCompletionPerRequest
<1>1. DInv => OneCompletionPerRequest
  BY DEF DInv, TypeOK, OneCompletionPerRequest
<1> QED
  BY <1>1, DiskInvariant, PTL

-----------------------------------------------------------------------------
(* The refinement                                                          *)

Stage(t) ==
    CASE place[t] \in {"acquire", "request"} -> "called"
      [] place[t] \in {"P", "release"} -> "performed"
      [] OTHER -> "idle"

\* A step that moves t alone changes the abstract stage of t alone.
LEMMA OneStage ==
    ASSUME DInv, NEW t \in Thread, NEW p \in Places, NEW s,
           place' = [place EXCEPT ![t] = p],
           \/ p \in {"acquire", "request"} /\ s = "called"
           \/ p \in {"P", "release"} /\ s = "performed"
           \/ p = "idle" /\ s = "idle"
    PROVE  [u \in Thread |-> Stage(u)]' = [[u \in Thread |-> Stage(u)] EXCEPT ![t] = s]
<1>1. Stage(t)' = s
  BY DEF Stage, DInv, TypeOK
<1>2. \A u \in Thread \ {t} : place'[u] = place[u]
  BY DEF DInv, TypeOK
<1>3. \A u \in Thread \ {t} : Stage(u)' = Stage(u)
  BY <1>2 DEF Stage
<1> QED
  BY <1>1, <1>3

\* Each step is the call, the effect or the return of a request, or changes
\* nothing that the atomic disk shows.
LEMMA DiskStepRefines ==
    ASSUME DiskConstants, DInv, [Next]_vars
    PROVE  [Atomic!Next]_(Atomic!vars)
<1> DEFINE stage == [u \in Thread |-> Stage(u)]
<1>1. ASSUME NEW t \in Thread, NEW r \in Request, Call(t, r) PROVE Atomic!Call(t, r)
  <2>1. stage[t] = "idle"
    BY <1>1 DEF Call, Stage
  <2>2. stage' = [stage EXCEPT ![t] = "called"]
    BY <1>1, OneStage DEF Call, Goto, Places
  <2> QED
    BY <1>1, <2>1, <2>2 DEF Call, diskVars, Atomic!Call, Stage
<1>2. ASSUME NEW t \in Thread, SendRequest(t) PROVE Atomic!Perform(t)
  <2>1. stage[t] = "called"
    BY <1>2 DEF SendRequest, Stage
  <2>2. ~active
    BY <1>2, SendRequestDInv
  <2>3. stage' = [stage EXCEPT ![t] = "performed"]
    BY <1>2, <2>2, OneStage DEF SendRequest, Goto, Places
  <2> QED
    BY <1>2, <2>1, <2>2, <2>3 DEF SendRequest, Atomic!Perform, Stage
<1>3. ASSUME NEW t \in Thread, Release(t) PROVE Atomic!Return(t)
  <2>1. stage[t] = "performed"
    BY <1>3 DEF Release, Stage
  <2>2. stage' = [stage EXCEPT ![t] = "idle"]
    BY <1>3, OneStage DEF Release, Goto, Places
  <2> QED
    BY <1>3, <2>1, <2>2 DEF Release, diskVars, Atomic!Return, Stage
<1>4. ASSUME NEW t \in Thread, Acquire(t) \/ P(t) PROVE UNCHANGED Atomic!vars
  <2>1. \E s \in {"called", "performed"} : stage[t] = s /\ stage' = [stage EXCEPT ![t] = s]
    BY <1>4, OneStage DEF Acquire, P, Goto, Places, Stage
  <2>2. stage' = stage
    BY <2>1
  <2> QED
    BY <1>4, <2>2 DEF Acquire, P, diskVars, Atomic!vars, Stage
<1>5. ASSUME UNCHANGED <<place, op, sectors>> PROVE UNCHANGED Atomic!vars
  BY <1>5 DEF Atomic!vars
<1>6. DiskInterrupt \/ Elapse \/ UNCHANGED vars => UNCHANGED <<place, op, sectors>>
  BY DEF DiskInterrupt, Elapse, diskVars, vars
<1>7. Request = Atomic!Request
  BY DEF Request, Atomic!Request
<1> QED
  BY <1>1, <1>2, <1>3, <1>4, <1>5, <1>6, <1>7 DEF Next, Step, Atomic!Next

\* SynchDisk implements, for every disk, requests that take effect at one
\* instant between their call and their return.
THEOREM DiskIsAtomic ==
    ASSUME DiskConstants
    PROVE  Spec => ImplementsAtomicDisk
<1>1. Init => Atomic!Init
  BY DEF Init, Atomic!Init, Request, Atomic!Request
<1>2. DInv /\ [Next]_vars => [Atomic!Next]_(Atomic!vars)
  BY DiskStepRefines
<1> QED
  BY <1>1, <1>2, DiskInvariant, PTL DEF Spec, ImplementsAtomicDisk, Atomic!Spec
==============================================================================
