------------------------------ MODULE MCDevices ------------------------------
(* The devices with the code that waits for them.  They do not interact:    *)
(* each behaviour is about one of them.                                     *)
(*   "console", "disk"  threads on SynchConsole and on SynchDisk;           *)
(*   "any"   two machines, two threads on each that send and receive in any *)
(*           order over links that lose packets;                            *)
(*   "one"   the same with one thread on each and a machine that halts, for *)
(*           what must happen in the end;                                   *)
(*   "test"  Kernel::NetworkTest on both, over links that lose nothing.     *)
EXTENDS Console

VARIABLES
    part,
    now, sectors, active, lastSector, bufferInit, due,         \* SynchDisk
    semaphore, lock, diskPlace, op, finished, fromBuffer,
    up, socket, inHdr, available, worker, mail, boxes,         \* PostOffice
    sendLock, sendInt, messageSent, netPlace, arg, sent, got, halts,
    step                                                       \* NetworkTest

DiskThread == {"t1", "t2"}

Letters == <<"a", "b", "a">>

Disk == INSTANCE SynchDisk
          WITH Thread <- DiskThread, Data <- {"d1", "d2"}, SectorsPerTrack <- 1,
               NumTracks <- 2, RotationTime <- 1, SeekTime <- 1, MaxTime <- 3,
               place <- diskPlace

Contents == [Disk!Sector -> {"d1"}] \X {[t \in DiskThread |-> r] : r \in Disk!Request}

Machine == {"m1", "m2"}

\* A socket that is full with one packet, so that sendto has to wait.
SocketSize == 1

Any == INSTANCE PostOffice
         WITH Thread <- {"t1", "t2"}, Box <- {1}, Lossy <- TRUE, MaxSent <- 2,
              MaxHalts <- 0, place <- netPlace
One == INSTANCE PostOffice
         WITH Thread <- {"t1"}, Box <- {1}, Lossy <- TRUE, MaxSent <- 2,
              MaxHalts <- 1, place <- netPlace
Test == INSTANCE NetworkTest
          WITH Thread <- {"t1"}, Box <- {0, 1}, Lossy <- FALSE, MaxSent <- 4,
               MaxHalts <- 0, place <- netPlace

diskVars == <<now, sectors, active, lastSector, bufferInit, due, semaphore, lock,
              diskPlace, op, finished, fromBuffer>>
netVars == <<up, socket, inHdr, available, worker, mail, boxes, sendLock,
             sendInt, messageSent, netPlace, arg, sent, got, halts>>
testVars == <<netVars, step>>
mcVars == <<part, vars, diskVars, testVars>>

\* The disk's first contents and arguments matter only when it is used.
MCInit ==
    /\ part \in {"console", "disk", "any", "one", "test"}
    /\ Init /\ Disk!Init
    /\ part # "disk" => <<sectors, op>> = CHOOSE s \in Contents : TRUE
    /\ CASE part = "any" -> Any!Init
         [] part = "test" -> Test!Init
         [] OTHER -> One!Init
    /\ step = [m \in Machine |-> 0]

MCNext ==
    /\ UNCHANGED part
    /\ \/ part = "console" /\ Next /\ UNCHANGED <<diskVars, testVars>>
       \/ part = "disk" /\ Disk!Next /\ UNCHANGED <<vars, testVars>>
       \/ part = "any" /\ Any!Next /\ UNCHANGED <<vars, diskVars, step>>
       \/ part = "one" /\ One!Next /\ UNCHANGED <<vars, diskVars, step>>
       \/ part = "test" /\ Test!TestNext /\ UNCHANGED <<vars, diskVars>>

\* The fairness of each component, when the behaviour is about it.
MCSpec ==
    /\ MCInit /\ [][MCNext]_mcVars
    /\ WF_vars(part = "console" /\ ReadInterrupt)
    /\ WF_vars(part = "console" /\ WriteInterrupt)
    /\ WF_vars(part = "console" /\ \E t \in Thread : AcquireIn(t))
    /\ WF_vars(part = "console" /\ \E t \in Thread : AcquireOut(t))
    /\ \A t \in Thread : WF_vars(part = "console" /\ Step(t))
    /\ \A t \in DiskThread :
          /\ WF_diskVars(part = "disk" /\ Disk!SendRequest(t))
          /\ WF_diskVars(part = "disk" /\ Disk!P(t))
          /\ WF_diskVars(part = "disk" /\ Disk!Release(t))
    /\ WF_diskVars(part = "disk" /\ \E t \in DiskThread : Disk!Acquire(t))
    /\ WF_diskVars(part = "disk" /\ Disk!DiskInterrupt)
    /\ WF_diskVars(part = "disk" /\ Disk!Elapse)
    /\ \A m \in Machine :
          /\ WF_netVars(part = "one" /\ One!Deliver(m))
          /\ WF_netVars(part = "one" /\ One!SendInterrupt(m))
          /\ WF_netVars(part = "one" /\ One!Restart(m))
          /\ WF_netVars(part = "one" /\ One!AcquireSend(m, "t1"))
          /\ WF_netVars(part = "one" /\ One!SendStep(m, "t1"))
          /\ WF_testVars(part = "test" /\ Test!MakeCall(m))
          /\ WF_testVars(part = "test" /\ Test!InCall(m))

\* SynchDisk: requests have the effect of atomic reads and writes, and while
\* threads wait for the disk they are answered.
DiskServes == Disk!ImplementsAtomicDisk /\ Disk!RequestReturns

\* PostOffice and NetworkTest: packets reach mailboxes in the order they were
\* sent, once, and an acknowledgement answers a message that was received.
InOrder ==
    /\ part = "any" => Any!InOrder
    /\ part = "one" => One!InOrder
    /\ part = "test" => Test!InOrder /\ Test!AckAnswersMessage

\* PostOffice: the worker is told of each packet that is buffered, and a
\* machine sends one packet at a time.
HandshakesHold ==
    /\ part = "any" => Any!HandshakesHold
    /\ part = "one" => One!HandshakesHold
    /\ part = "test" => Test!HandshakesHold

\* PostOffice: a packet in the destination's socket reaches its mailbox, and
\* Send returns, unless machines wait in sendto for each other.
PacketsMove == part = "one" => One!PacketsMove

\* NetworkTest: without losses two machines that are both up come to the end.
TestEnds == part = "test" => Test!TestEnds
==============================================================================
