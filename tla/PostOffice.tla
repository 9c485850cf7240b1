----------------------------- MODULE PostOffice -----------------------------
(***************************************************************************)
(* The post office (network/post.cc) on the simulated network              *)
(* (machine/network.cc) that connects several running kernels through UNIX *)
(* datagram sockets (lib/sysdep.cc).  A mailbox is a FIFO queue (module    *)
(* SynchList shows that); locks and semaphores are atomic (modules Monitor *)
(* and Threads).                                                           *)
(*                                                                         *)
(* Packets are dropped at random, machines halt and start again.           *)
(***************************************************************************)
EXTENDS Naturals, Sequences, FiniteSets

CONSTANTS
    Machine,
    Thread,       \* threads per machine that send and receive
    Box,          \* mailboxes of a machine
    Lossy,        \* may NetworkOutput drop a packet (reliability below 1)?
    SocketSize,   \* datagrams that a socket holds before sendto blocks
    MaxSent,      \* bound: number of packets sent
    MaxHalts,     \* bound: number of times a machine halts
    NULL

Packet == [from : Machine, to : Machine, box : Box, id : 0..MaxSent]

VARIABLES
    up,          \* is the machine running?
    socket,      \* packets in the socket of each machine
    inHdr,       \* NetworkInput: the packet buffered, or NULL
    available,   \* value of messageAvailable
    worker,      \* where PostalDelivery is: "P", "receive" or "put"
    mail,        \* the packet it carries, or NULL
    boxes,       \* the mailboxes
    sendLock,    \* thread that holds sendLock, or NULL
    sendInt,     \* is NetworkSendInt pending?
    messageSent, \* value of messageSent
    place,       \* what each thread is doing
    arg,         \* the packet it sends, or the box it waits at
    sent,        \* history: number of packets sent
    got,         \* history: the packets received at each mailbox
    halts        \* history: how often machines have halted

inVars == <<inHdr, available, worker, mail, boxes>>
outVars == <<sendLock, sendInt, messageSent>>
vars == <<up, socket, inVars, outVars, place, arg, sent, got, halts>>

Places == {"idle", "acquire", "send", "sendto", "P", "release", "receive"}

\* The types of the variables; the semaphores that handlers post never have
\* more than one unit.
TypeOK ==
    /\ socket \in [Machine -> Seq(Packet)]
    /\ inHdr \in [Machine -> Packet \cup {NULL}]
    /\ available \in [Machine -> 0..1]
    /\ messageSent \in [Machine -> 0..1]
    /\ sendLock \in [Machine -> Thread \cup {NULL}]
    /\ place \in [Machine -> [Thread -> Places]]

\* The state of a machine that has just started, PostOfficeInput and
\* PostOfficeOutput constructed.
Init ==
    /\ up = [m \in Machine |-> TRUE]
    /\ socket = [m \in Machine |-> <<>>]
    /\ inHdr = [m \in Machine |-> NULL]
    /\ available = [m \in Machine |-> 0]
    /\ worker = [m \in Machine |-> "P"]
    /\ mail = [m \in Machine |-> NULL]
    /\ boxes = [m \in Machine |-> [b \in Box |-> <<>>]]
    /\ sendLock = [m \in Machine |-> NULL]
    /\ sendInt = [m \in Machine |-> FALSE]
    /\ messageSent = [m \in Machine |-> 0]
    /\ place = [m \in Machine |-> [t \in Thread |-> "idle"]]
    /\ arg = [m \in Machine |-> [t \in Thread |-> NULL]]
    /\ sent = 0
    /\ got = [m \in Machine |-> [b \in Box |-> <<>>]]
    /\ halts = 0

Goto(m, t, p) == place' = [place EXCEPT ![m][t] = p]

\* While a thread is in SendToSocket the whole kernel is: its clock, its
\* interrupts and its other threads stand still.
InSendTo(m) == \E t \in Thread : place[m][t] = "sendto"
Running(m) == up[m] /\ ~InSendTo(m)

-----------------------------------------------------------------------------
(* Receiving                                                               *)

\* NetworkInput::CallBack and PostOfficeInput::CallBack.  A poll that finds a
\* packet still buffered, or none to read, does nothing.
Poll(m) ==
    /\ Running(m) /\ inHdr[m] = NULL /\ socket[m] # <<>>
    /\ inHdr' = [inHdr EXCEPT ![m] = Head(socket[m])]
    /\ socket' = [socket EXCEPT ![m] = Tail(@)]
    /\ available' = [available EXCEPT ![m] = @ + 1]
    /\ UNCHANGED <<up, worker, mail, boxes, outVars, place, arg, sent, got, halts>>

\* PostalDelivery: P, NetworkInput::Receive, MailBox::Put.
WorkerP(m) ==
    /\ Running(m) /\ worker[m] = "P" /\ available[m] > 0
    /\ available' = [available EXCEPT ![m] = @ - 1]
    /\ worker' = [worker EXCEPT ![m] = "receive"]
    /\ UNCHANGED <<up, socket, inHdr, mail, boxes, outVars, place, arg, sent,
                   got, halts>>

WorkerReceive(m) ==
    /\ Running(m) /\ worker[m] = "receive"
    /\ worker' = [worker EXCEPT ![m] = "put"]
    /\ mail' = [mail EXCEPT ![m] = inHdr[m]]
    /\ inHdr' = [inHdr EXCEPT ![m] = NULL]
    /\ UNCHANGED <<up, socket, available, boxes, outVars, place, arg, sent,
                   got, halts>>

\* Mutant of WorkerPut: the message goes to the front of the mailbox.
WorkerPutFirst(m) ==
    /\ Running(m) /\ worker[m] = "put"
    /\ boxes' = [boxes EXCEPT ![m][mail[m].box] = <<mail[m]>> \o @]
    /\ worker' = [worker EXCEPT ![m] = "P"]
    /\ mail' = [mail EXCEPT ![m] = NULL]
    /\ UNCHANGED <<up, socket, inHdr, available, outVars, place, arg, sent,
                   got, halts>>

\* Mutant of WorkerPut: a mailbox holds one message, another is dropped.
WorkerPutIfEmpty(m) ==
    /\ Running(m) /\ worker[m] = "put"
    /\ boxes' = [boxes EXCEPT ![m][mail[m].box] = IF @ = <<>> THEN <<mail[m]>> ELSE @]
    /\ worker' = [worker EXCEPT ![m] = "P"]
    /\ mail' = [mail EXCEPT ![m] = NULL]
    /\ UNCHANGED <<up, socket, inHdr, available, outVars, place, arg, sent,
                   got, halts>>

WorkerPut(m) ==
    /\ Running(m) /\ worker[m] = "put"
    /\ boxes' = [boxes EXCEPT ![m][mail[m].box] = Append(@, mail[m])]
    /\ worker' = [worker EXCEPT ![m] = "P"]
    /\ mail' = [mail EXCEPT ![m] = NULL]
    /\ UNCHANGED <<up, socket, inHdr, available, outVars, place, arg, sent,
                   got, halts>>

\* PostOfficeInput::Receive and MailBox::Get.
CallReceive(m, t, b) ==
    /\ Running(m) /\ place[m][t] = "idle"
    /\ Goto(m, t, "receive")
    /\ arg' = [arg EXCEPT ![m][t] = [box |-> b]]
    /\ UNCHANGED <<up, socket, inVars, outVars, sent, got, halts>>

Get(m, t) ==
    LET b == arg[m][t].box IN
    /\ Running(m) /\ place[m][t] = "receive" /\ boxes[m][b] # <<>>
    /\ boxes' = [boxes EXCEPT ![m][b] = Tail(@)]
    /\ got' = [got EXCEPT ![m][b] = Append(@, Head(boxes[m][b]))]
    /\ arg' = [arg EXCEPT ![m][t] = NULL]
    /\ Goto(m, t, "idle")
    /\ UNCHANGED <<up, socket, inHdr, available, worker, mail, outVars, sent,
                   halts>>

-----------------------------------------------------------------------------
(* Sending                                                                 *)

Unsent == Cardinality({mt \in Machine \X Thread :
                          place[mt[1]][mt[2]] \in {"acquire", "send", "sendto"}})

\* PostOfficeOutput::Send is called.
CallSend(m, t, to, b) ==
    /\ Running(m) /\ place[m][t] = "idle" /\ sent + Unsent < MaxSent
    /\ Goto(m, t, "acquire")
    /\ arg' = [arg EXCEPT ![m][t] = [from |-> m, to |-> to, box |-> b,
                                     id |-> 0]]
    /\ UNCHANGED <<up, socket, inVars, outVars, sent, got, halts>>

\* Mutant of AcquireSend: the lock is not taken.
AcquireSendUntested(m, t) ==
    /\ Running(m) /\ place[m][t] = "acquire"
    /\ sendLock' = [sendLock EXCEPT ![m] = t]
    /\ Goto(m, t, "send")
    /\ UNCHANGED <<up, socket, inVars, sendInt, messageSent, arg, sent, got,
                   halts>>

AcquireSend(m, t) ==
    /\ Running(m) /\ place[m][t] = "acquire" /\ sendLock[m] = NULL
    /\ sendLock' = [sendLock EXCEPT ![m] = t]
    /\ Goto(m, t, "send")
    /\ UNCHANGED <<up, socket, inVars, sendInt, messageSent, arg, sent, got,
                   halts>>

\* A packet that does not reach the destination's socket.
Dropped(m, t) == sent' = sent + 1 /\ Goto(m, t, "P") /\ UNCHANGED socket

\* NetworkOutput::Send.  sendBusy is never set, so its assertion cannot
\* fail.  The interrupt is scheduled before the packet is dropped or sent.
NetworkSend(m, t) ==
    /\ Running(m) /\ place[m][t] = "send"
    /\ sendInt' = [sendInt EXCEPT ![m] = TRUE]
    /\ \/ Lossy /\ Dropped(m, t)
       \/ Goto(m, t, "sendto") /\ UNCHANGED <<socket, sent>>
    /\ UNCHANGED <<up, inVars, sendLock, messageSent, arg, got, halts>>

\* SendToSocket.  sendto waits while the socket of the destination is full.
\* Where there is no socket it fails, and after ten tries the packet is
\* dropped silently.  Packets are numbered as they leave.
SendTo(m, t) ==
    LET p == [arg[m][t] EXCEPT !.id = sent + 1] IN
    /\ up[m] /\ place[m][t] = "sendto"
    /\ \/ /\ up[p.to] /\ Len(socket[p.to]) < SocketSize
          /\ socket' = [socket EXCEPT ![p.to] = Append(@, p)]
          /\ sent' = sent + 1
          /\ Goto(m, t, "P")
       \/ ~up[p.to] /\ Dropped(m, t)
    /\ UNCHANGED <<up, inVars, outVars, arg, got, halts>>

\* NetworkOutput::CallBack and PostOfficeOutput::CallBack.
SendInterrupt(m) ==
    /\ Running(m) /\ sendInt[m]
    /\ sendInt' = [sendInt EXCEPT ![m] = FALSE]
    /\ messageSent' = [messageSent EXCEPT ![m] = @ + 1]
    /\ UNCHANGED <<up, socket, inVars, sendLock, place, arg, sent, got, halts>>

SendP(m, t) ==
    /\ Running(m) /\ place[m][t] = "P" /\ messageSent[m] > 0
    /\ messageSent' = [messageSent EXCEPT ![m] = @ - 1]
    /\ Goto(m, t, "release")
    /\ UNCHANGED <<up, socket, inVars, sendLock, sendInt, arg, sent, got,
                   halts>>

ReleaseSend(m, t) ==
    /\ Running(m) /\ place[m][t] = "release"
    /\ sendLock' = [sendLock EXCEPT ![m] = NULL]
    /\ arg' = [arg EXCEPT ![m][t] = NULL]
    /\ Goto(m, t, "idle")
    /\ UNCHANGED <<up, socket, inVars, sendInt, messageSent, sent, got, halts>>

-----------------------------------------------------------------------------
(* Faults                                                                  *)

\* The kernel halts: ~NetworkInput removes its socket, and with it the
\* packets in it.
Halt(m) ==
    /\ up[m] /\ halts < MaxHalts
    /\ halts' = halts + 1
    /\ up' = [up EXCEPT ![m] = FALSE]
    /\ socket' = [socket EXCEPT ![m] = <<>>]
    /\ inHdr' = [inHdr EXCEPT ![m] = NULL]
    /\ available' = [available EXCEPT ![m] = 0]
    /\ worker' = [worker EXCEPT ![m] = "P"]
    /\ mail' = [mail EXCEPT ![m] = NULL]
    /\ boxes' = [boxes EXCEPT ![m] = [b \in Box |-> <<>>]]
    /\ sendLock' = [sendLock EXCEPT ![m] = NULL]
    /\ sendInt' = [sendInt EXCEPT ![m] = FALSE]
    /\ messageSent' = [messageSent EXCEPT ![m] = 0]
    /\ place' = [place EXCEPT ![m] = [t \in Thread |-> "idle"]]
    /\ arg' = [arg EXCEPT ![m] = [t \in Thread |-> NULL]]
    /\ UNCHANGED <<sent, got>>

\* It is started again, with a new socket of the same name.
Restart(m) ==
    /\ ~up[m]
    /\ up' = [up EXCEPT ![m] = TRUE]
    /\ UNCHANGED <<socket, inVars, outVars, place, arg, sent, got, halts>>

-----------------------------------------------------------------------------
Deliver(m) == Poll(m) \/ WorkerP(m) \/ WorkerReceive(m) \/ WorkerPut(m)
SendStep(m, t) ==
    NetworkSend(m, t) \/ SendTo(m, t) \/ SendP(m, t) \/ ReleaseSend(m, t)

Next ==
    \E m \in Machine :
        \/ Deliver(m) \/ SendInterrupt(m) \/ Halt(m) \/ Restart(m)
        \/ \E t \in Thread :
              \/ \E b \in Box : CallReceive(m, t, b)
              \/ Get(m, t)
              \/ \E to \in Machine, b \in Box : CallSend(m, t, to, b)
              \/ AcquireSend(m, t) \/ SendStep(m, t)

\* The network polls and interrupts keep coming and the ready threads run.
\* Several threads may wait for the lock: one of them gets it.
Fairness ==
    \A m \in Machine :
        /\ WF_vars(Deliver(m)) /\ WF_vars(SendInterrupt(m))
        /\ WF_vars(Restart(m))
        /\ WF_vars(\E t \in Thread : AcquireSend(m, t))
        /\ \A t \in Thread : WF_vars(SendStep(m, t))

Spec == Init /\ [][Next]_vars /\ Fairness

-----------------------------------------------------------------------------
(* Properties                                                              *)

Carried(m) == IF mail[m] = NULL THEN <<>> ELSE <<mail[m]>>
Buffered(m) == IF inHdr[m] = NULL THEN <<>> ELSE <<inHdr[m]>>

\* What has been received at a mailbox, what is in it, and what is on its way
\* to any mailbox of the machine.
Pipeline(m, b) ==
    got[m][b] \o boxes[m][b] \o Carried(m) \o Buffered(m) \o socket[m]

\* No packet is delivered twice or to a wrong mailbox, and the packets that
\* reach a mailbox are received in the order they were sent in, whatever is
\* lost and whichever machine halts: the network delivers "in order but
\* unreliably".
InOrder ==
    \A m \in Machine, b \in Box :
        LET s == Pipeline(m, b)
            delivered == Len(got[m][b]) + Len(boxes[m][b]) IN
        /\ \A i \in DOMAIN s : s[i].to = m /\ (i <= delivered => s[i].box = b)
        /\ \A i, j \in DOMAIN s : i < j => s[i].id < s[j].id

\* The handshake between NetworkInput and the postal worker: a packet is
\* buffered exactly while the worker has been, or is being, told of it.  So
\* Receive never finds an empty buffer and a packet is never overwritten.
WorkerIsTold ==
    \A m \in Machine :
        available[m] + (IF worker[m] = "receive" THEN 1 ELSE 0)
            = Len(Buffered(m))

\* One packet is sent at a time by a machine: a NetworkSendInt is pending, or
\* its unit is there, only for the thread that holds sendLock, and never both.
OneSendAtATime ==
    \A m \in Machine :
        /\ sendInt[m] \/ messageSent[m] > 0 =>
              sendLock[m] # NULL /\ place[m][sendLock[m]] \in {"sendto", "P"}
        /\ ~(sendInt[m] /\ messageSent[m] > 0)
        /\ \A t \in Thread : place[m][t] \in {"send", "sendto", "P", "release"}
                                => sendLock[m] = t

OnItsWay(m, i) ==
    LET s == Carried(m) \o Buffered(m) \o socket[m] IN
    \E j \in DOMAIN s : s[j].id = i
InMailbox(m, i) ==
    \E b \in Box : LET s == got[m][b] \o boxes[m][b] IN
                   \E j \in DOMAIN s : s[j].id = i

\* Machine m waits in sendto for room in the socket of machine to.
WaitsFor(m, to) ==
    /\ up[to] /\ Len(socket[to]) >= SocketSize
    /\ \E t \in Thread : place[m][t] = "sendto" /\ arg[m][t].to = to

\* Machines that wait in sendto for each other, or for themselves, read no
\* socket any more.
Jammed(m) ==
    \E S \in SUBSET Machine :
        m \in S /\ \A k \in S : \E to \in S : WaitsFor(k, to)

\* A packet that came through to the socket of its destination reaches the
\* mailbox, unless that machine halts or is jammed.
ReachesMailbox ==
    \A m \in Machine, i \in 1..MaxSent :
        OnItsWay(m, i) ~> InMailbox(m, i) \/ ~up[m] \/ Jammed(m)

\* A thread that sends gets through, whether the packet was dropped or not,
\* whether the destination runs or not and though its socket be full for a
\* while.  Only machines whose kernels block each other are stopped.
SendReturns ==
    \A m \in Machine :
        (\E t \in Thread : place[m][t] \in {"send", "sendto", "P"})
            ~> \/ \A t \in Thread : place[m][t] \notin {"send", "sendto", "P"}
               \/ Jammed(m)

\* The two handshakes of a machine with its network device: the worker with
\* the receiving side, the senders with the sending side.
HandshakesHold == TypeOK /\ WorkerIsTold /\ OneSendAtATime

\* Packets go on: in at the destination, and out at the sender.
PacketsMove == ReachesMailbox /\ SendReturns
=============================================================================
