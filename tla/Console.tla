------------------------------ MODULE Console ------------------------------
(***************************************************************************)
(* The console: the keyboard and display devices (machine/console.cc),     *)
(* their interrupts, and the wrappers through which threads read and write *)
(* one character at a time (userprog/synchconsole.cc).                     *)
(*                                                                         *)
(* A lock is the atomic lock of AtomicMonitor, a semaphore the one of      *)
(* CountingSemaphore; a step ends where P or Acquire has returned and      *)
(* where V or Release has.  place says where a thread stands in GetChar    *)
(* or PutChar.                                                             *)
(***************************************************************************)
EXTENDS Integers, Sequences, FiniteSets

CONSTANTS
    Thread,
    Typed,    \* what is typed, or what the input file holds
    IsFile,   \* input from a file, which can be read at its end
    Printed,  \* the characters that programs print
    MaxPrint, \* bound on their number
    EOF,      \* the char -1: no character, and also the byte 0xFF
    NULL

ASSUME ConsoleAssumption ==
    /\ MaxPrint \in Nat /\ IsFile \in BOOLEAN
    /\ EOF \notin Printed /\ NULL \notin Thread

VARIABLES
    keyboard,  \* what the host has not delivered yet
    incoming,  \* ConsoleInput::incoming
    readInt,   \* is a ConsoleReadInt pending?
    putBusy,   \* ConsoleOutput::putBusy
    writeInt,  \* is a ConsoleWriteInt pending?
    display,   \* what was written to the display, with its writer
    inLock, inWait,    \* SynchConsoleInput::lock and waitFor
    outLock, outWait,  \* SynchConsoleOutput::lock and waitFor
    place,     \* where each thread stands
    char,      \* the argument of PutChar
    taken      \* the results of GetChar, in order

input == <<keyboard, incoming, readInt, inLock, inWait, taken>>
output == <<putBusy, writeInt, display, outLock, outWait, char>>
vars == <<input, output, place>>

Places == {"outside", "GetLock", "GetWait", "Get",
           "PutLock", "Put", "PutWait", "PutEnd"}

\* The types of the variables; the semaphores of the two wrappers never have
\* more than one unit.
TypeOK ==
    /\ keyboard \in Seq(Printed \cup {EOF})
    /\ incoming \in Printed \cup {EOF}
    /\ readInt \in BOOLEAN /\ putBusy \in BOOLEAN /\ writeInt \in BOOLEAN
    /\ display \in Seq(Thread \X Printed)
    /\ inLock \in Thread \cup {NULL} /\ outLock \in Thread \cup {NULL}
    /\ inWait \in 0..1 /\ outWait \in 0..1
    /\ place \in [Thread -> Places]
    /\ char \in [Thread -> Printed \cup {NULL}]
    /\ taken \in Seq(Printed \cup {EOF})

\* The constructors: the keyboard is polled from the start.
Init ==
    /\ keyboard = Typed /\ incoming = EOF /\ readInt = TRUE
    /\ putBusy = FALSE /\ writeInt = FALSE /\ display = <<>>
    /\ inLock = NULL /\ outLock = NULL /\ inWait = 0 /\ outWait = 0
    /\ place = [t \in Thread |-> "outside"]
    /\ char = [t \in Thread |-> NULL]
    /\ taken = <<>>

Goto(t, from, to) == place[t] = from /\ place' = [place EXCEPT ![t] = to]

-----------------------------------------------------------------------------
(* Input                                                                   *)

\* ConsoleInput::CallBack when a character, or the end of the file, can be
\* read.  (When nothing can, it only schedules the next poll.)
ReadInterrupt ==
    /\ readInt
    /\ \/ /\ keyboard # <<>>
          /\ incoming' = Head(keyboard)
          /\ keyboard' = Tail(keyboard)
       \/ /\ keyboard = <<>> /\ IsFile
          /\ UNCHANGED <<incoming, keyboard>>
    /\ readInt' = FALSE
    /\ inWait' = inWait + 1
    /\ UNCHANGED <<inLock, taken, output, place>>

CallGetChar(t) == Goto(t, "outside", "GetLock") /\ UNCHANGED <<input, output>>

AcquireIn(t) ==
    /\ Goto(t, "GetLock", "GetWait")
    /\ inLock = NULL
    /\ inLock' = t
    /\ UNCHANGED <<keyboard, incoming, readInt, inWait, taken, output>>

\* waitFor->P returns.
GetP(t) ==
    /\ Goto(t, "GetWait", "Get")
    /\ inWait > 0
    /\ inWait' = inWait - 1
    /\ UNCHANGED <<keyboard, incoming, readInt, inLock, taken, output>>

\* Mutant of GetChar: the next poll is not scheduled.
GetCharNoPoll(t) ==
    /\ Goto(t, "Get", "outside")
    /\ taken' = Append(taken, incoming)
    /\ incoming' = EOF
    /\ inLock' = NULL
    /\ UNCHANGED <<keyboard, readInt, inWait, output>>

\* consoleInput->GetChar and Release.
GetChar(t) ==
    /\ Goto(t, "Get", "outside")
    /\ taken' = Append(taken, incoming)
    /\ readInt' = (readInt \/ incoming # EOF)
    /\ incoming' = EOF
    /\ inLock' = NULL
    /\ UNCHANGED <<keyboard, inWait, output>>

-----------------------------------------------------------------------------
(* Output                                                                  *)

CallPutChar(t, ch) ==
    /\ Cardinality({u \in Thread : place[u] \in {"PutLock", "Put"}})
          + Len(display) < MaxPrint
    /\ Goto(t, "outside", "PutLock")
    /\ char' = [char EXCEPT ![t] = ch]
    /\ UNCHANGED <<input, putBusy, writeInt, display, outLock, outWait>>

\* Mutant of AcquireOut: the lock is not waited for.
AcquireOutUntested(t) ==
    /\ Goto(t, "PutLock", "Put")
    /\ outLock' = t
    /\ UNCHANGED <<input, putBusy, writeInt, display, outWait, char>>

AcquireOut(t) ==
    /\ Goto(t, "PutLock", "Put")
    /\ outLock = NULL
    /\ outLock' = t
    /\ UNCHANGED <<input, putBusy, writeInt, display, outWait, char>>

\* consoleOutput->PutChar; no tick comes before the P that follows.
PutChar(t) ==
    /\ Goto(t, "Put", "PutWait")
    /\ display' = Append(display, <<t, char[t]>>)
    /\ putBusy' = TRUE
    /\ writeInt' = TRUE
    /\ char' = [char EXCEPT ![t] = NULL]
    /\ UNCHANGED <<input, outLock, outWait>>

\* ConsoleOutput::CallBack.
WriteInterrupt ==
    /\ writeInt
    /\ writeInt' = FALSE
    /\ putBusy' = FALSE
    /\ outWait' = outWait + 1
    /\ UNCHANGED <<input, display, outLock, char, place>>

\* waitFor->P returns.
PutP(t) ==
    /\ Goto(t, "PutWait", "PutEnd")
    /\ outWait > 0
    /\ outWait' = outWait - 1
    /\ UNCHANGED <<input, putBusy, writeInt, display, outLock, char>>

ReleaseOut(t) ==
    /\ Goto(t, "PutEnd", "outside")
    /\ outLock' = NULL
    /\ UNCHANGED <<input, putBusy, writeInt, display, outWait, char>>

-----------------------------------------------------------------------------
Step(t) == GetP(t) \/ GetChar(t) \/ PutChar(t) \/ PutP(t) \/ ReleaseOut(t)

Next ==
    \/ ReadInterrupt \/ WriteInterrupt
    \/ \E t \in Thread :
         \/ CallGetChar(t) \/ \E ch \in Printed : CallPutChar(t, ch)
         \/ AcquireIn(t) \/ AcquireOut(t) \/ Step(t)

\* Interrupts come (InterruptComes of module Interrupts); a thread goes on;
\* a free lock is taken by some thread that waits for it.
Fairness ==
    /\ WF_vars(ReadInterrupt) /\ WF_vars(WriteInterrupt)
    /\ WF_vars(\E t \in Thread : AcquireIn(t))
    /\ WF_vars(\E t \in Thread : AcquireOut(t))
    /\ \A t \in Thread : WF_vars(Step(t))

Spec == Init /\ [][Next]_vars /\ Fairness

-----------------------------------------------------------------------------
(* Properties                                                              *)

\* ASSERT(putBusy == FALSE) in PutChar and ASSERT(incoming == EOF) in
\* CallBack hold: the wrappers never give the display a character while it
\* is busy, and no character arrives on top of one that was not taken.
DevicesAreFree ==
    /\ \A t \in Thread : place[t] = "Put" => ~putBusy
    /\ readInt => incoming = EOF

\* No character is lost, doubled or overtaken on its way from the keyboard
\* to GetChar, whichever threads call it.
InputInOrder ==
    SelectSeq(taken, LAMBDA c : c # EOF)
        \o (IF incoming = EOF THEN <<>> ELSE <<incoming>>) \o keyboard
      = Typed

\* While something is left to be read, the keyboard goes on delivering to a
\* thread that waits for it.
InputFlows ==
    (keyboard # <<>> /\ \E t \in Thread : place[t] = "GetWait") ~> incoming # EOF

\* A PutChar that has the lock, as one thread at a time has, returns.
PutReturns ==
    (\E t \in Thread : place[t] = "PutWait") ~> (\A t \in Thread : place[t] # "PutWait")

\* The console keeps its characters and its ASSERTs.
ConsoleIsSafe == TypeOK /\ InputInOrder /\ DevicesAreFree

\* The console goes on in both directions.
ConsoleFlows == InputFlows /\ PutReturns
=============================================================================
