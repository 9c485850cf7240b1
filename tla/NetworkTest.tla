---------------------------- MODULE NetworkTest -----------------------------
(***************************************************************************)
(* Kernel::NetworkTest (threads/kernel.cc) on two machines, over the post  *)
(* office: each sends a message to the other's mailbox 0, waits for the    *)
(* other's, acknowledges it to the mailbox named as the return address     *)
(* (1) and waits for the acknowledgement of its own.                       *)
(***************************************************************************)
EXTENDS PostOffice

VARIABLE step   \* how many of the test's calls each machine has made

testVars == <<vars, step>>

Main == CHOOSE t \in Thread : TRUE
Far(m) == CHOOSE f \in Machine : f # m

TestInit == Init /\ step = [m \in Machine |-> 0]

\* Mutant of MakeCall: the acknowledgement goes to mailbox 0.
MakeCallAckToZero(m) ==
    /\ step' = [step EXCEPT ![m] = @ + 1]
    /\ CASE step[m] = 0 -> CallSend(m, Main, Far(m), 0)
         [] step[m] = 1 -> CallReceive(m, Main, 0)
         [] step[m] = 2 -> CallSend(m, Main, Head(got[m][0]).from, 0)
         [] step[m] = 3 -> CallReceive(m, Main, 1)
         [] OTHER -> FALSE

\* The calls of NetworkTest, in order.
MakeCall(m) ==
    /\ step' = [step EXCEPT ![m] = @ + 1]
    /\ CASE step[m] = 0 -> CallSend(m, Main, Far(m), 0)
         [] step[m] = 1 -> CallReceive(m, Main, 0)
         [] step[m] = 2 -> CallSend(m, Main, Head(got[m][0]).from, 1)
         [] step[m] = 3 -> CallReceive(m, Main, 1)
         [] OTHER -> FALSE

InCall(m) ==
    /\ UNCHANGED step
    /\ \/ Deliver(m) \/ SendInterrupt(m)
       \/ AcquireSend(m, Main) \/ SendStep(m, Main) \/ Get(m, Main)

Done(m) == step[m] = 4 /\ place[m][Main] = "idle"

TestNext == \E m \in Machine : MakeCall(m) \/ InCall(m)

TestSpec ==
    /\ TestInit /\ [][TestNext]_testVars
    /\ \A m \in Machine : WF_testVars(MakeCall(m)) /\ WF_testVars(InCall(m))

\* Each machine gets the other's message first and then the acknowledgement
\* of its own message, which the other sends only once it has that message.
AckAnswersMessage ==
    \A m \in Machine :
        /\ got[m][1] # <<>> => got[Far(m)][0] # <<>>
        /\ \A b \in Box : \A i \in DOMAIN got[m][b] : got[m][b][i].from = Far(m)

\* On a network that drops nothing both machines come to the end, when both
\* are up before either sends (SendToSocket gives up after ten tries).
TestEnds == <>(\A m \in Machine : Done(m))
=============================================================================
