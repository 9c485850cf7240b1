----------------------------- MODULE AtomicDisk -----------------------------
(***************************************************************************)
(* What SynchDisk promises: every ReadSector and WriteSector takes effect  *)
(* at one instant between its call and its return.                         *)
(***************************************************************************)
EXTENDS Naturals

CONSTANTS Thread, Sector, Data

VARIABLES
    sectors, \* what the disk holds
    op,      \* the request each thread has made
    stage    \* "idle", "called" or "performed"

vars == <<sectors, op, stage>>

Request == [sector : Sector, writing : BOOLEAN, data : Data]

Init ==
    /\ sectors \in [Sector -> Data]
    /\ op \in [Thread -> Request]
    /\ stage = [t \in Thread |-> "idle"]

Call(t, r) ==
    /\ stage[t] = "idle"
    /\ stage' = [stage EXCEPT ![t] = "called"]
    /\ op' = [op EXCEPT ![t] = r]
    /\ UNCHANGED sectors

\* A write stores the data, a read fetches what the sector holds.
Perform(t) ==
    LET r == op[t] IN
    /\ stage[t] = "called"
    /\ stage' = [stage EXCEPT ![t] = "performed"]
    /\ IF r.writing
       THEN sectors' = [sectors EXCEPT ![r.sector] = r.data] /\ UNCHANGED op
       ELSE op' = [op EXCEPT ![t].data = sectors[r.sector]]
            /\ UNCHANGED sectors

Return(t) ==
    /\ stage[t] = "performed"
    /\ stage' = [stage EXCEPT ![t] = "idle"]
    /\ UNCHANGED <<sectors, op>>

Next == \E t \in Thread : (\E r \in Request : Call(t, r)) \/ Perform(t) \/ Return(t)

Spec == Init /\ [][Next]_vars
=============================================================================
