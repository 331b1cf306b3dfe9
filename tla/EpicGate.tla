-------------------------------- MODULE EpicGate --------------------------------
(***************************************************************************)
(* What the delivery pipeline promises about an epic's status, with no     *)
(* queues, agents or processes: implementation is serialized around the    *)
(* review gate, and outside the operator's startup reset a status moves    *)
(* only along the transition table.                                        *)
(***************************************************************************)
EXTENDS FleetEvents

CONSTANTS Epics,      \* the epics of the backlog
          DependsOn   \* DependsOn[e]: the epics that must be done before e is visible

VARIABLE status

GateTypeOK == status \in [Epics -> EpicStatus]

GateVisible(e) == \A d \in DependsOn[e] : status[d] = "done"

GateFree == \A e \in Epics : status[e] \notin ActiveStatus

GateInit == status = [e \in Epics |-> "todo"]

\* An epic enters the gate only when no other epic is implemented or reviewed.
Enter(e) == /\ GateFree
            /\ status[e] \in ReadyStatus
            /\ GateVisible(e)
            /\ status' = [status EXCEPT ![e] = "in-progress"]

Submit(e) == /\ status[e] = "in-progress"
             /\ status' = [status EXCEPT ![e] = "in-review"]

GiveUp(e) == /\ status[e] = "in-progress"
             /\ status' = [status EXCEPT ![e] = "failed"]

Decide(e) == /\ status[e] = "in-review"
             /\ \E verdict \in {"done", "changes-requested"} :
                    status' = [status EXCEPT ![e] = verdict]

\* A review that arrives after its epic has failed may still send it back.
SendBack(e) == /\ status[e] = "failed"
               /\ status' = [status EXCEPT ![e] = "changes-requested"]

\* The operator confirms, before a start, that interrupted work is put back.
PutBack == status' = [e \in Epics |-> IF status[e] = "in-progress" THEN "todo" ELSE status[e]]

GateNext == \/ \E e \in Epics : Enter(e) \/ Submit(e) \/ GiveUp(e) \/ Decide(e) \/ SendBack(e)
            \/ PutBack

GateSpec == GateInit /\ [][GateNext]_status

\* At most one epic is being implemented or reviewed at any time.
GateExclusive == \A e, f \in Epics :
                    status[e] \in ActiveStatus /\ status[f] \in ActiveStatus => e = f
=================================================================================
