---------------------------- MODULE MCFleetPipeline ----------------------------
(* Small fleets for TLC: one agent per role, in the order of the ids the code gives them. *)
EXTENDS FleetPipeline

RoleByAgent == <<"Developer", "Gatekeeper", "Polisher", "Reviewer">>
RoleByAgentWithFrontend == <<"Developer", "FrontendDeveloper", "Gatekeeper", "Polisher", "Reviewer">>

\* No epic waits for another, or the second waits for the first.
Independent == [e \in Epics |-> {}]
Chained == [e \in Epics |-> {d \in Epics : d < e}]

DeveloperEvents == {EpicReady, EpicFrontendReady}
HandTriggered == {EpicReady, EpicPolishReady, EpicReviewReady}
NoEvents == {}
================================================================================
