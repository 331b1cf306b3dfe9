------------------------------ MODULE FleetEvents ------------------------------
(***************************************************************************)
(* The epic-delivery part of CodeFleet's event vocabulary: the events, the *)
(* roles, which role a serialized event is queued for, and which event a   *)
(* role's successful run emits.  Translated from                           *)
(* src/src/domain/fleet/agent-role-definitions.ts and                      *)
(* src/src/domain/events/agent-event-queue-service.ts.                     *)
(***************************************************************************)
EXTENDS Naturals

EpicReady           == "backlog.epic.ready"
EpicFrontendReady   == "backlog.epic.frontend.ready"
EpicFrontendDone    == "backlog.epic.frontend.completed"
EpicPolishReady     == "backlog.epic.polish.ready"
EpicReviewReady     == "backlog.epic.review.ready"
AcceptanceRequired  == "acceptance-test.required"
NoEvent             == "none"

EpicEvent == {EpicReady, EpicFrontendReady, EpicFrontendDone, EpicPolishReady, EpicReviewReady}
EventType == EpicEvent \cup {AcceptanceRequired}

\* The two events whose consumption claims the epic, and whose run moves its status.
ImplementationEvent == {EpicReady, EpicFrontendReady}

\* The two events whose terminal files startup recovery reads back.
ReviewStageEvent == {EpicPolishReady, EpicReviewReady}

AgentRole == {"Developer", "FrontendDeveloper", "Polisher", "Reviewer", "Gatekeeper"}

\* serializedRoleByEventType: the one role an event of the delivery pipeline is queued for.
SerializedRole ==
    [t \in EventType |->
        CASE t \in {EpicReady, EpicFrontendDone} -> "Developer"
          [] t = EpicFrontendReady               -> "FrontendDeveloper"
          [] t = EpicPolishReady                 -> "Polisher"
          [] t = EpicReviewReady                 -> "Reviewer"
          [] t = AcceptanceRequired              -> "Gatekeeper"]

EmitWithoutPolishing ==
    [t \in EventType |->
        CASE t = EpicFrontendReady                              -> EpicFrontendDone
          [] t \in {EpicReady, EpicFrontendDone, EpicPolishReady} -> EpicReviewReady
          [] t \in {EpicReviewReady, AcceptanceRequired}        -> NoEvent]

\* subscribedEvents[t].emitEvent: what a successful run of the role emits.
EmitEvent ==
    [t \in EventType |->
        CASE t = EpicFrontendReady               -> EpicFrontendDone
          [] t \in {EpicReady, EpicFrontendDone} -> EpicPolishReady
          [] t = EpicPolishReady                 -> EpicReviewReady
          [] t \in {EpicReviewReady, AcceptanceRequired} -> NoEvent]

EpicStatus  == {"todo", "in-progress", "in-review", "changes-requested", "done", "failed"}

FreshStatus == {"todo", "failed"}

\* READY_EPIC_STATUSES, and the statuses that hold the implementation gate.
ReadyStatus  == {"todo", "changes-requested", "failed"}
ActiveStatus == {"in-progress", "in-review"}

\* EPIC_TRANSITIONS, without the reopen option no part of the fleet uses.
EpicTransition ==
    [from \in EpicStatus |->
        CASE from = "todo"              -> {"in-progress"}
          [] from = "in-progress"       -> {"in-review", "failed"}
          [] from = "in-review"         -> {"done", "changes-requested", "failed"}
          [] from = "changes-requested" -> {"in-progress", "failed"}
          [] from = "done"              -> {}
          [] from = "failed"            -> {"todo", "in-progress", "changes-requested"}]

ValidTransition(from, to) == from = to \/ to \in EpicTransition[from]
================================================================================
