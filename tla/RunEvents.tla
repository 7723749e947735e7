------------------------------ MODULE RunEvents ------------------------------
(***************************************************************************)
(* The vocabulary the machine and the server share: execution statuses,    *)
(* event kinds, the status an event carries and the transitions the server *)
(* accepts.  Event payloads are reduced to their kind; "progress" stands   *)
(* for every event that changes neither status nor attention (progress,    *)
(* phase, message, heartbeat).                                             *)
(***************************************************************************)
EXTENDS Naturals

TerminalStatuses == {"SUCCEEDED", "FAILED", "CANCELLED", "LOST"}

Statuses == {"CREATED", "STARTING", "RUNNING"} \cup TerminalStatuses

StatusKinds == {"created", "starting", "started",
                "succeeded", "failed", "cancelled", "lost"}

Kinds == StatusKinds \cup {"progress", "attention"}

EventStatus ==
    [created   |-> "CREATED",   starting  |-> "STARTING",  started |-> "RUNNING",
     succeeded |-> "SUCCEEDED", failed    |-> "FAILED",
     cancelled |-> "CANCELLED", lost      |-> "LOST"]

AllowedTransitions ==
    [CREATED  |-> Statuses,
     STARTING |-> Statuses \ {"CREATED"},
     RUNNING  |-> {"RUNNING"} \cup TerminalStatuses]

\* _validate_transition: a terminal projection takes no further event, and an
\* event that carries a status must carry one reachable from the current status.
Accepts(status, kind) ==
    /\ status \notin TerminalStatuses
    /\ kind \in StatusKinds => EventStatus[kind] \in AllowedTransitions[status]

StatusAfter(status, kind) ==
    IF kind \in StatusKinds THEN EventStatus[kind] ELSE status

\* run.created carries attention NONE, run.attention_required a demand for it.
AttentionKinds == {"created", "attention"}

AttentionAfter(attention, kind) ==
    IF kind \in AttentionKinds
    THEN IF kind = "attention" THEN "ACTION_REQUIRED" ELSE "NONE"
    ELSE attention
==============================================================================
