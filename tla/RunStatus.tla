----------------------------- MODULE RunStatus -----------------------------
(***************************************************************************)
(* The status vocabulary of a run and the edges the domain allows          *)
(* (runs/domain/status-transitions.ts).  "absent" stands for a run whose   *)
(* row has not been created yet.                                           *)
(***************************************************************************)

LiveStatuses == {"queued", "running", "awaiting_hitl", "interrupted"}

TerminalStatuses == {"completed", "failed", "cancelled"}

RunStatuses == LiveStatuses \cup TerminalStatuses

\* ALLOWED_RUN_STATES: the targets assertTransition accepts from a status.
Allowed(from) ==
  CASE from = "queued"        -> {"running", "cancelled"}
    [] from = "running"       -> {"awaiting_hitl", "completed", "failed",
                                  "interrupted", "cancelled"}
    [] from = "interrupted"   -> {"running", "failed", "cancelled"}
    [] from = "awaiting_hitl" -> {"running", "cancelled"}
    [] OTHER                  -> {}

CanTransition(from, to) == to \in Allowed(from)

\* CANCELABLE_RUN_STATUSES: the statuses attemptCancel may leave.
Cancelable == {"queued", "running", "awaiting_hitl", "interrupted"}

\* The statuses that open the review and carry pipelineFinishedAt.
Reviewable == {"completed", "failed"}
=============================================================================
