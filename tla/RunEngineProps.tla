--------------------------- MODULE RunEngineProps --------------------------
(***************************************************************************)
(* What the execution core must keep true, stated over RunEngine.          *)
(***************************************************************************)
EXTENDS RunEngine

-----------------------------------------------------------------------------
(* Slots *)

LiveExecs == {e \in Execs : Live(e)}

\* The runs that hold a slot through a claim: executed, or just claimed.
ClaimedRuns == {r \in Runs : Live(r) \/ (pump.pc = "claimed" /\ pump.run = r)}

\* inFlight counts the executions exactly, whoever started them and however
\* they end: no slot is leaked and none is returned twice (in-process worker).
SlotAccounting == inFlight = Cardinality(LiveExecs)

\* R-6: claims never put more than MAX_CONCURRENT_RUNS runs to work, although
\* the capacity is read before two awaited statements and HITL resumes raise
\* inFlight without asking (drain, scheduleExistingRunning).
ClaimedWithinCap == Cardinality(ClaimedRuns) <= MaxConcurrent

-----------------------------------------------------------------------------
(* Claims *)

Claims(r) == Status(r) \in {"queued", "interrupted"} /\ Status(r)' = "running"

Claimable(r) ==
  \/ Status(r) = "queued"
  \/ Status(r) = "interrupted" /\ ~row[r].cancelRequested

Precedes(q, r) ==
  IF Status(q) = Status(r) THEN row[q].createdAt < row[r].createdAt
                           ELSE Status(q) = "interrupted"

\* R-6, R-9.3: the drain takes interrupted runs before queued ones, the oldest
\* first, and never an interrupted run its owner asked to stop.
ClaimOrder ==
  [][\A r \in Runs : Claims(r) =>
       /\ Claimable(r)
       /\ ~ \E q \in Runs : Claimable(q) /\ Precedes(q, r)]_vars

\* R-9: the recovery pool is paid before it is used: a run is put back to work
\* after crashes at most recoveryAttempts times, and never beyond the cap.
RecoveryBounded ==
  \A r \in Runs : resumed[r] <= row[r].attempts /\ row[r].attempts <= RecoveryCap

-----------------------------------------------------------------------------
(* Who works on a run *)

\* A writer that took the run in hand before and has not let go of it.
Held(r) ==
  \/ \E e \in Execs : exec[e].run = r /\ Working(e)
  \/ \E h \in Resumers : hitl[h].run = r /\ hitl[h].pc \in {"select", "save"}

\* Two executions never work on the same run at once (the worker, HITL).
OneWorkingExecution ==
  \A d, e \in Execs :
    d # e /\ Working(d) /\ Working(e) => exec[d].run # exec[e].run

\* While the process serves, a run that says "running" is in somebody's hands:
\* an execution, the claim in progress or the resume about to start it.
\* Otherwise it would sit there until the next restart.
RunningHasOwner ==
  \A r \in Runs : Up /\ Status(r) = "running" =>
    \/ \E e \in Execs : exec[e].run = r /\ Working(e)
    \/ pump.pc = "claimed" /\ pump.run = r
    \/ \E h \in Resumers : hitl[h].run = r /\ hitl[h].pc = "notify"

\* R-10.2, R-10.4: pipelineFinishedAt is set only on completed and failed runs,
\* so a cancelled run never opens a review.
AnchorMeansFinished ==
  \A r \in Runs : row[r].finished => Status(r) \in Reviewable

-----------------------------------------------------------------------------
(* Cancel *)

\* A cancelled run is moved only by a writer that held it already: claims and
\* recovery, which look at the row again, never revive it.
CancelUndoneOnlyByHolder ==
  [][\A r \in Runs :
       Status(r) = "cancelled" /\ Status(r)' # "cancelled" => Held(r)]_vars

\* SPEC-RUNY, "Statusy": a cancelled run has no way out.
CancelledIsFinal ==
  [][\A r \in Runs : Status(r) = "cancelled" => Status(r)' = "cancelled"]_vars

\* SPEC-RUNY R-10.4: a finished run has its review anchor, once the writer that
\* finished it is done.
FinishedHasAnchor ==
  \A r \in Runs :
    /\ Up
    /\ Status(r) \in Reviewable
    /\ ~ \E e \in Execs : exec[e].run = r
    => row[r].finished

\* SPEC-RUNY, implementation norm, "Idempotencja HITL": a choice is accepted only from
\* awaiting_hitl, so the update that resumes a run finds it there.
HitlOnlyWhilePaused ==
  [][\A h \in Resumers :
       hitl[h].pc = "save" /\ hitl[h].pc' = "notify"
       => Status(hitl[h].run) = "awaiting_hitl"]_vars

\* dictionary.md, cancelRequested: a stop requested before a crash is honoured
\* after it; nobody puts the run to work unless its request is being served.
LeftoverCancelHonoured ==
  [][\A r \in Runs : Claims(r) => ~row[r].cancelRequested \/ cancel[r] # "idle"]_vars

-----------------------------------------------------------------------------
(* The abstract specification, for the runs nobody asks to stop *)

Undisturbed == Runs \ Cancellable

Graph == INSTANCE RunStatusGraph WITH
  Runs   <- Undisturbed,
  status <- [r \in Undisturbed |-> Status(r)]

\* R-1: every change of status of such a run follows an allowed edge, although
\* saveStatus never looks at the row it overwrites.
FollowsGraph == Graph!Spec

-----------------------------------------------------------------------------
(* Liveness *)

\* R-6: a queued run is eventually taken up.
QueuedIsTaken == \A r \in Runs : Status(r) = "queued" ~> Status(r) # "queued"

\* A run at work comes to rest: finished, cancelled or waiting for a choice.
RunSettles ==
  \A r \in Runs : Status(r) \in {"running", "interrupted"} ~>
                  Status(r) \in TerminalStatuses \cup {"awaiting_hitl"}

\* Every slot is eventually returned.
SlotsReturned == []<>(inFlight = 0)
=============================================================================
