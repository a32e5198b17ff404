----------------------------- MODULE RunEngine -----------------------------
(***************************************************************************)
(* The execution core of the api process: the run rows in the database,    *)
(* the in-process worker that claims and executes them under               *)
(* MAX_CONCURRENT_RUNS, the executor of a run seen as its status writes,   *)
(* the abort registry, the cancel and HITL request handlers, recovery on   *)
(* boot and crashes.                                                       *)
(*                                                                         *)
(* Every action is the code between two awaits: one database statement, or *)
(* the synchronous code that follows one.  What a handler read earlier is  *)
(* part of its local state, so other actors may act in between.            *)
(*                                                                         *)
(* A definition marked "Seeded fault" is not part of the specification: it *)
(* is a plausible bug in the code of the definition below it, used to see  *)
(* that the properties notice.                                             *)
(***************************************************************************)
EXTENDS Naturals, FiniteSets, RunStatus

CONSTANTS
  Runs,          \* ids of the runs users may start
  TwoStage,      \* the runs whose task pauses for a human choice
  Cancellable,   \* the runs their owner may ask to stop
  Resumers,      \* ids of the HITL requests users may send, one use each
  MaxConcurrent, \* env MAX_CONCURRENT_RUNS
  RecoveryCap,   \* RECOVERY_CAP of the recovery use case
  MaxCrashes,    \* bound: crashes of the api process
  MaxFaults,     \* bound: database statements that throw
  None           \* the absence of a run or of a controller

ASSUME EngineAssumption ==
  /\ IsFiniteSet(Runs)
  /\ IsFiniteSet(Resumers)
  /\ Runs \cap Resumers = {}
  /\ TwoStage \subseteq Runs
  /\ Cancellable \subseteq Runs
  /\ MaxConcurrent \in Nat \ {0}
  /\ RecoveryCap \in Nat
  /\ MaxCrashes \in Nat
  /\ MaxFaults \in Nat
  /\ None \notin Runs \cup Resumers

VARIABLES
  row,      \* the Run table
  boot,     \* where onModuleInit stands, "up" once the process serves
  pump,     \* the chain of drains and the claim in progress
  inFlight, \* InProcessRunWorker.inFlight
  exec,     \* the executions of this process
  registry, \* RunAbortRegistry.controllers
  aborted,  \* the controllers whose abort() was called
  cancel,   \* the POST .../cancel handler of each run
  hitl,     \* the POST .../hitl handlers
  resumed,  \* history: how often recovery put a run back to work
  spent     \* crashes and faults so far

vars == <<row, boot, pump, inFlight, exec, registry, aborted,
          cancel, hitl, resumed, spent>>

handlers == <<cancel, hitl>>
memory   == <<inFlight, exec, registry, aborted>>

\* An execution is named after what started it: the pump claims a run at most
\* once per process, and a HITL request starts at most one execution.
Execs == Runs \cup Resumers

-----------------------------------------------------------------------------
(* Types *)

Row ==
  [status : RunStatuses \cup {"absent"},
   createdAt       : Nat,
   cancelRequested : BOOLEAN,
   selected        : BOOLEAN,  \* selectedIdeaIds is not empty
   draft           : BOOLEAN,  \* the ideas / outline of phase one are stored
   attempts        : Nat,      \* recoveryAttempts
   finished        : BOOLEAN,  \* pipelineFinishedAt is not null
   cancelledAt     : BOOLEAN]  \* cancelledAt is not null

NoRow ==
  [status |-> "absent", createdAt |-> 0, cancelRequested |-> FALSE,
   selected |-> FALSE, draft |-> FALSE, attempts |-> 0,
   finished |-> FALSE, cancelledAt |-> FALSE]

\* run, sel: the RunRecord in the worker's hands; ctl: its abort controller;
\* to: the status it is about to save; catcher: who catches a throw.
Exec ==
  [pc      : {"none", "load", "prepare", "work", "save", "anchor",
              "rescue", "final"},
   run     : Runs \cup {None},
   sel     : BOOLEAN,
   ctl     : Execs \cup {None},
   to      : {"awaiting_hitl", "completed", "failed"},
   catcher : {"executor", "worker", "nobody"}]

NoExec ==
  [pc |-> "none", run |-> None, sel |-> FALSE, ctl |-> None,
   to |-> "failed", catcher |-> "nobody"]

Pump ==
  [pending : BOOLEAN,
   pc      : {"idle", "interrupted", "casInterrupted", "queued", "casQueued",
              "claimed"},
   run     : Runs \cup {None},
   sel     : BOOLEAN]

TypeOK ==
  /\ row \in [Runs -> Row]
  /\ boot \in [pc : {"cancels", "leftovers", "interrupt", "anchor", "up"},
               run : Runs \cup {None}]
  /\ pump \in Pump
  /\ inFlight \in Nat
  /\ exec \in [Execs -> Exec]
  /\ registry \in [Runs -> Execs \cup {None}]
  /\ aborted \subseteq Execs
  /\ cancel \in [Runs -> {"idle", "flag", "cas", "abort"}]
  /\ hitl \in [Resumers -> [pc  : {"idle", "select", "save", "notify", "done"},
                            run : Runs \cup {None}]]
  /\ resumed \in [Runs -> Nat]
  /\ spent \in [crashes : 0..MaxCrashes, faults : 0..MaxFaults]

-----------------------------------------------------------------------------
(* Helpers *)

Status(r) == row[r].status

Up == boot.pc = "up"

Created == {r \in Runs : Status(r) # "absent"}

\* Seeded fault: orderBy createdAt desc.
Newest(S) == {r \in S : \A q \in S : row[r].createdAt >= row[q].createdAt}

\* findFirst with orderBy createdAt asc.
Oldest(S) == {r \in S : \A q \in S : row[r].createdAt <= row[q].createdAt}

Live(e) == exec[e].pc # "none"

\* Executing anything but the finally blocks.
Working(e) == exec[e].pc \notin {"none", "final"}

IsAborted(e) == exec[e].ctl \in aborted

\* The task pauses for a choice and the record in hand carries none.
NeedsChoice(e) == exec[e].run \in TwoStage /\ ~exec[e].sel

Fault ==
  /\ spent.faults < MaxFaults
  /\ spent' = [spent EXCEPT !.faults = @ + 1]

-----------------------------------------------------------------------------
(* Boot: onModuleInit runs recovery to its end before the process listens.  *)

IdlePump == [pending |-> FALSE, pc |-> "idle", run |-> None, sel |-> FALSE]

Init ==
  /\ row = [r \in Runs |-> NoRow]
  /\ boot = [pc |-> "cancels", run |-> None]
  /\ pump = IdlePump
  /\ inFlight = 0
  /\ exec = [e \in Execs |-> NoExec]
  /\ registry = [r \in Runs |-> None]
  /\ aborted = {}
  /\ cancel = [r \in Runs |-> "idle"]
  /\ hitl = [h \in Resumers |-> [pc |-> "idle", run |-> None]]
  /\ resumed = [r \in Runs |-> 0]
  /\ spent = [crashes |-> 0, faults |-> 0]

\* findCancelRequestedLeftovers
CancelLeftovers ==
  {r \in Runs : row[r].cancelRequested /\ Status(r) \in {"running", "interrupted"}}

\* findInterruptedRunning
RunningLeftovers ==
  {r \in Runs : Status(r) = "running" /\ ~row[r].cancelRequested}

\* attemptCancel: the row after the conditional update has won.
CancelledRow(r) ==
  [row[r] EXCEPT !.status = "cancelled", !.cancelledAt = TRUE,
                 !.cancelRequested = FALSE]

BootCancel(r) ==
  /\ boot.pc = "cancels"
  /\ r \in CancelLeftovers
  /\ row' = [row EXCEPT ![r] = CancelledRow(r)]
  /\ UNCHANGED <<boot, pump, memory, handlers, resumed, spent>>

BootCancelsDone ==
  /\ boot.pc = "cancels"
  /\ CancelLeftovers = {}
  /\ boot' = [boot EXCEPT !.pc = "leftovers"]
  /\ UNCHANGED <<row, pump, memory, handlers, resumed, spent>>

\* Seeded fault: the cap is compared with <=.
BootRetryPastCap(r) ==
  /\ boot.pc = "leftovers"
  /\ r \in RunningLeftovers
  /\ row[r].attempts <= RecoveryCap
  /\ row' = [row EXCEPT ![r].attempts = @ + 1]
  /\ boot' = [pc |-> "interrupt", run |-> r]
  /\ UNCHANGED <<pump, memory, handlers, resumed, spent>>

\* saveRecoveryAttempt, then transition(run, 'interrupted'): two statements.
BootRetry(r) ==
  /\ boot.pc = "leftovers"
  /\ r \in RunningLeftovers
  /\ row[r].attempts < RecoveryCap
  /\ row' = [row EXCEPT ![r].attempts = @ + 1]
  /\ boot' = [pc |-> "interrupt", run |-> r]
  /\ UNCHANGED <<pump, memory, handlers, resumed, spent>>

BootInterrupt ==
  /\ boot.pc = "interrupt"
  /\ row' = [row EXCEPT ![boot.run].status = "interrupted"]
  /\ boot' = [pc |-> "leftovers", run |-> None]
  /\ UNCHANGED <<pump, memory, handlers, resumed, spent>>

\* The pool is used up: saveStatus('failed'), then setPipelineFinishedAt.
BootExhaust(r) ==
  /\ boot.pc = "leftovers"
  /\ r \in RunningLeftovers
  /\ row[r].attempts >= RecoveryCap
  /\ row' = [row EXCEPT ![r].status = "failed"]
  /\ boot' = [pc |-> "anchor", run |-> r]
  /\ UNCHANGED <<pump, memory, handlers, resumed, spent>>

BootAnchor ==
  /\ boot.pc = "anchor"
  /\ row' = [row EXCEPT ![boot.run].finished = TRUE]
  /\ boot' = [pc |-> "leftovers", run |-> None]
  /\ UNCHANGED <<pump, memory, handlers, resumed, spent>>

\* Seeded fault: onModuleInit forgets to enqueue the first drain.
BootDoneQuietly ==
  /\ boot.pc = "leftovers"
  /\ RunningLeftovers = {}
  /\ boot' = [boot EXCEPT !.pc = "up"]
  /\ UNCHANGED <<row, pump, memory, handlers, resumed, spent>>

\* Recovery is over: the first drain is enqueued and HTTP opens.
BootDone ==
  /\ boot.pc = "leftovers"
  /\ RunningLeftovers = {}
  /\ boot' = [boot EXCEPT !.pc = "up"]
  /\ pump' = [pump EXCEPT !.pending = TRUE]
  /\ UNCHANGED <<row, memory, handlers, resumed, spent>>

\* The process dies at any point, boot included; only the database survives.
Crash ==
  /\ spent.crashes < MaxCrashes
  /\ spent' = [spent EXCEPT !.crashes = @ + 1]
  /\ boot' = [pc |-> "cancels", run |-> None]
  /\ pump' = IdlePump
  /\ inFlight' = 0
  /\ exec' = [e \in Execs |-> NoExec]
  /\ registry' = [r \in Runs |-> None]
  /\ aborted' = {}
  /\ cancel' = [r \in Runs |-> "idle"]
  /\ hitl' = [h \in Resumers |->
                IF hitl[h].pc = "idle" THEN hitl[h]
                                       ELSE [pc |-> "done", run |-> None]]
  /\ UNCHANGED <<row, resumed>>

-----------------------------------------------------------------------------
(* POST /runs: the row is created and a drain is enqueued.                  *)

StartRun(r) ==
  /\ Up
  /\ Status(r) = "absent"
  /\ row' = [row EXCEPT ![r] = [NoRow EXCEPT !.status = "queued",
                                  !.createdAt = Cardinality(Created)]]
  /\ pump' = [pump EXCEPT !.pending = TRUE]
  /\ UNCHANGED <<boot, memory, handlers, resumed, spent>>

-----------------------------------------------------------------------------
(* The pump: drains run one at a time, chained on pumpTail.  "pending" says *)
(* whether a drain waits behind the current one; two waiting drains do no   *)
(* more than one.                                                          *)

\* Seeded fault: the capacity is compared with <=.
LoopHeadOffByOne(n) == IF n <= MaxConcurrent THEN "interrupted" ELSE "idle"

\* The head of the drain loop, reached with n executions in flight.
LoopHead(n) == IF n < MaxConcurrent THEN "interrupted" ELSE "idle"

PumpWake ==
  /\ Up
  /\ pump.pc = "idle"
  /\ pump.pending
  /\ pump' = [IdlePump EXCEPT !.pc = LoopHead(inFlight)]
  /\ UNCHANGED <<row, boot, memory, handlers, resumed, spent>>

\* claimNextInterrupted, findFirst
PumpFindInterrupted ==
  LET found == Oldest({r \in Runs : Status(r) = "interrupted"
                                    /\ ~row[r].cancelRequested})
  IN  /\ pump.pc = "interrupted"
      /\ \/ /\ found = {}
            /\ pump' = [pump EXCEPT !.pc = "queued"]
         \/ \E r \in found :
              pump' = [pump EXCEPT !.pc = "casInterrupted", !.run = r,
                                   !.sel = row[r].selected]
      /\ UNCHANGED <<row, boot, memory, handlers, resumed, spent>>

\* claimNextInterrupted, updateMany: on a lost race it looks again.
PumpCasInterrupted ==
  /\ pump.pc = "casInterrupted"
  /\ \/ /\ Status(pump.run) = "interrupted"
        /\ ~row[pump.run].cancelRequested
        /\ row' = [row EXCEPT ![pump.run].status = "running"]
        /\ resumed' = [resumed EXCEPT ![pump.run] = @ + 1]
        /\ pump' = [pump EXCEPT !.pc = "claimed"]
     \/ /\ Status(pump.run) # "interrupted" \/ row[pump.run].cancelRequested
        /\ pump' = [pump EXCEPT !.pc = "interrupted", !.run = None, !.sel = FALSE]
        /\ UNCHANGED <<row, resumed>>
  /\ UNCHANGED <<boot, memory, handlers, spent>>

\* claimNextQueued, findFirst: nothing to claim ends the drain.
PumpFindQueued ==
  LET found == Oldest({r \in Runs : Status(r) = "queued"})
  IN  /\ pump.pc = "queued"
      /\ \/ /\ found = {}
            /\ pump' = [pump EXCEPT !.pc = "idle"]
         \/ \E r \in found :
              pump' = [pump EXCEPT !.pc = "casQueued", !.run = r,
                                   !.sel = row[r].selected]
      /\ UNCHANGED <<row, boot, memory, handlers, resumed, spent>>

\* Seeded fault: the update forgets its "where status = queued".
PumpClaimBlindly ==
  /\ pump.pc = "casQueued"
  /\ row' = [row EXCEPT ![pump.run].status = "running"]
  /\ pump' = [pump EXCEPT !.pc = "claimed"]
  /\ UNCHANGED <<boot, memory, handlers, resumed, spent>>

\* claimNextQueued, updateMany: on a lost race it looks again.
PumpCasQueued ==
  /\ pump.pc = "casQueued"
  /\ \/ /\ Status(pump.run) = "queued"
        /\ row' = [row EXCEPT ![pump.run].status = "running"]
        /\ pump' = [pump EXCEPT !.pc = "claimed"]
     \/ /\ Status(pump.run) # "queued"
        /\ pump' = [pump EXCEPT !.pc = "queued", !.run = None, !.sel = FALSE]
        /\ UNCHANGED row
  /\ UNCHANGED <<boot, memory, handlers, resumed, spent>>

\* A claim statement throws; drain().catch swallows it and the drain is over.
PumpThrow ==
  /\ pump.pc \in {"interrupted", "casInterrupted", "queued", "casQueued"}
  /\ Fault
  /\ pump' = [IdlePump EXCEPT !.pending = pump.pending]
  /\ UNCHANGED <<row, boot, memory, handlers, resumed>>

\* inFlight += 1 and RunAbortRegistry.begin: an execution joins the controller
\* its run has in the registry, or brings a new one.
Begin(e, r, sel) ==
  LET joins == registry[r] # None
      ctl   == IF joins THEN registry[r] ELSE e
  IN  /\ inFlight' = inFlight + 1
      /\ exec' = [exec EXCEPT ![e] =
                   [pc |-> "load", run |-> r, sel |-> sel, ctl |-> ctl,
                    to |-> "failed", catcher |-> "worker"]]
      /\ registry' = [registry EXCEPT ![r] = ctl]
      /\ aborted' = IF joins THEN aborted ELSE aborted \ {e}

\* The claim is back in the drain: execution starts and the loop goes on.
PumpBegin ==
  /\ pump.pc = "claimed"
  /\ Begin(pump.run, pump.run, pump.sel)
  /\ pump' = [IdlePump EXCEPT !.pending = pump.pending,
                              !.pc = LoopHead(inFlight + 1)]
  /\ UNCHANGED <<row, boot, handlers, resumed, spent>>

-----------------------------------------------------------------------------
(* The executor of a run (Social and Content alike), as its status writes.  *)

Goto(e, pc) == exec' = [exec EXCEPT ![e].pc = pc]

Leave(e, to, catcher) ==
  exec' = [exec EXCEPT ![e] =
             [@ EXCEPT !.pc = "save", !.to = to, !.catcher = catcher]]

\* Reads the stored draft and pipeline state; a stored draft without a choice
\* goes straight back to awaiting_hitl.
ExecLoad(e) ==
  /\ exec[e].pc = "load"
  /\ \/ /\ NeedsChoice(e) /\ row[exec[e].run].draft
        /\ Leave(e, "awaiting_hitl", "worker")
     \/ /\ ~(NeedsChoice(e) /\ row[exec[e].run].draft)
        /\ Goto(e, "prepare")
  /\ UNCHANGED <<row, boot, pump, inFlight, registry, aborted, handlers,
                 resumed, spent>>

\* savePipelineState, then the one check of the signal in the executor.
ExecPrepare(e) ==
  /\ exec[e].pc = "prepare"
  /\ \/ /\ IsAborted(e)
        /\ Goto(e, "final")
     \/ /\ ~IsAborted(e)
        /\ exec' = [exec EXCEPT ![e] =
                      [@ EXCEPT !.pc = "work", !.catcher = "executor"]]
  /\ UNCHANGED <<row, boot, pump, inFlight, registry, aborted, handlers,
                 resumed, spent>>

\* The graph persists the ideas or the outline of phase one.
ExecPersistDraft(e) ==
  /\ exec[e].pc = "work"
  /\ NeedsChoice(e)
  /\ ~row[exec[e].run].draft
  /\ row' = [row EXCEPT ![exec[e].run].draft = TRUE]
  /\ UNCHANGED <<boot, pump, memory, handlers, resumed, spent>>

\* invokePhase returned a result.  The signal is not looked at again.
ExecOutcome(e) ==
  /\ exec[e].pc = "work"
  /\ \/ /\ NeedsChoice(e) /\ row[exec[e].run].draft
        /\ Leave(e, "awaiting_hitl", "executor")
     \/ /\ ~NeedsChoice(e)
        /\ Leave(e, "completed", "executor")
  /\ UNCHANGED <<row, boot, pump, inFlight, registry, aborted, handlers,
                 resumed, spent>>

\* invokePhase returned 'failed' (still inside the try), or threw while the
\* signal was quiet (the catch block).
ExecFail(e) ==
  /\ exec[e].pc = "work"
  /\ \/ Leave(e, "failed", "executor")
     \/ ~IsAborted(e) /\ Leave(e, "failed", "worker")
  /\ UNCHANGED <<row, boot, pump, inFlight, registry, aborted, handlers,
                 resumed, spent>>

\* invokePhase threw and the signal is aborted: return without a status.
ExecAbort(e) ==
  /\ exec[e].pc = "work"
  /\ IsAborted(e)
  /\ Goto(e, "final")
  /\ UNCHANGED <<row, boot, pump, inFlight, registry, aborted, handlers,
                 resumed, spent>>

\* Seeded fault: every transition sets pipelineFinishedAt.
ExecSaveAlwaysAnchors(e) ==
  /\ exec[e].pc = "save"
  /\ row' = [row EXCEPT ![exec[e].run].status = exec[e].to]
  /\ Goto(e, "anchor")
  /\ UNCHANGED <<boot, pump, inFlight, registry, aborted, handlers, resumed,
                 spent>>

\* lifecycle.transition: assertTransition looks at the record in hand, always
\* 'running', and saveStatus is unconditional.
ExecSave(e) ==
  /\ exec[e].pc = "save"
  /\ row' = [row EXCEPT ![exec[e].run].status = exec[e].to]
  /\ Goto(e, IF exec[e].to \in Reviewable THEN "anchor" ELSE "final")
  /\ UNCHANGED <<boot, pump, inFlight, registry, aborted, handlers, resumed,
                 spent>>

\* setPipelineFinishedAt, only where it is still null.
ExecAnchor(e) ==
  /\ exec[e].pc = "anchor"
  /\ row' = [row EXCEPT ![exec[e].run].finished = TRUE]
  /\ Goto(e, "final")
  /\ UNCHANGED <<boot, pump, inFlight, registry, aborted, handlers, resumed,
                 spent>>

\* A statement of the execution throws: the executor's catch marks the run
\* failed unless aborted, the worker's catch goes to look at the row, and a
\* throw out of the worker's catch is only logged.
ExecThrow(e) ==
  /\ exec[e].pc \in {"load", "prepare", "save", "anchor", "rescue"}
  /\ Fault
  /\ \/ /\ exec[e].catcher = "executor"
        /\ IF IsAborted(e) THEN Goto(e, "final") ELSE Leave(e, "failed", "worker")
     \/ /\ exec[e].catcher = "worker"
        /\ exec' = [exec EXCEPT ![e] =
                      [@ EXCEPT !.pc = "rescue", !.catcher = "nobody"]]
     \/ /\ exec[e].catcher = "nobody"
        /\ Goto(e, "final")
  /\ UNCHANGED <<row, boot, pump, inFlight, registry, aborted, handlers, resumed>>

\* Seeded fault: the worker's catch logs and leaves the row alone.
ExecRescueOnlyLogs(e) ==
  /\ exec[e].pc = "rescue"
  /\ Goto(e, "final")
  /\ UNCHANGED <<row, boot, pump, inFlight, registry, aborted, handlers,
                 resumed, spent>>

\* The worker's catch: getById, and failed only if the run still is running.
ExecRescue(e) ==
  /\ exec[e].pc = "rescue"
  /\ \/ /\ Status(exec[e].run) = "running"
        /\ Leave(e, "failed", "nobody")
     \/ /\ Status(exec[e].run) # "running"
        /\ Goto(e, "final")
  /\ UNCHANGED <<row, boot, pump, inFlight, registry, aborted, handlers,
                 resumed, spent>>

\* Seeded fault: a run that pauses for a choice keeps its slot.
ExecEndKeepsSlot(e) ==
  /\ exec[e].pc = "final"
  /\ exec' = [exec EXCEPT ![e] = NoExec]
  /\ registry' = [registry EXCEPT ![exec[e].run] = None]
  /\ inFlight' = IF exec[e].to = "awaiting_hitl" THEN inFlight ELSE inFlight - 1
  /\ pump' = [pump EXCEPT !.pending = TRUE]
  /\ UNCHANGED <<row, boot, aborted, handlers, resumed, spent>>

\* Seeded fault: the end of an execution enqueues no drain.
ExecEndQuietly(e) ==
  /\ exec[e].pc = "final"
  /\ exec' = [exec EXCEPT ![e] = NoExec]
  /\ registry' = [registry EXCEPT ![exec[e].run] = None]
  /\ inFlight' = inFlight - 1
  /\ UNCHANGED <<row, boot, pump, aborted, handlers, resumed, spent>>

\* The finally blocks: end() removes whatever controller the run has, the slot
\* is returned and a drain is enqueued.
ExecEnd(e) ==
  /\ exec[e].pc = "final"
  /\ exec' = [exec EXCEPT ![e] = NoExec]
  /\ registry' = [registry EXCEPT ![exec[e].run] = None]
  /\ inFlight' = inFlight - 1
  /\ pump' = [pump EXCEPT !.pending = TRUE]
  /\ UNCHANGED <<row, boot, aborted, handlers, resumed, spent>>

-----------------------------------------------------------------------------
(* POST /runs/:runId/cancel                                                 *)

CancelGoto(r, pc) == cancel' = [cancel EXCEPT ![r] = pc]

\* getById: terminal runs are answered without a change of state.
CancelRead(r) ==
  /\ Up
  /\ cancel[r] = "idle"
  /\ Status(r) \in Cancelable
  /\ CancelGoto(r, "flag")
  /\ UNCHANGED <<row, boot, pump, memory, hitl, resumed, spent>>

\* setCancelRequested
CancelFlag(r) ==
  /\ cancel[r] = "flag"
  /\ \/ /\ Status(r) \in Cancelable
        /\ row' = [row EXCEPT ![r].cancelRequested = TRUE]
     \/ /\ Status(r) \notin Cancelable
        /\ UNCHANGED row
  /\ CancelGoto(r, "cas")
  /\ UNCHANGED <<boot, pump, memory, hitl, resumed, spent>>

\* attemptCancel: false answers 409, or the snapshot when already cancelled.
CancelAttempt(r) ==
  /\ cancel[r] = "cas"
  /\ \/ /\ Status(r) \in Cancelable
        /\ row' = [row EXCEPT ![r] = CancelledRow(r)]
        /\ CancelGoto(r, "abort")
     \/ /\ Status(r) \notin Cancelable
        /\ CancelGoto(r, "idle")
        /\ UNCHANGED row
  /\ UNCHANGED <<boot, pump, memory, hitl, resumed, spent>>

\* abortRegistry.requestCancel: a no-op without a registered controller.
CancelAbort(r) ==
  /\ cancel[r] = "abort"
  /\ aborted' = aborted \cup ({registry[r]} \ {None})
  /\ CancelGoto(r, "idle")
  /\ UNCHANGED <<row, boot, pump, inFlight, exec, registry, hitl, resumed, spent>>

\* A statement of the handler throws: 500, nothing is undone.
CancelThrow(r) ==
  /\ cancel[r] \in {"flag", "cas"}
  /\ Fault
  /\ CancelGoto(r, "idle")
  /\ UNCHANGED <<row, boot, pump, memory, hitl, resumed>>

-----------------------------------------------------------------------------
(* POST /runs/:runId/hitl, with a legal choice                              *)

HitlGoto(h, pc) == hitl' = [hitl EXCEPT ![h].pc = pc]

\* Seeded fault: any run that is not over may be resumed.
ResumeReadAnyLive(h, r) ==
  /\ Up
  /\ hitl[h].pc = "idle"
  /\ Status(r) \in LiveStatuses
  /\ hitl' = [hitl EXCEPT ![h] = [pc |-> "select", run |-> r]]
  /\ UNCHANGED <<row, boot, pump, memory, cancel, resumed, spent>>

\* getById, and 409 unless the run awaits a choice.
ResumeRead(h, r) ==
  /\ Up
  /\ hitl[h].pc = "idle"
  /\ Status(r) = "awaiting_hitl"
  /\ hitl' = [hitl EXCEPT ![h] = [pc |-> "select", run |-> r]]
  /\ UNCHANGED <<row, boot, pump, memory, cancel, resumed, spent>>

\* saveSelectedIdeaIds, unconditional.
ResumeSelect(h) ==
  /\ hitl[h].pc = "select"
  /\ row' = [row EXCEPT ![hitl[h].run].selected = TRUE]
  /\ HitlGoto(h, "save")
  /\ UNCHANGED <<boot, pump, memory, cancel, resumed, spent>>

\* Seeded fault: a resumed run goes back to the queue.
ResumeSaveRequeues(h) ==
  /\ hitl[h].pc = "save"
  /\ row' = [row EXCEPT ![hitl[h].run].status = "queued"]
  /\ HitlGoto(h, "notify")
  /\ UNCHANGED <<boot, pump, memory, cancel, resumed, spent>>

\* transition(run, 'running') on the record read first: unconditional too.
ResumeSave(h) ==
  /\ hitl[h].pc = "save"
  /\ row' = [row EXCEPT ![hitl[h].run].status = "running"]
  /\ HitlGoto(h, "notify")
  /\ UNCHANGED <<boot, pump, memory, cancel, resumed, spent>>

\* notifyHitlResumed: execution starts whatever inFlight is.
ResumeNotify(h) ==
  /\ hitl[h].pc = "notify"
  /\ Begin(h, hitl[h].run, TRUE)
  /\ hitl' = [hitl EXCEPT ![h] = [pc |-> "done", run |-> None]]
  /\ UNCHANGED <<row, boot, pump, cancel, resumed, spent>>

ResumeThrow(h) ==
  /\ hitl[h].pc \in {"select", "save"}
  /\ Fault
  /\ hitl' = [hitl EXCEPT ![h] = [pc |-> "done", run |-> None]]
  /\ UNCHANGED <<row, boot, pump, memory, cancel, resumed>>

-----------------------------------------------------------------------------
(* Specification *)

Recovery ==
  \/ \E r \in Runs : BootCancel(r) \/ BootRetry(r) \/ BootExhaust(r)
  \/ BootCancelsDone \/ BootInterrupt \/ BootAnchor \/ BootDone

PumpStep ==
  \/ PumpWake \/ PumpFindInterrupted \/ PumpCasInterrupted
  \/ PumpFindQueued \/ PumpCasQueued \/ PumpBegin

ExecStep(e) ==
  \/ ExecLoad(e) \/ ExecPrepare(e) \/ ExecPersistDraft(e) \/ ExecOutcome(e)
  \/ ExecFail(e) \/ ExecAbort(e) \/ ExecSave(e) \/ ExecAnchor(e)
  \/ ExecRescue(e) \/ ExecEnd(e)

CancelStep(r) == CancelFlag(r) \/ CancelAttempt(r) \/ CancelAbort(r)

ResumeStep(h) == ResumeSelect(h) \/ ResumeSave(h) \/ ResumeNotify(h)

Throw ==
  \/ PumpThrow
  \/ \E e \in Execs : ExecThrow(e)
  \/ \E r \in Runs : CancelThrow(r)
  \/ \E h \in Resumers : ResumeThrow(h)

Next ==
  \/ Recovery
  \/ PumpStep
  \/ \E e \in Execs : ExecStep(e)
  \/ \E r \in Runs : StartRun(r) \/ CancelStep(r)
  \/ \E r \in Cancellable : CancelRead(r)
  \/ \E h \in Resumers : ResumeStep(h) \/ \E r \in Runs : ResumeRead(h, r)
  \/ Throw
  \/ Crash

Spec == Init /\ [][Next]_vars

\* The event loop runs what is ready and statements return; a graph
\* invocation ends.  Users need not act, and nothing need crash or fail.
Fairness ==
  /\ WF_vars(Recovery)
  /\ WF_vars(PumpStep)
  /\ \A e \in Execs : WF_vars(ExecStep(e))
  /\ \A r \in Runs : WF_vars(CancelStep(r))
  /\ \A h \in Resumers : WF_vars(ResumeStep(h))

FairSpec == Spec /\ Fairness
=============================================================================
