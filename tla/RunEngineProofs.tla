--------------------------- MODULE RunEngineProofs -------------------------
(***************************************************************************)
(* Theorems about RunEngine, for every set of runs, every cap and any      *)
(* number of crashes, faults and HITL requests.                            *)
(*                                                                         *)
(* The inductive invariant is TypeOK with the parts below.  Slots needs    *)
(* them all: a claim raises inFlight by one live execution only if the     *)
(* claimed run is not executing already (PumpInv, ExecInv), a resume only  *)
(* if its request has no execution yet (HitlInv), and a slot is returned   *)
(* only by an execution that has one.                                      *)
(***************************************************************************)
EXTENDS RunEngineProps, FiniteSetTheorems, TLAPS

-----------------------------------------------------------------------------
(* The inductive invariant *)

\* Nobody can claim the run: it has been taken up already, or is over.
TakenUp(r) == Status(r) \notin {"absent", "queued", "interrupted"}

\* An execution works on a run; one that the pump started is named after it.
ExecInv ==
  \A e \in Execs : Live(e) =>
    /\ exec[e].run \in Runs
    /\ e \in Runs => exec[e].run = e /\ TakenUp(e)
    /\ e \in Resumers => hitl[e].pc = "done"

\* A claim concerns a run, and one that has won a run that is not executing.
PumpInv ==
  /\ pump.pc \in {"casInterrupted", "casQueued", "claimed"} => pump.run \in Runs
  /\ pump.pc = "claimed" => TakenUp(pump.run) /\ ~Live(pump.run)

HitlInv ==
  \A h \in Resumers :
    hitl[h].pc \in {"select", "save", "notify"} => hitl[h].run \in Runs

\* Recovery works alone.
BootInv ==
  /\ boot.pc \in {"interrupt", "anchor"} => boot.run \in Runs
  /\ ~Up => /\ \A e \in Execs : ~Live(e)
            /\ pump.pc = "idle"
            /\ \A h \in Resumers : hitl[h].pc \in {"idle", "done"}

\* The capacity the drain saw is still there when its claim wins.
CapInv ==
  pump.pc \in {"interrupted", "casInterrupted", "queued", "casQueued"}
  => Cardinality(ClaimedRuns) < MaxConcurrent

\* An interrupted run has paid for the recovery it waits for.
RecoveryInv ==
  \A r \in Runs :
    /\ Status(r) = "absent" => row[r].attempts = 0
    /\ Status(r) = "interrupted" => resumed[r] < row[r].attempts
    /\ boot.pc = "interrupt" /\ boot.run = r => resumed[r] < row[r].attempts

Control == ExecInv /\ PumpInv /\ HitlInv /\ BootInv

Slots == TypeOK /\ Control /\ SlotAccounting

Caps == CapInv /\ ClaimedWithinCap

Pool == RecoveryInv /\ RecoveryBounded

\* A step inside the executions: nobody starts, ends or changes hands.
SameExecs ==
  \A d \in Execs : exec'[d].run = exec[d].run /\ Live(d)' = Live(d)

-----------------------------------------------------------------------------
(* Type correctness *)

\* A field of a row, of an execution or of a claim may be overwritten.
LEMMA RowFields ==
  ASSUME NEW x \in Row
  PROVE  /\ \A s \in RunStatuses \cup {"absent"} : [x EXCEPT !.status = s] \in Row
         /\ [x EXCEPT !.attempts = @ + 1] \in Row
         /\ \A n \in Nat : [x EXCEPT !.createdAt = n] \in Row
         /\ [x EXCEPT !.draft = TRUE] \in Row
         /\ [x EXCEPT !.selected = TRUE] \in Row
         /\ [x EXCEPT !.finished = TRUE] \in Row
         /\ [x EXCEPT !.cancelRequested = TRUE] \in Row
         /\ \A s \in RunStatuses :
              [x EXCEPT !.status = s, !.cancelledAt = TRUE,
                        !.cancelRequested = FALSE] \in Row
<1>1. \A s \in RunStatuses \cup {"absent"} : [x EXCEPT !.status = s] \in Row
  BY DEF Row
<1>2. [x EXCEPT !.attempts = @ + 1] \in Row
  BY DEF Row
<1>3. [x EXCEPT !.draft = TRUE] \in Row
  BY DEF Row
<1>4. [x EXCEPT !.selected = TRUE] \in Row
  BY DEF Row
<1>5. [x EXCEPT !.finished = TRUE] \in Row
  BY DEF Row
<1>6. [x EXCEPT !.cancelRequested = TRUE] \in Row
  BY DEF Row
<1>7. ASSUME NEW s \in RunStatuses
      PROVE  [x EXCEPT !.status = s, !.cancelledAt = TRUE,
                       !.cancelRequested = FALSE] \in Row
  BY DEF Row
<1>8. \A n \in Nat : [x EXCEPT !.createdAt = n] \in Row
  BY DEF Row
<1> QED
  BY <1>1, <1>2, <1>3, <1>4, <1>5, <1>6, <1>7, <1>8

\* Overwriting one execution by one that lives on the same run.
LEMMA ExecUpdate ==
  ASSUME exec \in [Execs -> Exec], NEW e \in Execs, NEW x \in Exec,
         exec' = [exec EXCEPT ![e] = x]
  PROVE  /\ exec' \in [Execs -> Exec]
         /\ Live(e) /\ x.pc # "none" /\ x.run = exec[e].run => SameExecs
BY DEF SameExecs, Live

LEMMA GotoStep ==
  ASSUME exec \in [Execs -> Exec], NEW e \in Execs, Live(e),
         NEW pc \in {"prepare", "anchor", "rescue", "final"}, Goto(e, pc)
  PROVE  exec' \in [Execs -> Exec] /\ SameExecs
<1> DEFINE x == [exec[e] EXCEPT !.pc = pc]
<1>1. exec[e] \in Exec
  OBVIOUS
<1>2. x \in Exec /\ x.run = exec[e].run /\ x.pc # "none"
  BY <1>1 DEF Exec
<1>3. exec' = [exec EXCEPT ![e] = x]
  BY DEF Goto
<1> HIDE DEF x
<1> QED
  BY <1>2, <1>3, ExecUpdate

LEMMA LeaveStep ==
  ASSUME exec \in [Execs -> Exec], NEW e \in Execs, Live(e),
         NEW to \in {"awaiting_hitl", "completed", "failed"},
         NEW c \in {"executor", "worker", "nobody"}, Leave(e, to, c)
  PROVE  exec' \in [Execs -> Exec] /\ SameExecs
<1> DEFINE x == [exec[e] EXCEPT !.pc = "save", !.to = to, !.catcher = c]
<1>1. exec[e] \in Exec
  OBVIOUS
<1>2. x \in Exec /\ x.run = exec[e].run /\ x.pc # "none"
  BY <1>1 DEF Exec
<1>3. exec' = [exec EXCEPT ![e] = x]
  BY DEF Leave
<1> HIDE DEF x
<1> QED
  BY <1>2, <1>3, ExecUpdate

\* Moving on and changing the catcher.
LEMMA CatchStep ==
  ASSUME exec \in [Execs -> Exec], NEW e \in Execs, Live(e),
         NEW pc \in {"work", "rescue"}, NEW c \in {"executor", "nobody"},
         exec' = [exec EXCEPT ![e] = [@ EXCEPT !.pc = pc, !.catcher = c]]
  PROVE  exec' \in [Execs -> Exec] /\ SameExecs
<1> DEFINE x == [exec[e] EXCEPT !.pc = pc, !.catcher = c]
<1>1. exec[e] \in Exec
  OBVIOUS
<1>2. x \in Exec /\ x.run = exec[e].run /\ x.pc # "none"
  BY <1>1 DEF Exec
<1>3. exec' = [exec EXCEPT ![e] = x]
  OBVIOUS
<1> HIDE DEF x
<1> QED
  BY <1>2, <1>3, ExecUpdate

\* What the executors do between start and end.
Inside(e) ==
  \/ ExecLoad(e) \/ ExecPrepare(e) \/ ExecPersistDraft(e) \/ ExecOutcome(e)
  \/ ExecFail(e) \/ ExecAbort(e) \/ ExecSave(e) \/ ExecAnchor(e)
  \/ ExecRescue(e) \/ ExecThrow(e)

LEMMA InsideStep ==
  ASSUME TypeOK, NEW e \in Execs, Inside(e)
  PROVE  exec' \in [Execs -> Exec] /\ SameExecs
<1> USE DEF TypeOK
<1>1. CASE ExecLoad(e)
  BY <1>1, GotoStep, LeaveStep DEF ExecLoad, Live
<1>2. CASE ExecPrepare(e)
  BY <1>2, GotoStep, CatchStep DEF ExecPrepare, Live
<1>3. CASE ExecPersistDraft(e)
  BY <1>3 DEF ExecPersistDraft, memory, SameExecs, Live
<1>4. CASE ExecOutcome(e)
  BY <1>4, LeaveStep DEF ExecOutcome, Live
<1>5. CASE ExecFail(e)
  BY <1>5, LeaveStep DEF ExecFail, Live
<1>6. CASE ExecAbort(e)
  BY <1>6, GotoStep DEF ExecAbort, Live
<1>7. CASE ExecSave(e)
  BY <1>7, GotoStep DEF ExecSave, Live
<1>8. CASE ExecAnchor(e)
  BY <1>8, GotoStep DEF ExecAnchor, Live
<1>9. CASE ExecRescue(e)
  BY <1>9, GotoStep, LeaveStep DEF ExecRescue, Live
<1>10. CASE ExecThrow(e)
  <2>1. Live(e)
    BY <1>10 DEF ExecThrow, Live
  <2>2. CASE Goto(e, "final")
    BY <2>1, <2>2, GotoStep
  <2>3. CASE Leave(e, "failed", "worker")
    BY <2>1, <2>3, LeaveStep
  <2>4. CASE exec' = [exec EXCEPT ![e] =
                        [@ EXCEPT !.pc = "rescue", !.catcher = "nobody"]]
    BY <2>1, <2>4, CatchStep
  <2> QED
    BY <1>10, <2>2, <2>3, <2>4 DEF ExecThrow
<1> QED
  BY <1>1, <1>2, <1>3, <1>4, <1>5, <1>6, <1>7, <1>8, <1>9, <1>10 DEF Inside

LEMMA BeginType ==
  ASSUME EngineAssumption, exec \in [Execs -> Exec],
         registry \in [Runs -> Execs \cup {None}],
         inFlight \in Nat, aborted \subseteq Execs,
         NEW e \in Execs, NEW r \in Runs, NEW sel \in BOOLEAN, Begin(e, r, sel)
  PROVE  /\ exec' \in [Execs -> Exec]
         /\ registry' \in [Runs -> Execs \cup {None}]
         /\ inFlight' \in Nat
         /\ aborted' \subseteq Execs
<1> DEFINE ctl == IF registry[r] # None THEN registry[r] ELSE e
           x == [pc |-> "load", run |-> r, sel |-> sel, ctl |-> ctl,
                 to |-> "failed", catcher |-> "worker"]
<1>1. ctl \in Execs
  OBVIOUS
<1>2. x \in Exec
  BY <1>1 DEF Exec
<1>3. /\ exec' = [exec EXCEPT ![e] = x]
      /\ registry' = [registry EXCEPT ![r] = ctl]
      /\ inFlight' = inFlight + 1
      /\ aborted' \subseteq aborted
  BY DEF Begin
<1> HIDE DEF ctl, x
<1> QED
  BY <1>1, <1>2, <1>3

LEMMA StatusNames ==
  /\ {"queued", "running", "interrupted", "cancelled"} \subseteq RunStatuses
  /\ {"awaiting_hitl", "completed", "failed"} \subseteq RunStatuses
BY DEF RunStatuses, LiveStatuses, TerminalStatuses

\* An execution that lives holds a slot.
LEMMA SlotHeld ==
  ASSUME EngineAssumption, TypeOK, SlotAccounting, NEW e \in Execs, Live(e)
  PROVE  /\ IsFiniteSet(LiveExecs)
         /\ inFlight - 1 = Cardinality(LiveExecs \ {e})
         /\ inFlight - 1 \in Nat
<1>1. IsFiniteSet(Execs)
  BY FS_Union DEF EngineAssumption, Execs
<1>2. IsFiniteSet(LiveExecs)
  BY <1>1, FS_Subset DEF LiveExecs
<1>3. e \in LiveExecs
  BY DEF LiveExecs
<1>4. /\ IsFiniteSet(LiveExecs \ {e})
      /\ Cardinality(LiveExecs \ {e}) = Cardinality(LiveExecs) - 1
  BY <1>2, <1>3, FS_RemoveElement
<1>5. Cardinality(LiveExecs \ {e}) \in Nat
  BY <1>4, FS_CardinalityType
<1> QED
  BY <1>2, <1>4, <1>5 DEF SlotAccounting

LEMMA PumpFields ==
  ASSUME NEW x \in Pump,
         NEW pc \in {"idle", "interrupted", "casInterrupted", "queued",
                     "casQueued", "claimed"},
         NEW r \in Runs \cup {None}, NEW b \in BOOLEAN
  PROVE  /\ [x EXCEPT !.pc = pc] \in Pump
         /\ [x EXCEPT !.pc = pc, !.run = r, !.sel = b] \in Pump
<1>1. [x EXCEPT !.pc = pc] \in Pump
  BY DEF Pump
<1>2. [x EXCEPT !.pc = pc, !.run = r, !.sel = b] \in Pump
  BY DEF Pump
<1> QED
  BY <1>1, <1>2

LEMMA TypeStep ==
  ASSUME Slots, Next
  PROVE  TypeOK'
<1> USE EngineAssumption DEF Slots, TypeOK
<1>1. ASSUME NEW r \in Runs, BootCancel(r) PROVE TypeOK'
  BY <1>1, RowFields, StatusNames
     DEF BootCancel, CancelledRow, CancelLeftovers, memory, handlers
<1>2. ASSUME BootCancelsDone PROVE TypeOK'
  BY <1>2 DEF BootCancelsDone, memory, handlers
<1>3. ASSUME NEW r \in Runs, BootRetry(r) PROVE TypeOK'
  BY <1>3, RowFields, StatusNames
     DEF BootRetry, RunningLeftovers, memory, handlers
<1>4. ASSUME BootInterrupt PROVE TypeOK'
  BY <1>4, RowFields, StatusNames DEF BootInterrupt, memory, handlers
<1>5. ASSUME NEW r \in Runs, BootExhaust(r) PROVE TypeOK'
  BY <1>5, RowFields, StatusNames
     DEF BootExhaust, RunningLeftovers, memory, handlers
<1>6. ASSUME BootAnchor PROVE TypeOK'
  BY <1>6, RowFields, StatusNames DEF BootAnchor, memory, handlers
<1>7. ASSUME BootDone PROVE TypeOK'
  BY <1>7 DEF BootDone, Pump, memory, handlers
<1>8. ASSUME PumpWake PROVE TypeOK'
  BY <1>8 DEF PumpWake, IdlePump, LoopHead, Pump, memory, handlers
<1>9. ASSUME PumpFindInterrupted PROVE TypeOK'
  <2>1. \A r \in Runs : row[r].selected \in BOOLEAN
    BY DEF Row
  <2>2. pump' \in Pump
    <3>1. CASE pump' = [pump EXCEPT !.pc = "queued"]
      BY <3>1, PumpFields
    <3>2. ASSUME NEW r \in Runs,
                 pump' = [pump EXCEPT !.pc = "casInterrupted", !.run = r,
                                      !.sel = row[r].selected]
          PROVE  pump' \in Pump
      BY <2>1, <3>2, PumpFields
    <3> QED
      BY <1>9, <3>1, <3>2 DEF PumpFindInterrupted, Oldest
  <2> QED
    BY <1>9, <2>2 DEF PumpFindInterrupted, memory, handlers
<1>10. ASSUME PumpCasInterrupted PROVE TypeOK'
  <2>1. row' \in [Runs -> Row]
    <3>1. pump.run \in Runs
      BY <1>10 DEF PumpCasInterrupted, Control, PumpInv
    <3>2. [row EXCEPT ![pump.run].status = "running"] \in [Runs -> Row]
      BY <3>1, RowFields, StatusNames
    <3> QED
      BY <1>10, <3>2 DEF PumpCasInterrupted
  <2>2. pump' \in Pump
    <3>1. [pump EXCEPT !.pc = "claimed"] \in Pump
      BY PumpFields
    <3>2. [pump EXCEPT !.pc = "interrupted", !.run = None, !.sel = FALSE] \in Pump
      BY PumpFields
    <3> QED
      BY <1>10, <3>1, <3>2 DEF PumpCasInterrupted
  <2>3. resumed' \in [Runs -> Nat]
    BY <1>10 DEF PumpCasInterrupted
  <2> QED
    BY <1>10, <2>1, <2>2, <2>3 DEF PumpCasInterrupted, memory, handlers
<1>11. ASSUME PumpFindQueued PROVE TypeOK'
  <2>1. \A r \in Runs : row[r].selected \in BOOLEAN
    BY DEF Row
  <2>2. pump' \in Pump
    <3>1. CASE pump' = [pump EXCEPT !.pc = "idle"]
      BY <3>1, PumpFields
    <3>2. ASSUME NEW r \in Runs,
                 pump' = [pump EXCEPT !.pc = "casQueued", !.run = r,
                                      !.sel = row[r].selected]
          PROVE  pump' \in Pump
      BY <2>1, <3>2, PumpFields
    <3> QED
      BY <1>11, <3>1, <3>2 DEF PumpFindQueued, Oldest
  <2> QED
    BY <1>11, <2>2 DEF PumpFindQueued, memory, handlers
<1>12. ASSUME PumpCasQueued PROVE TypeOK'
  <2>1. row' \in [Runs -> Row]
    <3>1. pump.run \in Runs
      BY <1>12 DEF PumpCasQueued, Control, PumpInv
    <3>2. [row EXCEPT ![pump.run].status = "running"] \in [Runs -> Row]
      BY <3>1, RowFields, StatusNames
    <3> QED
      BY <1>12, <3>2 DEF PumpCasQueued
  <2>2. pump' \in Pump
    <3>1. [pump EXCEPT !.pc = "claimed"] \in Pump
      BY PumpFields
    <3>2. [pump EXCEPT !.pc = "queued", !.run = None, !.sel = FALSE] \in Pump
      BY PumpFields
    <3> QED
      BY <1>12, <3>1, <3>2 DEF PumpCasQueued
  <2> QED
    BY <1>12, <2>1, <2>2 DEF PumpCasQueued, memory, handlers
<1>13. ASSUME PumpBegin PROVE TypeOK'
  <2>1. pump.run \in Runs /\ pump.run \in Execs /\ pump.sel \in BOOLEAN
    BY <1>13 DEF PumpBegin, Control, PumpInv, Pump, Execs
  <2>2. /\ exec' \in [Execs -> Exec]
        /\ registry' \in [Runs -> Execs \cup {None}]
        /\ inFlight' \in Nat
        /\ aborted' \subseteq Execs
    BY <1>13, <2>1, BeginType DEF PumpBegin
  <2>3. pump' \in Pump
    BY <1>13 DEF PumpBegin, IdlePump, LoopHead, Pump
  <2> QED
    BY <1>13, <2>2, <2>3 DEF PumpBegin, handlers
<1>14. ASSUME NEW e \in Execs, ExecLoad(e) PROVE TypeOK'
  BY <1>14, InsideStep DEF ExecLoad, Inside, handlers
<1>15. ASSUME NEW e \in Execs, ExecPrepare(e) PROVE TypeOK'
  BY <1>15, InsideStep DEF ExecPrepare, Inside, handlers
<1>16. ASSUME NEW e \in Execs, ExecPersistDraft(e) PROVE TypeOK'
  <2>1. row' \in [Runs -> Row]
    BY <1>16, RowFields DEF ExecPersistDraft
  <2> QED
    BY <1>16, <2>1 DEF ExecPersistDraft, memory, handlers
<1>17. ASSUME NEW e \in Execs, ExecOutcome(e) PROVE TypeOK'
  BY <1>17, InsideStep DEF ExecOutcome, Inside, handlers
<1>18. ASSUME NEW e \in Execs, ExecFail(e) PROVE TypeOK'
  BY <1>18, InsideStep DEF ExecFail, Inside, handlers
<1>19. ASSUME NEW e \in Execs, ExecAbort(e) PROVE TypeOK'
  BY <1>19, InsideStep DEF ExecAbort, Inside, handlers
<1>20. ASSUME NEW e \in Execs, ExecSave(e) PROVE TypeOK'
  <2>1. exec[e].to \in RunStatuses
    BY StatusNames DEF Exec
  <2>2. row' \in [Runs -> Row]
    BY <1>20, <2>1, RowFields DEF ExecSave
  <2> QED
    BY <1>20, <2>2, InsideStep DEF ExecSave, Inside, handlers
<1>21. ASSUME NEW e \in Execs, ExecAnchor(e) PROVE TypeOK'
  <2>1. row' \in [Runs -> Row]
    BY <1>21, RowFields DEF ExecAnchor
  <2> QED
    BY <1>21, <2>1, InsideStep DEF ExecAnchor, Inside, handlers
<1>22. ASSUME NEW e \in Execs, ExecRescue(e) PROVE TypeOK'
  BY <1>22, InsideStep DEF ExecRescue, Inside, handlers
<1>23. ASSUME NEW e \in Execs, ExecEnd(e) PROVE TypeOK'
  BY <1>23, SlotHeld DEF ExecEnd, NoExec, Pump, Exec, Live, memory, handlers
<1>24. ASSUME NEW r \in Runs, StartRun(r) PROVE TypeOK'
  <2> DEFINE n == Cardinality(Created)
             x == [NoRow EXCEPT !.status = "queued", !.createdAt = n]
  <2>1. IsFiniteSet(Created)
    BY FS_Subset DEF EngineAssumption, Created
  <2>2. n \in Nat
    BY <2>1, FS_CardinalityType
  <2>3. NoRow \in Row
    BY DEF NoRow, Row
  <2>4. x \in Row
    <3>1. [NoRow EXCEPT !.status = "queued"] \in Row
      BY <2>3, RowFields, StatusNames
    <3> HIDE DEF n
    <3> QED
      BY <2>2, <3>1, RowFields
  <2>5. row' = [row EXCEPT ![r] = x]
    BY <1>24 DEF StartRun
  <2>6. row' \in [Runs -> Row]
    <3> HIDE DEF x
    <3> QED
      BY <2>4, <2>5
  <2>7. pump' \in Pump
    BY <1>24 DEF StartRun, Pump
  <2> QED
    BY <1>24, <2>6, <2>7 DEF StartRun, memory, handlers
<1>25. ASSUME NEW r \in Runs, CancelFlag(r) PROVE TypeOK'
  <2>1. row' \in [Runs -> Row]
    <3>1. [row EXCEPT ![r].cancelRequested = TRUE] \in [Runs -> Row]
      BY RowFields
    <3> QED
      BY <1>25, <3>1 DEF CancelFlag
  <2>2. cancel' \in [Runs -> {"idle", "flag", "cas", "abort"}]
    BY <1>25 DEF CancelFlag, CancelGoto
  <2> QED
    BY <1>25, <2>1, <2>2 DEF CancelFlag, memory
<1>26. ASSUME NEW r \in Runs, CancelAttempt(r) PROVE TypeOK'
  <2>1. row' \in [Runs -> Row]
    <3>1. CancelledRow(r) \in Row
      BY RowFields, StatusNames DEF CancelledRow
    <3> QED
      BY <1>26, <3>1 DEF CancelAttempt
  <2>2. cancel' \in [Runs -> {"idle", "flag", "cas", "abort"}]
    BY <1>26 DEF CancelAttempt, CancelGoto
  <2> QED
    BY <1>26, <2>1, <2>2 DEF CancelAttempt, memory
<1>27. ASSUME NEW r \in Runs, CancelAbort(r) PROVE TypeOK'
  BY <1>27 DEF CancelAbort, CancelGoto, memory, handlers
<1>28. ASSUME NEW r \in Runs, CancelRead(r) PROVE TypeOK'
  BY <1>28 DEF CancelRead, CancelGoto, memory, handlers
<1>29. ASSUME NEW h \in Resumers, NEW r \in Runs, ResumeRead(h, r) PROVE TypeOK'
  BY <1>29 DEF ResumeRead, memory, handlers
<1>30. ASSUME NEW h \in Resumers, ResumeSelect(h) PROVE TypeOK'
  BY <1>30, RowFields, StatusNames DEF ResumeSelect, HitlGoto, memory, handlers
<1>31. ASSUME NEW h \in Resumers, ResumeSave(h) PROVE TypeOK'
  BY <1>31, RowFields, StatusNames DEF ResumeSave, HitlGoto, memory, handlers
<1>32. ASSUME NEW h \in Resumers, ResumeNotify(h) PROVE TypeOK'
  BY <1>32, BeginType
     DEF ResumeNotify, Control, HitlInv, Execs, memory, handlers
<1>33. ASSUME PumpThrow PROVE TypeOK'
  <2>1. spent' \in [crashes : 0..MaxCrashes, faults : 0..MaxFaults]
    BY <1>33 DEF PumpThrow, Fault, EngineAssumption
  <2>2. pump' \in Pump
    BY <1>33 DEF PumpThrow, IdlePump, Pump
  <2> QED
    BY <1>33, <2>1, <2>2 DEF PumpThrow, memory, handlers
<1>34. ASSUME NEW e \in Execs, ExecThrow(e) PROVE TypeOK'
  <2>1. spent' \in [crashes : 0..MaxCrashes, faults : 0..MaxFaults]
    BY <1>34 DEF ExecThrow, Fault, EngineAssumption
  <2> QED
    BY <1>34, <2>1, InsideStep DEF ExecThrow, Inside, handlers
<1>35. ASSUME NEW r \in Runs, CancelThrow(r) PROVE TypeOK'
  BY <1>35 DEF CancelThrow, Fault, CancelGoto, memory, handlers
<1>36. ASSUME NEW h \in Resumers, ResumeThrow(h) PROVE TypeOK'
  BY <1>36 DEF ResumeThrow, Fault, memory, handlers
<1>37. ASSUME Crash PROVE TypeOK'
  <2>1. NoExec \in Exec
    BY DEF NoExec, Exec
  <2>2. exec' \in [Execs -> Exec]
    BY <1>37, <2>1 DEF Crash
  <2>3. pump' \in Pump
    BY <1>37 DEF Crash, IdlePump, Pump
  <2>4. hitl' \in [Resumers -> [pc  : {"idle", "select", "save", "notify", "done"},
                              run : Runs \cup {None}]]
    BY <1>37 DEF Crash
  <2>5. spent' \in [crashes : 0..MaxCrashes, faults : 0..MaxFaults]
    BY <1>37 DEF Crash, EngineAssumption
  <2> QED
    BY <1>37, <2>2, <2>3, <2>4, <2>5 DEF Crash
<1> QED
  BY <1>1, <1>2, <1>3, <1>4, <1>5, <1>6, <1>7, <1>8, <1>9, <1>10, <1>11, <1>12,
     <1>13, <1>14, <1>15, <1>16, <1>17, <1>18, <1>19, <1>20, <1>21, <1>22, <1>23,
     <1>24, <1>25, <1>26, <1>27, <1>28, <1>29, <1>30, <1>31, <1>32, <1>33, <1>34,
     <1>35, <1>36, <1>37
  DEF Next, Recovery, PumpStep, ExecStep, CancelStep, ResumeStep, Throw


-----------------------------------------------------------------------------
(* Control *)

LEMMA ControlStep ==
  ASSUME Slots, Next
  PROVE  Control'
<1> USE EngineAssumption
    DEF Slots, TypeOK, Row, Exec, Pump, Execs, Control, ExecInv, PumpInv,
        HitlInv, BootInv, Live, TakenUp, Status, Up
<1>1. ASSUME NEW r \in Runs, BootCancel(r) PROVE Control'
  BY <1>1 DEF BootCancel, CancelledRow, CancelLeftovers, memory, handlers
<1>2. ASSUME BootCancelsDone PROVE Control'
  BY <1>2 DEF BootCancelsDone, memory, handlers
<1>3. ASSUME NEW r \in Runs, BootRetry(r) PROVE Control'
  BY <1>3 DEF BootRetry, RunningLeftovers, memory, handlers
<1>4. ASSUME BootInterrupt PROVE Control'
  BY <1>4 DEF BootInterrupt, memory, handlers
<1>5. ASSUME NEW r \in Runs, BootExhaust(r) PROVE Control'
  BY <1>5 DEF BootExhaust, RunningLeftovers, memory, handlers
<1>6. ASSUME BootAnchor PROVE Control'
  BY <1>6 DEF BootAnchor, memory, handlers
<1>7. ASSUME BootDone PROVE Control'
  BY <1>7 DEF BootDone, memory, handlers
<1>8. ASSUME PumpWake PROVE Control'
  BY <1>8 DEF PumpWake, IdlePump, LoopHead, memory, handlers
<1>9. ASSUME PumpFindInterrupted PROVE Control'
  <2>1. UNCHANGED <<row, boot, exec, hitl>> /\ pump.pc # "idle"
    BY <1>9 DEF PumpFindInterrupted, memory, handlers
  <2>2. CASE pump' = [pump EXCEPT !.pc = "queued"]
    <3>1. pump'.pc = "queued"
      BY <2>2
    <3> QED
      BY <2>1, <3>1
  <2>3. ASSUME NEW r \in Runs,
               pump' = [pump EXCEPT !.pc = "casInterrupted", !.run = r,
                                    !.sel = row[r].selected]
        PROVE  Control'
    <3>1. pump'.pc = "casInterrupted" /\ pump'.run = r
      BY <2>3
    <3> QED
      BY <2>1, <3>1
  <2> QED
    BY <1>9, <2>2, <2>3 DEF PumpFindInterrupted, Oldest
<1>10. ASSUME PumpCasInterrupted PROVE Control'
  <2>1. /\ UNCHANGED <<boot, exec, hitl>>
        /\ pump.run \in Runs /\ Up
    BY <1>10 DEF PumpCasInterrupted, memory, handlers
  <2>2. ASSUME Status(pump.run) = "interrupted",
               row' = [row EXCEPT ![pump.run].status = "running"],
               pump' = [pump EXCEPT !.pc = "claimed"]
        PROVE  Control'
    <3>1. ~Live(pump.run)
      BY <2>1, <2>2
    <3>2. pump'.pc = "claimed" /\ pump'.run = pump.run
      BY <2>2
    <3>3. \A q \in Runs : Status(q)' = IF q = pump.run THEN "running"
                                                   ELSE Status(q)
      BY <2>1, <2>2
    <3> QED
      BY <2>1, <3>1, <3>2, <3>3
  <2>3. ASSUME row' = row,
               pump' = [pump EXCEPT !.pc = "interrupted", !.run = None, !.sel = FALSE]
        PROVE  Control'
    <3>1. pump'.pc = "interrupted"
      BY <2>3
    <3> QED
      BY <2>1, <2>3, <3>1
  <2> QED
    BY <1>10, <2>2, <2>3 DEF PumpCasInterrupted
<1>11. ASSUME PumpFindQueued PROVE Control'
  <2>1. UNCHANGED <<row, boot, exec, hitl>> /\ pump.pc # "idle"
    BY <1>11 DEF PumpFindQueued, memory, handlers
  <2>2. CASE pump' = [pump EXCEPT !.pc = "idle"]
    <3>1. pump'.pc = "idle"
      BY <2>2
    <3> QED
      BY <2>1, <3>1
  <2>3. ASSUME NEW r \in Runs,
               pump' = [pump EXCEPT !.pc = "casQueued", !.run = r,
                                    !.sel = row[r].selected]
        PROVE  Control'
    <3>1. pump'.pc = "casQueued" /\ pump'.run = r
      BY <2>3
    <3> QED
      BY <2>1, <3>1
  <2> QED
    BY <1>11, <2>2, <2>3 DEF PumpFindQueued, Oldest
<1>12. ASSUME PumpCasQueued PROVE Control'
  <2>1. /\ UNCHANGED <<boot, exec, hitl>>
        /\ pump.run \in Runs /\ Up
    BY <1>12 DEF PumpCasQueued, memory, handlers
  <2>2. ASSUME Status(pump.run) = "queued",
               row' = [row EXCEPT ![pump.run].status = "running"],
               pump' = [pump EXCEPT !.pc = "claimed"]
        PROVE  Control'
    <3>1. ~Live(pump.run)
      BY <2>1, <2>2
    <3>2. pump'.pc = "claimed" /\ pump'.run = pump.run
      BY <2>2
    <3>3. \A q \in Runs : Status(q)' = IF q = pump.run THEN "running"
                                                   ELSE Status(q)
      BY <2>1, <2>2
    <3> QED
      BY <2>1, <3>1, <3>2, <3>3
  <2>3. ASSUME row' = row,
               pump' = [pump EXCEPT !.pc = "queued", !.run = None, !.sel = FALSE]
        PROVE  Control'
    <3>1. pump'.pc = "queued"
      BY <2>3
    <3> QED
      BY <2>1, <2>3, <3>1
  <2> QED
    BY <1>12, <2>2, <2>3 DEF PumpCasQueued
<1>13. ASSUME PumpBegin PROVE Control'
  BY <1>13 DEF PumpBegin, Begin, NoExec, IdlePump, LoopHead, memory, handlers
<1>14. ASSUME NEW e \in Execs, ExecLoad(e) PROVE Control'
  BY <1>14, InsideStep DEF ExecLoad, Inside, SameExecs, handlers
<1>15. ASSUME NEW e \in Execs, ExecPrepare(e) PROVE Control'
  <2>1. SameExecs
    BY <1>15, InsideStep DEF Inside
  <2>2. UNCHANGED <<row, boot, pump, hitl>>
    BY <1>15 DEF ExecPrepare, handlers
  <2> QED
    BY <2>1, <2>2 DEF SameExecs
<1>16. ASSUME NEW e \in Execs, ExecPersistDraft(e) PROVE Control'
  BY <1>16 DEF ExecPersistDraft, memory, handlers
<1>17. ASSUME NEW e \in Execs, ExecOutcome(e) PROVE Control'
  BY <1>17, InsideStep DEF ExecOutcome, Inside, SameExecs, handlers
<1>18. ASSUME NEW e \in Execs, ExecFail(e) PROVE Control'
  BY <1>18, InsideStep DEF ExecFail, Inside, SameExecs, handlers
<1>19. ASSUME NEW e \in Execs, ExecAbort(e) PROVE Control'
  BY <1>19, InsideStep DEF ExecAbort, Inside, SameExecs, handlers
<1>20. ASSUME NEW e \in Execs, ExecSave(e) PROVE Control'
  <2>1. SameExecs
    BY <1>20, InsideStep DEF Inside
  <2>2. UNCHANGED <<boot, pump, hitl>>
    BY <1>20 DEF ExecSave, handlers
  <2>3. \A r \in Runs : TakenUp(r) => TakenUp(r)'
    BY <1>20 DEF ExecSave
  <2> QED
    BY <2>1, <2>2, <2>3 DEF SameExecs
<1>21. ASSUME NEW e \in Execs, ExecAnchor(e) PROVE Control'
  BY <1>21 DEF ExecAnchor, Goto, memory, handlers
<1>22. ASSUME NEW e \in Execs, ExecRescue(e) PROVE Control'
  BY <1>22, InsideStep DEF ExecRescue, Inside, SameExecs, handlers
<1>23. ASSUME NEW e \in Execs, ExecEnd(e) PROVE Control'
  BY <1>23 DEF ExecEnd, NoExec, memory, handlers
<1>24. ASSUME NEW r \in Runs, StartRun(r) PROVE Control'
  BY <1>24 DEF StartRun, NoRow, memory, handlers
<1>25. ASSUME NEW r \in Runs, CancelFlag(r) PROVE Control'
  <2>1. \A q \in Runs : Status(q)' = Status(q)
    <3>1. CASE row' = [row EXCEPT ![r].cancelRequested = TRUE]
      BY <3>1
    <3>2. CASE row' = row
      BY <3>2
    <3> QED
      BY <1>25, <3>1, <3>2 DEF CancelFlag
  <2> QED
    BY <1>25, <2>1 DEF CancelFlag, memory
<1>26. ASSUME NEW r \in Runs, CancelAttempt(r) PROVE Control'
  <2>1. \A q \in Runs : Status(q)' \in {Status(q), "cancelled"}
    <3>1. CASE row' = [row EXCEPT ![r] = CancelledRow(r)]
      BY <3>1 DEF CancelledRow
    <3>2. CASE row' = row
      BY <3>2
    <3> QED
      BY <1>26, <3>1, <3>2 DEF CancelAttempt
  <2> QED
    BY <1>26, <2>1 DEF CancelAttempt, memory
<1>27. ASSUME NEW r \in Runs, CancelAbort(r) PROVE Control'
  BY <1>27 DEF CancelAbort, CancelGoto, memory, handlers
<1>28. ASSUME NEW r \in Runs, CancelRead(r) PROVE Control'
  BY <1>28 DEF CancelRead, CancelGoto, memory, handlers
<1>29. ASSUME NEW h \in Resumers, NEW r \in Runs, ResumeRead(h, r)
       PROVE  Control'
  BY <1>29 DEF ResumeRead, memory, handlers
<1>30. ASSUME NEW h \in Resumers, ResumeSelect(h) PROVE Control'
  BY <1>30 DEF ResumeSelect, HitlGoto, memory, handlers
<1>31. ASSUME NEW h \in Resumers, ResumeSave(h) PROVE Control'
  BY <1>31 DEF ResumeSave, HitlGoto, memory, handlers
<1>32. ASSUME NEW h \in Resumers, ResumeNotify(h) PROVE Control'
  BY <1>32 DEF ResumeNotify, Begin, NoExec, memory, handlers
<1>33. ASSUME PumpThrow PROVE Control'
  BY <1>33 DEF PumpThrow, Fault, IdlePump, memory, handlers
<1>34. ASSUME NEW e \in Execs, ExecThrow(e) PROVE Control'
  <2>1. SameExecs
    BY <1>34, InsideStep DEF Inside
  <2>2. UNCHANGED <<row, boot, pump, hitl>>
    BY <1>34 DEF ExecThrow, handlers
  <2> QED
    BY <2>1, <2>2 DEF SameExecs
<1>35. ASSUME NEW r \in Runs, CancelThrow(r) PROVE Control'
  BY <1>35 DEF CancelThrow, Fault, CancelGoto, memory, handlers
<1>36. ASSUME NEW h \in Resumers, ResumeThrow(h) PROVE Control'
  BY <1>36 DEF ResumeThrow, Fault, memory, handlers
<1>37. ASSUME Crash PROVE Control'
  BY <1>37 DEF Crash, IdlePump, NoExec, memory, handlers
<1> QED
  BY <1>1, <1>2, <1>3, <1>4, <1>5, <1>6, <1>7, <1>8, <1>9, <1>10, <1>11, <1>12,
     <1>13, <1>14, <1>15, <1>16, <1>17, <1>18, <1>19, <1>20, <1>21, <1>22, <1>23,
     <1>24, <1>25, <1>26, <1>27, <1>28, <1>29, <1>30, <1>31, <1>32, <1>33, <1>34,
     <1>35, <1>36, <1>37
  DEF Next, Recovery, PumpStep, ExecStep, CancelStep, ResumeStep, Throw

-----------------------------------------------------------------------------
(* Slots *)

\* An execution that begins takes one slot more.
LEMMA BeginLive ==
  ASSUME TypeOK, NEW e \in Execs, NEW r, NEW sel, ~Live(e), Begin(e, r, sel)
  PROVE  /\ LiveExecs' = LiveExecs \cup {e}
         /\ inFlight' = inFlight + 1
BY DEF TypeOK, Begin, Live, LiveExecs

LEMMA SlotStep ==
  ASSUME Slots, Next
  PROVE  SlotAccounting'
<1> USE EngineAssumption DEF Slots
<1>a. IsFiniteSet(LiveExecs)
  <2>1. IsFiniteSet(Execs)
    BY FS_Union DEF EngineAssumption, Execs
  <2> QED
    BY <2>1, FS_Subset DEF LiveExecs
<1>b. ASSUME SameExecs, inFlight' = inFlight
      PROVE  SlotAccounting'
  <2>1. LiveExecs' = LiveExecs
    BY <1>b DEF SameExecs, LiveExecs
  <2> QED
    BY <1>b, <2>1 DEF SlotAccounting
<1>c. ASSUME UNCHANGED <<exec, inFlight>>
      PROVE  SlotAccounting'
  BY <1>b, <1>c DEF SameExecs, Live
<1>d. ASSUME NEW e \in Execs, NEW r, NEW sel, ~Live(e), Begin(e, r, sel)
      PROVE  SlotAccounting'
  <2>1. LiveExecs' = LiveExecs \cup {e} /\ inFlight' = inFlight + 1
    BY <1>d, BeginLive
  <2>2. Cardinality(LiveExecs \cup {e}) = Cardinality(LiveExecs) + 1
    BY <1>a, <1>d, FS_AddElement DEF LiveExecs
  <2> QED
    BY <2>1, <2>2 DEF SlotAccounting
<1>1. ASSUME NEW r \in Runs, BootCancel(r) PROVE SlotAccounting'
  BY <1>c, <1>1 DEF BootCancel, memory
<1>2. ASSUME BootCancelsDone PROVE SlotAccounting'
  BY <1>c, <1>2 DEF BootCancelsDone, memory
<1>3. ASSUME NEW r \in Runs, BootRetry(r) PROVE SlotAccounting'
  BY <1>c, <1>3 DEF BootRetry, memory
<1>4. ASSUME BootInterrupt PROVE SlotAccounting'
  BY <1>c, <1>4 DEF BootInterrupt, memory
<1>5. ASSUME NEW r \in Runs, BootExhaust(r) PROVE SlotAccounting'
  BY <1>c, <1>5 DEF BootExhaust, memory
<1>6. ASSUME BootAnchor PROVE SlotAccounting'
  BY <1>c, <1>6 DEF BootAnchor, memory
<1>7. ASSUME BootDone PROVE SlotAccounting'
  BY <1>c, <1>7 DEF BootDone, memory
<1>8. ASSUME PumpWake PROVE SlotAccounting'
  BY <1>c, <1>8 DEF PumpWake, memory
<1>9. ASSUME PumpFindInterrupted PROVE SlotAccounting'
  BY <1>c, <1>9 DEF PumpFindInterrupted, memory
<1>10. ASSUME PumpCasInterrupted PROVE SlotAccounting'
  BY <1>c, <1>10 DEF PumpCasInterrupted, memory
<1>11. ASSUME PumpFindQueued PROVE SlotAccounting'
  BY <1>c, <1>11 DEF PumpFindQueued, memory
<1>12. ASSUME PumpCasQueued PROVE SlotAccounting'
  BY <1>c, <1>12 DEF PumpCasQueued, memory
<1>13. ASSUME PumpBegin PROVE SlotAccounting'
  BY <1>d, <1>13 DEF PumpBegin, Control, PumpInv, Execs
<1>14. ASSUME NEW e \in Execs, ExecLoad(e) PROVE SlotAccounting'
  BY <1>b, <1>14, InsideStep DEF ExecLoad, Inside
<1>15. ASSUME NEW e \in Execs, ExecPrepare(e) PROVE SlotAccounting'
  BY <1>b, <1>15, InsideStep DEF ExecPrepare, Inside
<1>16. ASSUME NEW e \in Execs, ExecPersistDraft(e) PROVE SlotAccounting'
  BY <1>c, <1>16 DEF ExecPersistDraft, memory
<1>17. ASSUME NEW e \in Execs, ExecOutcome(e) PROVE SlotAccounting'
  BY <1>b, <1>17, InsideStep DEF ExecOutcome, Inside
<1>18. ASSUME NEW e \in Execs, ExecFail(e) PROVE SlotAccounting'
  BY <1>b, <1>18, InsideStep DEF ExecFail, Inside
<1>19. ASSUME NEW e \in Execs, ExecAbort(e) PROVE SlotAccounting'
  BY <1>b, <1>19, InsideStep DEF ExecAbort, Inside
<1>20. ASSUME NEW e \in Execs, ExecSave(e) PROVE SlotAccounting'
  BY <1>b, <1>20, InsideStep DEF ExecSave, Inside
<1>21. ASSUME NEW e \in Execs, ExecAnchor(e) PROVE SlotAccounting'
  BY <1>b, <1>21, InsideStep DEF ExecAnchor, Inside
<1>22. ASSUME NEW e \in Execs, ExecRescue(e) PROVE SlotAccounting'
  BY <1>b, <1>22, InsideStep DEF ExecRescue, Inside
<1>23. ASSUME NEW e \in Execs, ExecEnd(e) PROVE SlotAccounting'
  <2>1. Live(e)
    BY <1>23 DEF ExecEnd, Live
  <2>2. inFlight' = inFlight - 1 /\ LiveExecs' = LiveExecs \ {e}
    BY <1>23 DEF ExecEnd, TypeOK, NoExec, LiveExecs, Live
  <2> QED
    BY <2>1, <2>2, SlotHeld DEF SlotAccounting
<1>24. ASSUME NEW r \in Runs, StartRun(r) PROVE SlotAccounting'
  BY <1>c, <1>24 DEF StartRun, memory
<1>25. ASSUME NEW r \in Runs, CancelFlag(r) PROVE SlotAccounting'
  BY <1>c, <1>25 DEF CancelFlag, memory
<1>26. ASSUME NEW r \in Runs, CancelAttempt(r) PROVE SlotAccounting'
  BY <1>c, <1>26 DEF CancelAttempt, memory
<1>27. ASSUME NEW r \in Runs, CancelAbort(r) PROVE SlotAccounting'
  BY <1>c, <1>27 DEF CancelAbort, memory
<1>28. ASSUME NEW r \in Runs, CancelRead(r) PROVE SlotAccounting'
  BY <1>c, <1>28 DEF CancelRead, memory
<1>29. ASSUME NEW h \in Resumers, NEW r \in Runs, ResumeRead(h, r)
       PROVE  SlotAccounting'
  BY <1>c, <1>29 DEF ResumeRead, memory
<1>30. ASSUME NEW h \in Resumers, ResumeSelect(h) PROVE SlotAccounting'
  BY <1>c, <1>30 DEF ResumeSelect, memory
<1>31. ASSUME NEW h \in Resumers, ResumeSave(h) PROVE SlotAccounting'
  BY <1>c, <1>31 DEF ResumeSave, memory
<1>32. ASSUME NEW h \in Resumers, ResumeNotify(h) PROVE SlotAccounting'
  <2>1. ~Live(h)
    BY <1>32 DEF ResumeNotify, Control, ExecInv, Execs
  <2> QED
    BY <1>d, <1>32, <2>1 DEF ResumeNotify, Execs
<1>33. ASSUME PumpThrow PROVE SlotAccounting'
  BY <1>c, <1>33 DEF PumpThrow, memory
<1>34. ASSUME NEW e \in Execs, ExecThrow(e) PROVE SlotAccounting'
  BY <1>b, <1>34, InsideStep DEF ExecThrow, Inside
<1>35. ASSUME NEW r \in Runs, CancelThrow(r) PROVE SlotAccounting'
  BY <1>c, <1>35 DEF CancelThrow, memory
<1>36. ASSUME NEW h \in Resumers, ResumeThrow(h) PROVE SlotAccounting'
  BY <1>c, <1>36 DEF ResumeThrow, memory
<1>37. ASSUME Crash PROVE SlotAccounting'
  <2>1. LiveExecs' = {} /\ inFlight' = 0
    BY <1>37 DEF Crash, NoExec, LiveExecs, Live
  <2> QED
    BY <2>1, FS_EmptySet DEF SlotAccounting
<1> QED
  BY <1>1, <1>2, <1>3, <1>4, <1>5, <1>6, <1>7, <1>8, <1>9, <1>10, <1>11, <1>12,
     <1>13, <1>14, <1>15, <1>16, <1>17, <1>18, <1>19, <1>20, <1>21, <1>22, <1>23,
     <1>24, <1>25, <1>26, <1>27, <1>28, <1>29, <1>30, <1>31, <1>32, <1>33, <1>34,
     <1>35, <1>36, <1>37
  DEF Next, Recovery, PumpStep, ExecStep, CancelStep, ResumeStep, Throw

-----------------------------------------------------------------------------
(* The cap on claims *)

LEMMA ClaimedFinite ==
  ASSUME EngineAssumption
  PROVE  /\ IsFiniteSet(ClaimedRuns)
         /\ Cardinality(ClaimedRuns) \in Nat
BY FS_Subset, FS_CardinalityType DEF EngineAssumption, ClaimedRuns

LEMMA CapStep ==
  ASSUME Slots, Slots', Caps, Next
  PROVE  Caps'
<1> USE EngineAssumption DEF Caps, CapInv, ClaimedWithinCap
<1>a. /\ IsFiniteSet(ClaimedRuns)
      /\ Cardinality(ClaimedRuns) \in Nat
      /\ MaxConcurrent \in Nat \ {0}
  BY ClaimedFinite DEF EngineAssumption
<1>b. ASSUME ClaimedRuns' \subseteq ClaimedRuns, pump'.pc \in {pump.pc, "idle"}
      PROVE  Caps'
  <2>1. /\ Cardinality(ClaimedRuns') \in Nat
        /\ Cardinality(ClaimedRuns') <= Cardinality(ClaimedRuns)
    BY <1>a, <1>b, FS_Subset, FS_CardinalityType
  <2> QED
    BY <1>a, <1>b, <2>1
<1>c. ASSUME SameExecs, UNCHANGED pump
      PROVE  Caps'
  <2>1. ClaimedRuns' = ClaimedRuns
    BY <1>c DEF SameExecs, ClaimedRuns, Execs
  <2> QED
    BY <1>b, <1>c, <2>1
<1>d. ASSUME UNCHANGED exec, pump'.pc = pump.pc, pump'.run = pump.run
      PROVE  Caps'
  <2>1. ClaimedRuns' = ClaimedRuns
    BY <1>d DEF ClaimedRuns, Live
  <2> QED
    BY <1>b, <1>d, <2>1
<1>e. ASSUME UNCHANGED exec, pump.pc \in {"interrupted", "casInterrupted",
                                          "queued", "casQueued"},
             pump'.pc \in {"idle", "interrupted", "casInterrupted", "queued",
                           "casQueued"}
      PROVE  Caps'
  <2>1. ClaimedRuns' = ClaimedRuns
    BY <1>e DEF ClaimedRuns, Live
  <2> QED
    BY <1>a, <1>e, <2>1
<1>f. ASSUME UNCHANGED exec, pump.pc \in {"casInterrupted", "casQueued"},
             pump'.pc = "claimed"
      PROVE  Caps'
  <2>1. ClaimedRuns' \subseteq ClaimedRuns \cup {pump'.run}
    BY <1>e, <1>f DEF ClaimedRuns, Live
  <2>2. /\ IsFiniteSet(ClaimedRuns \cup {pump'.run})
        /\ Cardinality(ClaimedRuns \cup {pump'.run}) <= Cardinality(ClaimedRuns) + 1
    <3>1. ASSUME NEW x
          PROVE  /\ IsFiniteSet(ClaimedRuns \cup {x})
                 /\ Cardinality(ClaimedRuns \cup {x}) <= Cardinality(ClaimedRuns) + 1
      <4>1. /\ IsFiniteSet(ClaimedRuns \cup {x})
            /\ Cardinality(ClaimedRuns \cup {x}) =
                 IF x \in ClaimedRuns THEN Cardinality(ClaimedRuns)
                                      ELSE Cardinality(ClaimedRuns) + 1
        BY <1>a, FS_AddElement, Zenon
      <4> QED
        BY <1>a, <4>1
    <3> QED
      BY <3>1
  <2>3. /\ Cardinality(ClaimedRuns') <= Cardinality(ClaimedRuns \cup {pump'.run})
        /\ Cardinality(ClaimedRuns') \in Nat
        /\ Cardinality(ClaimedRuns \cup {pump'.run}) \in Nat
    BY <2>1, <2>2, FS_Subset, FS_CardinalityType
  <2> QED
    BY <1>a, <1>f, <2>2, <2>3
<1>g. ASSUME NEW n \in Nat, n = inFlight', pump'.pc = LoopHead(n),
             ClaimedRuns' \subseteq ClaimedRuns
      PROVE  Caps'
  <2>1. pump'.pc # "claimed"
    BY <1>g DEF LoopHead
  <2>2. /\ Cardinality(ClaimedRuns') <= inFlight'
        /\ Cardinality(ClaimedRuns') \in Nat
    <3>1. IsFiniteSet(Execs)
      BY FS_Union DEF EngineAssumption, Execs
    <3>2. IsFiniteSet(LiveExecs')
      BY <3>1, FS_Subset DEF LiveExecs
    <3>3. ClaimedRuns' \subseteq LiveExecs'
      BY <2>1 DEF ClaimedRuns, LiveExecs, Execs
    <3> QED
      BY <3>2, <3>3, FS_Subset, FS_CardinalityType DEF Slots, SlotAccounting
  <2>3. Cardinality(ClaimedRuns') <= Cardinality(ClaimedRuns)
    BY <1>a, <1>g, FS_Subset
  <2> QED
    BY <1>a, <1>g, <2>2, <2>3 DEF LoopHead
<1>1. ASSUME NEW r \in Runs, BootCancel(r) PROVE Caps'
  BY <1>d, <1>1 DEF BootCancel, memory
<1>2. ASSUME BootCancelsDone PROVE Caps'
  BY <1>d, <1>2 DEF BootCancelsDone, memory
<1>3. ASSUME NEW r \in Runs, BootRetry(r) PROVE Caps'
  BY <1>d, <1>3 DEF BootRetry, memory
<1>4. ASSUME BootInterrupt PROVE Caps'
  BY <1>d, <1>4 DEF BootInterrupt, memory
<1>5. ASSUME NEW r \in Runs, BootExhaust(r) PROVE Caps'
  BY <1>d, <1>5 DEF BootExhaust, memory
<1>6. ASSUME BootAnchor PROVE Caps'
  BY <1>d, <1>6 DEF BootAnchor, memory
<1>7. ASSUME BootDone PROVE Caps'
  BY <1>d, <1>7 DEF BootDone, memory, Slots, TypeOK, Pump
<1>8. ASSUME PumpWake PROVE Caps'
  <2>1. /\ pump'.pc = LoopHead(inFlight) /\ inFlight' = inFlight /\ inFlight \in Nat
        /\ ClaimedRuns' \subseteq ClaimedRuns
    BY <1>8
       DEF PumpWake, memory, IdlePump, LoopHead, ClaimedRuns, Live, Slots,
           TypeOK
  <2> QED
    BY <1>g, <2>1
<1>9. ASSUME PumpFindInterrupted PROVE Caps'
  <2>1. UNCHANGED exec /\ pump.pc = "interrupted"
    BY <1>9 DEF PumpFindInterrupted, memory
  <2>2. CASE pump' = [pump EXCEPT !.pc = "queued"]
    <3>1. pump'.pc = "queued"
      BY <2>2 DEF Slots, TypeOK, Pump
    <3> QED
      BY <1>e, <2>1, <3>1
  <2>3. ASSUME NEW r \in Runs,
               pump' = [pump EXCEPT !.pc = "casInterrupted", !.run = r,
                                    !.sel = row[r].selected]
        PROVE  Caps'
    <3>1. pump'.pc = "casInterrupted"
      BY <2>3 DEF Slots, TypeOK, Pump
    <3> QED
      BY <1>e, <2>1, <3>1
  <2> QED
    BY <1>9, <2>2, <2>3 DEF PumpFindInterrupted, Oldest
<1>10. ASSUME PumpCasInterrupted PROVE Caps'
  <2>1. UNCHANGED exec /\ pump.pc \in {"casInterrupted", "casQueued"}
    BY <1>10 DEF PumpCasInterrupted, memory
  <2>2. CASE pump' = [pump EXCEPT !.pc = "claimed"]
    <3>1. pump'.pc = "claimed"
      BY <2>2 DEF Slots, TypeOK, Pump
    <3> QED
      BY <1>f, <2>1, <3>1
  <2>3. CASE pump' = [pump EXCEPT !.pc = "interrupted", !.run = None, !.sel = FALSE]
    <3>1. pump'.pc = "interrupted"
      BY <2>3 DEF Slots, TypeOK, Pump
    <3> QED
      BY <1>e, <2>1, <3>1
  <2> QED
    BY <1>10, <2>2, <2>3 DEF PumpCasInterrupted
<1>11. ASSUME PumpFindQueued PROVE Caps'
  <2>1. UNCHANGED exec /\ pump.pc = "queued"
    BY <1>11 DEF PumpFindQueued, memory
  <2>2. CASE pump' = [pump EXCEPT !.pc = "idle"]
    <3>1. pump'.pc = "idle"
      BY <2>2 DEF Slots, TypeOK, Pump
    <3> QED
      BY <1>e, <2>1, <3>1
  <2>3. ASSUME NEW r \in Runs,
               pump' = [pump EXCEPT !.pc = "casQueued", !.run = r,
                                    !.sel = row[r].selected]
        PROVE  Caps'
    <3>1. pump'.pc = "casQueued"
      BY <2>3 DEF Slots, TypeOK, Pump
    <3> QED
      BY <1>e, <2>1, <3>1
  <2> QED
    BY <1>11, <2>2, <2>3 DEF PumpFindQueued, Oldest
<1>12. ASSUME PumpCasQueued PROVE Caps'
  <2>1. UNCHANGED exec /\ pump.pc \in {"casInterrupted", "casQueued"}
    BY <1>12 DEF PumpCasQueued, memory
  <2>2. CASE pump' = [pump EXCEPT !.pc = "claimed"]
    <3>1. pump'.pc = "claimed"
      BY <2>2 DEF Slots, TypeOK, Pump
    <3> QED
      BY <1>f, <2>1, <3>1
  <2>3. CASE pump' = [pump EXCEPT !.pc = "queued", !.run = None, !.sel = FALSE]
    <3>1. pump'.pc = "queued"
      BY <2>3 DEF Slots, TypeOK, Pump
    <3> QED
      BY <1>e, <2>1, <3>1
  <2> QED
    BY <1>12, <2>2, <2>3 DEF PumpCasQueued
<1>13. ASSUME PumpBegin PROVE Caps'
  <2>1. /\ pump'.pc = LoopHead(inFlight + 1) /\ inFlight' = inFlight + 1
        /\ inFlight + 1 \in Nat
    BY <1>13 DEF PumpBegin, Begin, IdlePump, Slots, TypeOK
  <2>2. ClaimedRuns' \subseteq ClaimedRuns
    BY <1>13 DEF PumpBegin, Begin, IdlePump, LoopHead, ClaimedRuns, Live, Slots,
                 TypeOK, Execs
  <2> QED
    BY <1>g, <2>1, <2>2
<1>14. ASSUME NEW e \in Execs, ExecLoad(e) PROVE Caps'
  BY <1>c, <1>14, InsideStep DEF ExecLoad, Inside, Slots
<1>15. ASSUME NEW e \in Execs, ExecPrepare(e) PROVE Caps'
  BY <1>c, <1>15, InsideStep DEF ExecPrepare, Inside, Slots
<1>16. ASSUME NEW e \in Execs, ExecPersistDraft(e) PROVE Caps'
  BY <1>d, <1>16 DEF ExecPersistDraft, memory
<1>17. ASSUME NEW e \in Execs, ExecOutcome(e) PROVE Caps'
  BY <1>c, <1>17, InsideStep DEF ExecOutcome, Inside, Slots
<1>18. ASSUME NEW e \in Execs, ExecFail(e) PROVE Caps'
  BY <1>c, <1>18, InsideStep DEF ExecFail, Inside, Slots
<1>19. ASSUME NEW e \in Execs, ExecAbort(e) PROVE Caps'
  BY <1>c, <1>19, InsideStep DEF ExecAbort, Inside, Slots
<1>20. ASSUME NEW e \in Execs, ExecSave(e) PROVE Caps'
  BY <1>c, <1>20, InsideStep DEF ExecSave, Inside, Slots
<1>21. ASSUME NEW e \in Execs, ExecAnchor(e) PROVE Caps'
  BY <1>c, <1>21, InsideStep DEF ExecAnchor, Inside, Slots
<1>22. ASSUME NEW e \in Execs, ExecRescue(e) PROVE Caps'
  BY <1>c, <1>22, InsideStep DEF ExecRescue, Inside, Slots
<1>23. ASSUME NEW e \in Execs, ExecEnd(e) PROVE Caps'
  <2>1. /\ pump'.pc = pump.pc /\ pump'.run = pump.run
        /\ \A r \in Runs : Live(r)' => Live(r)
    BY <1>23 DEF ExecEnd, NoExec, Live, Slots, TypeOK, Pump, Execs
  <2>2. ClaimedRuns' \subseteq ClaimedRuns
    BY <2>1 DEF ClaimedRuns
  <2> QED
    BY <1>b, <2>1, <2>2
<1>24. ASSUME NEW r \in Runs, StartRun(r) PROVE Caps'
  BY <1>d, <1>24 DEF StartRun, memory, Slots, TypeOK, Pump
<1>25. ASSUME NEW r \in Runs, CancelFlag(r) PROVE Caps'
  BY <1>d, <1>25 DEF CancelFlag, memory
<1>26. ASSUME NEW r \in Runs, CancelAttempt(r) PROVE Caps'
  BY <1>d, <1>26 DEF CancelAttempt, memory
<1>27. ASSUME NEW r \in Runs, CancelAbort(r) PROVE Caps'
  BY <1>d, <1>27 DEF CancelAbort, memory
<1>28. ASSUME NEW r \in Runs, CancelRead(r) PROVE Caps'
  BY <1>d, <1>28 DEF CancelRead, memory
<1>29. ASSUME NEW h \in Resumers, NEW r \in Runs, ResumeRead(h, r) PROVE Caps'
  BY <1>d, <1>29 DEF ResumeRead, memory
<1>30. ASSUME NEW h \in Resumers, ResumeSelect(h) PROVE Caps'
  BY <1>d, <1>30 DEF ResumeSelect, memory
<1>31. ASSUME NEW h \in Resumers, ResumeSave(h) PROVE Caps'
  BY <1>d, <1>31 DEF ResumeSave, memory
<1>32. ASSUME NEW h \in Resumers, ResumeNotify(h) PROVE Caps'
  <2>1. UNCHANGED pump /\ \A r \in Runs : Live(r)' = Live(r)
    BY <1>32
       DEF ResumeNotify, Begin, Live, Slots, TypeOK, Execs, EngineAssumption
  <2>2. ClaimedRuns' = ClaimedRuns
    BY <2>1 DEF ClaimedRuns
  <2> QED
    BY <1>b, <2>1, <2>2
<1>33. ASSUME PumpThrow PROVE Caps'
  <2>1. /\ UNCHANGED exec /\ pump'.pc = "idle"
        /\ pump.pc \in {"interrupted", "casInterrupted", "queued", "casQueued"}
    BY <1>33 DEF PumpThrow, memory, IdlePump
  <2> QED
    BY <1>e, <2>1
<1>34. ASSUME NEW e \in Execs, ExecThrow(e) PROVE Caps'
  BY <1>c, <1>34, InsideStep DEF ExecThrow, Inside, Slots
<1>35. ASSUME NEW r \in Runs, CancelThrow(r) PROVE Caps'
  BY <1>d, <1>35 DEF CancelThrow, memory
<1>36. ASSUME NEW h \in Resumers, ResumeThrow(h) PROVE Caps'
  BY <1>d, <1>36 DEF ResumeThrow, memory
<1>37. ASSUME Crash PROVE Caps'
  <2>1. pump'.pc = "idle" /\ ClaimedRuns' = {}
    BY <1>37 DEF Crash, IdlePump, NoExec, ClaimedRuns, Live, Execs
  <2> QED
    BY <1>b, <2>1
<1> QED
  BY <1>1, <1>2, <1>3, <1>4, <1>5, <1>6, <1>7, <1>8, <1>9, <1>10, <1>11, <1>12,
     <1>13, <1>14, <1>15, <1>16, <1>17, <1>18, <1>19, <1>20, <1>21, <1>22, <1>23,
     <1>24, <1>25, <1>26, <1>27, <1>28, <1>29, <1>30, <1>31, <1>32, <1>33, <1>34,
     <1>35, <1>36, <1>37
  DEF Next, Recovery, PumpStep, ExecStep, CancelStep, ResumeStep, Throw

-----------------------------------------------------------------------------
(* The recovery pool *)

\* A step that neither recovers a run nor creates one.
Ordinary ==
  /\ \A r \in Runs : /\ row'[r].attempts = row[r].attempts
                     /\ \/ Status(r)' = Status(r)
                        \/ Status(r)' \notin {"absent", "interrupted"}
  /\ UNCHANGED resumed
  /\ boot'.pc # "interrupt" \/ UNCHANGED boot

LEMMA StatusStep ==
  ASSUME row \in [Runs -> Row], NEW r \in Runs, NEW s,
         row' = [row EXCEPT ![r].status = s]
  PROVE  /\ \A q \in Runs : row'[q].attempts = row[q].attempts
         /\ \A q \in Runs : Status(q)' = IF q = r THEN s ELSE Status(q)
<1>1. row[r] \in Row
  OBVIOUS
<1> QED
  BY <1>1 DEF Row, Status

LEMMA CancelledStep ==
  ASSUME row \in [Runs -> Row], NEW r \in Runs,
         row' = [row EXCEPT ![r] = CancelledRow(r)]
  PROVE  /\ \A q \in Runs : row'[q].attempts = row[q].attempts
         /\ \A q \in Runs : Status(q)' = IF q = r THEN "cancelled" ELSE Status(q)
<1>1. row[r] \in Row
  OBVIOUS
<1> QED
  BY <1>1 DEF Row, Status, CancelledRow

LEMMA FieldStep ==
  ASSUME row \in [Runs -> Row], NEW r \in Runs,
         \/ row' = [row EXCEPT ![r].draft = TRUE]
         \/ row' = [row EXCEPT ![r].selected = TRUE]
         \/ row' = [row EXCEPT ![r].finished = TRUE]
         \/ row' = [row EXCEPT ![r].cancelRequested = TRUE]
  PROVE  /\ \A q \in Runs : row'[q].attempts = row[q].attempts
         /\ \A q \in Runs : Status(q)' = Status(q)
<1>1. row[r] \in Row
  OBVIOUS
<1> QED
  BY <1>1 DEF Row, Status

LEMMA PoolStep ==
  ASSUME Slots, Pool, Next
  PROVE  Pool'
<1> USE EngineAssumption DEF Slots, TypeOK, Pool
<1>a. \A r \in Runs : /\ row[r].attempts \in Nat
                      /\ resumed[r] \in Nat
                      /\ RecoveryCap \in Nat
  BY DEF Row, EngineAssumption
<1>b. ASSUME Ordinary
      PROVE  Pool'
  BY <1>b DEF Ordinary, RecoveryInv, RecoveryBounded
<1>c. ASSUME UNCHANGED <<row, resumed>>, boot'.pc # "interrupt" \/ UNCHANGED boot
      PROVE  Pool'
  BY <1>b, <1>c DEF Ordinary, Status
<1>d. ASSUME NEW r \in Runs,
             NEW s \in {"running", "awaiting_hitl", "completed", "failed"},
             row' = [row EXCEPT ![r].status = s], UNCHANGED resumed,
             boot'.pc # "interrupt" \/ UNCHANGED boot
      PROVE  Pool'
  BY <1>b, <1>d, StatusStep DEF Ordinary
<1>e. ASSUME NEW r \in Runs, row' = [row EXCEPT ![r] = CancelledRow(r)],
             UNCHANGED <<resumed, boot>>
      PROVE  Pool'
  BY <1>b, <1>e, CancelledStep DEF Ordinary
<1>f. ASSUME NEW r \in Runs, UNCHANGED resumed,
             boot'.pc # "interrupt" \/ UNCHANGED boot,
             \/ row' = [row EXCEPT ![r].draft = TRUE]
             \/ row' = [row EXCEPT ![r].selected = TRUE]
             \/ row' = [row EXCEPT ![r].finished = TRUE]
             \/ row' = [row EXCEPT ![r].cancelRequested = TRUE]
      PROVE  Pool'
  BY <1>b, <1>f, FieldStep DEF Ordinary
<1>1. ASSUME NEW r \in Runs, BootCancel(r) PROVE Pool'
  BY <1>e, <1>1 DEF BootCancel
<1>2. ASSUME BootCancelsDone PROVE Pool'
  BY <1>c, <1>2 DEF BootCancelsDone
<1>3. ASSUME NEW r \in Runs, BootRetry(r) PROVE Pool'
  <2>1. \A q \in Runs :
          /\ row'[q].attempts = row[q].attempts + (IF q = r THEN 1 ELSE 0)
          /\ Status(q)' = Status(q)
    <3>1. row[r] \in Row
      OBVIOUS
    <3> QED
      BY <1>3, <3>1, <1>a DEF BootRetry, Row, Status
  <2>2. Status(r) = "running" /\ row[r].attempts < RecoveryCap
    BY <1>3 DEF BootRetry, RunningLeftovers
  <2>3. boot'.run = r /\ UNCHANGED resumed
    BY <1>3 DEF BootRetry
  <2> QED
    BY <1>a, <2>1, <2>2, <2>3 DEF RecoveryInv, RecoveryBounded
<1>4. ASSUME BootInterrupt PROVE Pool'
  <2>1. boot.run \in Runs
    BY <1>4 DEF BootInterrupt, Control, BootInv
  <2>2. \A q \in Runs :
          /\ row'[q].attempts = row[q].attempts
          /\ Status(q)' = IF q = boot.run THEN "interrupted" ELSE Status(q)
    BY <1>4, <2>1, StatusStep DEF BootInterrupt
  <2>3. boot.pc = "interrupt" /\ boot'.pc = "leftovers" /\ UNCHANGED resumed
    BY <1>4 DEF BootInterrupt
  <2> QED
    BY <1>a, <2>1, <2>2, <2>3 DEF RecoveryInv, RecoveryBounded
<1>5. ASSUME NEW r \in Runs, BootExhaust(r) PROVE Pool'
  <2>1. row' = [row EXCEPT ![r].status = "failed"] /\ UNCHANGED resumed
        /\ boot'.pc # "interrupt"
    BY <1>5 DEF BootExhaust
  <2> QED
    BY <1>d, <2>1
<1>6. ASSUME BootAnchor PROVE Pool'
  <2>1. boot.run \in Runs
    BY <1>6 DEF BootAnchor, Control, BootInv
  <2> QED
    BY <1>f, <2>1, <1>6 DEF BootAnchor
<1>7. ASSUME BootDone PROVE Pool'
  BY <1>c, <1>7 DEF BootDone
<1>8. ASSUME PumpWake PROVE Pool'
  BY <1>c, <1>8 DEF PumpWake
<1>9. ASSUME PumpFindInterrupted PROVE Pool'
  BY <1>c, <1>9 DEF PumpFindInterrupted
<1>10. ASSUME PumpCasInterrupted PROVE Pool'
  <2>1. pump.run \in Runs
    BY <1>10 DEF PumpCasInterrupted, Control, PumpInv
  <2>2. ASSUME Status(pump.run) = "interrupted",
               row' = [row EXCEPT ![pump.run].status = "running"],
               resumed' = [resumed EXCEPT ![pump.run] = @ + 1],
               UNCHANGED boot
        PROVE  Pool'
    <3>1. \A q \in Runs :
            /\ row'[q].attempts = row[q].attempts
            /\ Status(q)' = IF q = pump.run THEN "running" ELSE Status(q)
      BY <2>1, <2>2, StatusStep
    <3>2. Up
      BY <1>10 DEF PumpCasInterrupted, Control, BootInv
    <3>3. \A q \in Runs :
            resumed'[q] = resumed[q] + (IF q = pump.run THEN 1 ELSE 0)
      BY <2>1, <2>2, <1>a
    <3> QED
      BY <1>a, <2>1, <2>2, <3>1, <3>2, <3>3 DEF RecoveryInv, RecoveryBounded, Up
  <2> QED
    BY <1>c, <1>10, <2>2 DEF PumpCasInterrupted
<1>11. ASSUME PumpFindQueued PROVE Pool'
  BY <1>c, <1>11 DEF PumpFindQueued
<1>12. ASSUME PumpCasQueued PROVE Pool'
  <2>1. pump.run \in Runs
    BY <1>12 DEF PumpCasQueued, Control, PumpInv
  <2>2. ASSUME row' = [row EXCEPT ![pump.run].status = "running"],
               UNCHANGED <<boot, resumed>>
        PROVE  Pool'
    <3>1. \A q \in Runs : row'[q].attempts = row[q].attempts
      BY <2>1, <2>2, StatusStep
    <3>2. \A q \in Runs : Status(q)' = IF q = pump.run THEN "running" ELSE Status(q)
      BY <2>1, <2>2, StatusStep
    <3> QED
      BY <1>b, <2>2, <3>1, <3>2 DEF Ordinary
  <2> QED
    BY <1>c, <1>12, <2>2 DEF PumpCasQueued
<1>13. ASSUME PumpBegin PROVE Pool'
  BY <1>c, <1>13 DEF PumpBegin
<1>14. ASSUME NEW e \in Execs, ExecLoad(e) PROVE Pool'
  BY <1>c, <1>14 DEF ExecLoad
<1>15. ASSUME NEW e \in Execs, ExecPrepare(e) PROVE Pool'
  BY <1>c, <1>15 DEF ExecPrepare
<1>16. ASSUME NEW e \in Execs, ExecPersistDraft(e) PROVE Pool'
  <2>1. exec[e].run \in Runs
    BY <1>16 DEF ExecPersistDraft, Control, ExecInv, Live
  <2> QED
    BY <1>f, <2>1, <1>16 DEF ExecPersistDraft
<1>17. ASSUME NEW e \in Execs, ExecOutcome(e) PROVE Pool'
  BY <1>c, <1>17 DEF ExecOutcome
<1>18. ASSUME NEW e \in Execs, ExecFail(e) PROVE Pool'
  BY <1>c, <1>18 DEF ExecFail
<1>19. ASSUME NEW e \in Execs, ExecAbort(e) PROVE Pool'
  BY <1>c, <1>19 DEF ExecAbort
<1>20. ASSUME NEW e \in Execs, ExecSave(e) PROVE Pool'
  <2>1. /\ exec[e].run \in Runs
        /\ exec[e].to \in {"awaiting_hitl", "completed", "failed"}
    BY <1>20 DEF ExecSave, Control, ExecInv, Live, Exec
  <2> QED
    BY <1>d, <2>1, <1>20 DEF ExecSave
<1>21. ASSUME NEW e \in Execs, ExecAnchor(e) PROVE Pool'
  <2>1. exec[e].run \in Runs
    BY <1>21 DEF ExecAnchor, Control, ExecInv, Live
  <2> QED
    BY <1>f, <2>1, <1>21 DEF ExecAnchor
<1>22. ASSUME NEW e \in Execs, ExecRescue(e) PROVE Pool'
  BY <1>c, <1>22 DEF ExecRescue
<1>23. ASSUME NEW e \in Execs, ExecEnd(e) PROVE Pool'
  BY <1>c, <1>23 DEF ExecEnd
<1>24. ASSUME NEW r \in Runs, StartRun(r) PROVE Pool'
  <2>1. \A q \in Runs \ {r} : row'[q] = row[q]
    BY <1>24 DEF StartRun
  <2>2. row'[r].status = "queued" /\ row'[r].attempts = 0
    BY <1>24 DEF StartRun, NoRow
  <2>3. resumed[r] = 0
    BY <1>24, <1>a DEF StartRun, RecoveryInv, RecoveryBounded
  <2>4. boot'.pc = "up" /\ UNCHANGED resumed
    BY <1>24 DEF StartRun, Up
  <2> QED
    BY <1>a, <2>1, <2>2, <2>3, <2>4 DEF RecoveryInv, RecoveryBounded, Status
<1>25. ASSUME NEW r \in Runs, CancelFlag(r) PROVE Pool'
  BY <1>c, <1>f, <1>25 DEF CancelFlag
<1>26. ASSUME NEW r \in Runs, CancelAttempt(r) PROVE Pool'
  BY <1>c, <1>e, <1>26 DEF CancelAttempt
<1>27. ASSUME NEW r \in Runs, CancelAbort(r) PROVE Pool'
  BY <1>c, <1>27 DEF CancelAbort
<1>28. ASSUME NEW r \in Runs, CancelRead(r) PROVE Pool'
  BY <1>c, <1>28 DEF CancelRead
<1>29. ASSUME NEW h \in Resumers, NEW r \in Runs, ResumeRead(h, r) PROVE Pool'
  BY <1>c, <1>29 DEF ResumeRead
<1>30. ASSUME NEW h \in Resumers, ResumeSelect(h) PROVE Pool'
  <2>1. hitl[h].run \in Runs
    BY <1>30 DEF ResumeSelect, Control, HitlInv
  <2> QED
    BY <1>f, <2>1, <1>30 DEF ResumeSelect
<1>31. ASSUME NEW h \in Resumers, ResumeSave(h) PROVE Pool'
  <2>1. hitl[h].run \in Runs
    BY <1>31 DEF ResumeSave, Control, HitlInv
  <2> QED
    BY <1>d, <2>1, <1>31 DEF ResumeSave
<1>32. ASSUME NEW h \in Resumers, ResumeNotify(h) PROVE Pool'
  BY <1>c, <1>32 DEF ResumeNotify
<1>33. ASSUME PumpThrow PROVE Pool'
  BY <1>c, <1>33 DEF PumpThrow
<1>34. ASSUME NEW e \in Execs, ExecThrow(e) PROVE Pool'
  BY <1>c, <1>34 DEF ExecThrow
<1>35. ASSUME NEW r \in Runs, CancelThrow(r) PROVE Pool'
  BY <1>c, <1>35 DEF CancelThrow
<1>36. ASSUME NEW h \in Resumers, ResumeThrow(h) PROVE Pool'
  BY <1>c, <1>36 DEF ResumeThrow
<1>37. ASSUME Crash PROVE Pool'
  BY <1>c, <1>37 DEF Crash
<1> QED
  BY <1>1, <1>2, <1>3, <1>4, <1>5, <1>6, <1>7, <1>8, <1>9, <1>10, <1>11, <1>12,
     <1>13, <1>14, <1>15, <1>16, <1>17, <1>18, <1>19, <1>20, <1>21, <1>22, <1>23,
     <1>24, <1>25, <1>26, <1>27, <1>28, <1>29, <1>30, <1>31, <1>32, <1>33, <1>34,
     <1>35, <1>36, <1>37
  DEF Next, Recovery, PumpStep, ExecStep, CancelStep, ResumeStep, Throw

-----------------------------------------------------------------------------
(* The theorems *)

LEMMA InitInv ==
  ASSUME Init
  PROVE  Slots /\ Caps /\ Pool
<1> USE EngineAssumption DEF Init
<1>1. TypeOK
  <2>1. NoRow \in Row
    BY DEF NoRow, Row
  <2>2. NoExec \in Exec
    BY DEF NoExec, Exec
  <2>3. IdlePump \in Pump
    BY DEF IdlePump, Pump
  <2>4. spent \in [crashes : 0..MaxCrashes, faults : 0..MaxFaults]
    BY DEF EngineAssumption
  <2> QED
    BY <2>1, <2>2, <2>3, <2>4 DEF TypeOK
<1>2. Control
  BY DEF Control, ExecInv, PumpInv, HitlInv, BootInv, IdlePump, NoExec, Live, Up
<1>3. SlotAccounting
  <2>1. LiveExecs = {}
    BY DEF LiveExecs, Live, NoExec
  <2> QED
    BY <2>1, FS_EmptySet DEF SlotAccounting
<1>4. Caps
  <2>1. ClaimedRuns = {}
    BY DEF ClaimedRuns, Live, NoExec, IdlePump, Execs
  <2> QED
    BY <2>1, FS_EmptySet DEF Caps, CapInv, ClaimedWithinCap, EngineAssumption
<1>5. Pool
  BY DEF Pool, RecoveryInv, RecoveryBounded, NoRow, Status, EngineAssumption
<1> QED
  BY <1>1, <1>2, <1>3, <1>4, <1>5 DEF Slots

\* Stuttering disturbs nothing.
LEMMA StutterInv ==
  ASSUME Slots, Caps, Pool, UNCHANGED vars
  PROVE  Slots' /\ Caps' /\ Pool'
<1> USE DEF vars
<1>1. Slots'
  BY DEF Slots, TypeOK, Control, ExecInv, PumpInv, HitlInv, BootInv, TakenUp,
         Live, Up, Status, SlotAccounting, LiveExecs
<1>2. Caps'
  BY DEF Caps, CapInv, ClaimedWithinCap, ClaimedRuns, Live
<1>3. Pool'
  BY DEF Pool, RecoveryInv, RecoveryBounded, Status
<1> QED
  BY <1>1, <1>2, <1>3

LEMMA InductiveInv ==
  Spec => [](Slots /\ Caps /\ Pool)
<1>1. Init => Slots /\ Caps /\ Pool
  BY InitInv
<1>2. Slots /\ Caps /\ Pool /\ [Next]_vars => (Slots /\ Caps /\ Pool)'
  <2>1. ASSUME Slots, Caps, Pool, Next
        PROVE  Slots' /\ Caps' /\ Pool'
    <3>1. Slots'
      BY <2>1, TypeStep, ControlStep, SlotStep DEF Slots
    <3> QED
      BY <2>1, <3>1, CapStep, PoolStep
  <2> QED
    BY <2>1, StutterInv
<1> QED
  BY <1>1, <1>2, PTL DEF Spec

\* The state of the core keeps its type: in particular no handler ever applies
\* a statement to a run it does not have (worker, cancel and HITL use cases).
THEOREM TypeCorrect == Spec => []TypeOK
<1>1. Slots => TypeOK
  BY DEF Slots
<1> QED
  BY <1>1, InductiveInv, PTL

\* In the in-process worker inFlight is the number of live executions,
\* whatever crashes, throws, cancels and double resumes happen.
THEOREM SlotsAccounted == Spec => []SlotAccounting
<1>1. Slots => SlotAccounting
  BY DEF Slots
<1> QED
  BY <1>1, InductiveInv, PTL

\* R-6: the pump never holds more than MAX_CONCURRENT_RUNS claimed runs, for
\* any cap, although drain() reads inFlight before it awaits the claim.
THEOREM ClaimsWithinCap == Spec => []ClaimedWithinCap
<1>1. Caps => ClaimedWithinCap
  BY DEF Caps
<1> QED
  BY <1>1, InductiveInv, PTL

\* R-9: recovery puts a run back to work at most RECOVERY_CAP times, however
\* often the process crashes, in the middle of recovery included.
THEOREM RecoveryStaysBounded == Spec => []RecoveryBounded
<1>1. Pool => RecoveryBounded
  BY DEF Pool
<1> QED
  BY <1>1, InductiveInv, PTL
=============================================================================
