----------------------- MODULE RunEngineHolderProofs -----------------------
(***************************************************************************)
(* Theorems about who holds a run of RunEngine, for every set of runs,     *)
(* every cap and any number of crashes, faults and requests.               *)
(*                                                                         *)
(* The first part is the order in which the drain takes runs.  A claim is  *)
(* decided by a read and made by a later statement, so its invariant says  *)
(* that what the read found is still true in between.                      *)
(*                                                                         *)
(* The second part is the hand: at most one execution or request works for *)
(* a run, and the run's status is the one its holder left.  The code keeps *)
(* that only while a choice is saved for a run that is still paused, so    *)
(* the theorems have this as a hypothesis on the behaviour; a second one   *)
(* bounds what may throw.  Its last theorems discharge both hypotheses for *)
(* users who do not fight over a run, whatever the runs, caps and crashes. *)
(*                                                                         *)
(* The third part is what keeps the engine moving: a run that may be taken *)
(* has a drain or an execution before it, and recovery and the drain carry *)
(* a rank that their steps lower and nobody raises behind their back.      *)
(***************************************************************************)
EXTENDS RunEngineProofs, WellFoundedInduction

-----------------------------------------------------------------------------
(* What a move of an execution leaves as it was *)

LEMMA GotoShape ==
  ASSUME TypeOK, NEW e \in Execs, NEW pc, Goto(e, pc)
  PROVE  exec'[e].pc = pc /\ exec'[e].catcher = exec[e].catcher /\ exec'[e].run = exec[e].run
<1>1. exec \in [Execs -> Exec] /\ exec[e] \in Exec
  BY DEF TypeOK
<1> QED
  BY <1>1 DEF Goto, Exec

LEMMA LeaveShape ==
  ASSUME TypeOK, NEW e \in Execs, NEW to, NEW c, Leave(e, to, c)
  PROVE  /\ exec'[e].pc = "save" /\ exec'[e].to = to /\ exec'[e].catcher = c
         /\ exec'[e].run = exec[e].run
<1>1. exec \in [Execs -> Exec] /\ exec[e] \in Exec
  BY DEF TypeOK
<1> QED
  BY <1>1 DEF Leave, Exec

\* A plain move, and a departure to the save, keep the run, the way it was
\* begun and every other execution.
LEMMA MoveKeeps ==
  ASSUME NEW e \in Execs, exec \in [Execs -> Exec],
         (\E pc : Goto(e, pc)) \/ (\E to, c : Leave(e, to, c))
  PROVE  /\ exec'[e].run = exec[e].run /\ exec'[e].sel = exec[e].sel
         /\ \A d \in Execs \ {e} : exec'[d] = exec[d]
<1>1. exec[e] \in Exec
  OBVIOUS
<1>2. CASE \E pc : Goto(e, pc)
  <2>1. PICK pc : Goto(e, pc)
    BY <1>2
  <2> QED
    BY <1>1, <2>1 DEF Goto, Exec
<1>3. CASE \E to, c : Leave(e, to, c)
  <2>1. PICK to, c : Leave(e, to, c)
    BY <1>3
  <2> QED
    BY <1>1, <2>1 DEF Leave, Exec
<1> QED
  BY <1>2, <1>3

\* So does an execution that turns to work, or whose save is being rescued.
Turn(e, pc, c) == exec' = [exec EXCEPT ![e] = [@ EXCEPT !.pc = pc, !.catcher = c]]

LEMMA TurnKeeps ==
  ASSUME NEW e \in Execs, exec \in [Execs -> Exec], NEW pc, NEW c, Turn(e, pc, c)
  PROVE  /\ exec'[e].pc = pc /\ exec'[e].run = exec[e].run /\ exec'[e].sel = exec[e].sel
         /\ \A d \in Execs \ {e} : exec'[d] = exec[d]
<1>1. exec[e] \in Exec
  OBVIOUS
<1> QED
  BY <1>1 DEF Exec, Turn

-----------------------------------------------------------------------------
(* The inductive invariant *)

\* Executions and HITL requests hold runs that have left the queue.
HolderInv ==
  /\ \A e \in Execs : Live(e) => TakenUp(exec[e].run)
  /\ \A h \in Resumers :
       hitl[h].pc \in {"select", "save", "notify"} => TakenUp(hitl[h].run)

\* Recovery is between its two statements on a run, and nobody else acts.
RecoveringInv ==
  /\ boot.pc = "interrupt" => Status(boot.run) = "running"
  /\ boot.pc = "anchor" => Status(boot.run) = "failed"
  /\ ~Up => \A r \in Runs : cancel[r] = "idle"

\* Runs are older than the one that will be created next.
AgeInv == \A r \in Created : row[r].createdAt < Cardinality(Created)

Waiting(q) == Status(q) = "interrupted" /\ ~row[q].cancelRequested

\* What the drain has read still holds.
FoundInv ==
  /\ pump.pc \in {"queued", "casQueued"} => \A q \in Runs : ~Waiting(q)
  /\ pump.pc \in {"casInterrupted", "casQueued"} => Status(pump.run) # "absent"
  /\ pump.pc = "casInterrupted" =>
       \A q \in Runs : Waiting(q) => row[pump.run].createdAt <= row[q].createdAt
  /\ pump.pc = "casQueued" =>
       \A q \in Runs : Status(q) = "queued" =>
         row[pump.run].createdAt <= row[q].createdAt

OrderInv == HolderInv /\ RecoveringInv /\ AgeInv /\ FoundInv

-----------------------------------------------------------------------------
(* What a step may do to a row *)

\* The drain's update of the run it has found.
ClaimsFound(r) ==
  /\ pump.run = r
  /\ \/ pump.pc = "casInterrupted" /\ Waiting(r)
     \/ pump.pc = "casQueued" /\ Status(r) = "queued"

Moves(r) ==
  /\ Status(r) # "absent" /\ Status(r)' \notin {"absent", "queued"}
  /\ Status(r)' = "interrupted" => ~Up
  /\ Status(r) = "cancelled" => Held(r)
  /\ Claims(r) => ClaimsFound(r)

Effect(r) ==
  /\ row'[r].createdAt = row[r].createdAt
  /\ \/ /\ Status(r)' = Status(r)
        /\ row[r].cancelRequested => row'[r].cancelRequested
     \/ Moves(r)

LEMMA MoveEffect ==
  ASSUME row \in [Runs -> Row], NEW r \in Runs, NEW s \in RunStatuses,
         row' = [row EXCEPT ![r].status = s],
         s # "queued", s # "absent", Status(r) # "absent",
         s = "interrupted" => ~Up,
         Status(r) = "cancelled" => Held(r),
         s = "running" /\ Status(r) \in {"queued", "interrupted"} => ClaimsFound(r)
  PROVE  \A q \in Runs : Effect(q)
<1>1. row[r] \in Row
  OBVIOUS
<1>2. \A q \in Runs \ {r} : row'[q] = row[q]
  OBVIOUS
<1>3. row'[r].status = s /\ row'[r].createdAt = row[r].createdAt
  BY <1>1 DEF Row
<1>4. Effect(r)
  BY <1>3 DEF Effect, Moves, Claims, Status
<1> QED
  BY <1>2, <1>4 DEF Effect, Status

LEMMA CancelEffect ==
  ASSUME row \in [Runs -> Row], NEW r \in Runs,
         row' = [row EXCEPT ![r] = CancelledRow(r)],
         Status(r) \notin {"absent", "cancelled"}
  PROVE  \A q \in Runs : Effect(q)
<1>1. row[r] \in Row
  OBVIOUS
<1>2. \A q \in Runs \ {r} : row'[q] = row[q]
  OBVIOUS
<1>3. row'[r].status = "cancelled" /\ row'[r].createdAt = row[r].createdAt
  BY <1>1 DEF Row, CancelledRow
<1>4. Effect(r)
  BY <1>3 DEF Effect, Moves, Claims, Status
<1> QED
  BY <1>2, <1>4 DEF Effect, Status

LEMMA FieldEffect ==
  ASSUME row \in [Runs -> Row], NEW r \in Runs,
         \/ row' = [row EXCEPT ![r].draft = TRUE]
         \/ row' = [row EXCEPT ![r].selected = TRUE]
         \/ row' = [row EXCEPT ![r].finished = TRUE]
         \/ row' = [row EXCEPT ![r].cancelRequested = TRUE]
         \/ row' = [row EXCEPT ![r].attempts = @ + 1]
  PROVE  \A q \in Runs : Effect(q)
<1>1. row[r] \in Row
  OBVIOUS
<1> QED
  BY <1>1 DEF Row, Effect, Status

LEMMA SameRows ==
  ASSUME row' = row
  PROVE  \A q \in Runs : Effect(q)
BY DEF Effect, Status

\* The actions that do something else to the Run table than to create a run.
LEMMA RowEffect ==
  ASSUME Slots, OrderInv, Next, \A r \in Runs : ~StartRun(r)
  PROVE  \A q \in Runs : Effect(q)
<1>0. row \in [Runs -> Row] /\ exec \in [Execs -> Exec] /\ Control
  BY DEF Slots, TypeOK
<1>1. ASSUME NEW r \in Runs, BootCancel(r) PROVE \A q \in Runs : Effect(q)
  BY <1>0, <1>1, CancelEffect DEF BootCancel, CancelLeftovers
<1>2. ASSUME NEW r \in Runs, BootRetry(r) PROVE \A q \in Runs : Effect(q)
  BY <1>0, <1>2, FieldEffect DEF BootRetry
<1>3. ASSUME BootInterrupt PROVE \A q \in Runs : Effect(q)
  <2>1. PICK r \in Runs : r = boot.run
    BY <1>0, <1>3 DEF BootInterrupt, Control, BootInv
  <2>2. Status(r) # "absent" /\ Status(r) # "cancelled" /\ ~Up
    BY <2>1, <1>3 DEF BootInterrupt, OrderInv, RecoveringInv, Up
  <2>3. row' = [row EXCEPT ![r].status = "interrupted"]
    BY <2>1, <1>3 DEF BootInterrupt
  <2> QED
    BY <1>0, <2>2, <2>3, StatusNames, MoveEffect
<1>4. ASSUME NEW r \in Runs, BootExhaust(r) PROVE \A q \in Runs : Effect(q)
  BY <1>0, <1>4, StatusNames, MoveEffect DEF BootExhaust, RunningLeftovers
<1>5. ASSUME BootAnchor PROVE \A q \in Runs : Effect(q)
  <2>1. boot.run \in Runs
    BY <1>0, <1>5 DEF BootAnchor, Control, BootInv
  <2> QED
    BY <1>0, <1>5, <2>1, FieldEffect DEF BootAnchor
<1>6. ASSUME PumpCasInterrupted PROVE \A q \in Runs : Effect(q)
  <2>1. pump.run \in Runs /\ pump.pc = "casInterrupted"
    BY <1>0, <1>6 DEF PumpCasInterrupted, Control, PumpInv
  <2> QED
    BY <1>0, <1>6, <2>1, StatusNames, MoveEffect, SameRows DEF PumpCasInterrupted, ClaimsFound, Waiting
<1>7. ASSUME PumpCasQueued PROVE \A q \in Runs : Effect(q)
  <2>1. pump.run \in Runs /\ pump.pc = "casQueued"
    BY <1>0, <1>7 DEF PumpCasQueued, Control, PumpInv
  <2> QED
    BY <1>0, <1>7, <2>1, StatusNames, MoveEffect, SameRows DEF PumpCasQueued, ClaimsFound
<1>8. ASSUME NEW e \in Execs, ExecPersistDraft(e) \/ ExecAnchor(e)
      PROVE  \A q \in Runs : Effect(q)
  <2>1. exec[e].run \in Runs
    BY <1>0, <1>8 DEF ExecPersistDraft, ExecAnchor, Control, ExecInv, Live
  <2> QED
    BY <1>0, <1>8, <2>1, FieldEffect DEF ExecPersistDraft, ExecAnchor
<1>9. ASSUME NEW e \in Execs, ExecSave(e) PROVE \A q \in Runs : Effect(q)
  <2>1. /\ exec[e].run \in Runs
        /\ exec[e].to \in {"awaiting_hitl", "completed", "failed"}
    BY <1>0, <1>9 DEF ExecSave, Control, ExecInv, Live, Exec
  <2>2. Held(exec[e].run) /\ Status(exec[e].run) # "absent"
    BY <1>0, <1>9 DEF ExecSave, Held, Working, OrderInv, HolderInv, TakenUp, Live
  <2> QED
    BY <1>0, <1>9, <2>1, <2>2, StatusNames, MoveEffect DEF ExecSave
<1>10. ASSUME NEW r \in Runs, CancelFlag(r) PROVE \A q \in Runs : Effect(q)
  BY <1>0, <1>10, FieldEffect, SameRows DEF CancelFlag
<1>11. ASSUME NEW r \in Runs, CancelAttempt(r) PROVE \A q \in Runs : Effect(q)
  BY <1>0, <1>11, CancelEffect, SameRows DEF CancelAttempt, Cancelable
<1>12. ASSUME NEW h \in Resumers, ResumeSelect(h) PROVE \A q \in Runs : Effect(q)
  <2>1. hitl[h].run \in Runs
    BY <1>0, <1>12 DEF ResumeSelect, Control, HitlInv
  <2> QED
    BY <1>0, <1>12, <2>1, FieldEffect DEF ResumeSelect
<1>13. ASSUME NEW h \in Resumers, ResumeSave(h) PROVE \A q \in Runs : Effect(q)
  <2>1. PICK r \in Runs : r = hitl[h].run
    BY <1>0, <1>13 DEF ResumeSave, Control, HitlInv
  <2>2. Held(r) /\ TakenUp(r)
    BY <2>1, <1>13 DEF ResumeSave, Held, OrderInv, HolderInv
  <2>3. row' = [row EXCEPT ![r].status = "running"]
    BY <2>1, <1>13 DEF ResumeSave
  <2>4. Status(r) \notin {"absent", "queued", "interrupted"}
    BY <2>2 DEF TakenUp
  <2> QED
    BY <1>0, <2>2, <2>3, <2>4, StatusNames, MoveEffect
<1>14. ASSUME UNCHANGED row PROVE \A q \in Runs : Effect(q)
  BY <1>14, SameRows
<1>15. ASSUME PumpFindInterrupted PROVE UNCHANGED row
  BY <1>15 DEF PumpFindInterrupted
<1>16. ASSUME PumpFindQueued PROVE UNCHANGED row
  BY <1>16 DEF PumpFindQueued
<1>17. ASSUME Crash \/ PumpThrow \/ PumpBegin \/ PumpWake \/ BootDone \/ BootCancelsDone
       PROVE  UNCHANGED row
  BY <1>17 DEF Crash, PumpThrow, PumpBegin, PumpWake, BootDone, BootCancelsDone
<1>18. ASSUME NEW e \in Execs,
              \/ ExecLoad(e) \/ ExecPrepare(e) \/ ExecOutcome(e) \/ ExecFail(e)
              \/ ExecAbort(e) \/ ExecRescue(e) \/ ExecEnd(e) \/ ExecThrow(e)
       PROVE  UNCHANGED row
  BY <1>18 DEF ExecLoad, ExecPrepare, ExecOutcome, ExecFail, ExecAbort, ExecRescue,
               ExecEnd, ExecThrow
<1>19. ASSUME NEW r \in Runs, CancelAbort(r) \/ CancelRead(r) \/ CancelThrow(r)
       PROVE  UNCHANGED row
  BY <1>19 DEF CancelAbort, CancelRead, CancelThrow
<1>20. ASSUME NEW h \in Resumers,
              \/ \E r \in Runs : ResumeRead(h, r)
              \/ ResumeNotify(h) \/ ResumeThrow(h)
       PROVE  UNCHANGED row
  BY <1>20 DEF ResumeRead, ResumeNotify, ResumeThrow
<1> QED
  BY <1>1, <1>2, <1>3, <1>4, <1>5, <1>6, <1>7, <1>8, <1>9, <1>10, <1>11, <1>12,
     <1>13, <1>14, <1>15, <1>16, <1>17, <1>18, <1>19, <1>20, EngineAssumption
  DEF Next, Recovery, PumpStep, ExecStep, CancelStep, ResumeStep, Throw, EngineAssumption
-----------------------------------------------------------------------------
(* What any step leaves true of a run *)

LEMMA StartEffect ==
  ASSUME row \in [Runs -> Row], NEW r \in Runs, StartRun(r)
  PROVE  /\ Up /\ Status(r) = "absent" /\ Status(r)' = "queued"
         /\ row'[r].createdAt = Cardinality(Created)
         /\ \A q \in Runs \ {r} : row'[q] = row[q]
BY DEF StartRun, NoRow, Status

LEMMA RunKept ==
  ASSUME Slots, OrderInv, Next, NEW q \in Runs
  PROVE  /\ Status(q) # "absent" =>
              Status(q)' # "absent" /\ row'[q].createdAt = row[q].createdAt
         /\ Up /\ TakenUp(q) => TakenUp(q)'
         /\ Up /\ Waiting(q)' => Waiting(q)
         /\ Status(q)' = "queued" => Status(q) = "queued" \/ StartRun(q)
<1>0. row \in [Runs -> Row]
  BY DEF Slots, TypeOK
<1>1. CASE \A r \in Runs : ~StartRun(r)
  <2>1. Effect(q)
    BY <1>1, RowEffect
  <2> QED
    BY <2>1 DEF Effect, Moves, TakenUp, Waiting, Status
<1>2. ASSUME NEW r \in Runs, StartRun(r)
      PROVE  /\ Status(q) # "absent" =>
                  Status(q)' # "absent" /\ row'[q].createdAt = row[q].createdAt
             /\ Up /\ TakenUp(q) => TakenUp(q)'
             /\ Up /\ Waiting(q)' => Waiting(q)
             /\ Status(q)' = "queued" => Status(q) = "queued" \/ StartRun(q)
  BY <1>0, <1>2, StartEffect DEF TakenUp, Waiting, Status
<1> QED
  BY <1>1, <1>2

-----------------------------------------------------------------------------
(* The reads of the drain *)

\* findFirst comes back empty only from an empty table.
LEMMA OldestExists ==
  ASSUME row \in [Runs -> Row], NEW S \in SUBSET Runs, Oldest(S) = {}
  PROVE  S = {}
<1> DEFINE Ages == {row[q].createdAt : q \in S}
           Less == OpToRel(<, Nat)
<1>1. \A q \in S : row[q].createdAt \in Nat
  BY DEF Row
<1>2. \A m, n \in Nat : m < n => <<m, n>> \in Less
  BY DEF OpToRel
<1>3. ASSUME S # {} PROVE FALSE
  <2>1. Ages \subseteq Nat /\ Ages # {}
    BY <1>1, <1>3
  <2>2. PICK a \in Ages : \A b \in Ages : ~(<<b, a>> \in Less)
    <3> HIDE DEF Ages, Less
    <3>1. IsWellFoundedOn(Less, Nat)
      BY NatLessThanWellFounded DEF Less
    <3> QED
      BY <2>1, <3>1, WFMin
  <2> HIDE DEF Less
  <2>3. \A b \in Ages : a <= b
    <3> HIDE DEF Ages
    <3>1. a \in Nat
      BY <2>1, <2>2
    <3>2. ASSUME NEW b \in Ages PROVE a <= b
      <4>1. b \in Nat /\ ~(b < a)
        BY <1>2, <2>1, <2>2, <3>1
      <4> QED
        BY <3>1, <4>1
    <3> QED
      BY <3>2
  <2>4. PICK r \in S : a = row[r].createdAt
    OBVIOUS
  <2>5. r \in Oldest(S)
    BY <2>3, <2>4 DEF Oldest
  <2> QED
    BY <2>5
<1> QED
  BY <1>3

-----------------------------------------------------------------------------
(* Who holds a run *)

Holding(h) == hitl[h].pc \in {"select", "save", "notify"}

\* Whoever holds a run after a step holds one that had been taken up before it.
LEMMA Holders ==
  ASSUME Slots, OrderInv, Next
  PROVE  /\ \A e \in Execs : Live(e)' =>
              Up /\ exec'[e].run \in Runs /\ TakenUp(exec'[e].run)
         /\ \A h \in Resumers : Holding(h)' =>
              Up /\ hitl'[h].run \in Runs /\ TakenUp(hitl'[h].run)
<1> DEFINE Good == /\ \A e \in Execs : Live(e)' =>
                        Up /\ exec'[e].run \in Runs /\ TakenUp(exec'[e].run)
                   /\ \A h \in Resumers : Holding(h)' =>
                        Up /\ hitl'[h].run \in Runs /\ TakenUp(hitl'[h].run)
<1>0. /\ TypeOK /\ exec \in [Execs -> Exec]
      /\ hitl \in [Resumers -> [pc  : {"idle", "select", "save", "notify", "done"},
                                run : Runs \cup {None}]]
  BY DEF Slots, TypeOK
<1>a. /\ \A e \in Execs : Live(e) =>
           Up /\ exec[e].run \in Runs /\ TakenUp(exec[e].run)
      /\ \A h \in Resumers : Holding(h) =>
           Up /\ hitl[h].run \in Runs /\ TakenUp(hitl[h].run)
  BY DEF Slots, Control, ExecInv, HitlInv, BootInv, OrderInv, HolderInv, Holding
<1>b. ASSUME SameExecs, UNCHANGED hitl PROVE Good
  BY <1>a, <1>b DEF SameExecs, Holding
<1>c. ASSUME UNCHANGED <<exec, hitl>> PROVE Good
  BY <1>a, <1>c DEF Live, Holding
<1>d. ASSUME UNCHANGED exec,
             \A h \in Resumers : Holding(h)' =>
               \/ hitl'[h] = hitl[h]
               \/ Up /\ hitl'[h].run \in Runs /\ TakenUp(hitl'[h].run)
      PROVE  Good
  BY <1>a, <1>d DEF Live, Holding
<1>1. ASSUME \/ \E r \in Runs : BootCancel(r) \/ BootRetry(r) \/ BootExhaust(r)
             \/ BootCancelsDone \/ BootInterrupt \/ BootAnchor \/ BootDone
      PROVE  UNCHANGED <<exec, hitl>>
  BY <1>1 DEF BootCancel, BootRetry, BootExhaust, BootCancelsDone, BootInterrupt,
              BootAnchor, BootDone, memory, handlers
<1>2. ASSUME \/ PumpWake \/ PumpFindInterrupted \/ PumpCasInterrupted
             \/ PumpFindQueued \/ PumpCasQueued \/ PumpThrow
      PROVE  UNCHANGED <<exec, hitl>>
  BY <1>2 DEF PumpWake, PumpFindInterrupted, PumpCasInterrupted, PumpFindQueued,
              PumpCasQueued, PumpThrow, memory, handlers
<1>3. ASSUME PumpBegin PROVE Good
  <2>1. /\ pump.run \in Runs /\ TakenUp(pump.run) /\ Up
        /\ UNCHANGED hitl
    BY <1>3 DEF PumpBegin, Slots, Control, PumpInv, BootInv, handlers
  <2>2. \A e \in Execs : \/ exec'[e] = exec[e]
                         \/ e = pump.run /\ exec'[e].run = pump.run
    BY <1>0, <1>3 DEF PumpBegin, Begin
  <2> QED
    BY <1>a, <2>1, <2>2 DEF Live, Holding
<1>4. ASSUME NEW e \in Execs, Inside(e) PROVE Good
  <2>1. SameExecs
    BY <1>0, <1>4, InsideStep
  <2>2. UNCHANGED hitl
    BY <1>4 DEF Inside, ExecLoad, ExecPrepare, ExecPersistDraft, ExecOutcome,
                ExecFail, ExecAbort, ExecSave, ExecAnchor, ExecRescue, ExecThrow,
                handlers
  <2> QED
    BY <1>b, <2>1, <2>2
<1>5. ASSUME NEW e \in Execs, ExecEnd(e) PROVE Good
  <2>1. UNCHANGED hitl
    BY <1>5 DEF ExecEnd, handlers
  <2>2. \A d \in Execs : Live(d)' => exec'[d] = exec[d]
    BY <1>0, <1>5 DEF ExecEnd, NoExec, Live
  <2> QED
    BY <1>a, <2>1, <2>2 DEF Live, Holding
<1>6. ASSUME NEW r \in Runs,
             \/ StartRun(r) \/ CancelFlag(r) \/ CancelAttempt(r) \/ CancelAbort(r)
             \/ CancelRead(r) \/ CancelThrow(r)
      PROVE  UNCHANGED <<exec, hitl>>
  BY <1>6 DEF StartRun, CancelFlag, CancelAttempt, CancelAbort, CancelRead,
              CancelThrow, memory, handlers
<1>7. ASSUME NEW h \in Resumers, NEW r \in Runs, ResumeRead(h, r) PROVE Good
  <2>1. UNCHANGED exec /\ Up /\ TakenUp(r)
    BY <1>7 DEF ResumeRead, TakenUp, memory
  <2>2. \A k \in Resumers : hitl'[k] = hitl[k] \/ hitl'[k].run = r
    BY <1>0, <1>7 DEF ResumeRead
  <2> QED
    BY <1>d, <2>1, <2>2
<1>8. ASSUME NEW h \in Resumers, ResumeSelect(h) \/ ResumeSave(h) \/ ResumeThrow(h)
      PROVE  Good
  <2>1. UNCHANGED exec
    BY <1>8 DEF ResumeSelect, ResumeSave, ResumeThrow, memory
  <2>2. \A k \in Resumers \ {h} : hitl'[k] = hitl[k]
    BY <1>0, <1>8 DEF ResumeSelect, ResumeSave, ResumeThrow, HitlGoto
  <2>3. Holding(h)' => Holding(h) /\ hitl'[h].run = hitl[h].run
    <3>1. hitl[h] \in [pc  : {"idle", "select", "save", "notify", "done"},
                      run : Runs \cup {None}]
      BY <1>0
    <3> QED
      BY <1>0, <1>8, <3>1
      DEF ResumeSelect, ResumeSave, ResumeThrow, HitlGoto, Holding
  <2> QED
    BY <1>a, <1>d, <2>1, <2>2, <2>3
<1>9. ASSUME NEW h \in Resumers, ResumeNotify(h) PROVE Good
  <2>1. /\ Up /\ hitl[h].run \in Runs /\ TakenUp(hitl[h].run)
        /\ \A k \in Resumers : Holding(k)' => hitl'[k] = hitl[k]
    BY <1>0, <1>9, <1>a DEF ResumeNotify, Holding
  <2>2. \A e \in Execs : \/ exec'[e] = exec[e]
                         \/ e = h /\ exec'[e].run = hitl[h].run
    BY <1>0, <1>9 DEF ResumeNotify, Begin
  <2> QED
    BY <1>a, <2>1, <2>2 DEF Live, Holding
<1>10. ASSUME Crash PROVE Good
  BY <1>10 DEF Crash, NoExec, Live, Holding
<1> HIDE DEF Good
<1>11. Good
  BY <1>c, <1>1, <1>2, <1>3, <1>4, <1>5, <1>6, <1>7, <1>8, <1>9, <1>10,
     EngineAssumption
  DEF EngineAssumption, Next, Recovery, PumpStep, ExecStep, CancelStep, ResumeStep,
      Throw, Inside
<1> QED
  BY <1>11 DEF Good

LEMMA HolderStep ==
  ASSUME Slots, OrderInv, Next
  PROVE  HolderInv'
<1>1. ASSUME NEW q \in Runs, Up, TakenUp(q) PROVE TakenUp(q)'
  BY <1>1, RunKept
<1>2. ASSUME NEW e \in Execs, Live(e)' PROVE TakenUp(exec[e].run)'
  <2>1. PICK q \in Runs : q = exec'[e].run /\ Up /\ TakenUp(q)
    BY <1>2, Holders
  <2> QED
    BY <2>1, <1>1 DEF TakenUp, Status
<1>3. ASSUME NEW h \in Resumers, Holding(h)' PROVE TakenUp(hitl[h].run)'
  <2>1. PICK q \in Runs : q = hitl'[h].run /\ Up /\ TakenUp(q)
    BY <1>3, Holders
  <2> QED
    BY <2>1, <1>1 DEF TakenUp, Status
<1> QED
  BY <1>2, <1>3 DEF HolderInv, Holding

-----------------------------------------------------------------------------
(* Recovery acts alone *)

LEMMA OthersServe ==
  ASSUME Slots, OrderInv, Next
  PROVE  (~Up /\ Recovery) \/ (Up /\ UNCHANGED boot) \/ Crash
<1>0. Control /\ RecoveringInv
  BY DEF Slots, OrderInv
<1>1. ASSUME Recovery PROVE ~Up
  BY <1>1 DEF Recovery, BootCancel, BootRetry, BootExhaust, BootCancelsDone,
              BootInterrupt, BootAnchor, BootDone, Up
<1>2. ASSUME PumpStep \/ PumpThrow PROVE Up /\ UNCHANGED boot
  BY <1>0, <1>2 DEF PumpStep, PumpWake, PumpFindInterrupted, PumpCasInterrupted,
     PumpFindQueued, PumpCasQueued, PumpBegin, PumpThrow, Control, BootInv
<1>3. ASSUME NEW e \in Execs, ExecStep(e) \/ ExecThrow(e) PROVE Up /\ UNCHANGED boot
  <2>1. Live(e)
    BY <1>3 DEF ExecStep, ExecLoad, ExecPrepare, ExecPersistDraft, ExecOutcome,
                ExecFail, ExecAbort, ExecSave, ExecAnchor, ExecRescue, ExecEnd,
                ExecThrow, Live
  <2>2. UNCHANGED boot
    BY <1>3 DEF ExecStep, ExecLoad, ExecPrepare, ExecPersistDraft, ExecOutcome,
                ExecFail, ExecAbort, ExecSave, ExecAnchor, ExecRescue, ExecEnd,
                ExecThrow
  <2> QED
    BY <1>0, <2>1, <2>2 DEF Control, BootInv
<1>4. ASSUME NEW r \in Runs,
             StartRun(r) \/ CancelStep(r) \/ CancelRead(r) \/ CancelThrow(r)
      PROVE  Up /\ UNCHANGED boot
  BY <1>0, <1>4 DEF StartRun, CancelStep, CancelFlag, CancelAttempt, CancelAbort,
                    CancelRead, CancelThrow, RecoveringInv
<1>5. ASSUME NEW h \in Resumers,
             \/ ResumeStep(h) \/ ResumeThrow(h)
             \/ \E r \in Runs : ResumeRead(h, r)
      PROVE  Up /\ UNCHANGED boot
  BY <1>0, <1>5 DEF ResumeStep, ResumeSelect, ResumeSave, ResumeNotify,
                    ResumeThrow, ResumeRead, Control, BootInv
<1> QED
  BY <1>1, <1>2, <1>3, <1>4, <1>5, EngineAssumption
  DEF Next, Throw, EngineAssumption

LEMMA RecoveringStep ==
  ASSUME Slots, OrderInv, Next
  PROVE  RecoveringInv'
<1>0. RecoveringInv /\ row \in [Runs -> Row] /\ Control
  BY DEF OrderInv, Slots, TypeOK
<1> USE DEF RecoveringInv, Up
<1>1. CASE Up /\ UNCHANGED boot
  BY <1>1
<1>2. CASE Crash
  BY <1>2 DEF Crash
<1>3. CASE ~Up /\ Recovery
  <2>0. \A r \in Runs : cancel[r] = "idle"
    BY <1>0, <1>3
  <2>1. UNCHANGED cancel
    BY <1>3 DEF Recovery, BootCancel, BootRetry, BootExhaust, BootCancelsDone,
                BootInterrupt, BootAnchor, BootDone, handlers
  <2>2. ASSUME NEW r \in Runs, BootRetry(r) PROVE RecoveringInv'
    <3>1. row[r] \in Row /\ Status(r) = "running"
      BY <1>0, <2>2 DEF BootRetry, RunningLeftovers
    <3>2. row'[r].status = "running"
      BY <1>0, <2>2, <3>1 DEF BootRetry, Row, Status
    <3>3. boot' = [pc |-> "interrupt", run |-> r]
      BY <2>2 DEF BootRetry
    <3> QED
      BY <2>0, <2>1, <3>2, <3>3 DEF Status
  <2>3. ASSUME NEW r \in Runs, BootExhaust(r) PROVE RecoveringInv'
    <3>1. row[r] \in Row
      BY <1>0
    <3>2. row'[r].status = "failed"
      BY <1>0, <2>3, <3>1 DEF BootExhaust, Row
    <3>3. boot' = [pc |-> "anchor", run |-> r]
      BY <2>3 DEF BootExhaust
    <3> QED
      BY <2>0, <2>1, <3>2, <3>3 DEF Status
  <2>4. ASSUME \/ \E r \in Runs : BootCancel(r)
               \/ BootCancelsDone \/ BootInterrupt \/ BootAnchor \/ BootDone
        PROVE  boot'.pc \notin {"interrupt", "anchor"}
    <3>1. boot \in [pc : {"cancels", "leftovers", "interrupt", "anchor", "up"},
                    run : Runs \cup {None}]
      BY DEF Slots, TypeOK
    <3> QED
      BY <2>4, <3>1 DEF BootCancel, BootCancelsDone, BootInterrupt, BootAnchor,
                        BootDone
  <2> QED
    BY <1>3, <2>0, <2>1, <2>2, <2>3, <2>4 DEF Recovery
<1> QED
  BY <1>1, <1>2, <1>3, OthersServe

-----------------------------------------------------------------------------
(* The ages of the runs *)

LEMMA CreatedCount ==
  ASSUME Slots
  PROVE  IsFiniteSet(Created) /\ Cardinality(Created) \in Nat
<1>1. IsFiniteSet(Created)
  BY EngineAssumption, FS_Subset DEF EngineAssumption, Created
<1> QED
  BY <1>1, FS_CardinalityType

LEMMA AgeStep ==
  ASSUME Slots, OrderInv, Next
  PROVE  AgeInv'
<1>0. /\ row \in [Runs -> Row] /\ AgeInv
      /\ \A r \in Runs : row[r].createdAt \in Nat
  BY DEF Slots, TypeOK, OrderInv, Row
<1>1. CASE \A r \in Runs : ~StartRun(r)
  <2>1. ASSUME NEW q \in Runs
        PROVE  /\ row'[q].createdAt = row[q].createdAt
               /\ q \in Created <=> Status(q)' # "absent"
    <3>1. Effect(q)
      BY <1>1, RowEffect
    <3> QED
      BY <3>1 DEF Effect, Moves, Created
  <2>2. Created' = Created
    BY <2>1 DEF Created
  <2> QED
    BY <1>0, <2>1, <2>2 DEF AgeInv, Created
<1>2. ASSUME NEW r \in Runs, StartRun(r) PROVE AgeInv'
  <2>1. /\ r \notin Created
        /\ row'[r].createdAt = Cardinality(Created)
        /\ \A q \in Runs \ {r} : row'[q] = row[q]
        /\ Created' = Created \cup {r}
    BY <1>0, <1>2, StartEffect DEF Created, Status
  <2>2. Cardinality(Created') = Cardinality(Created) + 1
    BY <2>1, CreatedCount, FS_AddElement
  <2>3. Cardinality(Created) \in Nat
    BY CreatedCount
  <2>4. ASSUME NEW q \in Created'
        PROVE  row'[q].createdAt < Cardinality(Created')
    <3>1. CASE q = r
      BY <3>1, <2>1, <2>2, <2>3
    <3>2. CASE q \in Created /\ q # r
      <4>1. q \in Runs /\ row'[q] = row[q]
        BY <3>2, <2>1 DEF Created
      <4>2. row[q].createdAt < Cardinality(Created) /\ row[q].createdAt \in Nat
        BY <1>0, <3>2, <4>1 DEF AgeInv
      <4> QED
        BY <2>2, <2>3, <4>1, <4>2
    <3> QED
      BY <2>1, <2>4, <3>1, <3>2
  <2> QED
    BY <2>4 DEF AgeInv
<1> QED
  BY <1>1, <1>2

-----------------------------------------------------------------------------
(* What the drain has found *)

\* Everybody but the pump leaves the claim in progress alone.
LEMMA PumpKept ==
  ASSUME Slots, OrderInv, Next
  PROVE  \/ pump'.pc = pump.pc /\ pump'.run = pump.run
         \/ PumpStep
         \/ pump'.pc = "idle"
<1>0. pump \in Pump
  BY DEF Slots, TypeOK
<1> USE <1>0 DEF Pump
<1>1. ASSUME Recovery PROVE pump'.pc = pump.pc /\ pump'.run = pump.run
  BY <1>1 DEF Recovery, BootCancel, BootRetry, BootExhaust, BootCancelsDone,
              BootInterrupt, BootAnchor, BootDone
<1>2. ASSUME NEW e \in Execs, ExecStep(e) \/ ExecThrow(e)
      PROVE  pump'.pc = pump.pc /\ pump'.run = pump.run
  BY <1>2 DEF ExecStep, ExecLoad, ExecPrepare, ExecPersistDraft, ExecOutcome,
              ExecFail, ExecAbort, ExecSave, ExecAnchor, ExecRescue, ExecEnd,
              ExecThrow
<1>3. ASSUME NEW r \in Runs,
             StartRun(r) \/ CancelStep(r) \/ CancelRead(r) \/ CancelThrow(r)
      PROVE  pump'.pc = pump.pc /\ pump'.run = pump.run
  BY <1>3 DEF StartRun, CancelStep, CancelFlag, CancelAttempt, CancelAbort,
              CancelRead, CancelThrow
<1>4. ASSUME NEW h \in Resumers,
             \/ ResumeStep(h) \/ ResumeThrow(h)
             \/ \E r \in Runs : ResumeRead(h, r)
      PROVE  pump'.pc = pump.pc /\ pump'.run = pump.run
  BY <1>4 DEF ResumeStep, ResumeSelect, ResumeSave, ResumeNotify, ResumeThrow,
              ResumeRead
<1>5. ASSUME PumpThrow \/ Crash PROVE pump'.pc = "idle"
  BY <1>5 DEF PumpThrow, Crash, IdlePump
<1> QED
  BY <1>1, <1>2, <1>3, <1>4, <1>5, EngineAssumption
  DEF Next, Throw, EngineAssumption

LEMMA FoundStep ==
  ASSUME Slots, OrderInv, Next
  PROVE  FoundInv'
<1>0. /\ row \in [Runs -> Row] /\ pump \in Pump /\ FoundInv /\ AgeInv /\ Control
      /\ \A r \in Runs : row[r].createdAt \in Nat
  BY DEF Slots, TypeOK, OrderInv, Row
<1>1. ASSUME pump'.pc \in {"idle", "interrupted", "claimed"} PROVE FoundInv'
  BY <1>1 DEF FoundInv
<1>2. ASSUME pump'.pc = pump.pc, pump'.run = pump.run PROVE FoundInv'
  <2>1. CASE pump.pc \in {"queued", "casQueued", "casInterrupted"}
    <3>0. Up
      BY <1>0, <2>1 DEF Control, BootInv
    <3>1. pump.pc \in {"queued", "casQueued"} => \A q \in Runs : ~Waiting(q)'
      BY <1>0, <3>0, RunKept DEF FoundInv
    <3>2. CASE pump.pc = "queued"
      BY <1>2, <3>1, <3>2 DEF FoundInv, Waiting, Status
    <3>3. CASE pump.pc \in {"casQueued", "casInterrupted"}
      <4>1. PICK r \in Runs : r = pump.run
        BY <1>0, <3>3 DEF Control, PumpInv
      <4>2. /\ Status(r) # "absent" /\ Status(r)' # "absent"
            /\ row'[r].createdAt = row[r].createdAt
        BY <1>0, <3>3, <4>1, RunKept DEF FoundInv
      <4>3. ASSUME NEW q \in Runs, Waiting(q)', pump.pc = "casInterrupted"
            PROVE  row'[r].createdAt <= row'[q].createdAt
        <5>1. Waiting(q) /\ row'[q].createdAt = row[q].createdAt
          BY <3>0, <4>3, RunKept DEF Waiting
        <5> QED
          BY <1>0, <4>1, <4>2, <4>3, <5>1 DEF FoundInv
      <4>4. ASSUME NEW q \in Runs, Status(q)' = "queued", pump.pc = "casQueued"
            PROVE  row'[r].createdAt <= row'[q].createdAt
        <5>1. CASE Status(q) = "queued"
          <6>1. row'[q].createdAt = row[q].createdAt
            BY <5>1, RunKept
          <6> QED
            BY <1>0, <4>1, <4>2, <4>4, <5>1, <6>1 DEF FoundInv
        <5>2. CASE StartRun(q)
          <6>1. row'[q].createdAt = Cardinality(Created)
            BY <1>0, <5>2, StartEffect
          <6>2. row[r].createdAt < Cardinality(Created)
            BY <1>0, <4>2 DEF AgeInv, Created
          <6> QED
            BY <1>0, <4>2, <6>1, <6>2, CreatedCount
        <5> QED
          BY <4>4, <5>1, <5>2, RunKept
      <4> QED
        BY <1>2, <3>1, <3>3, <4>1, <4>2, <4>3, <4>4 DEF FoundInv, Waiting, Status
    <3> QED
      BY <2>1, <3>2, <3>3
  <2>2. CASE pump.pc \in {"idle", "interrupted", "claimed"}
    BY <1>1, <1>2, <2>2
  <2> QED
    BY <1>0, <2>1, <2>2 DEF Pump
<1>3. ASSUME PumpFindInterrupted PROVE FoundInv'
  <2> DEFINE S == {q \in Runs : Status(q) = "interrupted" /\ ~row[q].cancelRequested}
  <2>1. UNCHANGED row
    BY <1>3 DEF PumpFindInterrupted
  <2>2. \A q \in Runs : q \in S <=> Waiting(q)
    BY DEF Waiting
  <2>3. CASE Oldest(S) = {} /\ pump' = [pump EXCEPT !.pc = "queued"]
    <3>1. S = {}
      BY <1>0, <2>3, OldestExists
    <3>2. pump'.pc = "queued"
      BY <1>0, <2>3 DEF Pump
    <3>3. \A q \in Runs : ~Waiting(q)'
      BY <2>1, <2>2, <3>1 DEF Waiting, Status
    <3> QED
      BY <3>2, <3>3 DEF FoundInv, Waiting, Status
  <2>4. ASSUME NEW r \in Oldest(S),
               pump' = [pump EXCEPT !.pc = "casInterrupted", !.run = r,
                                    !.sel = row[r].selected]
        PROVE  FoundInv'
    <3>1. pump'.pc = "casInterrupted" /\ pump'.run = r
      BY <1>0, <2>4 DEF Pump
    <3>2. /\ r \in Runs /\ Status(r) # "absent"
          /\ \A q \in Runs : Waiting(q) => row[r].createdAt <= row[q].createdAt
      BY <2>2, <2>4 DEF Oldest, Waiting
    <3> QED
      BY <2>1, <3>1, <3>2 DEF FoundInv, Waiting, Status
  <2> QED
    BY <1>3, <2>3, <2>4 DEF PumpFindInterrupted
<1>4. ASSUME PumpFindQueued PROVE FoundInv'
  <2> DEFINE S == {q \in Runs : Status(q) = "queued"}
  <2>1. UNCHANGED row /\ \A q \in Runs : ~Waiting(q)
    BY <1>0, <1>4 DEF PumpFindQueued, FoundInv
  <2>2. CASE pump' = [pump EXCEPT !.pc = "idle"]
    BY <1>0, <1>1, <2>2 DEF Pump
  <2>3. ASSUME NEW r \in Oldest(S),
               pump' = [pump EXCEPT !.pc = "casQueued", !.run = r,
                                    !.sel = row[r].selected]
        PROVE  FoundInv'
    <3>1. pump'.pc = "casQueued" /\ pump'.run = r
      BY <1>0, <2>3 DEF Pump
    <3>2. /\ r \in Runs /\ Status(r) # "absent"
          /\ \A q \in Runs : Status(q) = "queued" =>
               row[r].createdAt <= row[q].createdAt
      BY <2>3 DEF Oldest
    <3> QED
      BY <2>1, <3>1, <3>2 DEF FoundInv, Waiting, Status
  <2> QED
    BY <1>4, <2>2, <2>3 DEF PumpFindQueued
<1>5. ASSUME PumpCasInterrupted PROVE FoundInv'
  BY <1>0, <1>1, <1>5 DEF PumpCasInterrupted, Pump
<1>6. ASSUME PumpCasQueued PROVE FoundInv'
  <2>1. CASE pump' = [pump EXCEPT !.pc = "claimed"]
    BY <1>0, <1>1, <2>1 DEF Pump
  <2>2. CASE /\ pump' = [pump EXCEPT !.pc = "queued", !.run = None, !.sel = FALSE]
             /\ UNCHANGED row
    <3>1. pump'.pc = "queued"
      BY <1>0, <2>2 DEF Pump
    <3>2. \A q \in Runs : ~Waiting(q)
      BY <1>0, <1>6 DEF PumpCasQueued, FoundInv
    <3> QED
      BY <2>2, <3>1, <3>2 DEF FoundInv, Waiting, Status
  <2> QED
    BY <1>6, <2>1, <2>2 DEF PumpCasQueued
<1>7. ASSUME PumpWake \/ PumpBegin PROVE FoundInv'
  BY <1>1, <1>7 DEF PumpWake, PumpBegin, IdlePump, LoopHead
<1> QED
  BY <1>1, <1>2, <1>3, <1>4, <1>5, <1>6, <1>7, PumpKept DEF PumpStep

-----------------------------------------------------------------------------
(* The theorems *)

LEMMA OrderInitInv ==
  ASSUME Init
  PROVE  OrderInv
<1>1. HolderInv /\ RecoveringInv
  BY DEF Init, HolderInv, RecoveringInv, Live, NoExec, Up
<1>2. Created = {}
  BY DEF Init, Created, Status, NoRow
<1> QED
  BY <1>1, <1>2 DEF OrderInv, AgeInv, FoundInv, Init, IdlePump

LEMMA OrderStutterInv ==
  ASSUME OrderInv, UNCHANGED vars
  PROVE  OrderInv'
BY DEF vars, OrderInv, HolderInv, RecoveringInv, AgeInv, FoundInv, Waiting, TakenUp,
       Live, Up, Created, Status

LEMMA OrderInductiveInv ==
  Spec => [](Slots /\ OrderInv)
<1>1. Init => OrderInv
  BY OrderInitInv
<1>2. Slots /\ OrderInv /\ [Next]_vars => OrderInv'
  <2>1. ASSUME Slots, OrderInv, Next
        PROVE  OrderInv'
    BY <2>1, HolderStep, RecoveringStep, AgeStep, FoundStep DEF OrderInv
  <2> QED
    BY <2>1, OrderStutterInv
<1> QED
  BY <1>1, <1>2, InductiveInv, PTL DEF Spec

\* R-6, R-9.3: the in-process worker takes interrupted runs before queued ones,
\* the oldest first, for any number of runs, although claimNextInterrupted and
\* claimNextQueued read the row and update it in two statements.
THEOREM ClaimsInOrder == Spec => ClaimOrder
<1>1. ASSUME Slots, OrderInv, Next, NEW r \in Runs, Claims(r)
      PROVE  /\ Claimable(r)
             /\ ~ \E q \in Runs : Claimable(q) /\ Precedes(q, r)
  <2>0. FoundInv /\ \A q \in Runs : row[q].createdAt \in Nat
    BY <1>1 DEF OrderInv, Slots, TypeOK, Row
  <2>1. \A s \in Runs : ~StartRun(s)
    BY <1>1, StartEffect DEF Claims, Slots, TypeOK, Status
  <2>2. ClaimsFound(r)
    <3>1. Effect(r)
      BY <1>1, <2>1, RowEffect
    <3> QED
      BY <1>1, <3>1 DEF Effect, Moves, Claims
  <2> QED
    BY <2>0, <2>2 DEF ClaimsFound, FoundInv, Claimable, Precedes, Waiting
<1> DEFINE InOrder == \A r \in Runs : Claims(r) =>
                        /\ Claimable(r)
                        /\ ~ \E q \in Runs : Claimable(q) /\ Precedes(q, r)
<1>2. Slots /\ OrderInv /\ [Next]_vars => [InOrder]_vars
  BY <1>1
<1> QED
  BY <1>2, OrderInductiveInv, PTL DEF Spec, ClaimOrder

\* A cancelled run is never revived by a claim, by recovery or by another
\* cancel: only an execution or a HITL request that held it before the cancel
\* can overwrite it (saveStatus is unconditional).
THEOREM CancelUndoneByHolderOnly == Spec => CancelUndoneOnlyByHolder
<1>1. ASSUME Slots, OrderInv, Next, NEW r \in Runs,
             Status(r) = "cancelled", Status(r)' # "cancelled"
      PROVE  Held(r)
  <2>1. \A s \in Runs : ~StartRun(s)
    BY <1>1, StartEffect DEF Slots, TypeOK, Status
  <2>2. Effect(r)
    BY <1>1, <2>1, RowEffect
  <2> QED
    BY <1>1, <2>2 DEF Effect, Moves
<1>2. Slots /\ OrderInv /\ [Next]_vars =>
       [\A r \in Runs :
          Status(r) = "cancelled" /\ Status(r)' # "cancelled" => Held(r)]_vars
  BY <1>1
<1> QED
  BY <1>2, OrderInductiveInv, PTL DEF Spec, CancelUndoneOnlyByHolder
-----------------------------------------------------------------------------
(* Hands: who may write the status of a run next                            *)

\* The run is in the hands of an execution, of the resume that is about to
\* start it, or of the claim that has just won it.
Has(t, r) ==
  \/ Working(t) /\ exec[t].run = r
  \/ t \in Resumers /\ hitl[t].pc = "notify" /\ hitl[t].run = r
  \/ pump.pc = "claimed" /\ pump.run = t /\ t = r

Fresh == {"running", "cancelled"}

\* The statuses a run may have at a stage of its execution.
StageOf(x) ==
  CASE x.pc = "anchor" -> Reviewable
    [] x.pc = "rescue" \/ (x.pc = "save" /\ x.to # "awaiting_hitl")
         -> Fresh \cup Reviewable
    [] OTHER -> Fresh

May(t) == IF Working(t) THEN StageOf(exec[t]) ELSE Fresh

\* A run is in one pair of hands, and its status is one they expect.
HandInv ==
  \A t \in Execs, r \in Runs : Has(t, r) =>
    /\ Status(r) \in May(t)
    /\ \A s \in Execs : Has(s, r) => s = t

\* HitlOnlyWhilePaused, of one step.
PausedStep ==
  \A h \in Resumers :
    hitl[h].pc = "save" /\ hitl[h].pc' = "notify"
    => Status(hitl[h].run) = "awaiting_hitl"

\* A resume takes a run that is in nobody's hands.
FreeStep ==
  \A h \in Resumers :
    hitl[h].pc = "save" /\ hitl[h].pc' = "notify"
    => \A t \in Execs : ~Has(t, hitl[h].run)

\* A step leaves a hand as it is.
SameHand(t) ==
  /\ exec'[t] = exec[t]
  /\ t \in Resumers => hitl'[t] = hitl[t]
  /\ pump'.pc = "claimed" /\ pump'.run = t <=> pump.pc = "claimed" /\ pump.run = t

LEMMA SameHandHas ==
  ASSUME NEW t \in Execs, SameHand(t)
  PROVE  /\ \A r \in Runs : Has(t, r)' <=> Has(t, r)
         /\ May(t)' = May(t)
BY DEF SameHand, Has, May, StageOf, Working

\* One hand acts on the run it alone has.
LEMMA ActorHands ==
  ASSUME HandInv, NEW a \in Execs, NEW q \in Runs,
         \A t \in Execs \ {a} : SameHand(t) /\ ~Has(t, q),
         \A r \in Runs \ {q} : Status(r)' = Status(r),
         \A r \in Runs \ {q} : ~Has(a, r)',
         Has(a, q)' => Status(q)' \in May(a)'
  PROVE  HandInv'
<1>1. ASSUME NEW t \in Execs, NEW r \in Runs, Has(t, r)'
      PROVE  Status(r)' \in May(t)' /\ \A s \in Execs : Has(s, r)' => s = t
  <2>1. CASE t = a
    <3>1. r = q
      BY <1>1, <2>1
    <3>2. \A s \in Execs \ {a} : ~Has(s, q)'
      BY SameHandHas
    <3> QED
      BY <1>1, <2>1, <3>1, <3>2
  <2>2. CASE t # a
    <3>1. Has(t, r) /\ May(t)' = May(t) /\ r # q
      BY <1>1, <2>2, SameHandHas
    <3>2. \A s \in Execs : Has(s, r)' => Has(s, r)
      BY <3>1, SameHandHas
    <3> QED
      BY <3>1, <3>2 DEF HandInv
  <2> QED
    BY <2>1, <2>2
<1> QED
  BY <1>1 DEF HandInv

\* Hands are only let go, and statuses move only where no hand expects otherwise.
LEMMA IdleHands ==
  ASSUME HandInv,
         \A t \in Execs : SameHand(t) \/ \A r \in Runs : ~Has(t, r)',
         \A r \in Runs : \/ Status(r)' = Status(r)
                         \/ Status(r) \in Cancelable /\ Status(r)' = "cancelled"
                         \/ Status(r) = "absent"
  PROVE  HandInv'
<1>1. ASSUME NEW t \in Execs, NEW r \in Runs, Has(t, r)'
      PROVE  Status(r)' \in May(t)' /\ \A s \in Execs : Has(s, r)' => s = t
  <2>1. Has(t, r) /\ May(t)' = May(t)
    BY <1>1, SameHandHas
  <2>2. \A s \in Execs : Has(s, r)' => Has(s, r)
    BY SameHandHas
  <2>3. Status(r) \in May(t)
    BY <2>1 DEF HandInv
  <2>4. Status(r)' \in May(t)
    BY <2>3 DEF May, StageOf, Fresh, Reviewable, Cancelable
  <2> QED
    BY <2>1, <2>2, <2>4 DEF HandInv
<1> QED
  BY <1>1 DEF HandInv

\* Nobody has a run that waits to be claimed or waits for a choice.
LEMMA NobodyHas ==
  ASSUME HandInv, NEW r \in Runs,
         Status(r) \in {"absent", "queued", "interrupted", "awaiting_hitl"}
  PROVE  \A t \in Execs : ~Has(t, r)
BY DEF HandInv, May, StageOf, Fresh, Reviewable

LEMMA PausedIsFree ==
  ASSUME Slots, HandInv, PausedStep
  PROVE  FreeStep
<1>1. \A h \in Resumers : hitl[h].pc = "save" => hitl[h].run \in Runs
  BY DEF Slots, Control, HitlInv
<1> QED
  BY <1>1, NobodyHas DEF PausedStep, FreeStep

-----------------------------------------------------------------------------
(* Who changes a status                                                     *)

Caused(r) ==
  \/ Status(r)' = Status(r)
  \/ Status(r) = "absent" /\ Status(r)' = "queued"
  \/ /\ Status(r) \in Cancelable /\ Status(r)' = "cancelled"
     /\ (~Up /\ row[r].cancelRequested) \/ cancel[r] = "cas"
  \/ Claims(r) /\ pump'.pc = "claimed" /\ pump'.run = r
  \/ \E e \in Execs : ExecSave(e) /\ exec[e].run = r /\ Status(r)' = exec[e].to
  \/ \E h \in Resumers :
       ResumeSave(h) /\ hitl[h].run = r /\ Status(r)' = "running"
  \/ ~Up /\ Status(r) = "running" /\ Status(r)' \in {"interrupted", "failed"}

\* One statement writes one row.
StatusMoved ==
  /\ \A r \in Runs : Caused(r)
  /\ \A q, r \in Runs :
       Status(q)' # Status(q) /\ Status(r)' # Status(r) => q = r

LEMMA OneMoved ==
  ASSUME NEW r \in Runs, Caused(r),
         \A q \in Runs \ {r} : Status(q)' = Status(q)
  PROVE  StatusMoved
<1>1. \A q \in Runs \ {r} : Caused(q)
  BY DEF Caused
<1> QED
  BY <1>1 DEF StatusMoved

LEMMA StatusCause ==
  ASSUME Slots, OrderInv, Next
  PROVE  StatusMoved
<1>0. row \in [Runs -> Row] /\ Control
  BY DEF Slots, TypeOK
<1>a. ASSUME \A q \in Runs : Status(q)' = Status(q) PROVE StatusMoved
  BY <1>a DEF StatusMoved, Caused
<1>b. ASSUME UNCHANGED row PROVE StatusMoved
  BY <1>a, <1>b DEF Status
<1>1. ASSUME NEW r \in Runs, BootCancel(r) PROVE StatusMoved
  <2>1. Status(r) \in Cancelable /\ ~Up /\ row[r].cancelRequested
    BY <1>1 DEF BootCancel, CancelLeftovers, Cancelable, Up
  <2>2. \A q \in Runs : Status(q)' = IF q = r THEN "cancelled" ELSE Status(q)
    BY <1>0, <1>1, CancelledStep DEF BootCancel
  <2> QED
    BY <2>1, <2>2, OneMoved DEF Caused
<1>2. ASSUME NEW r \in Runs, BootRetry(r) PROVE StatusMoved
  <2>1. row[r] \in Row
    BY <1>0
  <2>2. \A q \in Runs : Status(q)' = Status(q)
    BY <1>0, <1>2, <2>1 DEF BootRetry, Row, Status
  <2> QED
    BY <1>a, <2>2
<1>3. ASSUME BootInterrupt PROVE StatusMoved
  <2>1. PICK r \in Runs : r = boot.run
    BY <1>0, <1>3 DEF BootInterrupt, Control, BootInv
  <2>2. ~Up /\ Status(r) = "running"
    BY <2>1, <1>3 DEF BootInterrupt, OrderInv, RecoveringInv, Up
  <2>3. \A q \in Runs : Status(q)' = IF q = r THEN "interrupted" ELSE Status(q)
    BY <1>0, <1>3, <2>1, StatusStep DEF BootInterrupt
  <2> QED
    BY <2>2, <2>3, OneMoved DEF Caused
<1>4. ASSUME NEW r \in Runs, BootExhaust(r) PROVE StatusMoved
  <2>1. ~Up /\ Status(r) = "running"
    BY <1>4 DEF BootExhaust, RunningLeftovers, Up
  <2>2. \A q \in Runs : Status(q)' = IF q = r THEN "failed" ELSE Status(q)
    BY <1>0, <1>4, StatusStep DEF BootExhaust
  <2> QED
    BY <2>1, <2>2, OneMoved DEF Caused
<1>5. ASSUME BootAnchor PROVE StatusMoved
  <2>1. boot.run \in Runs
    BY <1>0, <1>5 DEF BootAnchor, Control, BootInv
  <2> QED
    BY <1>0, <1>5, <1>a, <2>1, FieldStep DEF BootAnchor
<1>6. ASSUME PumpCasInterrupted \/ PumpCasQueued PROVE StatusMoved
  <2>1. PICK r \in Runs : r = pump.run
    BY <1>0, <1>6 DEF PumpCasInterrupted, PumpCasQueued, Control, PumpInv
  <2>2. CASE UNCHANGED row
    BY <1>b, <2>2
  <2>3. CASE /\ Status(r) \in {"queued", "interrupted"}
             /\ row' = [row EXCEPT ![r].status = "running"]
             /\ pump' = [pump EXCEPT !.pc = "claimed"]
    <3>1. \A q \in Runs : Status(q)' = IF q = r THEN "running" ELSE Status(q)
      BY <1>0, <2>3, StatusStep
    <3>2. pump'.pc = "claimed" /\ pump'.run = r
      BY <2>1, <2>3 DEF Slots, TypeOK, Pump
    <3> QED
      BY <2>3, <3>1, <3>2, OneMoved DEF Caused, Claims
  <2> QED
    BY <1>6, <2>1, <2>2, <2>3 DEF PumpCasInterrupted, PumpCasQueued
<1>7. ASSUME NEW e \in Execs, ExecPersistDraft(e) \/ ExecAnchor(e)
      PROVE  StatusMoved
  <2>1. exec[e].run \in Runs
    BY <1>0, <1>7 DEF ExecPersistDraft, ExecAnchor, Control, ExecInv, Live
  <2> QED
    BY <1>0, <1>7, <1>a, <2>1, FieldStep DEF ExecPersistDraft, ExecAnchor
<1>8. ASSUME NEW e \in Execs, ExecSave(e) PROVE StatusMoved
  <2>1. PICK r \in Runs : r = exec[e].run
    BY <1>0, <1>8 DEF ExecSave, Control, ExecInv, Live
  <2>2. \A q \in Runs : Status(q)' = IF q = r THEN exec[e].to ELSE Status(q)
    BY <1>0, <1>8, <2>1, StatusStep DEF ExecSave
  <2> QED
    BY <1>8, <2>1, <2>2, OneMoved DEF Caused
<1>9. ASSUME NEW r \in Runs, CancelFlag(r) PROVE StatusMoved
  BY <1>0, <1>9, <1>a, <1>b, FieldStep DEF CancelFlag
<1>10. ASSUME NEW r \in Runs, CancelAttempt(r) PROVE StatusMoved
  <2>1. CASE UNCHANGED row
    BY <1>b, <2>1
  <2>2. CASE Status(r) \in Cancelable /\ row' = [row EXCEPT ![r] = CancelledRow(r)]
    <3>1. \A q \in Runs : Status(q)' = IF q = r THEN "cancelled" ELSE Status(q)
      BY <1>0, <2>2, CancelledStep
    <3>2. cancel[r] = "cas"
      BY <1>10 DEF CancelAttempt
    <3> QED
      BY <2>2, <3>1, <3>2, OneMoved DEF Caused
  <2> QED
    BY <1>10, <2>1, <2>2 DEF CancelAttempt
<1>11. ASSUME NEW h \in Resumers, ResumeSelect(h) PROVE StatusMoved
  <2>1. hitl[h].run \in Runs
    BY <1>0, <1>11 DEF ResumeSelect, Control, HitlInv
  <2> QED
    BY <1>0, <1>11, <1>a, <2>1, FieldStep DEF ResumeSelect
<1>12. ASSUME NEW h \in Resumers, ResumeSave(h) PROVE StatusMoved
  <2>1. PICK r \in Runs : r = hitl[h].run
    BY <1>0, <1>12 DEF ResumeSave, Control, HitlInv
  <2>2. \A q \in Runs : Status(q)' = IF q = r THEN "running" ELSE Status(q)
    BY <1>0, <1>12, <2>1, StatusStep DEF ResumeSave
  <2> QED
    BY <1>12, <2>1, <2>2, OneMoved DEF Caused
<1>13. ASSUME NEW r \in Runs, StartRun(r) PROVE StatusMoved
  <2>1. Status(r) = "absent" /\ Status(r)' = "queued"
    BY <1>0, <1>13, StartEffect
  <2>2. \A q \in Runs \ {r} : Status(q)' = Status(q)
    BY <1>0, <1>13, StartEffect DEF Status
  <2> QED
    BY <2>1, <2>2, OneMoved DEF Caused
<1>14. ASSUME \/ Crash \/ PumpThrow \/ PumpBegin \/ PumpWake \/ BootDone
              \/ BootCancelsDone \/ PumpFindInterrupted \/ PumpFindQueued
       PROVE  UNCHANGED row
  BY <1>14 DEF Crash, PumpThrow, PumpBegin, PumpWake, BootDone, BootCancelsDone,
               PumpFindInterrupted, PumpFindQueued
<1>15. ASSUME NEW e \in Execs,
              \/ ExecLoad(e) \/ ExecPrepare(e) \/ ExecOutcome(e) \/ ExecFail(e)
              \/ ExecAbort(e) \/ ExecRescue(e) \/ ExecEnd(e) \/ ExecThrow(e)
       PROVE  UNCHANGED row
  BY <1>15 DEF ExecLoad, ExecPrepare, ExecOutcome, ExecFail, ExecAbort, ExecRescue,
               ExecEnd, ExecThrow
<1>16. ASSUME NEW r \in Runs, CancelAbort(r) \/ CancelRead(r) \/ CancelThrow(r)
       PROVE  UNCHANGED row
  BY <1>16 DEF CancelAbort, CancelRead, CancelThrow
<1>17. ASSUME NEW h \in Resumers,
              \/ \E r \in Runs : ResumeRead(h, r)
              \/ ResumeNotify(h) \/ ResumeThrow(h)
       PROVE  UNCHANGED row
  BY <1>17 DEF ResumeRead, ResumeNotify, ResumeThrow
<1> QED
  BY <1>b, <1>1, <1>2, <1>3, <1>4, <1>5, <1>6, <1>7, <1>8, <1>9, <1>10, <1>11,
     <1>12, <1>13, <1>14, <1>15, <1>16, <1>17, EngineAssumption
  DEF Next, Recovery, PumpStep, ExecStep, CancelStep, ResumeStep, Throw,
      EngineAssumption

-----------------------------------------------------------------------------
(* Every step keeps the hands                                               *)

\* An execution goes on, or ends its work, with the run it has.
LEMMA InnerHands ==
  ASSUME Slots, HandInv, NEW e \in Execs, Working(e),
         NEW x, exec' = [exec EXCEPT ![e] = x], x.run = exec[e].run,
         UNCHANGED <<hitl, pump>>,
         \A r \in Runs : r # exec[e].run => Status(r)' = Status(r),
         x.pc \notin {"none", "final"} => Status(exec[e].run)' \in StageOf(x)
  PROVE  HandInv'
<1> DEFINE q == exec[e].run
<1>1. /\ q \in Runs /\ exec \in [Execs -> Exec]
      /\ e \in Resumers => hitl[e].pc = "done"
      /\ ~(pump.pc = "claimed" /\ pump.run = e)
  BY DEF Slots, TypeOK, Control, ExecInv, PumpInv, Live, Working
<1>2. exec'[e] = x /\ \A t \in Execs \ {e} : exec'[t] = exec[t]
  BY <1>1
<1>3. \A t \in Execs \ {e} : SameHand(t) /\ ~Has(t, q)
  <2>1. Has(e, q)
    BY DEF Has
  <2>2. \A t \in Execs \ {e} : ~Has(t, q)
    BY <1>1, <2>1 DEF HandInv
  <2> QED
    BY <1>2, <2>2 DEF SameHand
<1>4. \A r \in Runs : Has(e, r)' => r = q /\ Working(e)'
  BY <1>1, <1>2 DEF Has, Working
<1>5. Has(e, q)' => Status(q)' \in May(e)'
  <2>1. ASSUME Has(e, q)' PROVE Status(q)' \in May(e)'
    <3>1. Working(e)' /\ x.pc \notin {"none", "final"}
      BY <1>2, <1>4, <2>1, <1>1 DEF Working
    <3> QED
      BY <1>2, <3>1 DEF May, StageOf, Fresh, Reviewable
  <2> QED
    BY <2>1
<1> HIDE DEF q
<1> QED
  BY <1>1, <1>3, <1>4, <1>5, ActorHands DEF q

LEMMA ThrowTurn ==
  ASSUME TypeOK, NEW e \in Execs, ExecThrow(e)
  PROVE  \E x \in Exec :
           /\ exec' = [exec EXCEPT ![e] = x] /\ x.run = exec[e].run
           /\ \/ x.pc = "final"
              \/ x.pc = "save" /\ x.to = "failed"
              \/ x.pc = "rescue"
<1> DEFINE f == [exec[e] EXCEPT !.pc = "final"]
           s == [exec[e] EXCEPT !.pc = "save", !.to = "failed", !.catcher = "worker"]
           c == [exec[e] EXCEPT !.pc = "rescue", !.catcher = "nobody"]
<1>1. exec[e] \in Exec
  BY DEF TypeOK
<1>2. /\ f \in Exec /\ f.run = exec[e].run /\ f.pc = "final"
      /\ s \in Exec /\ s.run = exec[e].run /\ s.pc = "save" /\ s.to = "failed"
      /\ c \in Exec /\ c.run = exec[e].run /\ c.pc = "rescue"
  BY <1>1 DEF Exec
<1>3. \/ exec' = [exec EXCEPT ![e] = f]
      \/ exec' = [exec EXCEPT ![e] = s]
      \/ exec' = [exec EXCEPT ![e] = c]
  BY DEF ExecThrow, Goto, Leave
<1> HIDE DEF f, s, c
<1> QED
  BY <1>2, <1>3

LEMMA GotoTurn ==
  ASSUME TypeOK, NEW e \in Execs, NEW pc \in {"prepare", "anchor", "final"},
         Goto(e, pc)
  PROVE  \E x \in Exec : /\ exec' = [exec EXCEPT ![e] = x]
                         /\ x = [exec[e] EXCEPT !.pc = pc]
                         /\ x.run = exec[e].run /\ x.pc = pc /\ x.to = exec[e].to
<1> DEFINE x == [exec[e] EXCEPT !.pc = pc]
<1>1. exec[e] \in Exec
  BY DEF TypeOK
<1>2. x \in Exec /\ x.run = exec[e].run /\ x.pc = pc /\ x.to = exec[e].to
  BY <1>1 DEF Exec
<1>3. exec' = [exec EXCEPT ![e] = x]
  BY DEF Goto
<1>4. x = [exec[e] EXCEPT !.pc = pc]
  OBVIOUS
<1> HIDE DEF x
<1> QED
  BY <1>2, <1>3, <1>4

LEMMA LeaveTurn ==
  ASSUME TypeOK, NEW e \in Execs,
         NEW to \in {"awaiting_hitl", "completed", "failed"},
         NEW c \in {"executor", "worker", "nobody"}, Leave(e, to, c)
  PROVE  \E x \in Exec : /\ exec' = [exec EXCEPT ![e] = x]
                         /\ x.run = exec[e].run /\ x.pc = "save" /\ x.to = to
<1> DEFINE x == [exec[e] EXCEPT !.pc = "save", !.to = to, !.catcher = c]
<1>1. exec[e] \in Exec
  BY DEF TypeOK
<1>2. x \in Exec /\ x.run = exec[e].run /\ x.pc = "save" /\ x.to = to
  BY <1>1 DEF Exec
<1>3. exec' = [exec EXCEPT ![e] = x]
  BY DEF Leave
<1> HIDE DEF x
<1> QED
  BY <1>2, <1>3

\* A step of an execution between its start and its end.
LEMMA ExecHands ==
  ASSUME Slots, OrderInv, HandInv, NEW e \in Execs, Inside(e)
  PROVE  HandInv'
<1>0. /\ TypeOK /\ row \in [Runs -> Row]
      /\ exec \in [Execs -> Exec]
      /\ Working(e)
      /\ exec[e].run \in Runs
  BY DEF Slots, TypeOK, Control, ExecInv, Live, Working, Inside, ExecLoad,
         ExecPrepare, ExecPersistDraft, ExecOutcome, ExecFail, ExecAbort,
         ExecSave, ExecAnchor, ExecRescue, ExecThrow
<1>1. UNCHANGED <<hitl, pump>>
  BY DEF Inside, ExecLoad, ExecPrepare, ExecPersistDraft, ExecOutcome, ExecFail,
         ExecAbort, ExecSave, ExecAnchor, ExecRescue, ExecThrow, handlers
<1>2. Status(exec[e].run) \in StageOf(exec[e])
  BY <1>0 DEF HandInv, Has, May
<1> DEFINE Quiet == \A r \in Runs : Status(r)' = Status(r)
           Fits(x) == /\ x.run = exec[e].run
                      /\ x.pc \notin {"none", "final"} =>
                           Status(exec[e].run) \in StageOf(x)
<1>3. ASSUME Quiet, NEW x \in Exec, exec' = [exec EXCEPT ![e] = x], Fits(x)
      PROVE  HandInv'
  BY <1>0, <1>1, <1>3, InnerHands
<1>4. ASSUME UNCHANGED row PROVE Quiet
  BY <1>4 DEF Status
<1>5. \A x \in Exec : x.run = exec[e].run /\ x.pc = "final" => Fits(x)
  OBVIOUS
<1>7. ASSUME exec[e].pc \in {"load", "prepare", "work"}
      PROVE  \A x \in Exec :
               x.run = exec[e].run /\ x.pc \in {"prepare", "work", "save"} => Fits(x)
  BY <1>2, <1>7 DEF StageOf, Fresh
<1> HIDE DEF Fits
<1>11. CASE ExecLoad(e)
  <2>1. exec[e].pc = "load" /\ UNCHANGED row
    BY <1>11 DEF ExecLoad
  <2>2. CASE Goto(e, "prepare")
    BY <1>0, <1>3, <1>4, <1>7, <2>1, <2>2, GotoTurn
  <2>3. CASE Leave(e, "awaiting_hitl", "worker")
    BY <1>0, <1>3, <1>4, <1>7, <2>1, <2>3, LeaveTurn
  <2> QED
    BY <1>11, <2>2, <2>3 DEF ExecLoad
<1>12. CASE ExecPrepare(e)
  <2>1. exec[e].pc = "prepare" /\ UNCHANGED row
    BY <1>12 DEF ExecPrepare
  <2>2. CASE Goto(e, "final")
    BY <1>0, <1>3, <1>4, <1>5, <2>1, <2>2, GotoTurn
  <2>3. CASE exec' = [exec EXCEPT ![e] =
                        [@ EXCEPT !.pc = "work", !.catcher = "executor"]]
    <3> DEFINE x == [exec[e] EXCEPT !.pc = "work", !.catcher = "executor"]
    <3>1. exec[e] \in Exec
      BY <1>0
    <3>2. x \in Exec /\ x.run = exec[e].run /\ x.pc = "work"
      BY <3>1 DEF Exec
    <3>3. exec' = [exec EXCEPT ![e] = x]
      BY <2>3
    <3> HIDE DEF x
    <3> QED
      BY <1>3, <1>4, <1>7, <2>1, <3>2, <3>3
  <2> QED
    BY <1>12, <2>2, <2>3 DEF ExecPrepare
<1>13. CASE ExecPersistDraft(e)
  <2>1. Quiet
    BY <1>0, <1>13, FieldStep DEF ExecPersistDraft
  <2>2. exec' = [exec EXCEPT ![e] = exec[e]]
    BY <1>0, <1>13 DEF ExecPersistDraft, memory
  <2>3. exec[e] \in Exec /\ Fits(exec[e])
    BY <1>0, <1>2 DEF Fits
  <2> QED
    BY <1>3, <2>1, <2>2, <2>3
<1>14. CASE ExecOutcome(e) \/ ExecFail(e)
  <2>1. exec[e].pc = "work" /\ UNCHANGED row
    BY <1>14 DEF ExecOutcome, ExecFail
  <2>2. PICK to \in {"awaiting_hitl", "completed", "failed"},
             c \in {"executor", "worker", "nobody"} : Leave(e, to, c)
    BY <1>14 DEF ExecOutcome, ExecFail
  <2> QED
    BY <1>0, <1>3, <1>4, <1>7, <2>1, <2>2, LeaveTurn
<1>15. CASE ExecAbort(e)
  BY <1>0, <1>3, <1>4, <1>5, <1>15, GotoTurn DEF ExecAbort
<1>16. CASE ExecSave(e)
  <2>1. \A r \in Runs : Status(r)' = IF r = exec[e].run THEN exec[e].to
                                                       ELSE Status(r)
    BY <1>0, <1>16, StatusStep DEF ExecSave
  <2>2. PICK pc \in {"anchor", "final"} :
          /\ Goto(e, pc)
          /\ pc = "anchor" => exec[e].to \in Reviewable
    BY <1>16 DEF ExecSave
  <2>3. PICK x \in Exec : /\ exec' = [exec EXCEPT ![e] = x]
                          /\ x.run = exec[e].run /\ x.pc = pc
    BY <1>0, <2>2, GotoTurn
  <2>4. x.pc \notin {"none", "final"} => Status(exec[e].run)' \in StageOf(x)
    BY <1>0, <2>1, <2>2, <2>3 DEF StageOf
  <2> QED
    BY <1>0, <1>1, <2>1, <2>3, <2>4, InnerHands
<1>17. CASE ExecAnchor(e)
  <2>1. Quiet
    BY <1>0, <1>17, FieldStep DEF ExecAnchor
  <2> QED
    BY <1>0, <1>3, <1>5, <1>17, <2>1, GotoTurn DEF ExecAnchor
<1>18. CASE ExecRescue(e)
  <2>1. exec[e].pc = "rescue" /\ UNCHANGED row
    BY <1>18 DEF ExecRescue
  <2>2. CASE Goto(e, "final")
    BY <1>0, <1>3, <1>4, <1>5, <2>1, <2>2, GotoTurn
  <2>3. CASE Leave(e, "failed", "nobody")
    <3>1. PICK x \in Exec : /\ exec' = [exec EXCEPT ![e] = x]
                            /\ x.run = exec[e].run
                            /\ x.pc = "save" /\ x.to = "failed"
      BY <1>0, <2>3, LeaveTurn
    <3>2. Fits(x)
      BY <1>2, <2>1, <3>1 DEF Fits, StageOf
    <3> QED
      BY <1>3, <1>4, <2>1, <3>1, <3>2
  <2> QED
    BY <1>18, <2>2, <2>3 DEF ExecRescue
<1>19. CASE ExecThrow(e)
  <2>1. UNCHANGED row
    BY <1>19 DEF ExecThrow
  <2>2. PICK x \in Exec :
           /\ exec' = [exec EXCEPT ![e] = x] /\ x.run = exec[e].run
           /\ \/ x.pc = "final"
              \/ x.pc = "save" /\ x.to = "failed"
              \/ x.pc = "rescue"
    BY <1>0, <1>19, ThrowTurn
  <2>3. Status(exec[e].run) \in Fresh \cup Reviewable
    BY <1>2 DEF StageOf
  <2>4. Fits(x)
    BY <2>2, <2>3 DEF Fits, StageOf
  <2> QED
    BY <1>3, <1>4, <2>1, <2>2, <2>4
<1> QED
  BY <1>11, <1>12, <1>13, <1>14, <1>15, <1>16, <1>17, <1>18, <1>19 DEF Inside

LEMMA IdleBoot ==
  ASSUME Slots, ~Up
  PROVE  \A t \in Execs, r \in Runs : ~Has(t, r)
BY DEF Slots, Control, BootInv, Has, Working, Live

\* A step that is not of an execution.
LEMMA OtherHands ==
  ASSUME Slots, OrderInv, HandInv, FreeStep, Next, Up, UNCHANGED boot,
         \A e \in Execs : ~Inside(e)
  PROVE  HandInv'
<1>0. /\ TypeOK /\ row \in [Runs -> Row] /\ exec \in [Execs -> Exec] /\ pump \in Pump
      /\ hitl \in [Resumers -> [pc  : {"idle", "select", "save", "notify", "done"},
                                run : Runs \cup {None}]]
      /\ Control
  BY DEF Slots, TypeOK
<1>a. ASSUME UNCHANGED <<row, exec, hitl>>, pump.pc # "claimed", pump'.pc # "claimed"
      PROVE  HandInv'
  BY <1>a, IdleHands DEF SameHand, Status
<1>b. ASSUME UNCHANGED <<exec, hitl>>, pump'.pc = pump.pc, pump'.run = pump.run,
             \A r \in Runs : \/ Status(r)' = Status(r)
                             \/ Status(r) \in Cancelable /\ Status(r)' = "cancelled"
                             \/ Status(r) = "absent"
      PROVE  HandInv'
  BY <1>b, IdleHands DEF SameHand
<1>1. ASSUME \/ PumpWake \/ PumpFindInterrupted \/ PumpFindQueued \/ PumpThrow
      PROVE  HandInv'
  <2>1. UNCHANGED <<row, exec, hitl>> /\ pump.pc # "claimed"
    BY <1>1 DEF PumpWake, PumpFindInterrupted, PumpFindQueued, PumpThrow, memory,
                handlers
  <2>2. pump'.pc # "claimed"
    BY <1>0, <1>1 DEF PumpWake, PumpFindInterrupted, PumpFindQueued, PumpThrow,
                      IdlePump, LoopHead, Pump
  <2> QED
    BY <1>a, <2>1, <2>2
<1>2. ASSUME PumpCasInterrupted \/ PumpCasQueued PROVE HandInv'
  <2>1. PICK r \in Runs : r = pump.run
    BY <1>0, <1>2 DEF PumpCasInterrupted, PumpCasQueued, Control, PumpInv
  <2>2. UNCHANGED <<exec, hitl>> /\ pump.pc # "claimed"
    BY <1>2 DEF PumpCasInterrupted, PumpCasQueued, memory, handlers
  <2>3. CASE UNCHANGED row /\ pump'.pc # "claimed"
    BY <1>a, <2>2, <2>3
  <2>4. CASE /\ Status(r) \in {"queued", "interrupted"}
             /\ row' = [row EXCEPT ![r].status = "running"]
             /\ pump' = [pump EXCEPT !.pc = "claimed"]
    <3>1. \A q \in Runs : Status(q)' = IF q = r THEN "running" ELSE Status(q)
      BY <1>0, <2>4, StatusStep
    <3>2. pump'.pc = "claimed" /\ pump'.run = r
      BY <1>0, <2>1, <2>4 DEF Pump
    <3>3. r \in Execs /\ \A t \in Execs : ~Has(t, r)
      BY <2>4, NobodyHas DEF Execs
    <3>4. \A t \in Execs \ {r} : SameHand(t)
      BY <2>2, <3>2 DEF SameHand
    <3>5. ~Live(r)
      <4>1. ~TakenUp(r)
        BY <2>4 DEF TakenUp
      <4> QED
        BY <1>0, <3>3, <4>1 DEF Control, ExecInv
    <3>6. \A q \in Runs : Has(r, q)' => q = r
      BY <2>2, <3>5, EngineAssumption DEF Has, Working, Live, EngineAssumption
    <3>7. "running" \in May(r)'
      BY <2>2, <3>5 DEF May, Working, Live, Fresh
    <3> QED
      BY <3>1, <3>3, <3>4, <3>6, <3>7, ActorHands
  <2>5. \/ /\ Status(r) \in {"queued", "interrupted"}
           /\ row' = [row EXCEPT ![r].status = "running"]
           /\ pump' = [pump EXCEPT !.pc = "claimed"]
        \/ /\ UNCHANGED row
           /\ \/ pump' = [pump EXCEPT !.pc = "interrupted", !.run = None, !.sel = FALSE]
              \/ pump' = [pump EXCEPT !.pc = "queued", !.run = None, !.sel = FALSE]
    BY <1>2, <2>1 DEF PumpCasInterrupted, PumpCasQueued
  <2> QED
    BY <1>0, <2>3, <2>4, <2>5 DEF Pump
<1>3. ASSUME PumpBegin PROVE HandInv'
  <2>1. PICK r \in Runs : r = pump.run
    BY <1>0, <1>3 DEF PumpBegin, Control, PumpInv
  <2>2. /\ r \in Execs /\ Has(r, r) /\ ~Live(r)
        /\ UNCHANGED <<row, hitl>>
        /\ pump'.pc # "claimed"
    BY <1>0, <1>3, <2>1
    DEF PumpBegin, Has, Execs, Control, PumpInv, IdlePump, LoopHead, handlers
  <2>3. /\ \A t \in Execs \ {r} : exec'[t] = exec[t]
        /\ exec'[r].pc = "load" /\ exec'[r].run = r
    BY <1>0, <1>3, <2>1, <2>2 DEF PumpBegin, Begin
  <2>4. \A t \in Execs \ {r} : SameHand(t) /\ ~Has(t, r)
    BY <2>1, <2>2, <2>3 DEF HandInv, SameHand
  <2>5. \A q \in Runs : Has(r, q)' => q = r
    BY <2>2, <2>3, EngineAssumption DEF Has, EngineAssumption
  <2>6. Status(r)' \in May(r)'
    <3>1. Status(r) \in Fresh
      BY <2>2 DEF HandInv, May, Working, Live
    <3> QED
      BY <2>2, <2>3, <3>1 DEF May, StageOf, Working, Status
  <2> QED
    BY <2>2, <2>4, <2>5, <2>6, ActorHands DEF Status
<1>4. ASSUME NEW e \in Execs, ExecEnd(e) PROVE HandInv'
  <2>1. /\ UNCHANGED <<row, hitl>>
        /\ pump'.pc = pump.pc /\ pump'.run = pump.run
        /\ \A t \in Execs \ {e} : exec'[t] = exec[t]
        /\ ~Working(e)'
    BY <1>0, <1>4 DEF ExecEnd, Pump, NoExec, Working, handlers
  <2>2. \A t \in Execs \ {e} : SameHand(t)
    BY <2>1 DEF SameHand
  <2>3. /\ e \in Resumers => hitl[e].pc = "done"
        /\ ~(pump.pc = "claimed" /\ pump.run = e)
    BY <1>0, <1>4 DEF ExecEnd, Control, ExecInv, PumpInv, Live
  <2>4. \A r \in Runs : ~Has(e, r)'
    BY <2>1, <2>3 DEF Has
  <2> QED
    BY <2>1, <2>2, <2>4, IdleHands DEF Status
<1>5. ASSUME NEW r \in Runs, StartRun(r) PROVE HandInv'
  <2>1. /\ UNCHANGED <<exec, hitl>>
        /\ pump'.pc = pump.pc /\ pump'.run = pump.run
    BY <1>0, <1>5 DEF StartRun, Pump, memory, handlers
  <2>2. Status(r) = "absent" /\ \A q \in Runs \ {r} : Status(q)' = Status(q)
    BY <1>0, <1>5, StartEffect DEF Status
  <2> QED
    BY <1>b, <2>1, <2>2
<1>6. ASSUME NEW r \in Runs, CancelStep(r) \/ CancelRead(r) \/ CancelThrow(r)
      PROVE  HandInv'
  <2>1. UNCHANGED <<exec, hitl, pump>>
    BY <1>6 DEF CancelStep, CancelFlag, CancelAttempt, CancelAbort, CancelRead,
                CancelThrow, memory
  <2>2. \/ \A q \in Runs : Status(q)' = Status(q)
        \/ /\ Status(r) \in Cancelable
           /\ \A q \in Runs : Status(q)' = IF q = r THEN "cancelled" ELSE Status(q)
    <3>1. CASE CancelAttempt(r)
      BY <1>0, <3>1, CancelledStep DEF CancelAttempt, Status
    <3>2. CASE CancelFlag(r)
      BY <1>0, <3>2, FieldStep DEF CancelFlag, Status
    <3>3. CASE CancelAbort(r) \/ CancelRead(r) \/ CancelThrow(r)
      BY <3>3 DEF CancelAbort, CancelRead, CancelThrow, Status
    <3> QED
      BY <1>6, <3>1, <3>2, <3>3 DEF CancelStep
  <2> QED
    BY <1>b, <2>1, <2>2
<1>7. ASSUME NEW h \in Resumers,
             \/ \E r \in Runs : ResumeRead(h, r)
             \/ ResumeSelect(h) \/ ResumeThrow(h)
      PROVE  HandInv'
  <2>1. UNCHANGED <<exec, pump>> /\ \A t \in Resumers \ {h} : hitl'[t] = hitl[t]
    BY <1>0, <1>7 DEF ResumeRead, ResumeSelect, ResumeThrow, HitlGoto, memory
  <2>2. hitl[h].pc # "notify" /\ hitl'[h].pc # "notify"
    <3>1. hitl[h] \in [pc  : {"idle", "select", "save", "notify", "done"},
                      run : Runs \cup {None}]
      BY <1>0
    <3> QED
      BY <1>0, <1>7, <3>1 DEF ResumeRead, ResumeSelect, ResumeThrow, HitlGoto
  <2>3. \A q \in Runs : Status(q)' = Status(q)
    <3>1. CASE ResumeSelect(h)
      <4>1. hitl[h].run \in Runs
        BY <1>0, <3>1 DEF ResumeSelect, Control, HitlInv
      <4> QED
        BY <1>0, <3>1, <4>1, FieldStep DEF ResumeSelect
    <3>2. CASE ResumeThrow(h) \/ \E r \in Runs : ResumeRead(h, r)
      BY <3>2 DEF ResumeThrow, ResumeRead, Status
    <3> QED
      BY <1>7, <3>1, <3>2
  <2>4. \A t \in Execs, r \in Runs : Has(t, r)' <=> Has(t, r)
    BY <2>1, <2>2 DEF Has, Working
  <2>5. \A t \in Execs : May(t)' = May(t)
    BY <2>1 DEF May, Working, StageOf
  <2> QED
    BY <2>3, <2>4, <2>5 DEF HandInv
<1>8. ASSUME NEW h \in Resumers, ResumeSave(h) PROVE HandInv'
  <2>1. PICK r \in Runs : r = hitl[h].run
    BY <1>0, <1>8 DEF ResumeSave, Control, HitlInv
  <2>2. /\ UNCHANGED <<exec, pump>>
        /\ \A t \in Resumers \ {h} : hitl'[t] = hitl[t]
        /\ hitl[h].pc = "save" /\ hitl'[h].pc = "notify" /\ hitl'[h].run = r
    <3>1. hitl[h] \in [pc  : {"idle", "select", "save", "notify", "done"},
                      run : Runs \cup {None}]
      BY <1>0
    <3> QED
      BY <1>0, <1>8, <2>1, <3>1 DEF ResumeSave, HitlGoto, memory
  <2>3. \A q \in Runs : Status(q)' = IF q = r THEN "running" ELSE Status(q)
    BY <1>0, <1>8, <2>1, StatusStep DEF ResumeSave
  <2>4. \A t \in Execs : ~Has(t, r)
    BY <2>1, <2>2 DEF FreeStep
  <2>5. h \in Execs /\ ~Working(h) /\ h \notin Runs
    BY <1>0, <2>2, EngineAssumption
    DEF Execs, EngineAssumption, Control, ExecInv, Working, Live
  <2>6. \A t \in Execs \ {h} : SameHand(t)
    BY <2>2 DEF SameHand
  <2>7. \A q \in Runs : Has(h, q)' => q = r
    BY <2>2, <2>5 DEF Has, Working
  <2>8. "running" \in May(h)'
    BY <2>2, <2>5 DEF May, Working, Fresh
  <2> QED
    BY <2>3, <2>4, <2>5, <2>6, <2>7, <2>8, ActorHands
<1>9. ASSUME NEW h \in Resumers, ResumeNotify(h) PROVE HandInv'
  <2>1. PICK r \in Runs : r = hitl[h].run
    BY <1>0, <1>9 DEF ResumeNotify, Control, HitlInv
  <2>2. /\ h \in Execs /\ h \notin Runs /\ Has(h, r) /\ ~Working(h)
        /\ UNCHANGED <<row, pump>>
        /\ \A t \in Resumers \ {h} : hitl'[t] = hitl[t]
        /\ hitl'[h].pc = "done"
    BY <1>0, <1>9, <2>1, EngineAssumption
    DEF ResumeNotify, Has, Execs, EngineAssumption, Control, ExecInv, Working, Live
  <2>3. /\ \A t \in Execs \ {h} : exec'[t] = exec[t]
        /\ exec'[h].pc = "load" /\ exec'[h].run = r
    BY <1>0, <1>9, <2>1, <2>2 DEF ResumeNotify, Begin
  <2>4. \A t \in Execs \ {h} : SameHand(t) /\ ~Has(t, r)
    BY <2>1, <2>2, <2>3 DEF HandInv, SameHand
  <2>5. \A q \in Runs : Has(h, q)' => q = r
    BY <2>2, <2>3 DEF Has
  <2>6. Status(r)' \in May(h)'
    <3>1. Status(r) \in Fresh
      BY <2>2 DEF HandInv, May
    <3> QED
      BY <2>2, <2>3, <3>1 DEF May, StageOf, Working, Status
  <2> QED
    BY <2>2, <2>4, <2>5, <2>6, ActorHands DEF Status
<1>10. ASSUME Recovery PROVE FALSE
  BY <1>10 DEF Recovery, BootCancel, BootRetry, BootExhaust, BootCancelsDone,
               BootInterrupt, BootAnchor, BootDone, Up
<1>11. ASSUME Crash PROVE FALSE
  BY <1>11 DEF Crash, Up
<1> QED
  BY <1>1, <1>2, <1>3, <1>4, <1>5, <1>6, <1>7, <1>8, <1>9, <1>10, <1>11,
     EngineAssumption
  DEF Next, PumpStep, ExecStep, ResumeStep, Throw, Inside, EngineAssumption

LEMMA HandStep ==
  ASSUME Slots, OrderInv, HandInv, FreeStep, Next
  PROVE  HandInv'
<1>1. CASE ~Up /\ Recovery
  <2>1. \A t \in Execs, r \in Runs : ~Has(t, r)
    BY <1>1, IdleBoot
  <2>2. UNCHANGED <<exec, hitl>> /\ pump'.pc = pump.pc /\ pump'.run = pump.run
    BY <1>1 DEF Recovery, BootCancel, BootRetry, BootExhaust, BootCancelsDone,
                BootInterrupt, BootAnchor, BootDone, memory, handlers,
                Slots, TypeOK, Pump
  <2>3. \A t \in Execs, r \in Runs : ~Has(t, r)'
    BY <2>1, <2>2 DEF Has, Working
  <2> QED
    BY <2>3 DEF HandInv
<1>2. CASE Crash
  <2>1. \A t \in Execs, r \in Runs : ~Has(t, r)'
    BY <1>2 DEF Crash, NoExec, IdlePump, Has, Working
  <2> QED
    BY <2>1 DEF HandInv
<1>3. CASE Up /\ UNCHANGED boot
  BY <1>3, OtherHands, ExecHands
<1> QED
  BY <1>1, <1>2, <1>3, OthersServe

LEMMA HandsHold ==
  Spec /\ HitlOnlyWhilePaused => []HandInv
<1>1. Init => HandInv
  BY DEF Init, HandInv, Has, Working, NoExec, IdlePump
<1>2. Slots /\ OrderInv /\ HandInv /\ [Next]_vars /\ [PausedStep]_vars => HandInv'
  <2>1. ASSUME HandInv, UNCHANGED vars PROVE HandInv'
    BY <2>1 DEF HandInv, Has, May, StageOf, Working, Status, vars
  <2> QED
    BY <2>1, HandStep, PausedIsFree
<1>3. HitlOnlyWhilePaused => [][PausedStep]_vars
  BY PTL DEF HitlOnlyWhilePaused, PausedStep
<1> QED
  BY <1>1, <1>2, <1>3, OrderInductiveInv, PTL DEF Spec

LEMMA HandsAreOne ==
  ASSUME Slots, HandInv
  PROVE  OneWorkingExecution
<1>1. ASSUME NEW d \in Execs, NEW e \in Execs,
             Working(d), Working(e), exec[d].run = exec[e].run
      PROVE  d = e
  <2>1. exec[e].run \in Runs
    BY <1>1 DEF Slots, Control, ExecInv, Live, Working
  <2>2. Has(d, exec[e].run) /\ Has(e, exec[e].run)
    BY <1>1 DEF Has
  <2> QED
    BY <2>1, <2>2 DEF HandInv
<1> QED
  BY <1>1 DEF OneWorkingExecution

\* The worker and the HITL handler never put two executions to work on one run,
\* as long as the unconditional update of a resume finds the run paused: the
\* rule of SPEC-RUNY that no statement of the code enforces is all it takes.
THEOREM OneExecutionWorks == Spec /\ HitlOnlyWhilePaused => []OneWorkingExecution
BY HandsAreOne, HandsHold, OrderInductiveInv, PTL

-----------------------------------------------------------------------------
(* The review anchor                                                        *)

\* A run that opened its review keeps a status that has one.
LEMMA ReviewableKept ==
  ASSUME Slots, OrderInv, HandInv, PausedStep, Next,
         NEW r \in Runs, Status(r) \in Reviewable
  PROVE  Status(r)' \in Reviewable
<1>0. Caused(r)
  BY StatusCause DEF StatusMoved
<1>1. ASSUME NEW e \in Execs, ExecSave(e), exec[e].run = r, Status(r)' = exec[e].to
      PROVE  Status(r)' \in Reviewable
  <2>1. exec[e] \in Exec /\ exec[e].pc = "save"
    BY <1>1 DEF ExecSave, Slots, TypeOK
  <2>2. Status(r) \in StageOf(exec[e])
    BY <1>1, <2>1 DEF HandInv, Has, May, Working
  <2>3. exec[e].to # "awaiting_hitl"
    BY <2>1, <2>2 DEF StageOf, Fresh, Reviewable
  <2> QED
    BY <1>1, <2>1, <2>3 DEF Exec, Reviewable
<1>2. ASSUME NEW h \in Resumers, ResumeSave(h), hitl[h].run = r PROVE FALSE
  <2>1. hitl[h].pc = "save" /\ hitl'[h].pc = "notify"
    <3>1. hitl[h] \in [pc  : {"idle", "select", "save", "notify", "done"},
                      run : Runs \cup {None}]
      BY DEF Slots, TypeOK
    <3> QED
      BY <1>2, <3>1 DEF ResumeSave, HitlGoto, Slots, TypeOK
  <2> QED
    BY <1>2, <2>1 DEF PausedStep, Reviewable
<1> QED
  BY <1>0, <1>1, <1>2 DEF Caused, Claims, Cancelable, Reviewable

LEMMA RowKeepsAnchor ==
  ASSUME row \in [Runs -> Row], NEW r \in Runs,
         \/ \E s \in RunStatuses : row' = [row EXCEPT ![r].status = s]
         \/ row' = [row EXCEPT ![r] = CancelledRow(r)]
         \/ row' = [row EXCEPT ![r].draft = TRUE]
         \/ row' = [row EXCEPT ![r].selected = TRUE]
         \/ row' = [row EXCEPT ![r].cancelRequested = TRUE]
         \/ row' = [row EXCEPT ![r].attempts = @ + 1]
  PROVE  \A q \in Runs : row'[q].finished = row[q].finished
<1>1. row[r] \in Row
  OBVIOUS
<1>2. ASSUME NEW s, row' = [row EXCEPT ![r].status = s]
      PROVE  row'[r].finished = row[r].finished
  BY <1>1, <1>2 DEF Row
<1>3. CASE row' = [row EXCEPT ![r] = CancelledRow(r)]
  BY <1>1, <1>3 DEF Row, CancelledRow
<1>4. CASE \/ row' = [row EXCEPT ![r].draft = TRUE]
           \/ row' = [row EXCEPT ![r].selected = TRUE]
           \/ row' = [row EXCEPT ![r].cancelRequested = TRUE]
           \/ row' = [row EXCEPT ![r].attempts = @ + 1]
  BY <1>1, <1>4 DEF Row
<1>5. row'[r].finished = row[r].finished
  BY <1>2, <1>3, <1>4
<1>6. \A q \in Runs \ {r} : row'[q] = row[q]
  OBVIOUS
<1> QED
  BY <1>5, <1>6

\* setPipelineFinishedAt is the only statement that sets the anchor.
LEMMA AnchorCause ==
  ASSUME Slots, OrderInv, HandInv, Next, NEW r \in Runs
  PROVE  row'[r].finished => row[r].finished \/ Status(r) \in Reviewable
<1>0. row \in [Runs -> Row] /\ exec \in [Execs -> Exec] /\ Control
  BY DEF Slots, TypeOK
<1> DEFINE Goal == row'[r].finished => row[r].finished \/ Status(r) \in Reviewable
<1>a. ASSUME UNCHANGED row PROVE Goal
  BY <1>a
<1>b. ASSUME NEW q \in Runs,
             \/ \E s \in RunStatuses : row' = [row EXCEPT ![q].status = s]
             \/ row' = [row EXCEPT ![q] = CancelledRow(q)]
             \/ row' = [row EXCEPT ![q].draft = TRUE]
             \/ row' = [row EXCEPT ![q].selected = TRUE]
             \/ row' = [row EXCEPT ![q].cancelRequested = TRUE]
             \/ row' = [row EXCEPT ![q].attempts = @ + 1]
      PROVE  Goal
  BY <1>0, <1>b, RowKeepsAnchor
<1>c. ASSUME NEW q \in Runs, row' = [row EXCEPT ![q].finished = TRUE],
             Status(q) \in Reviewable
      PROVE  Goal
  BY <1>0, <1>c
<1>1. ASSUME NEW q \in Runs, BootCancel(q) \/ BootRetry(q) \/ BootExhaust(q)
      PROVE  Goal
  BY <1>1, <1>b, StatusNames DEF BootCancel, BootRetry, BootExhaust
<1>2. ASSUME BootInterrupt PROVE Goal
  BY <1>0, <1>2, <1>b, StatusNames DEF BootInterrupt, Control, BootInv
<1>3. ASSUME BootAnchor PROVE Goal
  <2>1. boot.run \in Runs /\ Status(boot.run) \in Reviewable
    BY <1>0, <1>3 DEF BootAnchor, Control, BootInv, OrderInv, RecoveringInv, Reviewable
  <2> QED
    BY <1>3, <1>c, <2>1 DEF BootAnchor
<1>4. ASSUME PumpCasInterrupted \/ PumpCasQueued PROVE Goal
  <2>1. pump.run \in Runs
    BY <1>0, <1>4 DEF PumpCasInterrupted, PumpCasQueued, Control, PumpInv
  <2> QED
    BY <1>4, <1>a, <1>b, <2>1, StatusNames DEF PumpCasInterrupted, PumpCasQueued
<1>5. ASSUME NEW e \in Execs, ExecPersistDraft(e) \/ ExecSave(e) PROVE Goal
  <2>1. exec[e].run \in Runs /\ exec[e].to \in RunStatuses
    BY <1>0, <1>5, StatusNames
    DEF ExecPersistDraft, ExecSave, Control, ExecInv, Live, Exec
  <2> QED
    BY <1>5, <1>b, <2>1 DEF ExecPersistDraft, ExecSave
<1>6. ASSUME NEW e \in Execs, ExecAnchor(e) PROVE Goal
  <2>1. exec[e].run \in Runs
    BY <1>0, <1>6 DEF ExecAnchor, Control, ExecInv, Live
  <2>2. Status(exec[e].run) \in Reviewable
    BY <1>6, <2>1 DEF ExecAnchor, HandInv, Has, May, Working, StageOf
  <2> QED
    BY <1>6, <1>c, <2>1, <2>2 DEF ExecAnchor
<1>7. ASSUME NEW q \in Runs, CancelFlag(q) \/ CancelAttempt(q) PROVE Goal
  BY <1>7, <1>a, <1>b DEF CancelFlag, CancelAttempt
<1>8. ASSUME NEW h \in Resumers, ResumeSelect(h) \/ ResumeSave(h) PROVE Goal
  BY <1>0, <1>8, <1>b, StatusNames DEF ResumeSelect, ResumeSave, Control, HitlInv
<1>9. ASSUME NEW q \in Runs, StartRun(q) PROVE Goal
  BY <1>0, <1>9 DEF StartRun, NoRow
<1>10. ASSUME \/ Crash \/ PumpThrow \/ PumpBegin \/ PumpWake \/ BootDone
              \/ BootCancelsDone \/ PumpFindInterrupted \/ PumpFindQueued
       PROVE  UNCHANGED row
  BY <1>10 DEF Crash, PumpThrow, PumpBegin, PumpWake, BootDone, BootCancelsDone,
               PumpFindInterrupted, PumpFindQueued
<1>11. ASSUME NEW e \in Execs,
              \/ ExecLoad(e) \/ ExecPrepare(e) \/ ExecOutcome(e) \/ ExecFail(e)
              \/ ExecAbort(e) \/ ExecRescue(e) \/ ExecEnd(e) \/ ExecThrow(e)
       PROVE  UNCHANGED row
  BY <1>11 DEF ExecLoad, ExecPrepare, ExecOutcome, ExecFail, ExecAbort, ExecRescue,
               ExecEnd, ExecThrow
<1>12. ASSUME NEW q \in Runs, CancelAbort(q) \/ CancelRead(q) \/ CancelThrow(q)
       PROVE  UNCHANGED row
  BY <1>12 DEF CancelAbort, CancelRead, CancelThrow
<1>13. ASSUME NEW h \in Resumers,
              \/ \E q \in Runs : ResumeRead(h, q)
              \/ ResumeNotify(h) \/ ResumeThrow(h)
       PROVE  UNCHANGED row
  BY <1>13 DEF ResumeRead, ResumeNotify, ResumeThrow
<1> HIDE DEF Goal
<1>14. Goal
  BY <1>a, <1>1, <1>2, <1>3, <1>4, <1>5, <1>6, <1>7, <1>8, <1>9, <1>10, <1>11,
     <1>12, <1>13, EngineAssumption
  DEF Next, Recovery, PumpStep, ExecStep, CancelStep, ResumeStep, Throw,
      EngineAssumption
<1> QED
  BY <1>14 DEF Goal

\* R-10.2, R-10.4: whatever is cancelled, crashes or throws, only completed and
\* failed runs carry pipelineFinishedAt, under the same rule about resumes.
THEOREM AnchorsMeanFinished == Spec /\ HitlOnlyWhilePaused => []AnchorMeansFinished
<1>1. Init => AnchorMeansFinished
  BY DEF Init, AnchorMeansFinished, NoRow
<1>2. Slots /\ OrderInv /\ HandInv /\ AnchorMeansFinished
      /\ [Next]_vars /\ [PausedStep]_vars => AnchorMeansFinished'
  <2>1. ASSUME Slots, OrderInv, HandInv, AnchorMeansFinished, Next, PausedStep,
               NEW r \in Runs, row'[r].finished
        PROVE  Status(r)' \in Reviewable
    BY <2>1, AnchorCause, ReviewableKept DEF AnchorMeansFinished
  <2>2. ASSUME AnchorMeansFinished, UNCHANGED vars PROVE AnchorMeansFinished'
    BY <2>2 DEF AnchorMeansFinished, Status, vars
  <2> QED
    BY <2>1, <2>2 DEF AnchorMeansFinished
<1>3. HitlOnlyWhilePaused => [][PausedStep]_vars
  BY PTL DEF HitlOnlyWhilePaused, PausedStep
<1> QED
  BY <1>1, <1>2, <1>3, HandsHold, OrderInductiveInv, PTL DEF Spec

-----------------------------------------------------------------------------
(* Who moves a hand                                                         *)

LEMMA ExecTurn ==
  ASSUME Slots, Next, NEW t \in Execs
  PROVE  \/ exec'[t] = exec[t]
         \/ Inside(t) \/ ExecEnd(t) \/ Crash
         \/ PumpBegin /\ t = pump.run /\ ~Live(t)
         \/ t \in Resumers /\ ResumeNotify(t) /\ ~Live(t)
<1>0. exec \in [Execs -> Exec] /\ Control
  BY DEF Slots, TypeOK
<1> DEFINE Goal == \/ exec'[t] = exec[t]
                   \/ Inside(t) \/ ExecEnd(t) \/ Crash
                   \/ PumpBegin /\ t = pump.run /\ ~Live(t)
                   \/ t \in Resumers /\ ResumeNotify(t) /\ ~Live(t)
<1>1. ASSUME Recovery PROVE UNCHANGED exec
  BY <1>1 DEF Recovery, BootCancel, BootRetry, BootExhaust, BootCancelsDone,
              BootInterrupt, BootAnchor, BootDone, memory
<1>2. ASSUME \/ PumpWake \/ PumpFindInterrupted \/ PumpCasInterrupted
             \/ PumpFindQueued \/ PumpCasQueued \/ PumpThrow
      PROVE  UNCHANGED exec
  BY <1>2 DEF PumpWake, PumpFindInterrupted, PumpCasInterrupted, PumpFindQueued,
              PumpCasQueued, PumpThrow, memory
<1>3. ASSUME PumpBegin PROVE Goal
  BY <1>0, <1>3 DEF PumpBegin, Begin, Control, PumpInv
<1>4. ASSUME NEW e \in Execs, ExecStep(e) \/ ExecThrow(e) PROVE Goal
  <2>1. CASE e = t
    BY <1>4, <2>1 DEF ExecStep, Inside
  <2>2. CASE e # t
    <3>1. exec'[t] = exec[t]
      BY <1>0, <1>4, <2>2
      DEF ExecStep, ExecLoad, ExecPrepare, ExecPersistDraft, ExecOutcome, ExecFail,
          ExecAbort, ExecSave, ExecAnchor, ExecRescue, ExecThrow, ExecEnd, Goto,
          Leave, memory
    <3> QED
      BY <3>1
  <2> QED
    BY <2>1, <2>2
<1>5. ASSUME NEW r \in Runs,
             \/ StartRun(r) \/ CancelStep(r) \/ CancelRead(r) \/ CancelThrow(r)
      PROVE  UNCHANGED exec
  BY <1>5 DEF StartRun, CancelStep, CancelFlag, CancelAttempt, CancelAbort,
              CancelRead, CancelThrow, memory
<1>6. ASSUME NEW h \in Resumers,
             \/ \E r \in Runs : ResumeRead(h, r)
             \/ ResumeSelect(h) \/ ResumeSave(h) \/ ResumeThrow(h)
      PROVE  UNCHANGED exec
  BY <1>6 DEF ResumeRead, ResumeSelect, ResumeSave, ResumeThrow, memory
<1>7. ASSUME NEW h \in Resumers, ResumeNotify(h) PROVE Goal
  <2>1. h \in Execs /\ ~Live(h)
    BY <1>0, <1>7 DEF ResumeNotify, Control, ExecInv, Execs
  <2> QED
    BY <1>0, <1>7, <2>1 DEF ResumeNotify, Begin
<1> HIDE DEF Goal
<1>8. ASSUME UNCHANGED exec PROVE Goal
  BY <1>8 DEF Goal
<1>9. ASSUME Crash PROVE Goal
  BY <1>9 DEF Goal
<1>10. Goal
  BY <1>1, <1>2, <1>3, <1>4, <1>5, <1>6, <1>7, <1>8, <1>9, EngineAssumption
  DEF Next, PumpStep, ResumeStep, Throw, EngineAssumption
<1> QED
  BY <1>10 DEF Goal

LEMMA HitlTurn ==
  ASSUME Slots, Next, NEW h \in Resumers
  PROVE  \/ hitl'[h] = hitl[h]
         \/ \E r \in Runs : ResumeRead(h, r)
         \/ ResumeStep(h) \/ ResumeThrow(h) \/ Crash
<1>0. hitl \in [Resumers -> [pc  : {"idle", "select", "save", "notify", "done"},
                             run : Runs \cup {None}]]
  BY DEF Slots, TypeOK
<1>1. ASSUME Recovery \/ PumpStep \/ PumpThrow PROVE UNCHANGED hitl
  BY <1>1 DEF Recovery, BootCancel, BootRetry, BootExhaust, BootCancelsDone,
              BootInterrupt, BootAnchor, BootDone, PumpStep, PumpWake,
              PumpFindInterrupted, PumpCasInterrupted, PumpFindQueued,
              PumpCasQueued, PumpBegin, PumpThrow, handlers
<1>2. ASSUME NEW e \in Execs, ExecStep(e) \/ ExecThrow(e) PROVE UNCHANGED hitl
  BY <1>2 DEF ExecStep, ExecLoad, ExecPrepare, ExecPersistDraft, ExecOutcome,
              ExecFail, ExecAbort, ExecSave, ExecAnchor, ExecRescue, ExecThrow,
              ExecEnd, handlers
<1>3. ASSUME NEW r \in Runs,
             \/ StartRun(r) \/ CancelStep(r) \/ CancelRead(r) \/ CancelThrow(r)
      PROVE  UNCHANGED hitl
  BY <1>3 DEF StartRun, CancelStep, CancelFlag, CancelAttempt, CancelAbort,
              CancelRead, CancelThrow, handlers
<1>4. ASSUME NEW k \in Resumers \ {h},
             \/ \E r \in Runs : ResumeRead(k, r)
             \/ ResumeStep(k) \/ ResumeThrow(k)
      PROVE  hitl'[h] = hitl[h]
  BY <1>0, <1>4 DEF ResumeRead, ResumeStep, ResumeSelect, ResumeSave, ResumeNotify,
                    ResumeThrow, HitlGoto
<1> QED
  BY <1>1, <1>2, <1>3, <1>4, EngineAssumption DEF Next, Throw, EngineAssumption

LEMMA ClaimTurn ==
  ASSUME Slots, OrderInv, Next, pump.pc = "claimed"
  PROVE  \/ pump'.pc = "claimed" /\ pump'.run = pump.run
         \/ PumpBegin \/ Crash
<1>0. pump \in Pump
  BY DEF Slots, TypeOK
<1> USE <1>0 DEF Pump
<1>1. ASSUME Recovery PROVE pump'.pc = pump.pc /\ pump'.run = pump.run
  BY <1>1 DEF Recovery, BootCancel, BootRetry, BootExhaust, BootCancelsDone,
              BootInterrupt, BootAnchor, BootDone
<1>2. ASSUME NEW e \in Execs, ExecStep(e) \/ ExecThrow(e)
      PROVE  pump'.pc = pump.pc /\ pump'.run = pump.run
  BY <1>2 DEF ExecStep, ExecLoad, ExecPrepare, ExecPersistDraft, ExecOutcome,
              ExecFail, ExecAbort, ExecSave, ExecAnchor, ExecRescue, ExecEnd,
              ExecThrow
<1>3. ASSUME NEW r \in Runs,
             StartRun(r) \/ CancelStep(r) \/ CancelRead(r) \/ CancelThrow(r)
      PROVE  pump'.pc = pump.pc /\ pump'.run = pump.run
  BY <1>3 DEF StartRun, CancelStep, CancelFlag, CancelAttempt, CancelAbort,
              CancelRead, CancelThrow
<1>4. ASSUME NEW h \in Resumers,
             \/ ResumeStep(h) \/ ResumeThrow(h)
             \/ \E r \in Runs : ResumeRead(h, r)
      PROVE  pump'.pc = pump.pc /\ pump'.run = pump.run
  BY <1>4 DEF ResumeStep, ResumeSelect, ResumeSave, ResumeNotify, ResumeThrow,
              ResumeRead
<1>5. ASSUME PumpStep \/ PumpThrow PROVE PumpBegin
  BY <1>5 DEF PumpStep, PumpWake, PumpFindInterrupted, PumpCasInterrupted,
              PumpFindQueued, PumpCasQueued, PumpThrow
<1> QED
  BY <1>1, <1>2, <1>3, <1>4, <1>5, EngineAssumption DEF Next, Throw, EngineAssumption

-----------------------------------------------------------------------------
(* Abort controllers                                                        *)

\* A controller belongs to one run, the registry's and the executions' alike,
\* and a HITL request brings a new one.
ControllerInv ==
  /\ \A q \in Runs : registry[q] \in Runs => registry[q] = q
  /\ \A p, q \in Runs : registry[p] = registry[q] /\ registry[q] # None => p = q
  /\ \A e \in Execs : Live(e) =>
       /\ exec[e].ctl # None
       /\ exec[e].ctl \in Runs => exec[e].ctl = exec[e].run
       /\ \A q \in Runs : registry[q] = exec[e].ctl => exec[e].run = q
  /\ \A h \in Resumers : hitl[h].pc # "done" =>
       /\ \A q \in Runs : registry[q] # h
       /\ \A e \in Execs : Live(e) => exec[e].ctl # h

\* An execution inside its work keeps its run and its controller.
LEMMA InsideControllers ==
  ASSUME TypeOK, NEW e \in Execs, Inside(e)
  PROVE  \A d \in Execs : exec'[d].ctl = exec[d].ctl
<1>0. exec \in [Execs -> Exec] /\ exec[e] \in Exec
  BY DEF TypeOK
<1>1. \A pc : Goto(e, pc) => exec'[e].ctl = exec[e].ctl
  BY <1>0 DEF Goto, Exec
<1>2. \A to, c : Leave(e, to, c) => exec'[e].ctl = exec[e].ctl
  BY <1>0 DEF Leave, Exec
<1>3. \A pc, c : exec' = [exec EXCEPT ![e] = [@ EXCEPT !.pc = pc, !.catcher = c]]
                 => exec'[e].ctl = exec[e].ctl
  BY <1>0 DEF Exec
<1>4. exec'[e].ctl = exec[e].ctl
  BY <1>1, <1>2, <1>3
  DEF Inside, ExecLoad, ExecPrepare, ExecPersistDraft, ExecOutcome, ExecFail,
      ExecAbort, ExecSave, ExecAnchor, ExecRescue, ExecThrow, memory
<1>5. \A d \in Execs \ {e} : exec'[d] = exec[d]
  BY <1>0 DEF Inside, ExecLoad, ExecPrepare, ExecPersistDraft, ExecOutcome,
              ExecFail, ExecAbort, ExecSave, ExecAnchor, ExecRescue, ExecThrow,
              Goto, Leave, memory
<1> QED
  BY <1>4, <1>5

\* An execution starts: it joins the controller of its run or brings its own.
LEMMA BeginController ==
  ASSUME EngineAssumption, exec \in [Execs -> Exec],
         registry \in [Runs -> Execs \cup {None}], ControllerInv,
         NEW e \in Execs, NEW q \in Runs, NEW b, Begin(e, q, b),
         e \in Runs => e = q,
         e \in Resumers => hitl[e].pc # "done" /\ hitl'[e].pc = "done",
         \A h \in Resumers \ {e} : hitl'[h] = hitl[h]
  PROVE  ControllerInv'
<1> DEFINE c == IF registry[q] # None THEN registry[q] ELSE e
           x == [pc |-> "load", run |-> q, sel |-> b, ctl |-> c,
                 to |-> "failed", catcher |-> "worker"]
<1>1. /\ registry' = [registry EXCEPT ![q] = c]
      /\ exec' = [exec EXCEPT ![e] = x]
  BY DEF Begin
<1>2. x.run = q /\ x.ctl = c
  OBVIOUS
<1>3. c # None /\ (c \in Runs => c = q)
  BY DEF EngineAssumption, Execs, ControllerInv
<1>4. \A p \in Runs : registry[p] = c => p = q
  <2>1. CASE registry[q] # None
    BY <2>1 DEF ControllerInv
  <2>2. CASE registry[q] = None /\ e \in Runs
    BY <2>2 DEF ControllerInv
  <2>3. CASE registry[q] = None /\ e \in Resumers
    BY <2>3 DEF ControllerInv
  <2> QED
    BY <2>1, <2>2, <2>3 DEF Execs
<1>5. \A d \in Execs : Live(d) /\ exec[d].ctl = c => exec[d].run = q
  <2>1. CASE registry[q] # None
    BY <2>1 DEF ControllerInv
  <2>2. CASE registry[q] = None /\ e \in Runs
    BY <2>2 DEF ControllerInv
  <2>3. CASE registry[q] = None /\ e \in Resumers
    BY <2>3 DEF ControllerInv
  <2> QED
    BY <2>1, <2>2, <2>3 DEF Execs
<1>6. \A h \in Resumers \ {e} : hitl[h].pc # "done" => c # h
  BY DEF ControllerInv
<1> HIDE DEF c, x
<1>7. /\ \A p \in Runs : registry'[p] = IF p = q THEN c ELSE registry[p]
      /\ exec'[e] = x
      /\ \A d \in Execs \ {e} : exec'[d] = exec[d] /\ (Live(d)' <=> Live(d))
  BY <1>1 DEF Live
<1>8. /\ \A p \in Runs : registry'[p] \in Runs => registry'[p] = p
      /\ \A p, s \in Runs : registry'[p] = registry'[s] /\ registry'[s] # None => p = s
  BY <1>3, <1>4, <1>7 DEF ControllerInv
<1>9. ASSUME NEW d \in Execs, Live(d)'
      PROVE  /\ exec'[d].ctl # None
             /\ exec'[d].ctl \in Runs => exec'[d].ctl = exec'[d].run
             /\ \A p \in Runs : registry'[p] = exec'[d].ctl => exec'[d].run = p
  <2>1. CASE d = e
    BY <1>2, <1>3, <1>4, <1>7, <2>1
  <2>2. CASE d # e
    <3>1. Live(d) /\ exec'[d] = exec[d]
      BY <1>7, <1>9, <2>2
    <3> QED
      BY <1>5, <1>7, <3>1 DEF ControllerInv
  <2> QED
    BY <2>1, <2>2
<1>10. ASSUME NEW h \in Resumers, hitl'[h].pc # "done"
       PROVE  /\ \A p \in Runs : registry'[p] # h
              /\ \A d \in Execs : Live(d)' => exec'[d].ctl # h
  <2>1. h # e /\ hitl[h].pc # "done" /\ c # h
    BY <1>6, <1>10
  <2>2. \A p \in Runs : registry'[p] # h
    BY <1>7, <2>1 DEF ControllerInv
  <2>3. \A d \in Execs : Live(d)' => exec'[d].ctl # h
    BY <1>2, <1>7, <2>1 DEF ControllerInv
  <2> QED
    BY <2>2, <2>3
<1> QED
  BY <1>8, <1>9, <1>10 DEF ControllerInv

\* Nothing starts: controllers are only forgotten.
LEMMA SameControllers ==
  ASSUME ControllerInv,
         \A q \in Runs : registry'[q] = registry[q] \/ registry'[q] = None,
         \A d \in Execs : Live(d)' =>
           /\ Live(d) /\ exec'[d].run = exec[d].run
           /\ exec'[d].ctl = exec[d].ctl,
         \A h \in Resumers : hitl'[h].pc # "done" => hitl[h].pc # "done",
         EngineAssumption
  PROVE  ControllerInv'
<1>1. /\ \A q \in Runs : registry'[q] \in Runs => registry'[q] = q
      /\ \A p, q \in Runs : registry'[p] = registry'[q] /\ registry'[q] # None => p = q
  BY DEF ControllerInv, EngineAssumption
<1>2. \A e \in Execs : Live(e)' =>
       /\ exec'[e].ctl # None
       /\ exec'[e].ctl \in Runs => exec'[e].ctl = exec'[e].run
       /\ \A q \in Runs : registry'[q] = exec'[e].ctl => exec'[e].run = q
  BY DEF ControllerInv
<1>3. \A h \in Resumers : hitl'[h].pc # "done" =>
       /\ \A q \in Runs : registry'[q] # h
       /\ \A e \in Execs : Live(e)' => exec'[e].ctl # h
  BY DEF ControllerInv, EngineAssumption
<1> QED
  BY <1>1, <1>2, <1>3 DEF ControllerInv

LEMMA ControllerStep ==
  ASSUME Slots, ControllerInv, Next
  PROVE  ControllerInv'
<1>0. /\ TypeOK /\ exec \in [Execs -> Exec] /\ Control
      /\ registry \in [Runs -> Execs \cup {None}]
      /\ hitl \in [Resumers -> [pc  : {"idle", "select", "save", "notify", "done"},
                                run : Runs \cup {None}]]
  BY DEF Slots, TypeOK
<1>a. ASSUME UNCHANGED <<exec, registry>>,
             \A h \in Resumers : hitl'[h].pc # "done" => hitl[h].pc # "done"
      PROVE  ControllerInv'
  BY <1>a, SameControllers, EngineAssumption DEF Live
<1>1. ASSUME \/ Recovery \/ PumpWake \/ PumpFindInterrupted \/ PumpCasInterrupted
             \/ PumpFindQueued \/ PumpCasQueued \/ PumpThrow
      PROVE  UNCHANGED <<exec, registry, hitl>>
  BY <1>1 DEF Recovery, BootCancel, BootRetry, BootExhaust, BootCancelsDone,
              BootInterrupt, BootAnchor, BootDone, PumpWake, PumpFindInterrupted,
              PumpCasInterrupted, PumpFindQueued, PumpCasQueued, PumpThrow,
              memory, handlers
<1>2. ASSUME PumpBegin PROVE ControllerInv'
  <2>1. PICK r \in Runs : r = pump.run
    BY <1>0, <1>2 DEF PumpBegin, Control, PumpInv
  <2>2. /\ Begin(r, r, pump.sel) /\ UNCHANGED hitl
        /\ r \in Execs /\ r \notin Resumers
    BY <1>2, <2>1, EngineAssumption DEF PumpBegin, handlers, Execs, EngineAssumption
  <2> QED
    BY <1>0, <2>2, BeginController, EngineAssumption
<1>3. ASSUME NEW e \in Execs, Inside(e) PROVE ControllerInv'
  <2>1. /\ SameExecs
        /\ \A d \in Execs : exec'[d].ctl = exec[d].ctl
    BY <1>0, <1>3, InsideStep, InsideControllers
  <2>2. UNCHANGED <<registry, hitl>>
    BY <1>3 DEF Inside, ExecLoad, ExecPrepare, ExecPersistDraft, ExecOutcome,
                ExecFail, ExecAbort, ExecSave, ExecAnchor, ExecRescue, ExecThrow,
                handlers, memory
  <2> QED
    BY <2>1, <2>2, SameControllers, EngineAssumption DEF SameExecs
<1>4. ASSUME NEW e \in Execs, ExecEnd(e) PROVE ControllerInv'
  <2>1. /\ \A d \in Execs : Live(d)' => exec'[d] = exec[d]
        /\ UNCHANGED hitl
        /\ \A q \in Runs : registry'[q] = registry[q] \/ registry'[q] = None
    BY <1>0, <1>4 DEF ExecEnd, NoExec, Live, handlers
  <2> QED
    BY <2>1, SameControllers, EngineAssumption DEF Live
<1>5. ASSUME NEW r \in Runs,
             \/ StartRun(r) \/ CancelStep(r) \/ CancelRead(r) \/ CancelThrow(r)
      PROVE  UNCHANGED <<exec, registry, hitl>>
  BY <1>5 DEF StartRun, CancelStep, CancelFlag, CancelAttempt, CancelAbort,
              CancelRead, CancelThrow, memory, handlers
<1>6. ASSUME NEW h \in Resumers,
             \/ \E r \in Runs : ResumeRead(h, r)
             \/ ResumeSelect(h) \/ ResumeSave(h) \/ ResumeThrow(h)
      PROVE  ControllerInv'
  <2>1. UNCHANGED <<exec, registry>>
    BY <1>6 DEF ResumeRead, ResumeSelect, ResumeSave, ResumeThrow, memory
  <2>2. \A k \in Resumers : hitl'[k].pc # "done" => hitl[k].pc # "done"
    BY <1>0, <1>6 DEF ResumeRead, ResumeSelect, ResumeSave, ResumeThrow, HitlGoto
  <2> QED
    BY <1>a, <2>1, <2>2
<1>7. ASSUME NEW h \in Resumers, ResumeNotify(h) PROVE ControllerInv'
  <2>1. PICK r \in Runs : r = hitl[h].run
    BY <1>0, <1>7 DEF ResumeNotify, Control, HitlInv
  <2>2. /\ Begin(h, r, TRUE) /\ h \in Execs /\ h \notin Runs
        /\ hitl[h].pc # "done" /\ hitl'[h].pc = "done"
        /\ \A k \in Resumers \ {h} : hitl'[k] = hitl[k]
    BY <1>0, <1>7, <2>1, EngineAssumption
    DEF ResumeNotify, Execs, EngineAssumption
  <2> QED
    BY <1>0, <2>2, BeginController, EngineAssumption
<1>8. ASSUME Crash PROVE ControllerInv'
  <2>1. /\ \A d \in Execs : ~Live(d)'
        /\ \A q \in Runs : registry'[q] = None
        /\ \A k \in Resumers : hitl'[k].pc # "done" => hitl[k].pc # "done"
    BY <1>8 DEF Crash, NoExec, Live
  <2> QED
    BY <2>1, SameControllers, EngineAssumption
<1> QED
  BY <1>a, <1>1, <1>2, <1>3, <1>4, <1>5, <1>6, <1>7, <1>8, EngineAssumption
  DEF Next, PumpStep, ExecStep, ResumeStep, Throw, Inside, EngineAssumption

-----------------------------------------------------------------------------
(* Whoever is told to stop works for a run that is over                     *)

\* No run that is over is brought back, of one step: the terminal statuses of
\* SPEC-RUNY, "Statusy", have no way out.
OverStep ==
  \A r \in Runs : Status(r) \in TerminalStatuses => Status(r)' \in TerminalStatuses

OverIsOver == [][OverStep]_vars

AbortInv ==
  /\ \A r \in Runs : cancel[r] = "abort" => Status(r) \in TerminalStatuses
  /\ \A e \in Execs : Live(e) /\ exec[e].ctl \in aborted =>
       Status(exec[e].run) \in TerminalStatuses
  /\ \A q \in Runs : registry[q] \in aborted => Status(q) \in TerminalStatuses

LEMMA AbortStep ==
  ASSUME Slots, ControllerInv, AbortInv, OverStep, Next
  PROVE  AbortInv'
<1>0. /\ TypeOK /\ exec \in [Execs -> Exec] /\ Control /\ row \in [Runs -> Row]
      /\ registry \in [Runs -> Execs \cup {None}] /\ aborted \subseteq Execs
      /\ cancel \in [Runs -> {"idle", "flag", "cas", "abort"}]
  BY DEF Slots, TypeOK
<1>r. \A e \in Execs : Live(e) => exec[e].run \in Runs
  BY <1>0 DEF Control, ExecInv
<1> DEFINE Part1 == \A r \in Runs : cancel'[r] = "abort" => Status(r)' \in TerminalStatuses
           Part2 == \A e \in Execs : Live(e)' /\ exec'[e].ctl \in aborted' =>
                      Status(exec[e].run)' \in TerminalStatuses
           Part3 == \A q \in Runs : registry'[q] \in aborted' =>
                      Status(q)' \in TerminalStatuses
           Parts == Part1 /\ Part2 /\ Part3
\* Controllers are only forgotten, and nobody is told to stop.
<1>a. ASSUME aborted' = aborted,
             \A q \in Runs : registry'[q] = registry[q] \/ registry'[q] = None,
             \A d \in Execs : Live(d)' =>
               /\ Live(d) /\ exec'[d].run = exec[d].run
               /\ exec'[d].ctl = exec[d].ctl
      PROVE  Part2 /\ Part3
  <2>1. None \notin aborted
    BY <1>0, EngineAssumption DEF EngineAssumption, Execs
  <2>2. \A e \in Execs : Live(e)' /\ exec'[e].ctl \in aborted' =>
          /\ exec'[e].run = exec[e].run /\ exec[e].run \in Runs
          /\ Status(exec[e].run) \in TerminalStatuses
    BY <1>a, <1>r DEF AbortInv
  <2>3. \A e \in Execs : Live(e)' /\ exec'[e].ctl \in aborted' =>
          \E q \in Runs : q = exec'[e].run /\ Status(q)' \in TerminalStatuses
    BY <2>2 DEF OverStep
  <2>4. Part2
    BY <2>3 DEF Status
  <2> QED
    BY <1>a, <2>1, <2>4 DEF AbortInv, OverStep
<1>b. ASSUME UNCHANGED cancel PROVE Part1
  BY <1>b DEF AbortInv, OverStep
<1>c. ASSUME UNCHANGED <<exec, registry, aborted>> PROVE Part2 /\ Part3
  BY <1>a, <1>c DEF Live
\* An execution starts.
<1>d. ASSUME NEW e \in Execs, NEW q \in Runs, NEW b, Begin(e, q, b),
             UNCHANGED row, UNCHANGED cancel
      PROVE  Parts
  <2> DEFINE c == IF registry[q] # None THEN registry[q] ELSE e
  <2>1. /\ \A p \in Runs : registry'[p] = IF p = q THEN c ELSE registry[p]
        /\ exec'[e].run = q /\ exec'[e].ctl = c
        /\ \A d \in Execs \ {e} : exec'[d] = exec[d] /\ (Live(d)' <=> Live(d))
    BY <1>0, <1>d DEF Begin, Live
  <2>2. aborted' = (IF registry[q] # None THEN aborted ELSE aborted \ {e})
    BY <1>d DEF Begin
  <2>3. c \in aborted' => Status(q) \in TerminalStatuses
    BY <2>2 DEF AbortInv
  <2> HIDE DEF c
  <2>4. Part2
    <3>1. ASSUME NEW d \in Execs, Live(d)', exec'[d].ctl \in aborted'
          PROVE  Status(exec'[d].run) \in TerminalStatuses
      <4>1. CASE d = e
        BY <2>1, <2>3, <3>1, <4>1
      <4>2. CASE d # e
        BY <2>1, <2>2, <3>1, <4>2 DEF AbortInv
      <4> QED
        BY <4>1, <4>2
    <3> QED
      BY <1>d, <3>1 DEF Status
  <2>5. Part3
    BY <1>d, <2>1, <2>2, <2>3 DEF AbortInv, Status
  <2> QED
    BY <1>b, <1>d, <2>4, <2>5
<1>1. ASSUME \/ Recovery \/ PumpWake \/ PumpFindInterrupted \/ PumpCasInterrupted
             \/ PumpFindQueued \/ PumpCasQueued \/ PumpThrow
      PROVE  UNCHANGED <<exec, registry, aborted, cancel>>
  BY <1>1 DEF Recovery, BootCancel, BootRetry, BootExhaust, BootCancelsDone,
              BootInterrupt, BootAnchor, BootDone, PumpWake, PumpFindInterrupted,
              PumpCasInterrupted, PumpFindQueued, PumpCasQueued, PumpThrow,
              memory, handlers
<1>2. ASSUME PumpBegin PROVE Parts
  <2>1. PICK r \in Runs : r = pump.run
    BY <1>0, <1>2 DEF PumpBegin, Control, PumpInv
  <2>2. Begin(r, r, pump.sel) /\ UNCHANGED row /\ UNCHANGED cancel /\ r \in Execs
    BY <1>2, <2>1 DEF PumpBegin, handlers, Execs
  <2> QED
    BY <1>d, <2>2
<1>3. ASSUME NEW e \in Execs, Inside(e) PROVE Parts
  <2>1. /\ SameExecs
        /\ \A d \in Execs : exec'[d].ctl = exec[d].ctl
    BY <1>0, <1>3, InsideStep, InsideControllers
  <2>2. UNCHANGED <<registry, aborted, cancel>>
    BY <1>3 DEF Inside, ExecLoad, ExecPrepare, ExecPersistDraft, ExecOutcome,
                ExecFail, ExecAbort, ExecSave, ExecAnchor, ExecRescue, ExecThrow,
                handlers, memory
  <2> QED
    BY <1>a, <1>b, <2>1, <2>2 DEF SameExecs
<1>4. ASSUME NEW e \in Execs, ExecEnd(e) PROVE Parts
  <2>1. /\ \A d \in Execs : Live(d)' => exec'[d] = exec[d]
        /\ UNCHANGED <<aborted, cancel>>
        /\ \A q \in Runs : registry'[q] = registry[q] \/ registry'[q] = None
    BY <1>0, <1>4 DEF ExecEnd, NoExec, Live, handlers
  <2> QED
    BY <1>a, <1>b, <2>1 DEF Live
<1>5. ASSUME NEW r \in Runs, StartRun(r) PROVE UNCHANGED <<exec, registry, aborted, cancel>>
  BY <1>5 DEF StartRun, memory, handlers
<1>6. ASSUME NEW r \in Runs, CancelFlag(r) \/ CancelRead(r) \/ CancelThrow(r)
      PROVE  Parts
  <2>1. UNCHANGED <<exec, registry, aborted>>
    BY <1>6 DEF CancelFlag, CancelRead, CancelThrow, memory
  <2>2. \A q \in Runs : cancel'[q] = "abort" => cancel[q] = "abort"
    BY <1>0, <1>6 DEF CancelFlag, CancelRead, CancelThrow, CancelGoto
  <2>3. Part1
    BY <2>2 DEF AbortInv, OverStep
  <2> QED
    BY <1>c, <2>1, <2>3
<1>7. ASSUME NEW r \in Runs, CancelAttempt(r) PROVE Parts
  <2>1. UNCHANGED <<exec, registry, aborted>>
    BY <1>7 DEF CancelAttempt, memory
  <2>2. /\ \A q \in Runs \ {r} : cancel'[q] = cancel[q]
        /\ cancel'[r] = "abort" => Status(r)' \in TerminalStatuses
    <3>1. ASSUME Status(r) \in Cancelable PROVE Status(r)' \in TerminalStatuses
      BY <1>0, <1>7, <3>1, CancelledStep DEF CancelAttempt, TerminalStatuses
    <3>2. ASSUME Status(r) \notin Cancelable PROVE cancel'[r] = "idle"
      BY <1>0, <1>7, <3>2 DEF CancelAttempt, CancelGoto
    <3>3. \A q \in Runs \ {r} : cancel'[q] = cancel[q]
      BY <1>0, <1>7 DEF CancelAttempt, CancelGoto
    <3> QED
      BY <3>1, <3>2, <3>3
  <2>3. Part1
    BY <2>2 DEF AbortInv, OverStep
  <2> QED
    BY <1>c, <2>1, <2>3
<1>8. ASSUME NEW r \in Runs, CancelAbort(r) PROVE Parts
  <2>1. /\ UNCHANGED <<row, exec, registry>>
        /\ aborted' = aborted \cup ({registry[r]} \ {None})
        /\ \A q \in Runs : cancel'[q] = "abort" => cancel[q] = "abort"
        /\ Status(r) \in TerminalStatuses
    BY <1>0, <1>8 DEF CancelAbort, CancelGoto, AbortInv
  <2>2. Part1
    BY <2>1 DEF AbortInv, Status
  <2>3. Part2
    <3>1. ASSUME NEW e \in Execs, Live(e), exec[e].ctl \in aborted'
          PROVE  Status(exec[e].run) \in TerminalStatuses
      <4>1. CASE exec[e].ctl \in aborted
        BY <3>1, <4>1 DEF AbortInv
      <4>2. CASE exec[e].ctl = registry[r]
        BY <2>1, <3>1, <4>2 DEF ControllerInv
      <4> QED
        BY <2>1, <3>1, <4>1, <4>2
    <3> QED
      BY <2>1, <3>1 DEF Live, Status
  <2>4. Part3
    BY <2>1 DEF AbortInv, ControllerInv, Status
  <2> QED
    BY <2>2, <2>3, <2>4
<1>9. ASSUME NEW h \in Resumers,
             \/ \E r \in Runs : ResumeRead(h, r)
             \/ ResumeSelect(h) \/ ResumeSave(h) \/ ResumeThrow(h)
      PROVE  UNCHANGED <<exec, registry, aborted, cancel>>
  BY <1>9 DEF ResumeRead, ResumeSelect, ResumeSave, ResumeThrow, memory
<1>10. ASSUME NEW h \in Resumers, ResumeNotify(h) PROVE Parts
  <2>1. PICK r \in Runs : r = hitl[h].run
    BY <1>0, <1>10 DEF ResumeNotify, Control, HitlInv
  <2>2. Begin(h, r, TRUE) /\ UNCHANGED row /\ UNCHANGED cancel /\ h \in Execs
    BY <1>10, <2>1 DEF ResumeNotify, Execs
  <2> QED
    BY <1>d, <2>2
<1>11. ASSUME Crash PROVE Parts
  BY <1>11 DEF Crash, NoExec, Live
<1> HIDE DEF Part1, Part2, Part3
<1>12. ASSUME UNCHANGED <<exec, registry, aborted, cancel>> PROVE Parts
  BY <1>b, <1>c, <1>12
<1> HIDE DEF Parts
<1>13. Parts
  BY <1>1, <1>2, <1>3, <1>4, <1>5, <1>6, <1>7, <1>8, <1>9, <1>10, <1>11, <1>12,
     EngineAssumption
  DEF Next, PumpStep, ExecStep, CancelStep, ResumeStep, Throw, Inside,
      EngineAssumption
<1> QED
  BY <1>13 DEF Parts, Part1, Part2, Part3, AbortInv

-----------------------------------------------------------------------------
(* Somebody keeps every running run                                         *)

\* Recovery finishes the stops that were asked for before it looks for work.
LeftoverInv ==
  boot.pc \in {"leftovers", "interrupt", "anchor"} =>
    \A r \in Runs :
      row[r].cancelRequested => Status(r) \notin {"running", "interrupted"}

LEMMA LeftoverStep ==
  ASSUME Slots, OrderInv, LeftoverInv, Next
  PROVE  LeftoverInv'
<1>0. /\ row \in [Runs -> Row] /\ Control /\ RecoveringInv
      /\ boot \in [pc : {"cancels", "leftovers", "interrupt", "anchor", "up"},
                   run : Runs \cup {None}]
  BY DEF Slots, TypeOK, OrderInv
<1>1. CASE Crash
  BY <1>1 DEF Crash, LeftoverInv
<1>2. CASE Up /\ UNCHANGED boot
  BY <1>2 DEF LeftoverInv, Up
<1>3. CASE ~Up /\ Recovery
  <2>1. ASSUME NEW r \in Runs, BootRetry(r) \/ BootExhaust(r) PROVE LeftoverInv'
    <3>1. row[r] \in Row /\ r \in RunningLeftovers /\ boot.pc = "leftovers"
      BY <1>0, <2>1 DEF BootRetry, BootExhaust
    <3>2. ~row'[r].cancelRequested
      BY <1>0, <2>1, <3>1 DEF BootRetry, BootExhaust, Row, RunningLeftovers
    <3>3. \A q \in Runs \ {r} : row'[q] = row[q]
      BY <1>0, <2>1 DEF BootRetry, BootExhaust
    <3> QED
      BY <3>1, <3>2, <3>3 DEF LeftoverInv, Status
  <2>2. ASSUME BootInterrupt PROVE LeftoverInv'
    <3>1. PICK r \in Runs : r = boot.run
      BY <1>0, <2>2 DEF BootInterrupt, Control, BootInv
    <3>2. row[r] \in Row /\ ~row[r].cancelRequested
      BY <1>0, <2>2, <3>1 DEF BootInterrupt, RecoveringInv, LeftoverInv
    <3>3. ~row'[r].cancelRequested
      BY <1>0, <2>2, <3>1, <3>2 DEF BootInterrupt, Row
    <3>4. \A q \in Runs \ {r} : row'[q] = row[q]
      BY <1>0, <2>2, <3>1 DEF BootInterrupt
    <3>5. boot.pc = "interrupt"
      BY <2>2 DEF BootInterrupt
    <3> QED
      BY <3>3, <3>4, <3>5 DEF LeftoverInv, Status
  <2>3. ASSUME BootAnchor PROVE LeftoverInv'
    <3>1. PICK r \in Runs : r = boot.run
      BY <1>0, <2>3 DEF BootAnchor, Control, BootInv
    <3>2. row[r] \in Row /\ boot.pc = "anchor"
      BY <1>0, <2>3 DEF BootAnchor
    <3>3. \A q \in Runs : /\ row'[q].status = row[q].status
                          /\ row'[q].cancelRequested = row[q].cancelRequested
      BY <1>0, <2>3, <3>1, <3>2 DEF BootAnchor, Row
    <3> QED
      BY <3>2, <3>3 DEF LeftoverInv, Status
  <2>4. ASSUME BootCancelsDone PROVE LeftoverInv'
    BY <2>4 DEF BootCancelsDone, CancelLeftovers, LeftoverInv, Status
  <2>5. ASSUME BootDone \/ \E r \in Runs : BootCancel(r) PROVE LeftoverInv'
    BY <1>0, <2>5 DEF BootDone, BootCancel, LeftoverInv
  <2> QED
    BY <1>3, <2>1, <2>2, <2>3, <2>4, <2>5 DEF Recovery
<1> QED
  BY <1>1, <1>2, <1>3, OthersServe

\* The statements of the worker's catch do not throw, of one step.  A throw
\* there is only logged, and the run stays behind as it is.
RescuedStep ==
  \A e \in Execs : exec[e].catcher = "nobody" => ~ExecThrow(e)

LastCatchWorks == [][RescuedStep]_vars

\* t is going to change the status of the run again, or to start who will.
Keeps(t, r) ==
  \/ Working(t) /\ exec[t].run = r /\ exec[t].pc # "anchor"
  \/ t \in Resumers /\ hitl[t].pc = "notify" /\ hitl[t].run = r
  \/ pump.pc = "claimed" /\ pump.run = t /\ t = r

KeepInv ==
  \A r \in Runs : Up /\ Status(r) = "running" => \E t \in Execs : Keeps(t, r)

LEMMA InsideKeeps ==
  ASSUME Slots, AbortInv, RescuedStep, NEW e \in Execs, Inside(e),
         NEW r \in Runs, exec[e].run = r, Working(e), exec[e].pc # "anchor",
         row \in [Runs -> Row], Status(r) = "running", Status(r)' = "running"
  PROVE  Working(e)' /\ exec'[e].run = r /\ exec'[e].pc # "anchor"
<1>0. exec \in [Execs -> Exec] /\ exec[e] \in Exec /\ Live(e)
  BY DEF Slots, TypeOK, Live, Working
<1>1. exec'[e].run = r
  BY InsideStep DEF Slots, SameExecs
<1>2. ~IsAborted(e)
  BY <1>0 DEF AbortInv, IsAborted, TerminalStatuses
<1>3. CASE UNCHANGED exec
  BY <1>1, <1>3 DEF Working
<1>4. CASE \/ Goto(e, "prepare")
           \/ \E to, c : Leave(e, to, c)
           \/ exec' = [exec EXCEPT ![e] = [@ EXCEPT !.pc = "work", !.catcher = "executor"]]
           \/ exec' = [exec EXCEPT ![e] = [@ EXCEPT !.pc = "rescue", !.catcher = "nobody"]]
  <2>0. TypeOK
    BY DEF Slots
  <2>1. exec'[e].pc \in {"prepare", "save", "work", "rescue"}
    <3>1. \/ Goto(e, "prepare") \/ \E to, c : Leave(e, to, c)
          \/ Turn(e, "work", "executor") \/ Turn(e, "rescue", "nobody")
      BY <1>4 DEF Turn
    <3> QED
      BY <1>0, <2>0, <3>1, GotoShape, LeaveShape, TurnKeeps
  <2> QED
    BY <1>1, <2>1 DEF Working
<1>5. ~ExecSave(e)
  <2>1. ASSUME ExecSave(e) PROVE FALSE
    <3>1. Status(r)' = exec[e].to
      BY <2>1, StatusStep DEF ExecSave
    <3> QED
      BY <1>0, <3>1 DEF Exec
  <2> QED
    BY <2>1
<1>6. ExecLoad(e) \/ ExecOutcome(e) \/ ExecFail(e) =>
        Goto(e, "prepare") \/ \E to, c : Leave(e, to, c)
  BY DEF ExecLoad, ExecOutcome, ExecFail
<1>7. ExecPersistDraft(e) => UNCHANGED exec
  BY DEF ExecPersistDraft, memory
<1>8. ExecPrepare(e) =>
        exec' = [exec EXCEPT ![e] = [@ EXCEPT !.pc = "work", !.catcher = "executor"]]
  BY <1>2 DEF ExecPrepare
<1>9. ExecRescue(e) => \E to, c : Leave(e, to, c)
  BY DEF ExecRescue
<1>10. ExecThrow(e) =>
         \/ \E to, c : Leave(e, to, c)
         \/ exec' = [exec EXCEPT ![e] = [@ EXCEPT !.pc = "rescue", !.catcher = "nobody"]]
  BY <1>2 DEF ExecThrow, RescuedStep
<1>11. ~ExecAbort(e) /\ ~ExecAnchor(e)
  BY <1>2 DEF ExecAbort, ExecAnchor
<1> QED
  BY <1>3, <1>4, <1>5, <1>6, <1>7, <1>8, <1>9, <1>10, <1>11 DEF Inside

LEMMA KeepStep ==
  ASSUME Slots, OrderInv, LeftoverInv, AbortInv, KeepInv, RescuedStep, Next
  PROVE  KeepInv'
<1>0. row \in [Runs -> Row] /\ exec \in [Execs -> Exec] /\ Control /\ pump \in Pump
  BY DEF Slots, TypeOK
<1>1. SUFFICES ASSUME NEW r \in Runs, Up', Status(r)' = "running"
               PROVE  \E t \in Execs : Keeps(t, r)'
  BY DEF KeepInv
<1>2. r \in Execs
  BY DEF Execs
<1>3. CASE ~Up
  <2>1. ~Up /\ Recovery
    BY <1>1, <1>3, OthersServe DEF Crash, Up
  <2>2. BootDone
    BY <1>0, <1>1, <2>1 DEF Recovery, BootCancel, BootRetry, BootExhaust,
       BootCancelsDone, BootInterrupt, BootAnchor, Up, Slots, TypeOK
  <2>3. Status(r) # "running"
    BY <2>2 DEF BootDone, RunningLeftovers, LeftoverInv
  <2> QED
    BY <1>1, <2>2, <2>3 DEF BootDone, Status
<1>4. CASE Up /\ Status(r) # "running"
  <2>1. Caused(r)
    BY StatusCause DEF StatusMoved
  <2>2. CASE Claims(r) /\ pump'.pc = "claimed" /\ pump'.run = r
    BY <1>2, <2>2 DEF Keeps
  <2>3. ASSUME NEW h \in Resumers, ResumeSave(h), hitl[h].run = r
        PROVE  \E t \in Execs : Keeps(t, r)'
    <3>1. hitl \in [Resumers -> [pc  : {"idle", "select", "save", "notify", "done"},
                                 run : Runs \cup {None}]]
      BY DEF Slots, TypeOK
    <3>2. hitl'[h].pc = "notify" /\ hitl'[h].run = r
      BY <2>3, <3>1 DEF ResumeSave, HitlGoto
    <3>3. h \in Execs
      BY DEF Execs
    <3> QED
      BY <3>2, <3>3 DEF Keeps
  <2>4. ASSUME NEW e \in Execs, ExecSave(e), Status(r)' = exec[e].to PROVE FALSE
    BY <1>0, <1>1, <2>4 DEF Exec
  <2> QED
    BY <1>1, <1>4, <2>1, <2>2, <2>3, <2>4 DEF Caused
<1>5. CASE Up /\ Status(r) = "running"
  <2>1. PICK t \in Execs : Keeps(t, r)
    BY <1>5 DEF KeepInv
  <2>2. ~Crash
    BY <1>1 DEF Crash, Up
  <2>3. CASE Working(t) /\ exec[t].run = r /\ exec[t].pc # "anchor"
    <3>1. Live(t) /\ ~ExecEnd(t)
      BY <2>3 DEF Working, Live, ExecEnd
    <3>2. exec'[t] = exec[t] \/ Inside(t)
      BY <2>2, <3>1, ExecTurn
    <3>3. Working(t)' /\ exec'[t].run = r /\ exec'[t].pc # "anchor"
      BY <1>0, <1>1, <1>5, <2>3, <3>2, InsideKeeps DEF Working
    <3> QED
      BY <3>3 DEF Keeps
  <2>4. CASE t \in Resumers /\ hitl[t].pc = "notify" /\ hitl[t].run = r
    <3>1. hitl'[t] = hitl[t] \/ ResumeNotify(t)
      BY <2>2, <2>4, HitlTurn
      DEF ResumeRead, ResumeStep, ResumeSelect, ResumeSave, ResumeThrow
    <3>2. CASE ResumeNotify(t)
      <4>1. exec'[t].pc = "load" /\ exec'[t].run = r
        BY <1>0, <2>4, <3>2 DEF ResumeNotify, Begin
      <4> QED
        BY <4>1 DEF Keeps, Working
    <3> QED
      BY <2>4, <3>1, <3>2 DEF Keeps
  <2>5. CASE pump.pc = "claimed" /\ pump.run = t /\ t = r
    <3>1. (pump'.pc = "claimed" /\ pump'.run = r) \/ PumpBegin
      BY <2>2, <2>5, ClaimTurn
    <3>2. CASE PumpBegin
      <4>1. exec'[r].pc = "load" /\ exec'[r].run = r
        BY <1>0, <1>2, <2>5, <3>2 DEF PumpBegin, Begin
      <4> QED
        BY <1>2, <4>1 DEF Keeps, Working
    <3> QED
      BY <1>2, <3>1, <3>2 DEF Keeps
  <2> QED
    BY <2>1, <2>3, <2>4, <2>5 DEF Keeps
<1> QED
  BY <1>3, <1>4, <1>5

\* A run that says running is never left behind while the process serves, as
\* long as no run that is over is brought back and the two statements of the
\* worker's last catch succeed.  Everything else may throw.
THEOREM RunningRunsAreKept ==
  Spec /\ OverIsOver /\ LastCatchWorks => []RunningHasOwner
<1>1. Init => ControllerInv /\ AbortInv /\ LeftoverInv /\ KeepInv
  BY EngineAssumption
  DEF Init, ControllerInv, AbortInv, LeftoverInv, KeepInv, NoExec, Live, Up,
      EngineAssumption
<1>2. Slots /\ ControllerInv /\ [Next]_vars => ControllerInv'
  <2>1. ASSUME ControllerInv, UNCHANGED vars PROVE ControllerInv'
    BY <2>1 DEF ControllerInv, Live, vars
  <2> QED
    BY <2>1, ControllerStep
<1>3. Slots /\ ControllerInv /\ AbortInv /\ [Next]_vars /\ [OverStep]_vars => AbortInv'
  <2>1. ASSUME AbortInv, UNCHANGED vars PROVE AbortInv'
    BY <2>1 DEF AbortInv, Live, Status, vars
  <2> QED
    BY <2>1, AbortStep
<1>4. Slots /\ OrderInv /\ LeftoverInv /\ [Next]_vars => LeftoverInv'
  <2>1. ASSUME LeftoverInv, UNCHANGED vars PROVE LeftoverInv'
    BY <2>1 DEF LeftoverInv, Status, vars
  <2> QED
    BY <2>1, LeftoverStep
<1>5. Slots /\ OrderInv /\ LeftoverInv /\ AbortInv /\ KeepInv
      /\ [Next]_vars /\ [RescuedStep]_vars => KeepInv'
  <2>1. ASSUME KeepInv, UNCHANGED vars PROVE KeepInv'
    BY <2>1 DEF KeepInv, Keeps, Working, Status, Up, vars
  <2> QED
    BY <2>1, KeepStep
<1>6. KeepInv => RunningHasOwner
  BY EngineAssumption
  DEF KeepInv, Keeps, RunningHasOwner, Execs, EngineAssumption
<1> QED
  BY <1>1, <1>2, <1>3, <1>4, <1>5, <1>6, OrderInductiveInv, PTL
  DEF Spec, OverIsOver, LastCatchWorks

-----------------------------------------------------------------------------
(* Runs nobody asks to stop                                                 *)

\* setPipelineFinishedAt does not throw, of one step.  The executor's catch
\* would take a run that is completed for one that has failed.
AnchorStep == \A e \in Execs : exec[e].pc = "anchor" => ~ExecThrow(e)

AnchorsHold == [][AnchorStep]_vars

\* An execution that has not saved its outcome works on a run that waits for it.
EdgeInv ==
  \A e \in Execs : Working(e) /\ exec[e].pc # "anchor" =>
    Status(exec[e].run) \in Fresh

QuietInv ==
  \A r \in Undisturbed :
    cancel[r] = "idle" /\ ~row[r].cancelRequested /\ Status(r) # "cancelled"

\* One hand is at work, so nobody else writes the status it relies on.
LEMMA FreshKept ==
  ASSUME Slots, OrderInv, HandInv, EdgeInv, PausedStep, Next,
         NEW e \in Execs, Working(e), exec[e].pc # "anchor", ~ExecSave(e),
         NEW r \in Runs, exec[e].run = r
  PROVE  Status(r)' \in Fresh
<1>1. Caused(r)
  BY StatusCause DEF StatusMoved
<1>2. Status(r) \in Fresh
  BY DEF EdgeInv
<1>3. Up
  BY DEF Slots, Control, BootInv, Working, Live
<1>4. ASSUME NEW d \in Execs, ExecSave(d), exec[d].run = r PROVE FALSE
  <2>1. Has(d, r) /\ Has(e, r)
    BY <1>4 DEF Has, Working, ExecSave
  <2>2. d = e
    BY <2>1 DEF HandInv
  <2> QED
    BY <1>4, <2>2
<1>5. ASSUME NEW h \in Resumers, ResumeSave(h), hitl[h].run = r PROVE FALSE
  <2>1. hitl[h].pc = "save" /\ hitl'[h].pc = "notify"
    <3>1. hitl \in [Resumers -> [pc  : {"idle", "select", "save", "notify", "done"},
                                 run : Runs \cup {None}]]
      BY DEF Slots, TypeOK
    <3> QED
      BY <1>5, <3>1 DEF ResumeSave, HitlGoto
  <2> QED
    BY <1>2, <1>5, <2>1 DEF PausedStep, Fresh
<1> QED
  BY <1>1, <1>2, <1>3, <1>4, <1>5 DEF Caused, Claims, Fresh

LEMMA EdgeStep ==
  ASSUME Slots, OrderInv, HandInv, EdgeInv, PausedStep, AnchorStep, Next
  PROVE  EdgeInv'
<1>0. exec \in [Execs -> Exec] /\ Control /\ TypeOK
  BY DEF Slots, TypeOK
<1>1. SUFFICES ASSUME NEW e \in Execs, Working(e)', exec'[e].pc # "anchor"
               PROVE  \E r \in Runs : r = exec'[e].run /\ Status(r)' \in Fresh
  BY DEF EdgeInv, Status
<1>2. ~Crash /\ ~ExecEnd(e)
  BY <1>0, <1>1 DEF Crash, ExecEnd, NoExec, Working
<1>3. CASE exec'[e] = exec[e] \/ Inside(e)
  <2>1. exec'[e].run = exec[e].run
    BY <1>0, <1>3, InsideStep DEF SameExecs
  <2>2. Working(e) /\ exec[e].pc # "anchor" /\ ~ExecSave(e)
    <3>1. CASE exec'[e] = exec[e] /\ ~Inside(e)
      BY <1>1, <3>1 DEF Working, Inside
    <3>2. CASE Inside(e)
      <4>1. exec[e].pc \notin {"none", "final"}
        BY <3>2 DEF Inside, ExecLoad, ExecPrepare, ExecPersistDraft, ExecOutcome,
                    ExecFail, ExecAbort, ExecSave, ExecAnchor, ExecRescue, ExecThrow
      <4>2. ~ExecSave(e) /\ ~ExecAnchor(e)
        BY <1>0, <1>1 DEF ExecSave, ExecAnchor, Goto, Exec, Working
      <4>3. exec[e].pc # "anchor"
        BY <3>2, <4>2 DEF AnchorStep, Inside, ExecLoad, ExecPrepare,
           ExecPersistDraft, ExecOutcome, ExecFail, ExecAbort, ExecSave, ExecRescue
      <4> QED
        BY <4>1, <4>2, <4>3 DEF Working
    <3> QED
      BY <1>3, <3>1, <3>2
  <2>3. exec[e].run \in Runs
    BY <1>0, <2>2 DEF Control, ExecInv, Live, Working
  <2> QED
    BY <2>1, <2>2, <2>3, FreshKept
<1>4. CASE PumpBegin /\ e = pump.run /\ ~Live(e)
  <2>1. e \in Runs /\ pump.pc = "claimed"
    BY <1>0, <1>4 DEF PumpBegin, Control, PumpInv
  <2>2. exec'[e].run = e /\ UNCHANGED row
    BY <1>0, <1>4 DEF PumpBegin, Begin
  <2>3. Status(e) \in Fresh
    BY <1>4, <2>1 DEF HandInv, Has, May, Working, Live
  <2> QED
    BY <2>1, <2>2, <2>3 DEF Status
<1>5. CASE e \in Resumers /\ ResumeNotify(e) /\ ~Live(e)
  <2>1. PICK r \in Runs : r = hitl[e].run
    BY <1>0, <1>5 DEF ResumeNotify, Control, HitlInv
  <2>2. exec'[e].run = r /\ UNCHANGED row
    BY <1>0, <1>5, <2>1 DEF ResumeNotify, Begin
  <2>3. Status(r) \in Fresh
    BY <1>5, <2>1 DEF ResumeNotify, HandInv, Has, May, Working, Live
  <2> QED
    BY <2>2, <2>3 DEF Status
<1> QED
  BY <1>2, <1>3, <1>4, <1>5, ExecTurn

\* Only setCancelRequested asks a run to stop.
LEMMA RequestCause ==
  ASSUME Slots, Next, NEW r \in Runs
  PROVE  row'[r].cancelRequested => row[r].cancelRequested \/ cancel[r] = "flag"
<1>0. row \in [Runs -> Row] /\ exec \in [Execs -> Exec] /\ Control
  BY DEF Slots, TypeOK
<1> DEFINE Goal ==
      row'[r].cancelRequested => row[r].cancelRequested \/ cancel[r] = "flag"
<1>a. ASSUME UNCHANGED row PROVE Goal
  BY <1>a
<1>b. ASSUME NEW q \in Runs,
             \/ \E s \in RunStatuses : row' = [row EXCEPT ![q].status = s]
             \/ row' = [row EXCEPT ![q] = CancelledRow(q)]
             \/ row' = [row EXCEPT ![q].draft = TRUE]
             \/ row' = [row EXCEPT ![q].selected = TRUE]
             \/ row' = [row EXCEPT ![q].finished = TRUE]
             \/ row' = [row EXCEPT ![q].attempts = @ + 1]
      PROVE  Goal
  <2>1. row[q] \in Row
    BY <1>0
  <2>2. row'[q].cancelRequested => row[q].cancelRequested
    <3>1. ASSUME NEW s, row' = [row EXCEPT ![q].status = s]
          PROVE  row'[q].cancelRequested => row[q].cancelRequested
      BY <1>0, <2>1, <3>1 DEF Row
    <3>2. ASSUME row' = [row EXCEPT ![q] = CancelledRow(q)]
          PROVE  row'[q].cancelRequested => row[q].cancelRequested
      BY <1>0, <2>1, <3>2 DEF Row, CancelledRow
    <3>3. ASSUME \/ row' = [row EXCEPT ![q].draft = TRUE]
                 \/ row' = [row EXCEPT ![q].selected = TRUE]
                 \/ row' = [row EXCEPT ![q].finished = TRUE]
                 \/ row' = [row EXCEPT ![q].attempts = @ + 1]
          PROVE  row'[q].cancelRequested => row[q].cancelRequested
      BY <1>0, <2>1, <3>3 DEF Row
    <3> QED
      BY <1>b, <3>1, <3>2, <3>3
  <2>3. \A p \in Runs \ {q} : row'[p] = row[p]
    BY <1>0, <1>b
  <2> QED
    BY <2>2, <2>3
<1>1. ASSUME NEW q \in Runs, BootCancel(q) \/ BootRetry(q) \/ BootExhaust(q)
      PROVE  Goal
  BY <1>1, <1>b, StatusNames DEF BootCancel, BootRetry, BootExhaust
<1>2. ASSUME BootInterrupt \/ BootAnchor PROVE Goal
  BY <1>0, <1>2, <1>b, StatusNames DEF BootInterrupt, BootAnchor, Control, BootInv
<1>3. ASSUME PumpCasInterrupted \/ PumpCasQueued PROVE Goal
  <2>1. pump.run \in Runs
    BY <1>0, <1>3 DEF PumpCasInterrupted, PumpCasQueued, Control, PumpInv
  <2> QED
    BY <1>3, <1>a, <1>b, <2>1, StatusNames DEF PumpCasInterrupted, PumpCasQueued
<1>4. ASSUME NEW e \in Execs, ExecPersistDraft(e) \/ ExecSave(e) \/ ExecAnchor(e)
      PROVE  Goal
  <2>1. exec[e].run \in Runs /\ exec[e].to \in RunStatuses
    BY <1>0, <1>4, StatusNames
    DEF ExecPersistDraft, ExecSave, ExecAnchor, Control, ExecInv, Live, Exec
  <2> QED
    BY <1>4, <1>b, <2>1 DEF ExecPersistDraft, ExecSave, ExecAnchor
<1>5. ASSUME NEW q \in Runs, CancelFlag(q) PROVE Goal
  BY <1>0, <1>5 DEF CancelFlag
<1>6. ASSUME NEW q \in Runs, CancelAttempt(q) PROVE Goal
  BY <1>6, <1>a, <1>b DEF CancelAttempt
<1>7. ASSUME NEW h \in Resumers, ResumeSelect(h) \/ ResumeSave(h) PROVE Goal
  BY <1>0, <1>7, <1>b, StatusNames DEF ResumeSelect, ResumeSave, Control, HitlInv
<1>8. ASSUME NEW q \in Runs, StartRun(q) PROVE Goal
  BY <1>0, <1>8 DEF StartRun, NoRow
<1>10. ASSUME \/ Crash \/ PumpThrow \/ PumpBegin \/ PumpWake \/ BootDone
              \/ BootCancelsDone \/ PumpFindInterrupted \/ PumpFindQueued
       PROVE  UNCHANGED row
  BY <1>10 DEF Crash, PumpThrow, PumpBegin, PumpWake, BootDone, BootCancelsDone,
               PumpFindInterrupted, PumpFindQueued
<1>11. ASSUME NEW e \in Execs,
              \/ ExecLoad(e) \/ ExecPrepare(e) \/ ExecOutcome(e) \/ ExecFail(e)
              \/ ExecAbort(e) \/ ExecRescue(e) \/ ExecEnd(e) \/ ExecThrow(e)
       PROVE  UNCHANGED row
  BY <1>11 DEF ExecLoad, ExecPrepare, ExecOutcome, ExecFail, ExecAbort, ExecRescue,
               ExecEnd, ExecThrow
<1>12. ASSUME NEW q \in Runs, CancelAbort(q) \/ CancelRead(q) \/ CancelThrow(q)
       PROVE  UNCHANGED row
  BY <1>12 DEF CancelAbort, CancelRead, CancelThrow
<1>13. ASSUME NEW h \in Resumers,
              \/ \E q \in Runs : ResumeRead(h, q)
              \/ ResumeNotify(h) \/ ResumeThrow(h)
       PROVE  UNCHANGED row
  BY <1>13 DEF ResumeRead, ResumeNotify, ResumeThrow
<1> HIDE DEF Goal
<1>14. Goal
  BY <1>a, <1>1, <1>2, <1>3, <1>4, <1>5, <1>6, <1>7, <1>8, <1>10, <1>11,
     <1>12, <1>13, EngineAssumption
  DEF Next, Recovery, PumpStep, ExecStep, CancelStep, ResumeStep, Throw,
      EngineAssumption
<1> QED
  BY <1>14 DEF Goal

LEMMA CancelTurn ==
  ASSUME Slots, Next, NEW r \in Runs, cancel[r] = "idle"
  PROVE  cancel'[r] = "idle" \/ r \in Cancellable
<1>0. cancel \in [Runs -> {"idle", "flag", "cas", "abort"}]
  BY DEF Slots, TypeOK
<1>1. ASSUME Recovery \/ PumpStep \/ PumpThrow PROVE UNCHANGED cancel
  BY <1>1 DEF Recovery, BootCancel, BootRetry, BootExhaust, BootCancelsDone,
              BootInterrupt, BootAnchor, BootDone, PumpStep, PumpWake,
              PumpFindInterrupted, PumpCasInterrupted, PumpFindQueued,
              PumpCasQueued, PumpBegin, PumpThrow, handlers
<1>2. ASSUME NEW e \in Execs, ExecStep(e) \/ ExecThrow(e) PROVE UNCHANGED cancel
  BY <1>2 DEF ExecStep, ExecLoad, ExecPrepare, ExecPersistDraft, ExecOutcome,
              ExecFail, ExecAbort, ExecSave, ExecAnchor, ExecRescue, ExecThrow,
              ExecEnd, handlers
<1>3. ASSUME NEW q \in Runs, StartRun(q) PROVE UNCHANGED cancel
  BY <1>3 DEF StartRun, handlers
<1>4. ASSUME NEW q \in Runs, CancelStep(q) \/ CancelThrow(q) PROVE cancel'[r] = "idle"
  BY <1>0, <1>4 DEF CancelStep, CancelFlag, CancelAttempt, CancelAbort,
                    CancelThrow, CancelGoto
<1>5. ASSUME NEW q \in Cancellable, CancelRead(q)
      PROVE  cancel'[r] = "idle" \/ r \in Cancellable
  BY <1>0, <1>5, EngineAssumption DEF CancelRead, CancelGoto, EngineAssumption
<1>6. ASSUME NEW h \in Resumers,
             \/ \E q \in Runs : ResumeRead(h, q)
             \/ ResumeStep(h) \/ ResumeThrow(h)
      PROVE  UNCHANGED cancel
  BY <1>6 DEF ResumeRead, ResumeStep, ResumeSelect, ResumeSave, ResumeNotify,
              ResumeThrow
<1>7. ASSUME Crash PROVE cancel'[r] = "idle"
  BY <1>7 DEF Crash
<1> QED
  BY <1>1, <1>2, <1>3, <1>4, <1>5, <1>6, <1>7 DEF Next, Throw

LEMMA QuietStep ==
  ASSUME Slots, OrderInv, QuietInv, Next
  PROVE  QuietInv'
<1>1. SUFFICES ASSUME NEW r \in Undisturbed
               PROVE  /\ cancel'[r] = "idle" /\ ~row'[r].cancelRequested
                      /\ Status(r)' # "cancelled"
  BY DEF QuietInv
<1>2. r \in Runs /\ r \notin Cancellable
  BY DEF Undisturbed
<1>3. cancel[r] = "idle" /\ ~row[r].cancelRequested /\ Status(r) # "cancelled"
  BY DEF QuietInv
<1>4. cancel'[r] = "idle" /\ ~row'[r].cancelRequested
  BY <1>2, <1>3, CancelTurn, RequestCause
<1>5. Caused(r)
  BY <1>2, StatusCause DEF StatusMoved
<1>6. ASSUME NEW e \in Execs PROVE exec[e].to # "cancelled"
  <2>1. exec[e] \in Exec
    BY DEF Slots, TypeOK
  <2> QED
    BY <2>1 DEF Exec
<1> QED
  BY <1>3, <1>4, <1>5, <1>6 DEF Caused, Claims

\* The variable of the abstract specification.
GraphStatus == [r \in Undisturbed |-> Status(r)]

LEMMA GraphMove ==
  ASSUME Slots, OrderInv, EdgeInv, QuietInv, PausedStep, Next,
         NEW r \in Undisturbed, Status(r)' # Status(r)
  PROVE  \/ Status(r) = "absent" /\ Status(r)' = "queued"
         \/ Status(r)' \in RunStatuses /\ CanTransition(Status(r), Status(r)')
<1>1. /\ Caused(r) /\ r \in Runs
      /\ cancel[r] = "idle" /\ ~row[r].cancelRequested /\ Status(r) # "cancelled"
  BY StatusCause DEF StatusMoved, QuietInv, Undisturbed
<1>2. ASSUME NEW e \in Execs, ExecSave(e), exec[e].run = r, Status(r)' = exec[e].to
      PROVE  Status(r) = "running" /\ Status(r)' \in {"awaiting_hitl", "completed", "failed"}
  <2>1. exec[e] \in Exec
    BY DEF Slots, TypeOK
  <2>2. Working(e) /\ exec[e].pc # "anchor"
    BY <1>2 DEF ExecSave, Working
  <2> QED
    BY <1>1, <1>2, <2>1, <2>2 DEF EdgeInv, Fresh, Exec
<1>3. ASSUME NEW h \in Resumers, ResumeSave(h), hitl[h].run = r
      PROVE  Status(r) = "awaiting_hitl"
  <2>1. hitl \in [Resumers -> [pc  : {"idle", "select", "save", "notify", "done"},
                               run : Runs \cup {None}]]
    BY DEF Slots, TypeOK
  <2>2. hitl[h].pc = "save" /\ hitl'[h].pc = "notify"
    BY <1>3, <2>1 DEF ResumeSave, HitlGoto
  <2> QED
    BY <1>3, <2>2 DEF PausedStep
<1>4. \/ Status(r) = "absent" /\ Status(r)' = "queued"
      \/ Status(r) = "queued" /\ Status(r)' = "running"
      \/ Status(r) = "interrupted" /\ Status(r)' = "running"
      \/ Status(r) = "awaiting_hitl" /\ Status(r)' = "running"
      \/ /\ Status(r) = "running"
         /\ Status(r)' \in {"awaiting_hitl", "completed", "failed", "interrupted"}
  BY <1>1, <1>2, <1>3 DEF Caused, Claims
<1> QED
  BY <1>4 DEF CanTransition, Allowed, RunStatuses, LiveStatuses, TerminalStatuses

\* One statement of the code is one move of the graph, or none.
LEMMA GraphSim ==
  ASSUME Slots, OrderInv, EdgeInv, QuietInv, PausedStep, Next
  PROVE  [Graph!Next]_GraphStatus
<1>1. CASE \A r \in Undisturbed : Status(r)' = Status(r)
  BY <1>1 DEF GraphStatus
<1>2. ASSUME NEW r \in Undisturbed, Status(r)' # Status(r)
      PROVE  Graph!Next
  <2>1. \A q \in Undisturbed \ {r} : Status(q)' = Status(q)
    BY <1>2, StatusCause DEF StatusMoved, Undisturbed
  <2>2. GraphStatus' = [GraphStatus EXCEPT ![r] = Status(r)']
    BY <2>1 DEF GraphStatus
  <2>3. GraphStatus[r] = Status(r)
    BY DEF GraphStatus
  <2>4. CASE Status(r) = "absent" /\ Status(r)' = "queued"
    <3>1. Graph!Start(r)
      BY <2>2, <2>3, <2>4 DEF Graph!Start, GraphStatus
    <3> QED
      BY <3>1 DEF Graph!Next
  <2>5. CASE Status(r)' \in RunStatuses /\ CanTransition(Status(r), Status(r)')
    <3>1. Graph!Move(r)
      BY <2>2, <2>3, <2>5
      DEF Graph!Move, GraphStatus, Graph!RunStatuses, Graph!LiveStatuses,
          Graph!TerminalStatuses, RunStatuses, LiveStatuses, TerminalStatuses,
          Graph!CanTransition, CanTransition, Graph!Allowed, Allowed
    <3> QED
      BY <3>1 DEF Graph!Next
  <2> QED
    BY <1>2, <2>4, <2>5, GraphMove
<1> QED
  BY <1>1, <1>2

\* R-1: the execution core implements the status graph for the runs nobody asks
\* to stop, through crashes, recovery and throwing statements, although
\* saveStatus never looks at the row it overwrites.  It needs the rule about
\* resumes and that setPipelineFinishedAt does not throw.
THEOREM RefinesStatusGraph ==
  Spec /\ HitlOnlyWhilePaused /\ AnchorsHold => FollowsGraph
<1>1. Init => EdgeInv /\ QuietInv
  BY DEF Init, EdgeInv, QuietInv, Undisturbed, Working, NoExec, NoRow, Status
<1>2. Slots /\ OrderInv /\ HandInv /\ EdgeInv /\ [Next]_vars /\ [PausedStep]_vars
      /\ [AnchorStep]_vars => EdgeInv'
  <2>1. ASSUME EdgeInv, UNCHANGED vars PROVE EdgeInv'
    BY <2>1 DEF EdgeInv, Working, Status, vars
  <2> QED
    BY <2>1, EdgeStep
<1>3. Slots /\ OrderInv /\ QuietInv /\ [Next]_vars => QuietInv'
  <2>1. ASSUME QuietInv, UNCHANGED vars PROVE QuietInv'
    BY <2>1 DEF QuietInv, Status, vars
  <2> QED
    BY <2>1, QuietStep
<1>4. Slots /\ OrderInv /\ EdgeInv /\ QuietInv /\ [Next]_vars /\ [PausedStep]_vars
      => [Graph!Next]_GraphStatus
  <2>1. ASSUME UNCHANGED vars PROVE UNCHANGED GraphStatus
    BY <2>1 DEF GraphStatus, Status, vars
  <2> QED
    BY <2>1, GraphSim
<1>5. Init => Graph!Init
  BY DEF Init, Graph!Init, Undisturbed, NoRow, Status
<1>6. HitlOnlyWhilePaused => [][PausedStep]_vars
  BY PTL DEF HitlOnlyWhilePaused, PausedStep
<1> QED
  BY <1>1, <1>2, <1>3, <1>4, <1>5, <1>6, HandsHold, OrderInductiveInv, PTL
  DEF Spec, AnchorsHold, FollowsGraph, Graph!Spec, GraphStatus

-----------------------------------------------------------------------------
(* What users must leave alone                                              *)

Choosing(h) == hitl[h].pc \in {"select", "save"}

\* While a choice is being stored, nobody sends another one for the same run
\* and nobody cancels that run.
ChoicesApart ==
  \A h \in Resumers : Choosing(h) =>
    /\ cancel[hitl[h].run] = "idle"
    /\ \A g \in Resumers : Choosing(g) /\ hitl[g].run = hitl[h].run => g = h

PausedInv ==
  \A h \in Resumers : Choosing(h) => Status(hitl[h].run) = "awaiting_hitl"

LEMMA PausedKept ==
  ASSUME Slots, OrderInv, HandInv, PausedInv, ChoicesApart, Next
  PROVE  PausedInv'
<1>0. hitl \in [Resumers -> [pc  : {"idle", "select", "save", "notify", "done"},
                             run : Runs \cup {None}]]
  BY DEF Slots, TypeOK
<1>1. SUFFICES ASSUME NEW h \in Resumers, hitl'[h].pc \in {"select", "save"}
               PROVE  \E r \in Runs :
                        r = hitl'[h].run /\ Status(r)' = "awaiting_hitl"
  BY DEF PausedInv, Choosing, Status
<1>2. CASE \E r \in Runs : ResumeRead(h, r)
  <2>1. PICK r \in Runs : ResumeRead(h, r)
    BY <1>2
  <2>2. hitl'[h].run = r /\ UNCHANGED row /\ Status(r) = "awaiting_hitl"
    BY <1>0, <2>1 DEF ResumeRead
  <2> QED
    BY <2>2 DEF Status
<1>3. CASE hitl'[h] = hitl[h] \/ ResumeSelect(h)
  <2>1. PICK r \in Runs : r = hitl[h].run
    BY <1>1, <1>3 DEF ResumeSelect, Slots, Control, HitlInv
  <2>2. Choosing(h) /\ ~ResumeSave(h) /\ hitl'[h].run = r
    BY <1>0, <1>1, <1>3, <2>1 DEF ResumeSelect, ResumeSave, HitlGoto, Choosing
  <2>3. Status(r) = "awaiting_hitl" /\ cancel[r] = "idle" /\ Up
    BY <2>1, <2>2 DEF PausedInv, ChoicesApart, Slots, Control, BootInv, Choosing
  <2>4. Caused(r)
    BY StatusCause DEF StatusMoved
  <2>5. ASSUME NEW e \in Execs, ExecSave(e), exec[e].run = r PROVE FALSE
    <3>1. Has(e, r)
      BY <2>5 DEF ExecSave, Has, Working
    <3> QED
      BY <2>3, <3>1, NobodyHas
  <2>6. ASSUME NEW g \in Resumers, ResumeSave(g), hitl[g].run = r PROVE FALSE
    <3>1. Choosing(g)
      BY <2>6 DEF ResumeSave, Choosing
    <3>2. g = h
      BY <2>1, <2>2, <2>6, <3>1 DEF ChoicesApart
    <3> QED
      BY <2>2, <2>6, <3>2
  <2>7. Status(r)' = "awaiting_hitl"
    BY <2>3, <2>4, <2>5, <2>6 DEF Caused, Claims, Cancelable
  <2> QED
    BY <2>2, <2>7
<1>4. ~Crash
  BY <1>1 DEF Crash
<1>5. ~ResumeSave(h)
  BY <1>0, <1>1 DEF ResumeSave, HitlGoto
<1>6. ~ResumeNotify(h) /\ ~ResumeThrow(h)
  <2>1. ASSUME ResumeNotify(h) \/ ResumeThrow(h) PROVE FALSE
    <3>1. hitl' = [hitl EXCEPT ![h] = [pc |-> "done", run |-> None]]
      BY <2>1 DEF ResumeNotify, ResumeThrow
    <3>2. hitl'[h].pc = "done"
      BY <1>0, <3>1
    <3> QED
      BY <1>1, <3>2
  <2> QED
    BY <2>1
<1> QED
  BY <1>2, <1>3, <1>4, <1>5, <1>6, HitlTurn DEF ResumeStep

\* "Idempotencja HITL" of SPEC-RUNY holds as long as users do not dispute a
\* choice: the code relies on it, since the update that resumes a run does not
\* look at the row.  Crashes, recovery and throwing statements do no harm.
THEOREM ApartChoicesFindTheRunPaused ==
  Spec /\ []ChoicesApart => HitlOnlyWhilePaused
<1>1. Init => HandInv /\ PausedInv
  BY DEF Init, HandInv, PausedInv, Choosing, Has, Working, NoExec, IdlePump
<1>2. PausedInv => PausedStep
  BY DEF PausedInv, PausedStep, Choosing
<1>3. Slots /\ OrderInv /\ HandInv /\ PausedInv /\ ChoicesApart /\ [Next]_vars
      => HandInv' /\ PausedInv'
  <2>1. ASSUME HandInv, PausedInv, UNCHANGED vars PROVE HandInv' /\ PausedInv'
    BY <2>1 DEF HandInv, PausedInv, Choosing, Has, May, StageOf, Working, Status, vars
  <2> QED
    BY <1>2, <2>1, HandStep, PausedIsFree, PausedKept
<1>4. Spec /\ []ChoicesApart => []PausedInv
  BY <1>1, <1>3, OrderInductiveInv, PTL DEF Spec
<1>5. Spec /\ []ChoicesApart => [][PausedStep]_vars
  BY <1>2, <1>4, PTL
<1> QED
  BY <1>5, PTL DEF HitlOnlyWhilePaused, PausedStep

-----------------------------------------------------------------------------
(* One choice at a time                                                     *)

OneChoiceAtATime ==
  \A g, h \in Resumers :
    Choosing(g) /\ Choosing(h) /\ hitl[g].run = hitl[h].run => g = h

\* A run that is being chosen for waits, or was cancelled while it waited.
AloneInv ==
  \A h \in Resumers : Choosing(h) =>
    /\ Status(hitl[h].run) \in {"awaiting_hitl", "cancelled"}
    /\ \A t \in Execs : ~Has(t, hitl[h].run)

LEMMA AloneIsFree ==
  ASSUME AloneInv
  PROVE  FreeStep
BY DEF AloneInv, FreeStep, Choosing

LEMMA ClaimMade ==
  ASSUME Slots, OrderInv, Next, NEW r \in Runs, pump'.pc = "claimed", pump'.run = r,
         ~(pump.pc = "claimed" /\ pump.run = r)
  PROVE  pump.pc # "claimed" /\ Status(r) \in {"queued", "interrupted"}
<1>0. pump \in Pump
  BY DEF Slots, TypeOK
<1>1. ~(PumpWake \/ PumpFindInterrupted \/ PumpFindQueued \/ PumpBegin)
  BY <1>0 DEF PumpWake, PumpFindInterrupted, PumpFindQueued, PumpBegin, IdlePump,
              LoopHead, Pump
<1>2. PumpCasInterrupted \/ PumpCasQueued
  BY <1>1, PumpKept DEF PumpStep
<1> QED
  BY <1>0, <1>2 DEF PumpCasInterrupted, PumpCasQueued, Pump

\* A run gets into a hand by a claim or by a resume only.
LEMMA HandTaken ==
  ASSUME Slots, OrderInv, Next, NEW t \in Execs, NEW r \in Runs, Has(t, r)', ~Has(t, r)
  PROVE  \/ /\ pump.pc # "claimed" /\ pump'.pc = "claimed" /\ pump'.run = r
            /\ Status(r) \in {"queued", "interrupted"}
         \/ t \in Resumers /\ ResumeSave(t) /\ hitl[t].run = r
<1>0. /\ TypeOK /\ exec \in [Execs -> Exec] /\ pump \in Pump /\ Control
      /\ hitl \in [Resumers -> [pc  : {"idle", "select", "save", "notify", "done"},
                                run : Runs \cup {None}]]
  BY DEF Slots, TypeOK
<1>1. CASE Working(t)' /\ exec'[t].run = r
  <2>1. CASE exec'[t] = exec[t]
    BY <1>1, <2>1 DEF Has, Working
  <2>2. CASE Inside(t)
    <3>1. exec'[t].run = exec[t].run
      BY <1>0, <2>2, InsideStep DEF SameExecs
    <3>2. Working(t)
      BY <2>2 DEF Inside, Working, ExecLoad, ExecPrepare, ExecPersistDraft,
                  ExecOutcome, ExecFail, ExecAbort, ExecSave, ExecAnchor, ExecRescue,
                  ExecThrow
    <3> QED
      BY <1>1, <3>1, <3>2 DEF Has
  <2>3. ~ExecEnd(t) /\ ~Crash
    BY <1>0, <1>1 DEF ExecEnd, Crash, NoExec, Working
  <2>4. CASE PumpBegin /\ t = pump.run
    BY <1>0, <1>1, <2>4 DEF PumpBegin, Begin, Has
  <2>5. CASE t \in Resumers /\ ResumeNotify(t)
    BY <1>0, <1>1, <2>5 DEF ResumeNotify, Begin, Has
  <2> QED
    BY <2>1, <2>2, <2>3, <2>4, <2>5, ExecTurn
<1>2. CASE t \in Resumers /\ hitl'[t].pc = "notify" /\ hitl'[t].run = r
  <2>1. hitl'[t] # hitl[t]
    BY <1>2 DEF Has
  <2>2. ~Crash /\ ~ResumeThrow(t) /\ \A q \in Runs : ~ResumeRead(t, q)
    BY <1>0, <1>2 DEF Crash, ResumeThrow, ResumeRead
  <2>3. ~ResumeSelect(t) /\ ~ResumeNotify(t)
    <3>1. hitl[t] \in [pc  : {"idle", "select", "save", "notify", "done"},
                      run : Runs \cup {None}]
      BY <1>0, <1>2
    <3>2. ~ResumeSelect(t)
      BY <1>0, <1>2, <3>1 DEF ResumeSelect, HitlGoto
    <3>3. ASSUME ResumeNotify(t) PROVE FALSE
      <4>1. hitl' = [hitl EXCEPT ![t] = [pc |-> "done", run |-> None]]
        BY <3>3 DEF ResumeNotify
      <4>2. hitl'[t].pc = "done"
        BY <1>0, <1>2, <4>1
      <4> QED
        BY <1>2, <4>2
    <3> QED
      BY <3>2, <3>3
  <2>4. ResumeSave(t)
    BY <1>2, <2>1, <2>2, <2>3, HitlTurn DEF ResumeStep
  <2> QED
    BY <1>0, <1>2, <2>4 DEF ResumeSave, HitlGoto
<1>3. CASE pump'.pc = "claimed" /\ pump'.run = t /\ t = r
  <2>1. ~(pump.pc = "claimed" /\ pump.run = r)
    BY <1>3 DEF Has
  <2> QED
    BY <1>3, <2>1, ClaimMade
<1> QED
  BY <1>1, <1>2, <1>3 DEF Has

LEMMA AloneKept ==
  ASSUME Slots, OrderInv, HandInv, AloneInv, OneChoiceAtATime, Next
  PROVE  AloneInv'
<1>0. hitl \in [Resumers -> [pc  : {"idle", "select", "save", "notify", "done"},
                             run : Runs \cup {None}]]
  BY DEF Slots, TypeOK
<1>1. SUFFICES ASSUME NEW h \in Resumers, hitl'[h].pc \in {"select", "save"}
               PROVE  \E r \in Runs :
                        /\ r = hitl'[h].run
                        /\ Status(r)' \in {"awaiting_hitl", "cancelled"}
                        /\ \A t \in Execs : ~Has(t, r)'
  BY DEF AloneInv, Choosing, Status, Has, Working
<1>2. CASE \E r \in Runs : ResumeRead(h, r)
  <2>1. PICK r \in Runs : ResumeRead(h, r)
    BY <1>2
  <2>2. /\ hitl'[h].run = r /\ UNCHANGED <<row, exec, pump>>
        /\ Status(r) = "awaiting_hitl"
        /\ \A g \in Resumers : hitl'[g] = hitl[g] \/ hitl'[g].pc = "select"
    BY <1>0, <2>1 DEF ResumeRead, memory
  <2>3. \A t \in Execs : Has(t, r)' => Has(t, r)
    BY <2>2 DEF Has, Working
  <2> QED
    BY <2>2, <2>3, NobodyHas DEF Status
<1>3. CASE hitl'[h] = hitl[h] \/ ResumeSelect(h)
  <2>1. PICK r \in Runs : r = hitl[h].run
    BY <1>1, <1>3 DEF ResumeSelect, Slots, Control, HitlInv
  <2>2. Choosing(h) /\ ~ResumeSave(h) /\ hitl'[h].run = r
    BY <1>0, <1>1, <1>3, <2>1 DEF ResumeSelect, ResumeSave, HitlGoto, Choosing
  <2>3. /\ Status(r) \in {"awaiting_hitl", "cancelled"} /\ Up
        /\ \A t \in Execs : ~Has(t, r)
    BY <2>1, <2>2 DEF AloneInv, Slots, Control, BootInv, Choosing
  <2>4. Caused(r)
    BY StatusCause DEF StatusMoved
  <2>5. ASSUME NEW e \in Execs, ExecSave(e), exec[e].run = r PROVE FALSE
    BY <2>3, <2>5 DEF ExecSave, Has, Working
  <2>6. ASSUME NEW g \in Resumers, ResumeSave(g), hitl[g].run = r PROVE FALSE
    <3>1. Choosing(g)
      BY <2>6 DEF ResumeSave, Choosing
    <3>2. g = h
      BY <2>1, <2>2, <2>6, <3>1 DEF OneChoiceAtATime
    <3> QED
      BY <2>2, <2>6, <3>2
  <2>7. Status(r)' \in {"awaiting_hitl", "cancelled"}
    BY <2>3, <2>4, <2>5, <2>6 DEF Caused, Claims, Cancelable
  <2>8. ASSUME NEW t \in Execs, Has(t, r)' PROVE FALSE
    BY <2>3, <2>6, <2>8, HandTaken
  <2> QED
    BY <2>2, <2>7, <2>8
<1>4. ~Crash
  BY <1>1 DEF Crash
<1>5. ~ResumeSave(h)
  BY <1>0, <1>1 DEF ResumeSave, HitlGoto
<1>6. ~ResumeNotify(h) /\ ~ResumeThrow(h)
  <2>1. ASSUME ResumeNotify(h) \/ ResumeThrow(h) PROVE FALSE
    <3>1. hitl' = [hitl EXCEPT ![h] = [pc |-> "done", run |-> None]]
      BY <2>1 DEF ResumeNotify, ResumeThrow
    <3>2. hitl'[h].pc = "done"
      BY <1>0, <3>1
    <3> QED
      BY <1>1, <3>2
  <2> QED
    BY <2>1
<1> QED
  BY <1>2, <1>3, <1>4, <1>5, <1>6, HitlTurn DEF ResumeStep

LEMMA HandsAlone ==
  Spec /\ []OneChoiceAtATime => []HandInv /\ []AloneInv
<1>1. Init => HandInv /\ AloneInv
  BY DEF Init, HandInv, AloneInv, Choosing, Has, Working, NoExec, IdlePump
<1>2. Slots /\ OrderInv /\ HandInv /\ AloneInv /\ OneChoiceAtATime /\ [Next]_vars
      => HandInv' /\ AloneInv'
  <2>1. ASSUME HandInv, AloneInv, UNCHANGED vars PROVE HandInv' /\ AloneInv'
    BY <2>1 DEF HandInv, AloneInv, Choosing, Has, May, StageOf, Working, Status, vars
  <2> QED
    BY <2>1, HandStep, AloneIsFree, AloneKept
<1> QED
  BY <1>1, <1>2, OrderInductiveInv, PTL DEF Spec

\* Cancels may race choices as they like: as long as no two requests store a
\* choice for the same run at the same time, one execution works on it.
THEOREM OneChoiceOneExecution ==
  Spec /\ []OneChoiceAtATime => []OneWorkingExecution
BY HandsAlone, HandsAreOne, OrderInductiveInv, PTL

LEMMA OneUserOneChoice ==
  ASSUME \A g, h \in Resumers : g = h
  PROVE  Spec => []OneChoiceAtATime
<1>1. OneChoiceAtATime
  BY DEF OneChoiceAtATime
<1> QED
  BY <1>1, PTL

-----------------------------------------------------------------------------
(* Instances where nobody can dispute a choice                              *)

\* One request per process and no cancel of the runs that pause: what the runs
\* RunEngineSafety and RunEngineLive choose.
Undisputed == (\A g, h \in Resumers : g = h) /\ TwoStage \cap Cancellable = {}

TwoStageInv ==
  /\ \A e \in Execs :
       exec[e].pc = "save" /\ exec[e].to = "awaiting_hitl" => exec[e].run \in TwoStage
  /\ \A r \in Runs : Status(r) = "awaiting_hitl" => r \in TwoStage
  /\ \A h \in Resumers : Choosing(h) => hitl[h].run \in TwoStage

LEMMA TwoStageStep ==
  ASSUME Slots, OrderInv, TwoStageInv, Next
  PROVE  TwoStageInv'
<1>0. /\ TypeOK /\ exec \in [Execs -> Exec]
      /\ hitl \in [Resumers -> [pc  : {"idle", "select", "save", "notify", "done"},
                                run : Runs \cup {None}]]
  BY DEF Slots, TypeOK
<1>1. ASSUME NEW e \in Execs, exec'[e].pc = "save", exec'[e].to = "awaiting_hitl"
      PROVE  exec'[e].run \in TwoStage
  <2>1. CASE exec'[e] = exec[e]
    BY <1>1, <2>1 DEF TwoStageInv
  <2>2. CASE Inside(e) /\ exec'[e] # exec[e]
    <3>1. exec[e] \in Exec /\ exec'[e].run = exec[e].run
      BY <1>0, <2>2, InsideStep DEF SameExecs
    <3>2. ExecLoad(e) \/ ExecOutcome(e) => NeedsChoice(e)
      <4>1. ~Goto(e, "prepare") /\ ~Leave(e, "completed", "executor")
        BY <1>0, <1>1, GotoShape, LeaveShape
      <4> QED
        BY <4>1 DEF ExecLoad, ExecOutcome
    <3>3. ~ExecPrepare(e) /\ ~ExecAbort(e) /\ ~ExecSave(e) /\ ~ExecAnchor(e)
      <4>1. ~Goto(e, "final") /\ ~Goto(e, "anchor")
        BY <1>0, <1>1, GotoShape
      <4>2. ~Turn(e, "work", "executor")
        BY <1>0, <1>1, TurnKeeps
      <4>3. ASSUME ExecSave(e) PROVE FALSE
        <5>1. PICK pc \in {"anchor", "final"} : Goto(e, pc)
          BY <4>3 DEF ExecSave
        <5> QED
          BY <1>0, <1>1, <5>1, GotoShape
      <4> QED
        BY <4>1, <4>2, <4>3 DEF ExecPrepare, ExecAbort, ExecAnchor, Turn
    <3>4. ~ExecFail(e) /\ ~ExecRescue(e)
      <4>1. \A c : ~Leave(e, "failed", c)
        BY <1>0, <1>1, LeaveShape
      <4>2. ~Goto(e, "final")
        BY <1>0, <1>1, GotoShape
      <4> QED
        BY <4>1, <4>2 DEF ExecFail, ExecRescue
    <3>5. ~ExecThrow(e)
      <4>1. ~Goto(e, "final") /\ ~Leave(e, "failed", "worker")
        BY <1>0, <1>1, GotoShape, LeaveShape
      <4>2. ~Turn(e, "rescue", "nobody")
        BY <1>0, <1>1, TurnKeeps
      <4> QED
        BY <4>1, <4>2 DEF ExecThrow, Turn
    <3>6. ~ExecPersistDraft(e)
      BY <2>2 DEF ExecPersistDraft, memory
    <3> QED
      BY <2>2, <3>1, <3>2, <3>3, <3>4, <3>5, <3>6 DEF Inside, NeedsChoice
  <2>3. ~ExecEnd(e) /\ ~Crash
    BY <1>0, <1>1 DEF ExecEnd, Crash, NoExec
  <2>4. ~(PumpBegin /\ e = pump.run)
    BY <1>0, <1>1 DEF PumpBegin, Begin
  <2>5. ~(e \in Resumers /\ ResumeNotify(e))
    BY <1>0, <1>1 DEF ResumeNotify, Begin
  <2> QED
    BY <2>1, <2>2, <2>3, <2>4, <2>5, ExecTurn
<1>2. ASSUME NEW r \in Runs, Status(r)' = "awaiting_hitl" PROVE r \in TwoStage
  <2>1. Caused(r)
    BY StatusCause DEF StatusMoved
  <2>2. ASSUME NEW e \in Execs, ExecSave(e), exec[e].run = r, Status(r)' = exec[e].to
        PROVE  r \in TwoStage
    BY <1>2, <2>2 DEF ExecSave, TwoStageInv
  <2> QED
    BY <1>2, <2>1, <2>2 DEF Caused, Claims, TwoStageInv
<1>3. ASSUME NEW h \in Resumers, hitl'[h].pc \in {"select", "save"}
      PROVE  hitl'[h].run \in TwoStage
  <2>1. CASE \E r \in Runs : ResumeRead(h, r)
    BY <1>0, <2>1 DEF ResumeRead, TwoStageInv
  <2>2. CASE hitl'[h] = hitl[h] \/ ResumeSelect(h)
    <3>1. Choosing(h) /\ hitl'[h].run = hitl[h].run
      BY <1>0, <1>3, <2>2 DEF ResumeSelect, HitlGoto, Choosing
    <3> QED
      BY <3>1 DEF TwoStageInv
  <2>3. ~Crash /\ ~ResumeSave(h)
    BY <1>0, <1>3 DEF Crash, ResumeSave, HitlGoto
  <2>4. ASSUME ResumeNotify(h) \/ ResumeThrow(h) PROVE FALSE
    <3>1. hitl' = [hitl EXCEPT ![h] = [pc |-> "done", run |-> None]]
      BY <2>4 DEF ResumeNotify, ResumeThrow
    <3>2. hitl'[h].pc = "done"
      BY <1>0, <3>1
    <3> QED
      BY <1>3, <3>2
  <2> QED
    BY <2>1, <2>2, <2>3, <2>4, HitlTurn DEF ResumeStep
<1> QED
  BY <1>1, <1>2, <1>3 DEF TwoStageInv, Choosing

\* Whoever is in the worker's last catch has seen a statement throw.
CatchInv ==
  \A e \in Execs :
    /\ exec[e].pc = "rescue" => exec[e].catcher = "nobody"
    /\ Live(e) /\ exec[e].catcher = "nobody" => spent.faults > 0

LEMMA CatchHolds ==
  ASSUME Slots, CatchInv, Next
  PROVE  CatchInv'
<1>0. /\ TypeOK /\ exec \in [Execs -> Exec]
      /\ spent \in [crashes : 0..MaxCrashes, faults : 0..MaxFaults]
      /\ MaxFaults \in Nat /\ MaxCrashes \in Nat
  BY EngineAssumption DEF Slots, TypeOK, EngineAssumption
<1>1. spent'.faults >= spent.faults
  <2>1. CASE UNCHANGED spent
    BY <1>0, <2>1
  <2>2. CASE Fault
    BY <1>0, <2>2 DEF Fault
  <2>3. CASE Crash
    BY <1>0, <2>3 DEF Crash
  <2>4. ASSUME Recovery \/ PumpStep PROVE UNCHANGED spent
    BY <2>4 DEF Recovery, BootCancel, BootRetry, BootExhaust, BootCancelsDone,
                BootInterrupt, BootAnchor, BootDone, PumpStep, PumpWake,
                PumpFindInterrupted, PumpCasInterrupted, PumpFindQueued,
                PumpCasQueued, PumpBegin
  <2>5. ASSUME NEW e \in Execs, ExecStep(e) PROVE UNCHANGED spent
    BY <2>5 DEF ExecStep, ExecLoad, ExecPrepare, ExecPersistDraft, ExecOutcome,
                ExecFail, ExecAbort, ExecSave, ExecAnchor, ExecRescue, ExecEnd
  <2>6. ASSUME NEW r \in Runs, StartRun(r) \/ CancelStep(r) \/ CancelRead(r)
        PROVE  UNCHANGED spent
    BY <2>6 DEF StartRun, CancelStep, CancelFlag, CancelAttempt, CancelAbort, CancelRead
  <2>7. ASSUME NEW h \in Resumers, ResumeStep(h) \/ \E r \in Runs : ResumeRead(h, r)
        PROVE  UNCHANGED spent
    BY <2>7 DEF ResumeStep, ResumeSelect, ResumeSave, ResumeNotify, ResumeRead
  <2>8. Throw => Fault
    BY DEF Throw, PumpThrow, ExecThrow, CancelThrow, ResumeThrow
  <2> QED
    BY <2>1, <2>2, <2>3, <2>4, <2>5, <2>6, <2>7, <2>8, EngineAssumption
    DEF Next, EngineAssumption
<1>2. SUFFICES ASSUME NEW e \in Execs
               PROVE  /\ exec'[e].pc = "rescue" => exec'[e].catcher = "nobody"
                      /\ Live(e)' /\ exec'[e].catcher = "nobody" => spent'.faults > 0
  BY DEF CatchInv
<1>s. spent'.faults \in Nat /\ spent.faults \in Nat
  <2>1. TypeOK'
    BY TypeStep DEF Slots
  <2> QED
    BY <1>0, <2>1 DEF TypeOK
<1>3. CASE exec'[e] = exec[e]
  BY <1>1, <1>3, <1>s DEF CatchInv, Live
<1>4. CASE Inside(e) /\ exec'[e] # exec[e]
  <2>1. exec[e] \in Exec /\ Live(e)
    BY <1>0, <1>4 DEF Inside, ExecLoad, ExecPrepare, ExecPersistDraft, ExecOutcome,
       ExecFail, ExecAbort, ExecSave, ExecAnchor, ExecRescue, ExecThrow, Live
  <2>2. CASE ExecThrow(e)
    <3>1. spent'.faults > 0
      <4>1. Fault
        BY <2>2 DEF ExecThrow
      <4> QED
        BY <1>0, <4>1 DEF Fault
    <3>2. exec'[e].pc = "rescue" => exec'[e].catcher = "nobody"
      <4>1. CASE Goto(e, "final") \/ Leave(e, "failed", "worker")
        BY <1>0, <4>1, GotoShape, LeaveShape
      <4>2. CASE exec' = [exec EXCEPT ![e] =
                           [@ EXCEPT !.pc = "rescue", !.catcher = "nobody"]]
        BY <1>0, <2>1, <4>2 DEF Exec
      <4> QED
        BY <2>2, <4>1, <4>2 DEF ExecThrow
    <3> QED
      BY <3>1, <3>2
  <2>3. CASE ExecRescue(e)
    <3>1. exec[e].pc = "rescue"
      BY <2>3 DEF ExecRescue
    <3>2. exec[e].catcher = "nobody" /\ spent.faults > 0
      BY <2>1, <3>1 DEF CatchInv
    <3>3. exec'[e].pc # "rescue"
      BY <1>0, <2>3, GotoShape, LeaveShape DEF ExecRescue
    <3> QED
      BY <1>1, <1>s, <3>2, <3>3
  <2>4. CASE ~ExecThrow(e) /\ ~ExecRescue(e)
    <3>1. \/ \E pc \in {"prepare", "anchor", "final"} : Goto(e, pc)
          \/ \E to : \E c \in {"executor", "worker"} : Leave(e, to, c)
          \/ exec' = [exec EXCEPT ![e] =
                        [@ EXCEPT !.pc = "work", !.catcher = "executor"]]
      <4>1. ~ExecPersistDraft(e)
        BY <1>4 DEF ExecPersistDraft, memory
      <4>2. CASE ExecLoad(e) \/ ExecOutcome(e) \/ ExecFail(e)
        BY <4>2 DEF ExecLoad, ExecOutcome, ExecFail
      <4>3. CASE ExecPrepare(e) \/ ExecAbort(e) \/ ExecSave(e) \/ ExecAnchor(e)
        BY <4>3 DEF ExecPrepare, ExecAbort, ExecSave, ExecAnchor
      <4> QED
        BY <1>4, <2>4, <4>1, <4>2, <4>3 DEF Inside
    <3>2. /\ exec'[e].pc # "rescue"
          /\ exec'[e].catcher = "nobody" => exec[e].catcher = "nobody"
      <4>1. CASE \E pc \in {"prepare", "anchor", "final"} : Goto(e, pc)
        BY <1>0, <4>1, GotoShape
      <4>2. CASE \E to : \E c \in {"executor", "worker"} : Leave(e, to, c)
        BY <1>0, <4>2, LeaveShape
      <4>3. CASE exec' = [exec EXCEPT ![e] =
                           [@ EXCEPT !.pc = "work", !.catcher = "executor"]]
        BY <1>0, <2>1, <4>3 DEF Exec
      <4> QED
        BY <3>1, <4>1, <4>2, <4>3
    <3> QED
      BY <1>1, <1>s, <2>1, <3>2 DEF CatchInv
  <2> QED
    BY <2>2, <2>3, <2>4
<1>5. CASE ExecEnd(e) \/ Crash
  BY <1>0, <1>5 DEF ExecEnd, Crash, NoExec, Live
<1>6. CASE (PumpBegin /\ e = pump.run) \/ (e \in Resumers /\ ResumeNotify(e))
  <2>1. exec'[e].pc = "load" /\ exec'[e].catcher = "worker"
    BY <1>0, <1>6 DEF PumpBegin, ResumeNotify, Begin
  <2> QED
    BY <2>1
<1> QED
  BY <1>3, <1>4, <1>5, <1>6, ExecTurn

LEMMA OverKept ==
  ASSUME Slots, OrderInv, HandInv, PausedStep, QuietInv, TwoStageInv, Next,
         TwoStage \cap Cancellable = {}
  PROVE  OverStep
<1>1. SUFFICES ASSUME NEW r \in Runs, Status(r) \in TerminalStatuses,
                      Status(r)' \notin TerminalStatuses
               PROVE  FALSE
  BY DEF OverStep
<1>2. Caused(r)
  BY StatusCause DEF StatusMoved
<1>3. ASSUME NEW e \in Execs, ExecSave(e), exec[e].run = r, Status(r)' = exec[e].to
      PROVE  FALSE
  <2>1. exec[e] \in Exec /\ exec[e].pc = "save"
    BY <1>3 DEF ExecSave, Slots, TypeOK
  <2>2. exec[e].to = "awaiting_hitl"
    BY <1>1, <1>3, <2>1 DEF Exec, TerminalStatuses
  <2>3. r \in Undisturbed
    BY <1>3, <2>1, <2>2 DEF TwoStageInv, Undisturbed
  <2>4. Status(r) \in Fresh
    BY <1>3, <2>1, <2>2 DEF HandInv, Has, May, StageOf, Working
  <2> QED
    BY <1>1, <2>3, <2>4 DEF QuietInv, Fresh, TerminalStatuses
<1>4. ASSUME NEW h \in Resumers, ResumeSave(h), hitl[h].run = r PROVE FALSE
  <2>1. hitl \in [Resumers -> [pc  : {"idle", "select", "save", "notify", "done"},
                               run : Runs \cup {None}]]
    BY DEF Slots, TypeOK
  <2>2. hitl[h].pc = "save" /\ hitl'[h].pc = "notify"
    BY <1>4, <2>1 DEF ResumeSave, HitlGoto
  <2> QED
    BY <1>1, <1>4, <2>2 DEF PausedStep, TerminalStatuses
<1> QED
  BY <1>1, <1>2, <1>3, <1>4 DEF Caused, Claims, Cancelable, TerminalStatuses

\* Where nobody can dispute a choice, the rules about users hold by themselves.
LEMMA UndisputedRules ==
  ASSUME Undisputed
  PROVE  Spec => HitlOnlyWhilePaused /\ OverIsOver
<1>1. Init => QuietInv /\ TwoStageInv
  BY DEF Init, QuietInv, Undisturbed, TwoStageInv, Choosing, NoExec, NoRow, Status
<1>2. Slots /\ OrderInv /\ QuietInv /\ TwoStageInv /\ [Next]_vars
      => QuietInv' /\ TwoStageInv'
  <2>1. ASSUME QuietInv, TwoStageInv, UNCHANGED vars PROVE QuietInv' /\ TwoStageInv'
    BY <2>1 DEF QuietInv, TwoStageInv, Choosing, Status, vars
  <2> QED
    BY <2>1, QuietStep, TwoStageStep
<1>3. QuietInv /\ TwoStageInv => ChoicesApart
  BY EngineAssumption
  DEF QuietInv, TwoStageInv, ChoicesApart, Undisputed, Undisturbed, EngineAssumption
<1>4. Spec => HitlOnlyWhilePaused
  BY <1>1, <1>2, <1>3, ApartChoicesFindTheRunPaused, OrderInductiveInv, PTL DEF Spec
<1>5. Slots /\ OrderInv /\ HandInv /\ QuietInv /\ TwoStageInv /\ [PausedStep]_vars
      /\ [Next]_vars => [OverStep]_vars
  BY OverKept DEF Undisputed
<1>6. HitlOnlyWhilePaused => [][PausedStep]_vars
  BY PTL DEF HitlOnlyWhilePaused, PausedStep
<1> QED
  BY <1>1, <1>2, <1>4, <1>5, <1>6, HandsHold, OrderInductiveInv, PTL
  DEF Spec, OverIsOver

\* So one execution works on a run, and only finished runs have an anchor,
\* whatever crashes and whatever throws.
THEOREM UndisputedRunsAreSafe ==
  ASSUME Undisputed
  PROVE  Spec => [](OneWorkingExecution /\ AnchorMeansFinished)
BY UndisputedRules, OneExecutionWorks, AnchorsMeanFinished, PTL

\* One throwing statement leaves no run behind: the worker's last catch is only
\* reached by a first one, and would have to meet a second.
THEOREM OneFaultLeavesNobodyBehind ==
  ASSUME Undisputed, MaxFaults <= 1
  PROVE  Spec => []RunningHasOwner
<1>1. Init => CatchInv
  BY DEF Init, CatchInv, NoExec, Live
<1>2. Slots /\ CatchInv /\ [Next]_vars => CatchInv'
  <2>1. ASSUME CatchInv, UNCHANGED vars PROVE CatchInv'
    BY <2>1 DEF CatchInv, Live, vars
  <2> QED
    BY <2>1, CatchHolds
<1>3. Slots /\ CatchInv => RescuedStep
  <2>1. ASSUME Slots, CatchInv, NEW e \in Execs, exec[e].catcher = "nobody",
               ExecThrow(e)
        PROVE  FALSE
    <3>1. Live(e) /\ Fault
      BY <2>1 DEF ExecThrow, Live
    <3>2. spent.faults > 0 /\ spent.faults < MaxFaults
      BY <2>1, <3>1 DEF CatchInv, Fault
    <3>3. spent.faults \in Nat /\ MaxFaults \in Nat
      BY <2>1, EngineAssumption DEF Slots, TypeOK, EngineAssumption
    <3> QED
      BY <3>2, <3>3
  <2> QED
    BY <2>1 DEF RescuedStep
<1>4. Spec => LastCatchWorks
  BY <1>1, <1>2, <1>3, OrderInductiveInv, PTL DEF Spec, LastCatchWorks
<1> QED
  BY <1>4, UndisputedRules, RunningRunsAreKept, PTL

\* With no throwing statement every run of theirs follows the status graph.
THEOREM UndisputedRunsFollowGraph ==
  ASSUME Undisputed, MaxFaults = 0
  PROVE  Spec => FollowsGraph
<1>1. Slots => AnchorStep
  BY DEF Slots, TypeOK, AnchorStep, ExecThrow, Fault
<1>2. Spec => AnchorsHold
  BY <1>1, OrderInductiveInv, PTL DEF Spec, AnchorsHold
<1> QED
  BY <1>2, UndisputedRules, RefinesStatusGraph, PTL

-----------------------------------------------------------------------------
(* No wake is lost                                                          *)

\* A drain that sleeps while a slot is free has nothing to take.
WakeInv ==
  Up /\ pump.pc = "idle" /\ ~pump.pending /\ inFlight < MaxConcurrent =>
    \A r \in Runs : ~Claimable(r)

\* A run that may be claimed has a drain at work or due, or every slot is held
\* by an execution, whose end enqueues one.
NoWakeLost ==
  Up /\ (\E r \in Runs : Claimable(r)) =>
    pump.pc # "idle" \/ pump.pending \/ Cardinality(LiveExecs) >= MaxConcurrent

ClaimsReturn == [][~PumpThrow]_vars

\* Who leaves the drain alone also returns no slot.
LEMMA NoSlotReturned ==
  ASSUME TypeOK,
         \/ \E e \in Execs : ExecStep(e) /\ ~ExecEnd(e)
         \/ \E e \in Execs : ExecThrow(e)
         \/ \E r \in Runs : CancelStep(r) \/ CancelRead(r) \/ CancelThrow(r)
         \/ \E h \in Resumers : \/ ResumeStep(h) \/ ResumeThrow(h)
                                \/ \E r \in Runs : ResumeRead(h, r)
  PROVE  UNCHANGED <<pump, boot>> /\ inFlight' \in {inFlight, inFlight + 1}
<1>1. ASSUME NEW e \in Execs, (ExecStep(e) /\ ~ExecEnd(e)) \/ ExecThrow(e)
      PROVE  UNCHANGED <<pump, boot, inFlight>>
  BY <1>1 DEF ExecStep, ExecLoad, ExecPrepare, ExecPersistDraft, ExecOutcome,
              ExecFail, ExecAbort, ExecSave, ExecAnchor, ExecRescue, ExecThrow, memory
<1>2. ASSUME NEW r \in Runs, CancelStep(r) \/ CancelRead(r) \/ CancelThrow(r)
      PROVE  UNCHANGED <<pump, boot, inFlight>>
  BY <1>2 DEF CancelStep, CancelFlag, CancelAttempt, CancelAbort, CancelRead,
              CancelThrow, memory
<1>3. ASSUME NEW h \in Resumers,
             \/ ResumeSelect(h) \/ ResumeSave(h) \/ ResumeThrow(h)
             \/ \E r \in Runs : ResumeRead(h, r)
      PROVE  UNCHANGED <<pump, boot, inFlight>>
  BY <1>3 DEF ResumeSelect, ResumeSave, ResumeThrow, ResumeRead, memory
<1>4. ASSUME NEW h \in Resumers, ResumeNotify(h)
      PROVE  UNCHANGED <<pump, boot>> /\ inFlight' = inFlight + 1
  BY <1>4 DEF ResumeNotify, Begin
<1> QED
  BY <1>1, <1>2, <1>3, <1>4 DEF ResumeStep

LEMMA WakeStep ==
  ASSUME Slots, OrderInv, WakeInv, Next, ~PumpThrow
  PROVE  WakeInv'
<1>0. /\ TypeOK /\ Control /\ FoundInv
      /\ row \in [Runs -> Row] /\ pump \in Pump
      /\ inFlight \in Nat /\ MaxConcurrent \in Nat
  BY EngineAssumption DEF Slots, TypeOK, OrderInv, EngineAssumption
<1>1. ASSUME pump'.pending \/ pump'.pc # "idle" \/ ~Up' \/ inFlight' >= MaxConcurrent,
             inFlight' \in Nat
      PROVE  WakeInv'
  BY <1>0, <1>1 DEF WakeInv
<1>2. CASE Recovery \/ Crash
  <2>1. pump'.pending \/ ~Up'
    BY <1>0, <1>2 DEF Recovery, BootCancel, BootRetry, BootExhaust, BootCancelsDone,
       BootInterrupt, BootAnchor, BootDone, Crash, Up, TypeOK, Pump
  <2> QED
    BY <2>1 DEF WakeInv
<1>3. CASE (\E r \in Runs : StartRun(r)) \/ (\E e \in Execs : ExecEnd(e))
  <2>1. pump'.pending
    BY <1>0, <1>3 DEF StartRun, ExecEnd, Pump
  <2> QED
    BY <2>1 DEF WakeInv
<1>4. CASE PumpWake
  <2>1. pump'.pc = LoopHead(inFlight) /\ inFlight' = inFlight
    BY <1>4 DEF PumpWake, IdlePump, memory
  <2> QED
    BY <1>0, <1>1, <2>1 DEF LoopHead
<1>5. CASE PumpFindInterrupted \/ PumpCasInterrupted \/ PumpCasQueued
  <2>1. pump'.pc # "idle"
    BY <1>0, <1>5 DEF PumpFindInterrupted, PumpCasInterrupted, PumpCasQueued, Pump
  <2> QED
    BY <2>1 DEF WakeInv
<1>6. CASE PumpFindQueued
  <2> DEFINE S == {r \in Runs : Status(r) = "queued"}
  <2>1. pump.pc = "queued" /\ (pump'.pc = "idle" => Oldest(S) = {}) /\ UNCHANGED row
    BY <1>0, <1>6 DEF PumpFindQueued, Pump
  <2>2. pump'.pc = "idle" => S = {}
    <3> S \in SUBSET Runs
      OBVIOUS
    <3> HIDE DEF S
    <3> QED
      BY <1>0, <2>1, OldestExists
  <2>3. \A r \in Runs : ~Waiting(r)
    BY <1>0, <2>1 DEF FoundInv
  <2>4. pump'.pc = "idle" => \A r \in Runs : ~Claimable(r)'
    BY <2>1, <2>2, <2>3 DEF Claimable, Waiting, Status
  <2> QED
    BY <2>4 DEF WakeInv
<1>7. CASE PumpBegin
  <2>1. pump'.pc = LoopHead(inFlight + 1) /\ inFlight' = inFlight + 1
    BY <1>7 DEF PumpBegin, Begin, IdlePump
  <2> QED
    BY <1>0, <1>1, <2>1 DEF LoopHead
<1>8. CASE UNCHANGED <<pump, boot>> /\ inFlight' \in {inFlight, inFlight + 1}
  <2>1. SUFFICES ASSUME Up', pump'.pc = "idle", ~pump'.pending, inFlight' < MaxConcurrent,
                        NEW r \in Runs, Claimable(r)'
                 PROVE  FALSE
    BY DEF WakeInv
  <2>2. Up /\ pump.pc = "idle" /\ ~pump.pending /\ inFlight < MaxConcurrent
    BY <1>0, <1>8, <2>1 DEF Up
  <2>3. ~Claimable(r)
    BY <2>2 DEF WakeInv
  <2>4. ~StartRun(r)
    BY <1>0, <2>1 DEF StartRun, Pump
  <2>5. Claimable(r)' => Status(r)' = "queued" \/ Waiting(r)'
    BY DEF Claimable, Waiting, Status
  <2>6. Status(r) = "queued" \/ Waiting(r)
    BY <2>1, <2>2, <2>4, <2>5, RunKept
  <2> QED
    BY <2>3, <2>6 DEF Claimable, Waiting
<1> QED
  BY <1>2, <1>3, <1>4, <1>5, <1>6, <1>7, <1>8, <1>0, NoSlotReturned, EngineAssumption
  DEF Next, PumpStep, Throw, EngineAssumption

\* A queued run is forgotten by nobody but a claim statement that throws, whose
\* drain ends with a log line and no other drain after it: the safety half of
\* QueuedIsTaken, for any number of crashes and other faults (drain, wake).
THEOREM OnlyAThrowLosesAWake ==
  Spec => [][WakeInv /\ ~PumpThrow => WakeInv']_vars
<1>1. Slots /\ OrderInv /\ [Next]_vars => [WakeInv /\ ~PumpThrow => WakeInv']_vars
  BY WakeStep
<1> QED
  BY <1>1, OrderInductiveInv, PTL DEF Spec

\* So while claim statements return, a run that may be claimed always has a
\* drain at work or due, or an execution in every slot.
THEOREM WakesAreKept == Spec /\ ClaimsReturn => []NoWakeLost
<1>1. Init => WakeInv
  BY DEF Init, WakeInv, Up
<1>2. Slots /\ OrderInv /\ WakeInv /\ [~PumpThrow]_vars /\ [Next]_vars => WakeInv'
  <2>1. ASSUME WakeInv, UNCHANGED vars PROVE WakeInv'
    BY <2>1 DEF WakeInv, Claimable, Status, Up, vars
  <2> QED
    BY <2>1, WakeStep
<1>3. Slots /\ WakeInv => NoWakeLost
  <2>1. ASSUME Slots, WakeInv PROVE NoWakeLost
    <3>1. inFlight = Cardinality(LiveExecs) /\ inFlight \in Nat /\ MaxConcurrent \in Nat
      BY <2>1, EngineAssumption DEF Slots, SlotAccounting, TypeOK, EngineAssumption
    <3> QED
      BY <2>1, <3>1 DEF WakeInv, NoWakeLost
  <2> QED
    BY <2>1
<1> QED
  BY <1>1, <1>2, <1>3, OrderInductiveInv, PTL DEF Spec, ClaimsReturn

-----------------------------------------------------------------------------
(* Tuples that get lower                                                    *)

Ranks(n) == [1..n -> Nat]

\* The first difference decides.
a \prec b == \E j \in DOMAIN a : a[j] < b[j] /\ \A i \in 1..(j - 1) : a[i] = b[i]

\* A descent cannot go on for ever.
LEMMA DescentEnds ==
  ASSUME NEW n \in Nat
  PROVE  IsWellFoundedOn(OpToRel(\prec, Ranks(n)), Ranks(n))
<1> DEFINE Less == OpToRel(<, Nat)
<1>1. IsWellFoundedOn(LexProductOrdering(Less, Nat, n), Ranks(n))
  <2>1. IsWellFoundedOn(Less, Nat)
    BY NatLessThanWellFounded
  <2> HIDE DEF Less
  <2> QED
    BY <2>1, WFLexProductOrdering DEF Ranks
<1>2. OpToRel(\prec, Ranks(n)) = LexProductOrdering(Less, Nat, n)
  <2>1. ASSUME NEW a \in Ranks(n), NEW b \in Ranks(n)
        PROVE  a \prec b <=> \E j \in 1..n : /\ \A i \in 1..(j - 1) : a[i] = b[i]
                                             /\ <<a[j], b[j]>> \in Less
    <3>1. \A j \in 1..n : a[j] < b[j] <=> <<a[j], b[j]>> \in Less
      BY DEF Ranks, OpToRel
    <3>2. DOMAIN a = 1..n
      BY DEF Ranks
    <3> HIDE DEF Less
    <3> QED
      BY <3>1, <3>2 DEF \prec
  <2> HIDE DEF Less
  <2> QED
    BY <2>1 DEF OpToRel, LexProductOrdering, Ranks
<1> QED
  BY <1>1, <1>2

LEMMA ThreeNumbers ==
  ASSUME NEW a1 \in Nat, NEW a2 \in Nat, NEW a3 \in Nat,
         NEW b1 \in Nat, NEW b2 \in Nat, NEW b3 \in Nat,
         \/ a1 < b1
         \/ a1 = b1 /\ a2 < b2
         \/ a1 = b1 /\ a2 = b2 /\ a3 < b3
  PROVE  <<a1, a2, a3>> \prec <<b1, b2, b3>>
<1> DEFINE a == <<a1, a2, a3>>
           b == <<b1, b2, b3>>
<1>1. /\ DOMAIN a = 1..3
      /\ a[1] = a1 /\ a[2] = a2 /\ a[3] = a3
      /\ b[1] = b1 /\ b[2] = b2 /\ b[3] = b3
  OBVIOUS
<1> HIDE DEF a, b
<1>2. ASSUME NEW j \in 1..3, a[j] < b[j], \A i \in 1..(j - 1) : a[i] = b[i]
      PROVE  a \prec b
  BY <1>1, <1>2 DEF \prec
<1>3. ASSUME a1 < b1 PROVE a \prec b
  BY <1>1, <1>2, <1>3
<1>4. ASSUME a1 = b1 /\ a2 < b2 PROVE a \prec b
  <2>1. \A i \in 1..1 : i = 1
    OBVIOUS
  <2> QED
    BY <1>1, <1>2, <1>4, <2>1
<1>5. ASSUME a1 = b1 /\ a2 = b2 /\ a3 < b3 PROVE a \prec b
  <2>1. \A i \in 1..2 : i = 1 \/ i = 2
    OBVIOUS
  <2> QED
    BY <1>1, <1>2, <1>5, <2>1
<1>6. a \prec b
  BY <1>3, <1>4, <1>5
<1> QED
  BY <1>6 DEF a, b

-----------------------------------------------------------------------------
(* Recovery and the drain come nearer to their end                          *)

\* Recovery passes from the cancels to the leftovers; a leftover is moved by
\* two statements, and the run no longer runs after the one that moves it.
BootRank ==
  CASE boot.pc = "cancels"   -> <<2, Cardinality(CancelLeftovers), 0>>
    [] boot.pc = "anchor"    -> <<1, Cardinality({r \in Runs : Status(r) = "running"}), 2>>
    [] boot.pc = "leftovers" -> <<1, Cardinality({r \in Runs : Status(r) = "running"}), 1>>
    [] boot.pc = "interrupt" -> <<1, Cardinality({r \in Runs : Status(r) = "running"}), 0>>
    [] boot.pc = "up"        -> <<0, 0, 0>>

\* Until the process serves nobody acts but recovery, and each of its
\* statements brings it nearer to that.
BootNearer ==
  ~Up => /\ BootRank \in Ranks(3)
         /\ Recovery \/ Crash
         /\ Recovery => BootRank' \prec BootRank

ToTake == {r \in Runs : Claimable(r)}

\* A find that has been overtaken leads back to the find before it.
DrainStage ==
  CASE pump.pc = "casInterrupted" -> IF Waiting(pump.run) THEN 5 ELSE 7
    [] pump.pc = "interrupted"    -> 6
    [] pump.pc = "casQueued"      -> IF Status(pump.run) = "queued" THEN 2 ELSE 4
    [] pump.pc = "queued"         -> 3
    [] pump.pc = "claimed"        -> 1
    [] pump.pc = "idle"           -> 0

\* The runs that are left to take, the drain that is due, and where it stands.
DrainRank ==
  <<Cardinality(ToTake) + (IF pump.pc = "claimed" THEN 1 ELSE 0),
    IF pump.pending THEN 1 ELSE 0,
    DrainStage>>

\* Every step of the drain brings it nearer to sleep, lost races and throws
\* included, and whoever takes a run from under it does not hold it up: only a
\* new run and the end of an execution give it more to do.
DrainNearer ==
  /\ DrainRank \in Ranks(3)
  /\ PumpStep \/ PumpThrow => DrainRank' \prec DrainRank
  /\ Up /\ Next => \/ DrainRank' = DrainRank \/ DrainRank' \prec DrainRank
                   \/ \E r \in Runs : StartRun(r)
                   \/ \E e \in Execs : ExecEnd(e)
                   \/ Crash

LEMMA Fewer ==
  ASSUME NEW S, NEW T, IsFiniteSet(S), T \subseteq S
  PROVE  /\ Cardinality(S) \in Nat /\ Cardinality(T) \in Nat
         /\ Cardinality(T) <= Cardinality(S)
         /\ T # S => Cardinality(T) < Cardinality(S)
<1>1. /\ IsFiniteSet(T) /\ Cardinality(T) <= Cardinality(S)
      /\ Cardinality(S) = Cardinality(T) => S = T
  BY FS_Subset
<1>2. Cardinality(S) \in Nat /\ Cardinality(T) \in Nat
  BY <1>1, FS_CardinalityType
<1> QED
  BY <1>1, <1>2

LEMMA RankOfThree ==
  ASSUME NEW a1 \in Nat, NEW a2 \in Nat, NEW a3 \in Nat
  PROVE  <<a1, a2, a3>> \in Ranks(3)
<1> DEFINE a == <<a1, a2, a3>>
<1>1. DOMAIN a = 1..3 /\ a[1] = a1 /\ a[2] = a2 /\ a[3] = a3
  OBVIOUS
<1>2. \A i \in 1..3 : i = 1 \/ i = 2 \/ i = 3
  OBVIOUS
<1>3. a = [i \in 1..3 |-> a[i]]
  OBVIOUS
<1> HIDE DEF a
<1>4. a \in [1..3 -> Nat]
  BY <1>1, <1>2, <1>3
<1> QED
  BY <1>4 DEF a, Ranks

Running == {r \in Runs : Status(r) = "running"}

LEMMA RecoveryDescends ==
  ASSUME Slots, OrderInv, ~Up
  PROVE  BootRank \in Ranks(3) /\ (Recovery => BootRank' \prec BootRank)
<1>0. /\ row \in [Runs -> Row] /\ RecoveringInv /\ BootInv
      /\ boot \in [pc : {"cancels", "leftovers", "interrupt", "anchor", "up"},
                   run : Runs \cup {None}]
      /\ boot.pc # "up"
  BY DEF Slots, TypeOK, Control, OrderInv, Up
<1> DEFINE L == CancelLeftovers
           R == Running
<1>1. /\ IsFiniteSet(L) /\ IsFiniteSet(R)
      /\ Cardinality(L) \in Nat /\ Cardinality(R) \in Nat
  <2>1. L \subseteq Runs /\ R \subseteq Runs
    BY DEF CancelLeftovers, Running
  <2> QED
    BY <2>1, FS_Subset, FS_CardinalityType, EngineAssumption DEF EngineAssumption
<1>2. /\ boot.pc = "cancels" => BootRank = <<2, Cardinality(L), 0>>
      /\ boot.pc = "anchor" => BootRank = <<1, Cardinality(R), 2>>
      /\ boot.pc = "leftovers" => BootRank = <<1, Cardinality(R), 1>>
      /\ boot.pc = "interrupt" => BootRank = <<1, Cardinality(R), 0>>
  BY DEF BootRank, Running
<1>3. /\ boot'.pc = "cancels" => BootRank' = <<2, Cardinality(L'), 0>>
      /\ boot'.pc = "anchor" => BootRank' = <<1, Cardinality(R'), 2>>
      /\ boot'.pc = "leftovers" => BootRank' = <<1, Cardinality(R'), 1>>
      /\ boot'.pc = "interrupt" => BootRank' = <<1, Cardinality(R'), 0>>
      /\ boot'.pc = "up" => BootRank' = <<0, 0, 0>>
  BY DEF BootRank, Running
<1>4. BootRank \in Ranks(3)
  BY <1>0, <1>1, <1>2, RankOfThree
<1> HIDE DEF L, R
<1>5. ASSUME NEW r \in Runs, BootCancel(r) PROVE BootRank' \prec BootRank
  <2>1. boot.pc = "cancels" /\ boot'.pc = "cancels" /\ r \in L
    BY <1>5 DEF BootCancel, L
  <2>2. L' \subseteq L /\ r \notin L'
    <3>1. row'[r].status = "cancelled" /\ \A q \in Runs \ {r} : row'[q] = row[q]
      BY <1>0, <1>5 DEF BootCancel, CancelledRow, Row
    <3> QED
      BY <3>1 DEF L, CancelLeftovers, Status
  <2>3. Cardinality(L') \in Nat /\ Cardinality(L') < Cardinality(L)
    BY <1>1, <2>1, <2>2, Fewer
  <2>4. BootRank = <<2, Cardinality(L), 0>> /\ BootRank' = <<2, Cardinality(L'), 0>>
    BY <1>2, <1>3, <2>1
  <2> QED
    BY <1>1, <2>3, <2>4, ThreeNumbers
<1>6. ASSUME BootCancelsDone PROVE BootRank' \prec BootRank
  <2>1. boot.pc = "cancels" /\ boot'.pc = "leftovers" /\ Cardinality(R') \in Nat
    BY <1>0, <1>1, <1>6 DEF BootCancelsDone, R, Running, Status
  <2>2. BootRank = <<2, Cardinality(L), 0>> /\ BootRank' = <<1, Cardinality(R'), 1>>
    BY <1>2, <1>3, <2>1
  <2> QED
    BY <1>1, <2>1, <2>2, ThreeNumbers
<1>7. ASSUME NEW r \in Runs, BootRetry(r) PROVE BootRank' \prec BootRank
  <2>1. boot.pc = "leftovers" /\ boot'.pc = "interrupt"
    BY <1>7 DEF BootRetry
  <2>2. R' = R
    <3>1. \A q \in Runs : row'[q].status = row[q].status
      BY <1>0, <1>7 DEF BootRetry, Row
    <3> QED
      BY <3>1 DEF R, Running, Status
  <2>3. BootRank = <<1, Cardinality(R), 1>> /\ BootRank' = <<1, Cardinality(R), 0>>
    BY <1>2, <1>3, <2>1, <2>2
  <2> QED
    BY <1>1, <2>3, ThreeNumbers
<1>8. ASSUME NEW r \in Runs, r \in R, row'[r].status # "running",
             \A q \in Runs \ {r} : row'[q] = row[q]
      PROVE  Cardinality(R') \in Nat /\ Cardinality(R') < Cardinality(R)
  <2>1. R' \subseteq R /\ r \notin R'
    BY <1>8 DEF R, Running, Status
  <2> QED
    BY <1>1, <1>8, <2>1, Fewer
<1>9. ASSUME NEW r \in Runs, BootExhaust(r) PROVE BootRank' \prec BootRank
  <2>1. boot.pc = "leftovers" /\ boot'.pc = "anchor" /\ r \in R
    BY <1>9 DEF BootExhaust, RunningLeftovers, R, Running
  <2>2. row'[r].status # "running" /\ \A q \in Runs \ {r} : row'[q] = row[q]
    BY <1>0, <1>9 DEF BootExhaust, Row
  <2>3. Cardinality(R') \in Nat /\ Cardinality(R') < Cardinality(R)
    BY <1>8, <2>1, <2>2
  <2>4. BootRank = <<1, Cardinality(R), 1>> /\ BootRank' = <<1, Cardinality(R'), 2>>
    BY <1>2, <1>3, <2>1
  <2> QED
    BY <1>1, <2>3, <2>4, ThreeNumbers
<1>10. ASSUME BootInterrupt PROVE BootRank' \prec BootRank
  <2>1. /\ boot.pc = "interrupt" /\ boot'.pc = "leftovers"
        /\ boot.run \in Runs /\ boot.run \in R
    BY <1>0, <1>10 DEF BootInterrupt, BootInv, RecoveringInv, R, Running
  <2>2. /\ row'[boot.run].status # "running"
        /\ \A q \in Runs \ {boot.run} : row'[q] = row[q]
    BY <1>0, <1>10, <2>1 DEF BootInterrupt, Row
  <2>3. Cardinality(R') \in Nat /\ Cardinality(R') < Cardinality(R)
    BY <1>8, <2>1, <2>2
  <2>4. BootRank = <<1, Cardinality(R), 0>> /\ BootRank' = <<1, Cardinality(R'), 1>>
    BY <1>2, <1>3, <2>1
  <2> QED
    BY <1>1, <2>3, <2>4, ThreeNumbers
<1>11. ASSUME BootAnchor PROVE BootRank' \prec BootRank
  <2>1. boot.pc = "anchor" /\ boot'.pc = "leftovers"
    BY <1>11 DEF BootAnchor
  <2>2. R' = R
    <3>1. \A q \in Runs : row'[q].status = row[q].status
      BY <1>0, <1>11 DEF BootAnchor, Row
    <3> QED
      BY <3>1 DEF R, Running, Status
  <2>3. BootRank = <<1, Cardinality(R), 2>> /\ BootRank' = <<1, Cardinality(R), 1>>
    BY <1>2, <1>3, <2>1, <2>2
  <2> QED
    BY <1>1, <2>3, ThreeNumbers
<1>12. ASSUME BootDone PROVE BootRank' \prec BootRank
  <2>1. boot.pc = "leftovers" /\ boot'.pc = "up"
    BY <1>0, <1>12 DEF BootDone
  <2>2. BootRank = <<1, Cardinality(R), 1>> /\ BootRank' = <<0, 0, 0>>
    BY <1>2, <1>3, <2>1
  <2> QED
    BY <1>1, <2>2, ThreeNumbers
<1> QED
  BY <1>4, <1>5, <1>6, <1>7, <1>9, <1>10, <1>11, <1>12 DEF Recovery

\* Nothing but a new run gives the drain something to take.
LEMMA NothingNewToTake ==
  ASSUME Slots, OrderInv, Next, Up, \A r \in Runs : ~StartRun(r)
  PROVE  ToTake' \subseteq ToTake
<1>1. ASSUME NEW r \in Runs, Claimable(r)' PROVE Claimable(r)
  <2>1. Status(r)' = "queued" \/ Waiting(r)'
    BY <1>1 DEF Claimable, Waiting, Status
  <2>2. Status(r) = "queued" \/ Waiting(r)
    BY <2>1, RunKept
  <2> QED
    BY <2>2 DEF Claimable, Waiting
<1> QED
  BY <1>1 DEF ToTake

Due == IF pump.pending THEN 1 ELSE 0

Won == IF pump.pc = "claimed" THEN 1 ELSE 0

LEMMA DrainNumbers ==
  ASSUME Slots
  PROVE  /\ DrainRank = <<Cardinality(ToTake) + Won, Due, DrainStage>>
         /\ Cardinality(ToTake) \in Nat /\ Won \in {0, 1} /\ Due \in {0, 1}
         /\ DrainStage \in 0..7
         /\ DrainRank \in Ranks(3)
<1>1. DrainRank = <<Cardinality(ToTake) + Won, Due, DrainStage>>
  BY DEF DrainRank, Won, Due
<1>2. Cardinality(ToTake) \in Nat
  <2>1. ToTake \subseteq Runs /\ IsFiniteSet(Runs)
    BY EngineAssumption DEF ToTake, EngineAssumption
  <2> QED
    BY <2>1, Fewer
<1>3. DrainStage \in 0..7
  <2>1. pump.pc \in {"idle", "interrupted", "casInterrupted", "queued", "casQueued",
                     "claimed"}
    BY DEF Slots, TypeOK, Pump
  <2> QED
    BY <2>1 DEF DrainStage
<1>4. Won \in {0, 1} /\ Due \in {0, 1}
  BY DEF Won, Due
<1>5. Cardinality(ToTake) + Won \in Nat /\ Due \in Nat /\ DrainStage \in Nat
  BY <1>2, <1>3, <1>4
<1>6. <<Cardinality(ToTake) + Won, Due, DrainStage>> \in Ranks(3)
  BY <1>5, RankOfThree
<1> QED
  BY <1>1, <1>2, <1>3, <1>4, <1>6

\* What a step must show of the drain it moves.
LEMMA DrainFalls ==
  ASSUME Slots, pump' \in Pump, ToTake' \subseteq ToTake,
         \/ ToTake' # ToTake /\ (Won' <= Won \/ (Due' <= Due /\ DrainStage' < DrainStage))
         \/ Won' <= Won /\ (Due' < Due \/ (Due' <= Due /\ DrainStage' < DrainStage))
         \/ Won' < Won
  PROVE  DrainRank' \prec DrainRank
<1>1. /\ Cardinality(ToTake) \in Nat /\ Won \in {0, 1} /\ Due \in {0, 1}
      /\ DrainStage \in 0..7
  BY DrainNumbers
<1>2. /\ DrainRank = <<Cardinality(ToTake) + Won, Due, DrainStage>>
      /\ DrainRank' = <<Cardinality(ToTake') + Won', Due', DrainStage'>>
  BY DEF DrainRank, Won, Due
<1>3. Won' \in {0, 1} /\ Due' \in {0, 1}
  BY DEF Won, Due
<1>4. DrainStage' \in 0..7
  BY DEF DrainStage, Pump
<1>5. /\ Cardinality(ToTake') \in Nat /\ Cardinality(ToTake') <= Cardinality(ToTake)
      /\ ToTake' # ToTake => Cardinality(ToTake') < Cardinality(ToTake)
  <2>1. ToTake \subseteq Runs /\ IsFiniteSet(Runs)
    BY EngineAssumption DEF ToTake, EngineAssumption
  <2> QED
    BY <2>1, FS_Subset, Fewer
<1>6. \/ /\ Cardinality(ToTake') < Cardinality(ToTake)
         /\ Won' <= Won \/ (Due' <= Due /\ DrainStage' < DrainStage)
      \/ Won' <= Won /\ (Due' < Due \/ (Due' <= Due /\ DrainStage' < DrainStage))
      \/ Won' < Won
  BY <1>5
<1>7. /\ Cardinality(ToTake) + Won \in Nat /\ Cardinality(ToTake') + Won' \in Nat
      /\ \/ Cardinality(ToTake') + Won' < Cardinality(ToTake) + Won
         \/ /\ Cardinality(ToTake') + Won' = Cardinality(ToTake) + Won
            /\ Due' < Due \/ (Due' = Due /\ DrainStage' < DrainStage)
  BY ONLY <1>1, <1>3, <1>4, <1>5, <1>6
<1>8. Due \in Nat /\ Due' \in Nat /\ DrainStage \in Nat /\ DrainStage' \in Nat
  BY ONLY <1>1, <1>3, <1>4
<1> QED
  BY ONLY <1>2, <1>7, <1>8, ThreeNumbers

LEMMA DrainDescends ==
  ASSUME Slots, pump' \in Pump, PumpStep \/ PumpThrow
  PROVE  DrainRank' \prec DrainRank
<1>0. row \in [Runs -> Row] /\ pump \in Pump /\ PumpInv
  BY DEF Slots, TypeOK, Control
<1>1. ASSUME UNCHANGED row PROVE ToTake' = ToTake
  BY <1>1 DEF ToTake, Claimable, Status
<1>2. ASSUME pump.pc \in {"casInterrupted", "casQueued"}, pump.run \in ToTake,
             row' = [row EXCEPT ![pump.run].status = "running"]
      PROVE  ToTake' \subseteq ToTake /\ ToTake' # ToTake
  <2>1. /\ pump.run \in Runs /\ row'[pump.run].status = "running"
        /\ \A q \in Runs \ {pump.run} : row'[q] = row[q]
    BY <1>0, <1>2 DEF PumpInv, Row
  <2>2. \A q \in Runs : q \in ToTake' => q # pump.run /\ q \in ToTake
    BY <2>1 DEF ToTake, Claimable, Status
  <2> QED
    BY <1>2, <2>2 DEF ToTake
<1>3. CASE PumpWake
  <2>1. Won' = 0 /\ Won = 0 /\ Due = 1 /\ Due' = 0 /\ UNCHANGED row
    BY <1>0, <1>3 DEF PumpWake, IdlePump, LoopHead, Won, Due
  <2> QED
    BY <1>1, <2>1, DrainFalls
<1>4. CASE PumpFindInterrupted
  <2>1. /\ pump.pc = "interrupted" /\ UNCHANGED row
        /\ pump'.pending = pump.pending
        /\ \/ pump'.pc = "queued"
           \/ pump'.pc = "casInterrupted" /\ Waiting(pump'.run)
    BY <1>0, <1>4 DEF PumpFindInterrupted, Oldest, Waiting, Pump
  <2>2. Won' = 0 /\ Won = 0 /\ Due' = Due /\ DrainStage = 6 /\ DrainStage' \in {3, 5}
    BY <2>1 DEF Won, Due, DrainStage, Waiting, Status
  <2> QED
    BY <1>1, <2>1, <2>2, DrainFalls, DrainNumbers
<1>5. CASE PumpFindQueued
  <2>1. /\ pump.pc = "queued" /\ UNCHANGED row
        /\ pump'.pending = pump.pending
        /\ \/ pump'.pc = "idle"
           \/ pump'.pc = "casQueued" /\ Status(pump'.run) = "queued"
    BY <1>0, <1>5 DEF PumpFindQueued, Oldest, Pump
  <2>2. Won' = 0 /\ Won = 0 /\ Due' = Due /\ DrainStage = 3 /\ DrainStage' \in {0, 2}
    BY <2>1 DEF Won, Due, DrainStage, Status
  <2> QED
    BY <1>1, <2>1, <2>2, DrainFalls, DrainNumbers
<1>6. CASE PumpCasInterrupted
  <2>0. pump.pc = "casInterrupted" /\ pump.run \in Runs /\ pump'.pending = pump.pending
    BY <1>0, <1>6 DEF PumpCasInterrupted, PumpInv, Pump
  <2>1. CASE Waiting(pump.run)
    <3>1. pump'.pc = "claimed" /\ row' = [row EXCEPT ![pump.run].status = "running"]
      BY <1>0, <1>6, <2>1 DEF PumpCasInterrupted, Waiting, Pump
    <3>2. Due' = Due /\ DrainStage = 5 /\ DrainStage' = 1
      BY <2>0, <2>1, <3>1 DEF Due, DrainStage
    <3>3. pump.run \in ToTake
      BY <2>0, <2>1 DEF ToTake, Claimable, Waiting
    <3>4. ToTake' \subseteq ToTake /\ ToTake' # ToTake
      BY <1>2, <2>0, <3>1, <3>3
    <3> QED
      BY <3>2, <3>4, DrainFalls, DrainNumbers
  <2>2. CASE ~Waiting(pump.run)
    <3>1. pump'.pc = "interrupted" /\ UNCHANGED row
      BY <1>0, <1>6, <2>2 DEF PumpCasInterrupted, Waiting, Pump
    <3>2. Won = 0 /\ Won' = 0 /\ Due' = Due /\ DrainStage = 7 /\ DrainStage' = 6
      BY <2>0, <2>2, <3>1 DEF Won, Due, DrainStage
    <3> QED
      BY <1>1, <3>1, <3>2, DrainFalls, DrainNumbers
  <2> QED
    BY <2>1, <2>2
<1>7. CASE PumpCasQueued
  <2>0. pump.pc = "casQueued" /\ pump.run \in Runs /\ pump'.pending = pump.pending
    BY <1>0, <1>7 DEF PumpCasQueued, PumpInv, Pump
  <2>1. CASE Status(pump.run) = "queued"
    <3>1. pump'.pc = "claimed" /\ row' = [row EXCEPT ![pump.run].status = "running"]
      BY <1>0, <1>7, <2>1 DEF PumpCasQueued, Pump
    <3>2. Due' = Due /\ DrainStage = 2 /\ DrainStage' = 1
      BY <2>0, <2>1, <3>1 DEF Due, DrainStage
    <3>3. pump.run \in ToTake
      BY <2>0, <2>1 DEF ToTake, Claimable
    <3>4. ToTake' \subseteq ToTake /\ ToTake' # ToTake
      BY <1>2, <2>0, <3>1, <3>3
    <3> QED
      BY <3>2, <3>4, DrainFalls, DrainNumbers
  <2>2. CASE Status(pump.run) # "queued"
    <3>1. pump'.pc = "queued" /\ UNCHANGED row
      BY <1>0, <1>7, <2>2 DEF PumpCasQueued, Pump
    <3>2. Won = 0 /\ Won' = 0 /\ Due' = Due /\ DrainStage = 4 /\ DrainStage' = 3
      BY <2>0, <2>2, <3>1 DEF Won, Due, DrainStage
    <3> QED
      BY <1>1, <3>1, <3>2, DrainFalls, DrainNumbers
  <2> QED
    BY <2>1, <2>2
<1>8. CASE PumpBegin
  <2>1. pump.pc = "claimed" /\ pump'.pc # "claimed" /\ UNCHANGED row
    BY <1>0, <1>8 DEF PumpBegin, IdlePump, LoopHead
  <2>2. Won = 1 /\ Won' = 0
    BY <2>1 DEF Won
  <2> QED
    BY <1>1, <2>1, <2>2, DrainFalls
<1>9. CASE PumpThrow
  <2>1. /\ pump.pc \in {"interrupted", "casInterrupted", "queued", "casQueued"}
        /\ pump'.pc = "idle" /\ pump'.pending = pump.pending /\ UNCHANGED row
    BY <1>0, <1>9 DEF PumpThrow, IdlePump
  <2>2. Won = 0 /\ Won' = 0 /\ Due' = Due /\ DrainStage > 0 /\ DrainStage' = 0
    BY <2>1 DEF Won, Due, DrainStage
  <2> QED
    BY <1>1, <2>1, <2>2, DrainFalls, DrainNumbers
<1> QED
  BY <1>3, <1>4, <1>5, <1>6, <1>7, <1>8, <1>9 DEF PumpStep

\* Whoever takes a run from under the drain does not hold it up.
LEMMA DrainSpared ==
  ASSUME Slots, OrderInv, pump' \in Pump, Next, Up, UNCHANGED pump,
         \A r \in Runs : ~StartRun(r)
  PROVE  DrainRank' = DrainRank \/ DrainRank' \prec DrainRank
<1>0. pump \in Pump /\ PumpInv
  BY DEF Slots, TypeOK, Control
<1>1. ToTake' \subseteq ToTake /\ Won' = Won /\ Due' = Due
  BY NothingNewToTake DEF Won, Due
<1>2. Won \in {0, 1} /\ Won <= Won
  BY DEF Won
<1>3. ASSUME ToTake' # ToTake PROVE DrainRank' \prec DrainRank
  BY <1>1, <1>2, <1>3, DrainFalls
<1>4. ASSUME ToTake' = ToTake PROVE DrainRank' = DrainRank
  <2>1. ASSUME NEW q \in Runs
        PROVE  /\ Status(q) = "queued" <=> Status(q)' = "queued"
               /\ Waiting(q) <=> Waiting(q)'
    <3>1. (Status(q)' = "queued" => Status(q) = "queued") /\ (Waiting(q)' => Waiting(q))
      BY RunKept
    <3>2. Claimable(q) <=> Claimable(q)'
      BY <1>4 DEF ToTake
    <3>3. /\ Claimable(q) <=> Status(q) = "queued" \/ Waiting(q)
          /\ Claimable(q)' <=> Status(q)' = "queued" \/ Waiting(q)'
          /\ ~(Status(q) = "queued" /\ Waiting(q))
      BY DEF Claimable, Waiting, Status
    <3> QED
      BY <3>1, <3>2, <3>3
  <2>2. pump.pc \in {"casInterrupted", "casQueued"} =>
          /\ Status(pump.run) = "queued" <=> Status(pump.run)' = "queued"
          /\ Waiting(pump.run) <=> Waiting(pump.run)'
    BY <1>0, <2>1 DEF PumpInv
  <2>3. /\ pump'.pc = pump.pc /\ pump'.run = pump.run
        /\ pump.pc = "casInterrupted" => DrainStage' = DrainStage
        /\ pump.pc = "casQueued" => DrainStage' = DrainStage
    BY <2>2 DEF DrainStage, Waiting, Status
  <2>4. DrainStage' = DrainStage
    BY <1>0, <2>3 DEF DrainStage, Pump
  <2> QED
    BY <1>1, <1>4, <2>4 DEF DrainRank, Won, Due
<1> QED
  BY <1>3, <1>4

LEMMA DrainStep ==
  ASSUME Slots, OrderInv, Next
  PROVE  DrainNearer
<1>1. pump' \in Pump
  BY TypeStep DEF Slots, TypeOK
<1>2. DrainRank \in Ranks(3)
  BY DrainNumbers
<1>3. PumpStep \/ PumpThrow => DrainRank' \prec DrainRank
  BY <1>1, DrainDescends
<1>4. ASSUME Up, \A r \in Runs : ~StartRun(r), \A e \in Execs : ~ExecEnd(e),
             ~Crash, ~PumpStep, ~PumpThrow
      PROVE  DrainRank' = DrainRank \/ DrainRank' \prec DrainRank
  <2>1. ~Recovery
    BY <1>4 DEF Recovery, BootCancel, BootRetry, BootExhaust, BootCancelsDone,
                BootInterrupt, BootAnchor, BootDone, Up
  <2>2. UNCHANGED pump
    BY <1>4, <2>1, NoSlotReturned, EngineAssumption
    DEF Next, Throw, Slots, EngineAssumption
  <2> QED
    BY <1>1, <1>4, <2>2, DrainSpared
<1> QED
  BY <1>2, <1>3, <1>4 DEF DrainNearer

\* Recovery gets to the end of its work, or the process dies again: the safety
\* half of the boot part of RunSettles.  Nothing else acts before it is over,
\* its ranks have no endless descent, and each of its statements is a descent,
\* whatever rows the last process left (recover).
THEOREM RecoveryComesNearer ==
  /\ IsWellFoundedOn(OpToRel(\prec, Ranks(3)), Ranks(3))
  /\ Spec => [][BootNearer]_vars
<1>1. IsWellFoundedOn(OpToRel(\prec, Ranks(3)), Ranks(3))
  BY DescentEnds
<1>2. Slots /\ OrderInv /\ [Next]_vars => [BootNearer]_vars
  BY OthersServe, RecoveryDescends DEF BootNearer
<1>3. Spec => [][BootNearer]_vars
  BY <1>2, OrderInductiveInv, PTL DEF Spec
<1> QED
  BY <1>1, <1>3

\* The drain loop cannot go round for ever on races it loses: each of its steps
\* is a descent, a lost race and a throw included, no step of a request, an
\* execution or a cancel undoes one, and only a new run, the end of an execution
\* or a crash gives it more to do.  This is the safety half of QueuedIsTaken
\* (drain, claimNextInterrupted, claimNextQueued).
THEOREM DrainsComeNearer ==
  /\ IsWellFoundedOn(OpToRel(\prec, Ranks(3)), Ranks(3))
  /\ Spec => [][DrainNearer]_vars
<1>1. IsWellFoundedOn(OpToRel(\prec, Ranks(3)), Ranks(3))
  BY DescentEnds
<1>2. Slots /\ OrderInv /\ [Next]_vars => [DrainNearer]_vars
  BY DrainStep
<1>3. Spec => [][DrainNearer]_vars
  BY <1>2, OrderInductiveInv, PTL DEF Spec
<1> QED
  BY <1>1, <1>3
=============================================================================
