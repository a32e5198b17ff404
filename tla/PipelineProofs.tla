--------------------------- MODULE PipelineProofs --------------------------
(***************************************************************************)
(* Theorems about Pipeline, for every set of runs and choices, every limit *)
(* of corrections and retries and any number of crashes and faults.        *)
(*                                                                         *)
(* What a graph may do is decided node by node, so the invariant says what *)
(* each node may rely on: Sound for the state of a graph by itself, Placed *)
(* for what it has to do with the execution and the run it belongs to, and *)
(* Warned for what it may still do once its signal is raised.  A signal is *)
(* only good while nobody else begins under the same controller: CtlInv.   *)
(*                                                                         *)
(* What a run may be corrected and what it holds in the end depend on its  *)
(* graph being alone with it, which RunEngineHolderProofs derives from one *)
(* rule about users: no two requests store a choice for one run at once.   *)
(* Under it BudgetInv and CountingInv follow a correction from the graph's *)
(* state to the row, and ChoiceInv follows the chosen ideas into the items.*)
(*                                                                         *)
(* The last part ranks an execution by what its graph has left to do, and  *)
(* shows that every step of its own is a descent.                          *)
(***************************************************************************)
EXTENDS Pipeline, RunEngineHolderProofs

-----------------------------------------------------------------------------
(* The inductive invariant *)

Nodes == Agents \cup {"none", "clear", "context", "count", "persist", "keep",
                      "fail", "end"}

\* A graph calls from its agents only, persists a text accepted as it is, and
\* has numbered the prompts that were refused.
Sound(f) ==
  /\ f.calling => f.node \in Agents
  /\ f.node = "persist" => f.verdict = "ok" /\ f.fresh
  /\ f.bad \subseteq 0..(f.attempt - 1)
  /\ f.attempt = 1 => f.bad = {}

FlowInv == \A e \in Execs : Sound(flow[e])

\* A graph is in the phase its execution asked for, at an idea of the choice,
\* and has stored the draft before it ends with one.
Placed(e) ==
  /\ exec[e].pc = "prepare" => flow[e].node = "none"
  /\ exec[e].pc \in {"prepare", "work"} =>
       /\ flow[e].phase = PhaseOf(e)
       /\ Of(e) \in TwoStage => flow[e].pos \in 1..Len(Selection[Of(e)])
  /\ AtWork(e) /\ flow[e].node \in {"keep", "end"} /\ NeedsChoice(e) =>
       row[Of(e)].draft

PlaceInv == \A e \in Execs : Placed(e)

VerifiedItem == {x \in Item : x.verified}

StoredInv ==
  \A r \in Runs : /\ result[r].ideas \in Seq(VerifiedItem)
                  /\ result[r].items \in Seq(VerifiedItem)

\* The execution may still begin in the life of this process.
Unbegun(e) ==
  \/ e \in Runs /\ (~TakenUp(e) \/ (pump.pc = "claimed" /\ pump.run = e))
  \/ e \in Resumers /\ hitl[e].pc # "done"

\* It has left no trace: Begin may hand out its controller as a new one.
CtlInv ==
  /\ \A e \in Execs : Unbegun(e) =>
       /\ late[e] = 0
       /\ \A d \in Execs : exec[d].ctl # e
       /\ \A r \in Runs : registry[r] # e
  /\ ~Up => /\ \A e \in Execs : exec[e] = NoExec /\ late[e] = 0
            /\ \A r \in Runs : registry[r] = None

\* After its one late result an execution looks at the signal before it calls.
Warned(e) ==
  /\ late[e] <= 1
  /\ exec[e].pc \in {"load", "prepare"} => late[e] = 0
  /\ AtWork(e) /\ late[e] # 0 =>
       IsAborted(e) /\ ~flow[e].calling /\ flow[e].node # "persist"

LateInv == \A e \in Execs : Warned(e)

Engine == Slots /\ Caps /\ Pool /\ OrderInv

-----------------------------------------------------------------------------
(* The state of a graph *)

LEMMA StepSound ==
  ASSUME flow \in [Execs -> Flow], FlowInv, NEW e \in Execs, NEW f \in Flow,
         Sound(f), Step(e, f)
  PROVE  flow' \in [Execs -> Flow] /\ FlowInv'
BY DEF Step, FlowInv

LEMMA NoFlowSound == NoFlow \in Flow /\ Sound(NoFlow)
<1>1. MaxGatewayAttempts \in Nat \ {0}
  BY PipelineAssumption DEF PipelineAssumption
<1>2. ZeroCounts \in [Phases -> Nat]
  BY DEF ZeroCounts
<1> QED
  BY <1>1, <1>2 DEF NoFlow, Flow, Sound, Phases, Agents

LEMMA AtNodeSound ==
  ASSUME NEW f \in Flow, NEW node \in Nodes,
         node = "persist" => f.verdict = "ok" /\ f.fresh
  PROVE  /\ AtNode(f, node) \in Flow /\ Sound(AtNode(f, node))
         /\ AtNode(f, node).phase = f.phase /\ AtNode(f, node).pos = f.pos
         /\ AtNode(f, node).node = node
<1>1. MaxGatewayAttempts \in Nat \ {0}
  BY PipelineAssumption DEF PipelineAssumption
<1> DEFINE g == [f EXCEPT !.node = node, !.attempt = 1, !.calling = FALSE, !.bad = {}]
<1>2. /\ g.node = node /\ g.attempt = 1 /\ g.calling = FALSE /\ g.bad = {}
      /\ g.phase = f.phase /\ g.pos = f.pos
      /\ g.verdict = f.verdict /\ g.fresh = f.fresh
  BY DEF Flow
<1>3. g \in Flow
  <2>1. 1 \in 1..MaxGatewayAttempts
    BY <1>1
  <2>2. {} \in SUBSET (0..MaxGatewayAttempts)
    OBVIOUS
  <2> QED
    BY <2>1, <2>2 DEF Flow, Nodes
<1>4. Sound(g)
  BY <1>2 DEF Sound
<1>5. AtNode(f, node) = g
  BY DEF AtNode
<1> HIDE DEF g
<1> QED
  BY <1>2, <1>3, <1>4, <1>5

LEMMA Route ==
  ASSUME NEW v \in {"ok", "rejected"}, NEW n \in Nat
  PROVE  /\ RouteAfterConsistencyVerifier(v, n) \in {"persist", "refine", "fail"}
         /\ RouteAfterConsistencyVerifier(v, n) = "persist" => v = "ok"
BY DEF RouteAfterConsistencyVerifier

LEMMA FlowFields ==
  ASSUME NEW f \in Flow
  PROVE  /\ \A v \in {"none", "ok", "rejected"}, b \in BOOLEAN :
              [f EXCEPT !.verdict = v, !.fresh = b] \in Flow
         /\ \A b \in BOOLEAN : [f EXCEPT !.count = @ + 1, !.fresh = b] \in Flow
         /\ \A n \in Nat :
              [f EXCEPT !.count = n, !.verdict = "none", !.fresh = FALSE] \in Flow
<1>1. \A v \in {"none", "ok", "rejected"}, b \in BOOLEAN :
        [f EXCEPT !.verdict = v, !.fresh = b] \in Flow
  BY DEF Flow
<1>2. ASSUME NEW b \in BOOLEAN
      PROVE  [f EXCEPT !.count = @ + 1, !.fresh = b] \in Flow
  <2>1. f.count + 1 \in Nat
    BY DEF Flow
  <2>2. [f EXCEPT !.count = @ + 1, !.fresh = b]
          = [f EXCEPT !.count = f.count + 1, !.fresh = b]
    BY DEF Flow
  <2> QED
    BY <2>1, <2>2 DEF Flow
<1>3. \A n \in Nat :
        [f EXCEPT !.count = n, !.verdict = "none", !.fresh = FALSE] \in Flow
  BY DEF Flow
<1> QED
  BY <1>1, <1>2, <1>3

LEMMA FlowStep ==
  ASSUME Engine, PipelineTypeOK, FlowInv, PlaceInv, PipelineNext
  PROVE  flow' \in [Execs -> Flow] /\ FlowInv'
<1> DEFINE Goal == flow' \in [Execs -> Flow] /\ FlowInv'
<1>0. /\ flow \in [Execs -> Flow] /\ result \in [Runs -> Result]
      /\ \A e \in Execs : flow[e] \in Flow /\ Sound(flow[e])
  BY DEF PipelineTypeOK, FlowInv
<1>a. ASSUME UNCHANGED flow PROVE Goal
  BY <1>0, <1>a DEF FlowInv
<1>b. ASSUME NEW e \in Execs, Leaving(e) PROVE Goal
  BY <1>0, <1>b, NoFlowSound, StepSound DEF Leaving
<1>c. ASSUME NEW e \in Execs, NEW f \in Flow, NEW node \in Nodes,
             node = "persist" => f.verdict = "ok" /\ f.fresh,
             Step(e, AtNode(f, node))
      PROVE  Goal
  BY <1>0, <1>c, AtNodeSound, StepSound
<1>1. ASSUME NEW e \in Execs, Load(e) PROVE Goal
  <2> DEFINE f == [NoFlow EXCEPT !.phase = PhaseOf(e), !.base = result[Of(e)].counts]
  <2>1. Of(e) \in Runs
    BY <1>1 DEF Load, ExecLoad, Engine, Slots, Control, ExecInv, Live, Of
  <2>2. result[Of(e)] \in Result
    BY <1>0, <2>1
  <2>3. f \in Flow /\ Sound(f)
    BY <2>2, NoFlowSound DEF Flow, Result, Sound, PhaseOf, Phases, NoFlow
  <2>4. Step(e, f) \/ Step(e, NoFlow)
    BY <1>1 DEF Load
  <2> HIDE DEF f
  <2> QED
    BY <1>0, <2>3, <2>4, NoFlowSound, StepSound
<1>2. ASSUME NEW e \in Execs, Prepare(e) PROVE Goal
  <2>1. PICK n \in {"clear", "context"} :
          Step(e, NoFlow) \/ Step(e, [flow[e] EXCEPT !.node = n])
    BY <1>2 DEF Prepare
  <2>2. ~flow[e].calling
    BY <1>0, <1>2 DEF Prepare, ExecPrepare, PlaceInv, Placed, Sound, Agents
  <2>3. [flow[e] EXCEPT !.node = n] \in Flow /\ Sound([flow[e] EXCEPT !.node = n])
    BY <1>0, <2>2 DEF Flow, Sound
  <2> QED
    BY <1>0, <2>1, <2>3, NoFlowSound, StepSound
<1>3. ASSUME NEW e \in Execs, Clear(e) PROVE Goal
  <2> DEFINE f == [flow[e] EXCEPT !.node = "context"]
  <2>0. flow[e] \in Flow /\ Sound(flow[e]) /\ flow[e].node = "clear" /\ Step(e, f)
    BY <1>0, <1>3 DEF Clear
  <2>1. f \in Flow /\ Sound(f) /\ Step(e, f)
    BY <2>0 DEF Flow, Sound, Agents
  <2> HIDE DEF f
  <2> QED
    BY <1>0, <2>1, StepSound
<1>4. ASSUME NEW e \in Execs, LoadContext(e) PROVE Goal
  <2> DEFINE f == [flow[e] EXCEPT !.count = flow[e].base[flow[e].phase],
                                  !.verdict = "none", !.fresh = FALSE]
  <2>1. flow[e].base[flow[e].phase] \in Nat
    BY <1>0 DEF Flow
  <2>2. f \in Flow
    BY <1>0, <2>1, FlowFields
  <2>3. Step(e, AtNode(f, "write"))
    BY <1>4 DEF LoadContext
  <2> HIDE DEF f
  <2> QED
    BY <2>2, <2>3, <1>c DEF Nodes, Agents
<1>5. ASSUME NEW e \in Execs, HopCall(e) PROVE Goal
  <2> DEFINE f == [flow[e] EXCEPT !.calling = TRUE]
  <2>1. f \in Flow /\ Sound(f) /\ Step(e, f)
    BY <1>0, <1>5 DEF HopCall, Flow, Sound
  <2> HIDE DEF f
  <2> QED
    BY <1>0, <2>1, StepSound
<1>6. ASSUME NEW e \in Execs, HopRetry(e) PROVE Goal
  <2>1. PICK reason \in HopRetryable :
          Step(e, [flow[e] EXCEPT !.attempt = @ + 1, !.calling = FALSE,
                                  !.bad = @ \cup Refused(flow[e], reason)])
    BY <1>6 DEF HopRetry
  <2> DEFINE n == flow[e].attempt
             f == [flow[e] EXCEPT !.attempt = @ + 1, !.calling = FALSE,
                                  !.bad = @ \cup Refused(flow[e], reason)]
  <2>2. /\ MaxGatewayAttempts \in Nat \ {0}
        /\ n \in 1..MaxGatewayAttempts /\ n < MaxGatewayAttempts
    BY <1>0, <1>6, PipelineAssumption DEF PipelineAssumption, HopRetry, Flow
  <2>3. Refused(flow[e], reason) \subseteq 0..n
    BY <2>2 DEF Refused, HopUserContent
  <2>4. flow[e].bad \subseteq 0..(n - 1)
    BY <1>0 DEF Sound
  <2>5. flow[e].bad \cup Refused(flow[e], reason) \subseteq 0..n
    BY <2>2, <2>3, <2>4
  <2>6. flow[e].bad \cup Refused(flow[e], reason) \subseteq 0..MaxGatewayAttempts
    BY <2>2, <2>5
  <2>7. f \in Flow
    <3> DEFINE bad == flow[e].bad \cup Refused(flow[e], reason)
    <3>1. n + 1 \in 1..MaxGatewayAttempts
      BY <2>2
    <3>2. bad \in SUBSET (0..MaxGatewayAttempts)
      BY <2>6
    <3>3. flow[e] \in Flow
      BY <1>0
    <3>4. f = [flow[e] EXCEPT !.attempt = n + 1, !.calling = FALSE, !.bad = bad]
      BY <3>3 DEF Flow
    <3> HIDE DEF bad, f, n
    <3> QED
      BY <3>1, <3>2, <3>3, <3>4 DEF Flow
  <2>8. /\ f.attempt = n + 1 /\ f.calling = FALSE /\ f.node = flow[e].node
        /\ f.verdict = flow[e].verdict /\ f.fresh = flow[e].fresh
        /\ f.bad = flow[e].bad \cup Refused(flow[e], reason)
    BY <1>0 DEF Flow
  <2>9. Sound(f)
    BY <1>0, <2>2, <2>5, <2>8 DEF Sound
  <2> HIDE DEF f
  <2> QED
    BY <1>0, <2>1, <2>7, <2>9, StepSound DEF f
<1>7. ASSUME NEW e \in Execs, Written(e) PROVE Goal
  BY <1>0, <1>7, <1>c DEF Written, Nodes, Agents
<1>8. ASSUME NEW e \in Execs, Verified(e) PROVE Goal
  <2>1. PICK v \in {"ok", "rejected"} :
          Step(e, AtNode([flow[e] EXCEPT !.verdict = v, !.fresh = TRUE],
                         RouteAfterConsistencyVerifier(v, flow[e].count)))
    BY <1>8 DEF Verified
  <2> DEFINE f == [flow[e] EXCEPT !.verdict = v, !.fresh = TRUE]
             node == RouteAfterConsistencyVerifier(v, flow[e].count)
  <2>2. flow[e].count \in Nat
    BY <1>0 DEF Flow
  <2>3. node \in {"persist", "refine", "fail"} /\ (node = "persist" => v = "ok")
    BY <2>2, Route
  <2>4. f \in Flow
    BY <1>0, FlowFields
  <2>5. f.verdict = v /\ f.fresh
    BY <1>0 DEF Flow
  <2>6. Step(e, AtNode(f, node))
    BY <2>1
  <2> HIDE DEF f, node
  <2>7. node \in Nodes
    BY <2>3 DEF Nodes, Agents
  <2> QED
    BY <2>3, <2>4, <2>5, <2>6, <2>7, <1>c
<1>9. ASSUME NEW e \in Execs, Refined(e) PROVE Goal
  <2> DEFINE f == [flow[e] EXCEPT !.count = @ + 1, !.fresh = FALSE]
  <2>1. PICK node \in {"count", "verify"} : Step(e, AtNode(f, node))
    BY <1>9 DEF Refined
  <2>2. f \in Flow
    BY <1>0, FlowFields
  <2> HIDE DEF f
  <2> QED
    BY <2>1, <2>2, <1>c DEF Nodes, Agents
<1>10. ASSUME NEW e \in Execs, Count(e) PROVE Goal
  BY <1>0, <1>10, <1>c DEF Count, Nodes, Agents
<1>11. ASSUME NEW e \in Execs, Persisted(e) PROVE Goal
  <2>1. PICK node \in {"keep", "end"} : Step(e, AtNode(flow[e], node))
    BY <1>11 DEF Persisted
  <2> QED
    BY <1>0, <2>1, <1>c DEF Nodes, Agents
<1>12. ASSUME NEW e \in Execs, Keep(e) PROVE Goal
  <2> DEFINE f == [flow[e] EXCEPT !.node = "end"]
  <2>1. f \in Flow /\ Sound(f) /\ Step(e, f)
    BY <1>0, <1>12 DEF Keep, Flow, Sound, Agents
  <2> HIDE DEF f
  <2> QED
    BY <1>0, <2>1, StepSound
<1>13. ASSUME NEW e \in Execs, NextIdea(e) PROVE Goal
  <2> DEFINE f == [flow[e] EXCEPT !.node = "context", !.pos = @ + 1]
  <2>1. Step(e, f) /\ flow[e].node = "end"
    BY <1>13 DEF NextIdea
  <2>2. f \in Flow
    <3>1. flow[e].pos + 1 \in Nat
      BY <1>0 DEF Flow
    <3> QED
      BY <1>0, <3>1 DEF Flow
  <2>3. Sound(f)
    BY <1>0, <2>1 DEF Sound, Agents, Flow
  <2> HIDE DEF f
  <2> QED
    BY <1>0, <2>1, <2>2, <2>3, StepSound
<1>14. ASSUME NEW e \in Execs,
              HopAbort(e) \/ Outcome(e) \/ FailRun(e) \/ Break(e) \/ ExecutorThrow(e)
       PROVE  Goal
  BY <1>b, <1>14 DEF HopAbort, Outcome, FailRun, Break, ExecutorThrow
<1>15. ASSUME PipelineCrash PROVE Goal
  BY <1>15, NoFlowSound DEF PipelineCrash, FlowInv
<1>16. ASSUME Surroundings \/ UNCHANGED pipelineVars PROVE Goal
  BY <1>a, <1>16 DEF Surroundings, pipelineVars
<1> HIDE DEF Goal
<1>17. Goal
  BY <1>1, <1>2, <1>3, <1>4, <1>5, <1>6, <1>7, <1>8, <1>9, <1>10, <1>11, <1>12,
     <1>13, <1>14, <1>15, <1>16
  DEF PipelineNext, ExecutorStep, GraphStep, PersistDraft, PersistItem, PersistOnly
<1> QED
  BY <1>17 DEF Goal

-----------------------------------------------------------------------------
(* The result tables *)

LEMMA TextType ==
  ASSUME flow \in [Execs -> Flow], NEW e \in Execs, NEW idea \in Ideas \cup {None}
  PROVE  /\ Text(e, idea) \in Item
         /\ FlowInv /\ flow[e].node = "persist" => Text(e, idea) \in VerifiedItem
BY DEF Text, Item, VerifiedItem, FlowInv, Sound

LEMMA ResultFields ==
  ASSUME NEW x \in Result
  PROVE  /\ \A c \in [Phases -> Nat] : [x EXCEPT !.counts = c] \in Result
         /\ \A s \in Seq(Item) : [x EXCEPT !.ideas = s] \in Result
         /\ \A s \in Seq(Item) : [x EXCEPT !.items = s] \in Result
BY DEF Result

\* A row of the tables may be overwritten in one of its parts.
LEMMA ResultUpdate ==
  ASSUME result \in [Runs -> Result], StoredInv, NEW r \in Runs,
         \/ \E c \in [Phases -> Nat] : result' = [result EXCEPT ![r].counts = c]
         \/ \E s \in Seq(VerifiedItem) : result' = [result EXCEPT ![r].ideas = s]
         \/ \E s \in Seq(VerifiedItem) : result' = [result EXCEPT ![r].items = s]
  PROVE  result' \in [Runs -> Result] /\ StoredInv'
<1>1. result[r] \in Result
  OBVIOUS
<1>2. Seq(VerifiedItem) \subseteq Seq(Item)
  BY DEF VerifiedItem
<1>3. ASSUME NEW c \in [Phases -> Nat], result' = [result EXCEPT ![r].counts = c]
      PROVE  result' \in [Runs -> Result] /\ StoredInv'
  <2>1. [result[r] EXCEPT !.counts = c] \in Result
    BY <1>1, ResultFields
  <2>2. /\ result'[r].ideas = result[r].ideas /\ result'[r].items = result[r].items
        /\ \A q \in Runs \ {r} : result'[q] = result[q]
    BY <1>1, <1>3 DEF Result
  <2> QED
    BY <1>3, <2>1, <2>2 DEF StoredInv
<1>4. ASSUME NEW s \in Seq(VerifiedItem), result' = [result EXCEPT ![r].ideas = s]
      PROVE  result' \in [Runs -> Result] /\ StoredInv'
  <2>1. [result[r] EXCEPT !.ideas = s] \in Result
    BY <1>1, <1>2, ResultFields
  <2>2. /\ result'[r].ideas = s /\ result'[r].items = result[r].items
        /\ \A q \in Runs \ {r} : result'[q] = result[q]
    BY <1>1, <1>4 DEF Result
  <2> QED
    BY <1>4, <2>1, <2>2 DEF StoredInv
<1>5. ASSUME NEW s \in Seq(VerifiedItem), result' = [result EXCEPT ![r].items = s]
      PROVE  result' \in [Runs -> Result] /\ StoredInv'
  <2>1. [result[r] EXCEPT !.items = s] \in Result
    BY <1>1, <1>2, ResultFields
  <2>2. /\ result'[r].items = s /\ result'[r].ideas = result[r].ideas
        /\ \A q \in Runs \ {r} : result'[q] = result[q]
    BY <1>1, <1>5 DEF Result
  <2> QED
    BY <1>5, <2>1, <2>2 DEF StoredInv
<1> QED
  BY <1>3, <1>4, <1>5

LEMMA CountsSaved ==
  ASSUME flow \in [Execs -> Flow], result \in [Runs -> Result],
         NEW e \in Execs, Of(e) \in Runs
  PROVE  SavedCount(e) \in [Phases -> Nat] /\ flow[e].base \in [Phases -> Nat]
<1>1. flow[e] \in Flow /\ result[Of(e)] \in Result
  OBVIOUS
<1>2. /\ flow[e].base \in [Phases -> Nat] /\ flow[e].count \in Nat
      /\ result[Of(e)].counts \in [Phases -> Nat]
  BY <1>1 DEF Flow, Result
<1> QED
  BY <1>2 DEF SavedCount

LEMMA ResultStep ==
  ASSUME Engine, PipelineTypeOK, FlowInv, PlaceInv, StoredInv, PipelineNext
  PROVE  result' \in [Runs -> Result] /\ StoredInv'
<1> DEFINE Goal == result' \in [Runs -> Result] /\ StoredInv'
<1>0. flow \in [Execs -> Flow] /\ result \in [Runs -> Result]
  BY DEF PipelineTypeOK
<1>a. ASSUME UNCHANGED result PROVE Goal
  BY <1>0, <1>a DEF StoredInv
<1>b. ASSUME NEW e \in Execs, exec[e].pc \in {"prepare", "work"}
      PROVE  /\ Of(e) \in Runs /\ result[Of(e)] \in Result
             /\ flow[e].base \in [Phases -> Nat] /\ SavedCount(e) \in [Phases -> Nat]
  <2>1. Of(e) \in Runs
    BY <1>b DEF Engine, Slots, Control, ExecInv, Live, Of
  <2> QED
    BY <1>0, <2>1, CountsSaved
<1>1. ASSUME NEW e \in Execs, Prepare(e) PROVE Goal
  BY <1>0, <1>1, <1>b, ResultUpdate DEF Prepare, ExecPrepare
<1>2. ASSUME NEW e \in Execs, Clear(e) PROVE Goal
  <2>1. <<>> \in Seq(VerifiedItem)
    OBVIOUS
  <2> QED
    BY <1>0, <1>2, <1>b, <2>1, ResultUpdate DEF Clear, AtWork
<1>3. ASSUME NEW e \in Execs, Count(e) \/ Keep(e) PROVE Goal
  BY <1>0, <1>3, <1>b, ResultUpdate DEF Count, Keep, AtWork
<1>4. ASSUME NEW e \in Execs, FailRun(e) PROVE Goal
  BY <1>0, <1>4, <1>a, <1>b, ResultUpdate DEF FailRun, AtWork
<1>5. ASSUME NEW e \in Execs, PersistDraft(e) \/ PersistOnly(e) PROVE Goal
  <2>1. <<Text(e, None)>> \in Seq(VerifiedItem)
    BY <1>0, <1>5, TextType DEF PersistDraft, PersistOnly
  <2>2. Of(e) \in Runs
    BY <1>5, <1>b DEF PersistDraft, PersistOnly, AtWork
  <2> QED
    BY <1>0, <1>5, <2>1, <2>2, ResultUpdate DEF PersistDraft, PersistOnly
<1>6. ASSUME NEW e \in Execs, PersistItem(e) PROVE Goal
  <2>1. Of(e) \in Runs /\ Of(e) \in TwoStage
    BY <1>6, <1>b DEF PersistItem, AtWork, PerIdea
  <2>2. flow[e].pos \in 1..Len(Selection[Of(e)])
    BY <1>6, <2>1 DEF PersistItem, PlaceInv, Placed, AtWork
  <2>3. Selection[Of(e)] \in Seq(Ideas)
    BY <2>1, PipelineAssumption DEF PipelineAssumption
  <2> DEFINE x == Text(e, Selection[Of(e)][flow[e].pos])
  <2>4. x \in VerifiedItem
    BY <1>0, <1>6, <2>2, <2>3, TextType DEF PersistItem
  <2>5. result[Of(e)].items \in Seq(VerifiedItem)
    BY <2>1 DEF StoredInv
  <2>6. result' = [result EXCEPT ![Of(e)].items = Append(@, x)]
    BY <1>6 DEF PersistItem
  <2> HIDE DEF x
  <2>7. Append(result[Of(e)].items, x) \in Seq(VerifiedItem)
    BY <2>4, <2>5
  <2>8. result' = [result EXCEPT ![Of(e)].items = Append(result[Of(e)].items, x)]
    BY <1>0, <2>1, <2>6
  <2> QED
    BY <1>0, <2>1, <2>7, <2>8, ResultUpdate
<1>7. ASSUME NEW e \in Execs,
             \/ Load(e) \/ LoadContext(e) \/ HopCall(e) \/ HopAbort(e) \/ HopRetry(e)
             \/ Written(e) \/ Verified(e) \/ Refined(e) \/ NextIdea(e) \/ Outcome(e)
             \/ Break(e) \/ ExecutorThrow(e)
      PROVE  Goal
  BY <1>a, <1>7 DEF Load, LoadContext, HopCall, HopAbort, HopRetry, Written, Verified,
                    Refined, NextIdea, Outcome, Break, ExecutorThrow
<1>8. ASSUME PipelineCrash \/ Surroundings \/ UNCHANGED pipelineVars PROVE Goal
  BY <1>a, <1>8 DEF PipelineCrash, Surroundings, pipelineVars
<1> HIDE DEF Goal
<1>9. Goal
  BY <1>1, <1>2, <1>3, <1>4, <1>5, <1>6, <1>7, <1>8
  DEF PipelineNext, ExecutorStep, GraphStep
<1> QED
  BY <1>9 DEF Goal

LEMMA PipelineTypeStep ==
  ASSUME Engine, PipelineTypeOK, FlowInv, PlaceInv, StoredInv, PipelineNext
  PROVE  PipelineTypeOK'
<1>0. /\ refined \in [ContentRuns -> [Phases -> Nat]] /\ late \in [Execs -> Nat]
      /\ \A e \in Execs : flow[e] \in Flow
  BY DEF PipelineTypeOK
<1>1. refined' \in [ContentRuns -> [Phases -> Nat]]
  <2>1. ASSUME NEW e \in Execs, CountRefined(e)
        PROVE  refined' \in [ContentRuns -> [Phases -> Nat]]
    <3>1. CASE IsContent(e)
      <4> DEFINE r == Of(e)
                 p == flow[e].phase
      <4>1. r \in ContentRuns /\ refined[r] \in [Phases -> Nat] /\ p \in Phases
        BY <1>0, <3>1 DEF IsContent, Flow
      <4>2. [refined[r] EXCEPT ![p] = refined[r][p] + 1] \in [Phases -> Nat]
        BY <4>1
      <4>3. refined' = [refined EXCEPT ![r] = [refined[r] EXCEPT ![p] = refined[r][p] + 1]]
        BY <1>0, <2>1, <3>1, <4>1 DEF CountRefined
      <4> HIDE DEF r, p
      <4> QED
        BY <1>0, <4>2, <4>3
    <3> QED
      BY <1>0, <2>1, <3>1 DEF CountRefined
  <2> QED
    BY <1>0, <2>1
    DEF PipelineNext, Surroundings, ExecutorStep, ExecutorThrow, PipelineCrash,
        GraphStep, Load, Prepare, Clear, LoadContext, HopCall, HopAbort, HopRetry,
        Written, Verified, Refined, Count, PersistDraft, PersistItem, PersistOnly,
        Persisted, Keep, NextIdea, Outcome, FailRun, Break, pipelineVars
<1>2. late' \in [Execs -> Nat]
  <2>1. ASSUME NEW e \in Execs, Persisted(e) PROVE late' \in [Execs -> Nat]
    <3> DEFINE n == IF IsAborted(e) THEN late[e] + 1 ELSE late[e]
    <3>1. n \in Nat /\ late' = [late EXCEPT ![e] = n]
      BY <1>0, <2>1 DEF Persisted
    <3> HIDE DEF n
    <3> QED
      BY <1>0, <3>1
  <2>2. ASSUME NEW e \in Execs, PersistDraft(e) \/ PersistItem(e) \/ PersistOnly(e)
        PROVE  late' \in [Execs -> Nat]
    BY <2>1, <2>2 DEF PersistDraft, PersistItem, PersistOnly
  <2>3. ASSUME PipelineCrash PROVE late' \in [Execs -> Nat]
    BY <2>3 DEF PipelineCrash
  <2>4. ASSUME NEW e \in Execs,
               \/ Load(e) \/ Prepare(e) \/ Clear(e) \/ LoadContext(e) \/ HopCall(e)
               \/ HopAbort(e) \/ HopRetry(e) \/ Written(e) \/ Verified(e) \/ Refined(e)
               \/ Count(e) \/ Keep(e) \/ NextIdea(e) \/ Outcome(e) \/ FailRun(e)
               \/ Break(e) \/ ExecutorThrow(e)
        PROVE  UNCHANGED late
    BY <2>4 DEF Load, Prepare, Clear, LoadContext, HopCall, HopAbort, HopRetry,
       Written, Verified, Refined, Count, Keep, NextIdea, Outcome, FailRun, Break,
       ExecutorThrow
  <2>5. ASSUME Surroundings \/ UNCHANGED pipelineVars PROVE UNCHANGED late
    BY <2>5 DEF Surroundings, pipelineVars
  <2> QED
    BY <1>0, <2>2, <2>3, <2>4, <2>5 DEF PipelineNext, ExecutorStep, GraphStep
<1> QED
  BY <1>1, <1>2, FlowStep, ResultStep DEF PipelineTypeOK

-----------------------------------------------------------------------------
(* The graph does to the run what RunEngine says *)

\* The actions of an executor are those of RunEngine, or invisible there.
LEMMA EngineStep ==
  ASSUME Engine, PipelineTypeOK, FlowInv, PlaceInv, PipelineNext
  PROVE  Next \/ UNCHANGED vars
<1>0. /\ row \in [Runs -> Row]
      /\ \A e \in Execs : AtWork(e) => Of(e) \in Runs
  BY DEF Engine, Slots, TypeOK, Control, ExecInv, Live, AtWork, Of
<1> DEFINE Goal == Next \/ UNCHANGED vars
<1>a. ASSUME NEW e \in Execs, ExecStep(e) PROVE Goal
  BY <1>a DEF Next
<1>1. ASSUME Surroundings PROVE Goal
  BY <1>1 DEF Surroundings, Next, Throw
<1>2. ASSUME PipelineCrash PROVE Goal
  BY <1>2 DEF PipelineCrash, Next
<1>3. ASSUME NEW e \in Execs, ExecutorThrow(e) PROVE Goal
  BY <1>3 DEF ExecutorThrow, Next, Throw
<1>4. ASSUME NEW e \in Execs, Load(e) \/ Prepare(e) PROVE Goal
  BY <1>4, <1>a DEF Load, Prepare, ExecStep
<1>5. ASSUME NEW e \in Execs,
             \/ Clear(e) \/ LoadContext(e) \/ HopCall(e) \/ HopRetry(e) \/ Written(e)
             \/ Verified(e) \/ Refined(e) \/ Count(e) \/ Keep(e) \/ NextIdea(e)
      PROVE  UNCHANGED vars
  BY <1>5 DEF Clear, LoadContext, HopCall, HopRetry, Written, Verified, Refined,
              Count, Keep, NextIdea
<1>6. ASSUME NEW e \in Execs, PersistItem(e) \/ PersistOnly(e) PROVE UNCHANGED vars
  BY <1>6 DEF PersistItem, PersistOnly, Persisted, engineOthers, vars, handlers
<1>7. ASSUME NEW e \in Execs, PersistDraft(e) PROVE Goal
  <2>1. AtWork(e) /\ UNCHANGED <<exec, engineOthers>>
    BY <1>7 DEF PersistDraft, Persisted
  <2>2. CASE NeedsChoice(e) /\ ~row[Of(e)].draft
    <3>1. row' = [row EXCEPT ![exec[e].run].draft = TRUE]
      BY <1>7, <2>2 DEF PersistDraft, Of
    <3>2. ExecPersistDraft(e)
      BY <2>1, <2>2, <3>1
      DEF ExecPersistDraft, AtWork, Of, engineOthers, memory, handlers
    <3> QED
      BY <3>2, <1>a DEF ExecStep
  <2>3. CASE ~(NeedsChoice(e) /\ ~row[Of(e)].draft)
    <3>1. row' = row
      <4>1. CASE ~NeedsChoice(e)
        BY <1>7, <4>1 DEF PersistDraft
      <4>2. CASE NeedsChoice(e) /\ row[Of(e)].draft
        <5>1. Of(e) \in Runs /\ row[Of(e)] \in Row /\ row[Of(e)].draft = TRUE
          BY <1>0, <2>1, <4>2 DEF Row
        <5>2. row' = [row EXCEPT ![Of(e)].draft = TRUE]
          BY <1>7, <4>2 DEF PersistDraft
        <5> QED
          BY <1>0, <5>1, <5>2 DEF Row
      <4> QED
        BY <2>3, <4>1, <4>2
    <3> QED
      BY <2>1, <3>1 DEF engineOthers, vars, handlers
  <2> QED
    BY <2>2, <2>3
<1>8. ASSUME NEW e \in Execs, HopAbort(e) PROVE Goal
  <2>1. ExecAbort(e)
    BY <1>8 DEF HopAbort, ExecAbort, AtWork, engineOthers
  <2> QED
    BY <2>1, <1>a DEF ExecStep
<1>9. ASSUME NEW e \in Execs, Outcome(e) PROVE Goal
  <2>1. NeedsChoice(e) => row[exec[e].run].draft
    BY <1>9 DEF Outcome, PlaceInv, Placed, Of
  <2>2. ExecOutcome(e)
    BY <1>9, <2>1 DEF Outcome, ExecOutcome, AtWork, engineOthers
  <2> QED
    BY <2>2, <1>a DEF ExecStep
<1>10. ASSUME NEW e \in Execs, FailRun(e) PROVE Goal
  <2>1. ExecFail(e)
    BY <1>10 DEF FailRun, ExecFail, AtWork, engineOthers
  <2> QED
    BY <2>1, <1>a DEF ExecStep
<1>11. ASSUME NEW e \in Execs, Break(e) PROVE Goal
  <2>1. ExecAbort(e) \/ ExecFail(e)
    BY <1>11 DEF Break, ExecAbort, ExecFail, AtWork, engineOthers
  <2> QED
    BY <2>1, <1>a DEF ExecStep
<1>12. ASSUME NEW e \in Execs,
              ExecSave(e) \/ ExecAnchor(e) \/ ExecRescue(e) \/ ExecEnd(e)
       PROVE  Goal
  BY <1>12, <1>a DEF ExecStep
<1> HIDE DEF Goal
<1>13. ASSUME UNCHANGED vars PROVE Goal
  BY <1>13 DEF Goal
<1>14. Goal
  BY <1>1, <1>2, <1>3, <1>4, <1>5, <1>6, <1>7, <1>8, <1>9, <1>10, <1>11, <1>12, <1>13
  DEF PipelineNext, ExecutorStep, GraphStep
<1> QED
  BY <1>14 DEF Goal

-----------------------------------------------------------------------------
(* Where a graph stands *)

LEMMA DraftOverwrite ==
  ASSUME row \in [Runs -> Row], NEW x,
         \/ \E v : row' = [row EXCEPT ![x].status = v]
         \/ row' = [row EXCEPT ![x].attempts = @ + 1]
         \/ row' = [row EXCEPT ![x].draft = TRUE]
         \/ row' = [row EXCEPT ![x].selected = TRUE]
         \/ row' = [row EXCEPT ![x].finished = TRUE]
         \/ row' = [row EXCEPT ![x].cancelRequested = TRUE]
         \/ row' = [row EXCEPT ![x] = CancelledRow(x)]
         \/ row' = row
  PROVE  \A r \in Runs : row[r].draft => row'[r].draft
<1>1. SUFFICES ASSUME NEW r \in Runs, row[r].draft PROVE row'[r].draft
  OBVIOUS
<1>2. row[r] \in Row
  OBVIOUS
<1>3. CASE r # x
  BY <1>1, <1>3, SMTT(20)
<1>4. CASE r = x
  BY <1>1, <1>2, <1>4, ZenonT(40) DEF Row, CancelledRow
<1> QED
  BY <1>3, <1>4

\* The draft of a run that exists is never taken away.
LEMMA DraftKept ==
  ASSUME Engine, Next \/ UNCHANGED vars, NEW r \in Runs, Status(r) # "absent",
         row[r].draft
  PROVE  row'[r].draft
<1>0. row \in [Runs -> Row]
  BY DEF Engine, Slots, TypeOK
<1>1. ASSUME NEW q \in Runs, StartRun(q) PROVE row'[r].draft
  BY <1>0, <1>1 DEF StartRun
<1>2. ASSUME Recovery \/ \E q \in Runs : CancelStep(q) PROVE row'[r].draft
  BY <1>0, <1>2, DraftOverwrite
  DEF Recovery, BootCancel, BootRetry, BootExhaust, BootCancelsDone, BootInterrupt,
      BootAnchor, BootDone, CancelStep, CancelFlag, CancelAttempt, CancelAbort
<1>3. ASSUME PumpStep PROVE row'[r].draft
  BY <1>0, <1>3, DraftOverwrite
  DEF PumpStep, PumpWake, PumpFindInterrupted, PumpCasInterrupted, PumpFindQueued,
      PumpCasQueued, PumpBegin
<1>4. ASSUME NEW e \in Execs, ExecStep(e) PROVE row'[r].draft
  BY <1>0, <1>4, DraftOverwrite
  DEF ExecStep, ExecLoad, ExecPrepare, ExecPersistDraft, ExecOutcome, ExecFail,
      ExecAbort, ExecSave, ExecAnchor, ExecRescue, ExecEnd
<1>5. ASSUME NEW h \in Resumers, ResumeStep(h) PROVE row'[r].draft
  BY <1>0, <1>5, DraftOverwrite
  DEF ResumeStep, ResumeSelect, ResumeSave, ResumeNotify
<1>6. ASSUME \/ Throw \/ Crash \/ UNCHANGED vars
             \/ \E q \in Runs : CancelRead(q) \/ \E h \in Resumers : ResumeRead(h, q)
      PROVE  UNCHANGED row
  BY <1>6 DEF Throw, PumpThrow, ExecThrow, CancelThrow, ResumeThrow, Crash, vars,
              CancelRead, ResumeRead
<1> QED
  BY <1>1, <1>2, <1>3, <1>4, <1>5, <1>6, EngineAssumption
  DEF Next, EngineAssumption

\* What the steps outside the graphs leave of the executions in one.
LEMMA OthersInGraph ==
  ASSUME Engine,
         \/ Surroundings
         \/ \E e \in Execs : ExecSave(e) \/ ExecAnchor(e) \/ ExecRescue(e) \/ ExecEnd(e)
  PROVE  \A d \in Execs :
           /\ exec[d].pc \in {"prepare", "work"} => exec'[d] = exec[d]
           /\ exec'[d].pc \in {"prepare", "work"} => exec'[d] = exec[d]
           /\ exec'[d].pc = "load" => exec'[d] = exec[d] \/ Unbegun(d)
<1>0. exec \in [Execs -> Exec] /\ \A d \in Execs : exec[d] \in Exec
  BY DEF Engine, Slots, TypeOK
<1> DEFINE Goal ==
      \A d \in Execs :
        /\ exec[d].pc \in {"prepare", "work"} => exec'[d] = exec[d]
        /\ exec'[d].pc \in {"prepare", "work"} => exec'[d] = exec[d]
        /\ exec'[d].pc = "load" => exec'[d] = exec[d] \/ Unbegun(d)
<1>1. ASSUME NEW e, NEW r, NEW sel, Begin(e, r, sel), Unbegun(e), ~Live(e) PROVE Goal
  BY <1>0, <1>1 DEF Begin, Live
<1>2. ASSUME PumpBegin \/ \E h \in Resumers : ResumeNotify(h) PROVE Goal
  BY <1>1, <1>2
  DEF PumpBegin, ResumeNotify, Unbegun, Engine, Slots, Control, PumpInv, ExecInv, Execs
<1>3. ASSUME NEW e \in Execs, ExecSave(e) \/ ExecAnchor(e) PROVE Goal
  <2>1. PICK pc \in {"anchor", "final"} : exec' = [exec EXCEPT ![e].pc = pc]
    BY <1>3 DEF ExecSave, ExecAnchor, Goto
  <2>2. exec'[e].pc = pc /\ \A d \in Execs \ {e} : exec'[d] = exec[d]
    BY <1>0, <2>1 DEF Exec
  <2> QED
    BY <1>3, <2>2 DEF ExecSave, ExecAnchor
<1>4. ASSUME NEW e \in Execs, ExecRescue(e) PROVE Goal
  <2>0. (\E pc : Goto(e, pc)) \/ (\E to, c : Leave(e, to, c))
    BY <1>4 DEF ExecRescue
  <2>1. exec'[e].pc \in {"save", "final"} /\ \A d \in Execs \ {e} : exec'[d] = exec[d]
    <3>1. exec'[e].pc \in {"save", "final"}
      BY <1>4, GotoShape, LeaveShape DEF ExecRescue, Engine, Slots
    <3> QED
      BY <1>0, <2>0, <3>1, MoveKeeps
  <2> QED
    BY <1>4, <2>1 DEF ExecRescue
<1>5. ASSUME NEW e \in Execs, ExecEnd(e) PROVE Goal
  BY <1>0, <1>5 DEF ExecEnd, NoExec
<1>6. ASSUME UNCHANGED exec PROVE Goal
  BY <1>6
<1>7. ASSUME Recovery \/ \E r \in Runs : CancelStep(r) PROVE UNCHANGED exec
  BY <1>7 DEF Recovery, BootCancel, BootRetry, BootExhaust, BootCancelsDone,
     BootInterrupt, BootAnchor, BootDone, CancelStep, CancelFlag, CancelAttempt,
     CancelAbort, memory
<1>8. ASSUME \/ PumpWake \/ PumpFindInterrupted \/ PumpCasInterrupted
             \/ PumpFindQueued \/ PumpCasQueued \/ PumpThrow
      PROVE  UNCHANGED exec
  BY <1>8 DEF PumpWake, PumpFindInterrupted, PumpCasInterrupted, PumpFindQueued,
              PumpCasQueued, PumpThrow, memory
<1>9. ASSUME NEW r \in Runs,
             \/ StartRun(r) \/ CancelRead(r) \/ CancelThrow(r)
             \/ \E h \in Resumers : ResumeRead(h, r)
      PROVE  UNCHANGED exec
  BY <1>9 DEF StartRun, CancelRead, CancelThrow, ResumeRead, memory
<1>10. ASSUME NEW h \in Resumers, ResumeSelect(h) \/ ResumeSave(h) \/ ResumeThrow(h)
       PROVE  UNCHANGED exec
  BY <1>10 DEF ResumeSelect, ResumeSave, ResumeThrow, memory
<1> HIDE DEF Goal
<1>11. Goal
  BY <1>2, <1>3, <1>4, <1>5, <1>6, <1>7, <1>8, <1>9, <1>10, EngineAssumption
  DEF Surroundings, PumpStep, ResumeStep, EngineAssumption
<1> QED
  BY <1>11 DEF Goal

\* A step of one execution leaves the graphs of the others where they are.
LEMMA OwnStep ==
  ASSUME Engine, PlaceInv, Next \/ UNCHANGED vars, NEW e \in Execs, Placed(e)',
         \A d \in Execs \ {e} : exec'[d] = exec[d] /\ flow'[d] = flow[d]
  PROVE  PlaceInv'
<1>1. ASSUME NEW d \in Execs \ {e} PROVE Placed(d)'
  <2>1. Placed(d) /\ exec'[d] = exec[d] /\ flow'[d] = flow[d]
    BY DEF PlaceInv
  <2>2. ASSUME AtWork(d), row[Of(d)].draft PROVE row'[Of(d)].draft
    <3>1. Of(d) \in Runs /\ Status(Of(d)) # "absent"
      BY <2>2 DEF Engine, Slots, Control, ExecInv, OrderInv, HolderInv, TakenUp,
                  Live, AtWork, Of
    <3> QED
      BY <2>2, <3>1, DraftKept
  <2> QED
    BY <2>1, <2>2 DEF Placed, AtWork, Of, NeedsChoice, PhaseOf
<1> QED
  BY <1>1 DEF PlaceInv

\* So does a step that touches no graph.
LEMMA OthersStep ==
  ASSUME Engine, PlaceInv, Next \/ UNCHANGED vars, UNCHANGED flow,
         \A d \in Execs : exec'[d].pc \in {"prepare", "work"} => exec'[d] = exec[d]
  PROVE  PlaceInv'
<1>1. ASSUME NEW d \in Execs PROVE Placed(d)'
  <2>1. Placed(d) /\ flow'[d] = flow[d]
    BY DEF PlaceInv
  <2>2. ASSUME AtWork(d), row[Of(d)].draft PROVE row'[Of(d)].draft
    <3>1. Of(d) \in Runs /\ Status(Of(d)) # "absent"
      BY <2>2 DEF Engine, Slots, Control, ExecInv, OrderInv, HolderInv, TakenUp,
                  Live, AtWork, Of
    <3> QED
      BY <2>2, <3>1, DraftKept
  <2>3. CASE exec'[d] = exec[d]
    BY <2>1, <2>2, <2>3 DEF Placed, AtWork, Of, NeedsChoice, PhaseOf
  <2>4. CASE exec'[d].pc \notin {"prepare", "work"}
    BY <2>4 DEF Placed, AtWork
  <2> QED
    BY <2>3, <2>4
<1> QED
  BY <1>1 DEF PlaceInv

\* A graph moves on inside its phase.
LEMMA MoveOn ==
  ASSUME Engine, PipelineTypeOK, PlaceInv, UNCHANGED exec,
         NEW e \in Execs, AtWork(e), NEW f, Step(e, f), f.phase = flow[e].phase,
         Of(e) \in TwoStage => f.pos \in 1..Len(Selection[Of(e)]),
         f.node \in {"keep", "end"} /\ NeedsChoice(e) => row'[Of(e)].draft
  PROVE  /\ Placed(e)'
         /\ \A d \in Execs \ {e} : exec'[d] = exec[d] /\ flow'[d] = flow[d]
<1>1. flow'[e] = f /\ \A d \in Execs \ {e} : flow'[d] = flow[d]
  BY DEF Step, PipelineTypeOK
<1>2. exec' = exec /\ exec[e].pc = "work"
  BY DEF AtWork
<1>3. Placed(e)
  BY DEF PlaceInv
<1> QED
  BY <1>1, <1>2, <1>3 DEF Placed, AtWork, Of, NeedsChoice, PhaseOf

\* A statement that throws takes the execution out of its graph.
LEMMA ThrowLeaves ==
  ASSUME exec \in [Execs -> Exec], NEW e \in Execs, ExecThrow(e)
  PROVE  /\ exec'[e].pc \in {"final", "save", "rescue"}
         /\ \A d \in Execs \ {e} : exec'[d] = exec[d]
<1>0. exec[e] \in Exec
  OBVIOUS
<1>1. ASSUME NEW pc, Goto(e, pc)
      PROVE  exec'[e].pc = pc /\ \A d \in Execs \ {e} : exec'[d] = exec[d]
  BY <1>0, <1>1 DEF Goto, Exec
<1>2. ASSUME NEW to, NEW c, Leave(e, to, c)
      PROVE  exec'[e].pc = "save" /\ \A d \in Execs \ {e} : exec'[d] = exec[d]
  BY <1>0, <1>2 DEF Leave, Exec
<1>3. ASSUME exec' = [exec EXCEPT ![e] =
                       [@ EXCEPT !.pc = "rescue", !.catcher = "nobody"]]
      PROVE  exec'[e].pc = "rescue" /\ \A d \in Execs \ {e} : exec'[d] = exec[d]
  BY <1>0, <1>3 DEF Exec
<1> QED
  BY <1>1, <1>2, <1>3 DEF ExecThrow

LEMMA PlaceStep ==
  ASSUME Engine, PipelineTypeOK, FlowInv, PlaceInv, PipelineNext
  PROVE  PlaceInv'
<1>0. /\ exec \in [Execs -> Exec] /\ flow \in [Execs -> Flow]
      /\ \A e \in Execs : exec[e] \in Exec /\ flow[e] \in Flow
  BY DEF Engine, Slots, TypeOK, PipelineTypeOK
<1>a. Next \/ UNCHANGED vars
  BY EngineStep
<1>b. ASSUME NEW e \in Execs, AtWork(e)
      PROVE  /\ flow[e].phase = PhaseOf(e)
             /\ Of(e) \in TwoStage => flow[e].pos \in 1..Len(Selection[Of(e)])
  BY <1>b DEF PlaceInv, Placed, AtWork
<1>c. ASSUME NEW e \in Execs, AtWork(e), UNCHANGED exec,
             NEW f, Step(e, f), f.phase = flow[e].phase, f.pos = flow[e].pos,
             f.node \in {"keep", "end"} /\ NeedsChoice(e) => row'[Of(e)].draft
      PROVE  PlaceInv'
  BY <1>a, <1>b, <1>c, MoveOn, OwnStep
<1>d. ASSUME NEW e \in Execs, AtWork(e), UNCHANGED exec, NEW f \in Flow,
             f.phase = flow[e].phase, f.pos = flow[e].pos,
             NEW node \in Nodes, Step(e, AtNode(f, node)),
             node \notin {"persist", "keep", "end"}
      PROVE  PlaceInv'
  <2>1. /\ AtNode(f, node).phase = flow[e].phase /\ AtNode(f, node).pos = flow[e].pos
        /\ AtNode(f, node).node = node
    BY <1>d, AtNodeSound
  <2> QED
    BY <1>c, <1>d, <2>1
<1>e. ASSUME NEW e \in Execs, exec'[e].pc \notin {"prepare", "work"},
             \A d \in Execs \ {e} : exec'[d] = exec[d] /\ flow'[d] = flow[d]
      PROVE  PlaceInv'
  <2>1. Placed(e)'
    BY <1>e DEF Placed, AtWork
  <2> QED
    BY <1>a, <1>e, <2>1, OwnStep
<1>1. ASSUME NEW e \in Execs, Load(e) PROVE PlaceInv'
  <2>1. exec'[e].pc \in {"prepare", "save"} /\ exec'[e].run = exec[e].run
        /\ exec'[e].sel = exec[e].sel
        /\ \A d \in Execs \ {e} : exec'[d] = exec[d]
    <3>1. CASE Leave(e, "awaiting_hitl", "worker")
      BY <1>0, <3>1 DEF Leave, Exec
    <3>2. CASE Goto(e, "prepare")
      BY <1>0, <3>2 DEF Goto, Exec
    <3> QED
      BY <1>1, <3>1, <3>2 DEF Load, ExecLoad
  <2>2. \A d \in Execs \ {e} : flow'[d] = flow[d]
    BY <1>0, <1>1 DEF Load, Step
  <2>3. CASE exec'[e].pc = "prepare"
    <3>1. flow'[e] = [NoFlow EXCEPT !.phase = PhaseOf(e), !.base = result[Of(e)].counts]
      BY <1>0, <1>1, <2>3 DEF Load, Step
    <3>2. flow'[e].phase = PhaseOf(e) /\ flow'[e].pos = 1 /\ flow'[e].node = "none"
      BY <3>1 DEF NoFlow
    <3>3. Of(e) \in TwoStage => 1 \in 1..Len(Selection[Of(e)])
      <4>1. ASSUME NEW r \in TwoStage PROVE 1 \in 1..Len(Selection[r])
        BY PipelineAssumption DEF PipelineAssumption
      <4> QED
        BY <4>1
    <3>4. Placed(e)'
      BY <2>1, <2>3, <3>2, <3>3 DEF Placed, AtWork, Of, NeedsChoice, PhaseOf
    <3> QED
      BY <1>a, <2>1, <2>2, <3>4, OwnStep
  <2> QED
    BY <1>e, <2>1, <2>2, <2>3
<1>2. ASSUME NEW e \in Execs, Prepare(e) PROVE PlaceInv'
  <2>1. exec'[e].pc \in {"final", "work"} /\ exec'[e].run = exec[e].run
        /\ exec'[e].sel = exec[e].sel
        /\ \A d \in Execs \ {e} : exec'[d] = exec[d]
    <3>1. CASE Goto(e, "final")
      BY <1>0, <3>1 DEF Goto, Exec
    <3>2. CASE exec' = [exec EXCEPT ![e] =
                         [@ EXCEPT !.pc = "work", !.catcher = "executor"]]
      BY <1>0, <3>2 DEF Exec
    <3> QED
      BY <1>2, <3>1, <3>2 DEF Prepare, ExecPrepare
  <2>2. \A d \in Execs \ {e} : flow'[d] = flow[d]
    BY <1>0, <1>2 DEF Prepare, Step
  <2>3. CASE exec'[e].pc = "work"
    <3>1. PICK n \in {"clear", "context"} : flow'[e] = [flow[e] EXCEPT !.node = n]
      BY <1>0, <1>2, <2>3 DEF Prepare, Step
    <3>2. /\ flow'[e].phase = flow[e].phase /\ flow'[e].pos = flow[e].pos
          /\ flow'[e].node = n
      BY <1>0, <3>1 DEF Flow
    <3>3. Placed(e) /\ exec[e].pc = "prepare"
      BY <1>2 DEF PlaceInv, Prepare, ExecPrepare
    <3>4. Placed(e)'
      BY <2>1, <2>3, <3>2, <3>3 DEF Placed, AtWork, Of, NeedsChoice, PhaseOf
    <3> QED
      BY <1>a, <2>1, <2>2, <3>4, OwnStep
  <2> QED
    BY <1>e, <2>1, <2>2, <2>3
<1>3. ASSUME NEW e \in Execs, Clear(e) PROVE PlaceInv'
  <2> DEFINE f == [flow[e] EXCEPT !.node = "context"]
  <2>1. Step(e, f) /\ AtWork(e) /\ UNCHANGED exec
    BY <1>3 DEF Clear, vars
  <2>2. f.phase = flow[e].phase /\ f.pos = flow[e].pos /\ f.node = "context"
    BY <1>0 DEF Flow
  <2> HIDE DEF f
  <2> QED
    BY <2>1, <2>2, <1>c
<1>4. ASSUME NEW e \in Execs, LoadContext(e) PROVE PlaceInv'
  <2> DEFINE f == [flow[e] EXCEPT !.count = flow[e].base[flow[e].phase],
                                  !.verdict = "none", !.fresh = FALSE]
  <2>1. Step(e, AtNode(f, "write")) /\ AtWork(e) /\ UNCHANGED exec
    BY <1>4 DEF LoadContext, vars
  <2>2. f.phase = flow[e].phase /\ f.pos = flow[e].pos
    BY <1>0 DEF Flow
  <2>3. flow[e].base[flow[e].phase] \in Nat
    BY <1>0 DEF Flow
  <2>4. f \in Flow
    BY <1>0, <2>3, FlowFields
  <2> HIDE DEF f
  <2> QED
    BY <2>1, <2>2, <2>4, <1>d DEF Nodes, Agents
<1>5. ASSUME NEW e \in Execs, HopCall(e) PROVE PlaceInv'
  <2> DEFINE f == [flow[e] EXCEPT !.calling = TRUE]
  <2>1. Step(e, f) /\ AtWork(e) /\ UNCHANGED exec /\ flow[e].node \in Agents
    BY <1>5 DEF HopCall, vars
  <2>2. f.phase = flow[e].phase /\ f.pos = flow[e].pos /\ f.node = flow[e].node
    BY <1>0 DEF Flow
  <2> HIDE DEF f
  <2> QED
    BY <2>1, <2>2, <1>c DEF Agents
<1>6. ASSUME NEW e \in Execs, HopRetry(e) PROVE PlaceInv'
  <2>1. PICK reason \in HopRetryable :
          Step(e, [flow[e] EXCEPT !.attempt = @ + 1, !.calling = FALSE,
                                  !.bad = @ \cup Refused(flow[e], reason)])
    BY <1>6 DEF HopRetry
  <2> DEFINE f == [flow[e] EXCEPT !.attempt = @ + 1, !.calling = FALSE,
                                  !.bad = @ \cup Refused(flow[e], reason)]
  <2>2. Step(e, f) /\ AtWork(e) /\ UNCHANGED exec
    BY <1>6, <2>1 DEF HopRetry, vars
  <2>3. flow[e].node \in Agents
    BY <1>6 DEF HopRetry, FlowInv, Sound
  <2>4. f.phase = flow[e].phase /\ f.pos = flow[e].pos /\ f.node = flow[e].node
    BY <1>0 DEF Flow
  <2> HIDE DEF f
  <2> QED
    BY <2>2, <2>3, <2>4, <1>c DEF Agents
<1>7. ASSUME NEW e \in Execs, Written(e) \/ Count(e) PROVE PlaceInv'
  <2>1. Step(e, AtNode(flow[e], "verify")) /\ AtWork(e) /\ UNCHANGED exec
    BY <1>7 DEF Written, Count, vars
  <2> QED
    BY <1>0, <2>1, <1>d DEF Nodes, Agents
<1>8. ASSUME NEW e \in Execs, Verified(e) PROVE PlaceInv'
  <2>1. PICK v \in {"ok", "rejected"} :
          Step(e, AtNode([flow[e] EXCEPT !.verdict = v, !.fresh = TRUE],
                         RouteAfterConsistencyVerifier(v, flow[e].count)))
    BY <1>8 DEF Verified
  <2> DEFINE f == [flow[e] EXCEPT !.verdict = v, !.fresh = TRUE]
             node == RouteAfterConsistencyVerifier(v, flow[e].count)
  <2>2. Step(e, AtNode(f, node)) /\ AtWork(e) /\ UNCHANGED exec
    BY <1>8, <2>1 DEF Verified, vars
  <2>3. flow[e].count \in Nat
    BY <1>0 DEF Flow
  <2>4. node \in {"persist", "refine", "fail"} /\ (node = "persist" => v = "ok")
    BY <2>3, Route
  <2>5. f \in Flow
    BY <1>0, FlowFields
  <2>6. /\ f.phase = flow[e].phase /\ f.pos = flow[e].pos
        /\ f.verdict = v /\ f.fresh
    BY <1>0 DEF Flow
  <2> HIDE DEF f, node
  <2>7. node \in Nodes /\ node \notin {"keep", "end"}
    BY <2>4 DEF Nodes, Agents
  <2>8. /\ AtNode(f, node).phase = flow[e].phase /\ AtNode(f, node).pos = flow[e].pos
        /\ AtNode(f, node).node = node
    BY <2>4, <2>5, <2>6, <2>7, AtNodeSound
  <2> QED
    BY <2>2, <2>7, <2>8, <1>c
<1>9. ASSUME NEW e \in Execs, Refined(e) PROVE PlaceInv'
  <2> DEFINE f == [flow[e] EXCEPT !.count = @ + 1, !.fresh = FALSE]
  <2>1. PICK node \in {"count", "verify"} : Step(e, AtNode(f, node))
    BY <1>9 DEF Refined
  <2>2. f \in Flow
    BY <1>0, FlowFields
  <2>3. f.phase = flow[e].phase /\ f.pos = flow[e].pos
    BY <1>0 DEF Flow
  <2>4. AtWork(e) /\ UNCHANGED exec
    BY <1>9 DEF Refined, vars
  <2> HIDE DEF f
  <2> QED
    BY <2>1, <2>2, <2>3, <2>4, <1>d DEF Nodes, Agents
<1>10. ASSUME NEW e \in Execs, PersistDraft(e) \/ PersistItem(e) \/ PersistOnly(e)
       PROVE  PlaceInv'
  <2>1. Persisted(e) /\ AtWork(e)
    BY <1>10 DEF PersistDraft, PersistItem, PersistOnly
  <2>2. PICK node \in {"keep", "end"} : Step(e, AtNode(flow[e], node))
    BY <2>1 DEF Persisted
  <2>3. /\ AtNode(flow[e], node).phase = flow[e].phase
        /\ AtNode(flow[e], node).pos = flow[e].pos
    BY <1>0, AtNodeSound DEF Nodes, Agents
  <2>4. ASSUME NeedsChoice(e) PROVE row'[Of(e)].draft
    <3>1. flow[e].phase = "draft"
      BY <1>b, <2>1, <2>4 DEF PhaseOf
    <3>2. row' = [row EXCEPT ![Of(e)].draft = TRUE]
      BY <1>10, <2>4, <3>1 DEF PersistDraft, PersistItem, PersistOnly, PerIdea
    <3>3. Of(e) \in Runs /\ row \in [Runs -> Row]
      BY <2>1 DEF Engine, Slots, TypeOK, Control, ExecInv, Live, AtWork, Of
    <3>4. row[Of(e)] \in Row
      BY <3>3
    <3> QED
      BY <3>2, <3>3, <3>4 DEF Row
  <2>5. UNCHANGED exec
    BY <2>1 DEF Persisted
  <2> QED
    BY <2>1, <2>2, <2>3, <2>4, <2>5, <1>c
<1>11. ASSUME NEW e \in Execs, Keep(e) PROVE PlaceInv'
  <2> DEFINE f == [flow[e] EXCEPT !.node = "end"]
  <2>1. Step(e, f) /\ AtWork(e) /\ UNCHANGED <<exec, row>> /\ flow[e].node = "keep"
    BY <1>11 DEF Keep, vars
  <2>2. f.phase = flow[e].phase /\ f.pos = flow[e].pos
    BY <1>0 DEF Flow
  <2>3. NeedsChoice(e) => row'[Of(e)].draft
    BY <2>1 DEF PlaceInv, Placed
  <2> HIDE DEF f
  <2> QED
    BY <2>1, <2>2, <2>3, <1>c
<1>12. ASSUME NEW e \in Execs, NextIdea(e) PROVE PlaceInv'
  <2> DEFINE f == [flow[e] EXCEPT !.node = "context", !.pos = @ + 1]
  <2>1. Step(e, f) /\ AtWork(e) /\ UNCHANGED exec
    BY <1>12 DEF NextIdea, vars
  <2>2. f.phase = flow[e].phase /\ f.pos = flow[e].pos + 1 /\ f.node = "context"
    BY <1>0 DEF Flow
  <2>3. /\ Of(e) \in TwoStage /\ flow[e].pos # Len(Selection[Of(e)])
        /\ flow[e].pos \in 1..Len(Selection[Of(e)])
    BY <1>12, <1>b, <2>1 DEF NextIdea, LastIdea, PerIdea
  <2>4. Len(Selection[Of(e)]) \in Nat
    BY <2>3, PipelineAssumption DEF PipelineAssumption
  <2>5. f.pos \in 1..Len(Selection[Of(e)])
    BY <2>2, <2>3, <2>4
  <2> HIDE DEF f
  <2> QED
    BY <1>a, <2>1, <2>2, <2>5, MoveOn, OwnStep
<1>13. ASSUME NEW e \in Execs, Leaving(e), exec'[e].pc \in {"final", "save", "rescue"},
              \A d \in Execs \ {e} : exec'[d] = exec[d]
       PROVE  PlaceInv'
  <2>1. \A d \in Execs \ {e} : flow'[d] = flow[d]
    BY <1>0, <1>13 DEF Leaving, Step
  <2> QED
    BY <1>e, <1>13, <2>1
<1>14. ASSUME NEW e \in Execs, HopAbort(e) \/ Outcome(e) \/ FailRun(e) \/ Break(e)
       PROVE  PlaceInv'
  <2>1. /\ Leaving(e)
        /\ Goto(e, "final") \/ \E to, c : Leave(e, to, c)
    BY <1>14 DEF HopAbort, Outcome, FailRun, Break
  <2>2. /\ exec'[e].pc \in {"final", "save"}
        /\ \A d \in Execs \ {e} : exec'[d] = exec[d]
    <3>0. TypeOK
      BY DEF Engine, Slots
    <3>1. exec'[e].pc \in {"final", "save"}
      BY <2>1, <3>0, GotoShape, LeaveShape
    <3> QED
      BY <1>0, <2>1, <3>1, MoveKeeps
  <2> QED
    BY <1>13, <2>1, <2>2
<1>15. ASSUME NEW e \in Execs, ExecutorThrow(e) PROVE PlaceInv'
  <2>1. /\ exec'[e].pc \in {"final", "save", "rescue"}
        /\ \A d \in Execs \ {e} : exec'[d] = exec[d]
    BY <1>0, <1>15, ThrowLeaves DEF ExecutorThrow
  <2> QED
    BY <1>13, <1>15, <2>1 DEF ExecutorThrow
<1>16. ASSUME PipelineCrash PROVE PlaceInv'
  BY <1>16 DEF PipelineCrash, Crash, NoExec, PlaceInv, Placed, AtWork
<1>17. ASSUME \/ Surroundings
              \/ /\ UNCHANGED pipelineVars
                 /\ \E e \in Execs :
                      ExecSave(e) \/ ExecAnchor(e) \/ ExecRescue(e) \/ ExecEnd(e)
       PROVE  PlaceInv'
  <2>1. UNCHANGED flow
    BY <1>17 DEF Surroundings, pipelineVars
  <2> QED
    BY <1>a, <1>17, <2>1, OthersInGraph, OthersStep
<1> QED
  BY <1>1, <1>2, <1>3, <1>4, <1>5, <1>6, <1>7, <1>8, <1>9, <1>10, <1>11, <1>12,
     <1>14, <1>15, <1>16, <1>17
  DEF PipelineNext, ExecutorStep, GraphStep

-----------------------------------------------------------------------------
(* Controllers *)

LEMMA UnbegunIdle ==
  ASSUME Engine, NEW e \in Execs, Unbegun(e)
  PROVE  ~Live(e)
BY EngineAssumption
DEF Engine, Slots, Control, ExecInv, PumpInv, Unbegun, EngineAssumption, Execs

\* Inside an execution nobody changes controllers.
LEMMA InsideCtl ==
  ASSUME Engine, NEW e \in Execs, Inside(e)
  PROVE  /\ \A d \in Execs : exec'[d].ctl = exec[d].ctl
         /\ UNCHANGED <<registry, aborted>>
<1>0. exec \in [Execs -> Exec] /\ exec[e] \in Exec
  BY DEF Engine, Slots, TypeOK
<1> DEFINE Same == \A d \in Execs : exec'[d].ctl = exec[d].ctl
<1>1. ASSUME NEW pc, Goto(e, pc) PROVE Same
  BY <1>0, <1>1 DEF Goto, Exec
<1>2. ASSUME NEW to, NEW c, Leave(e, to, c) PROVE Same
  BY <1>0, <1>2 DEF Leave, Exec
<1>3. ASSUME NEW pc, NEW c,
             exec' = [exec EXCEPT ![e] = [@ EXCEPT !.pc = pc, !.catcher = c]]
      PROVE  Same
  BY <1>0, <1>3 DEF Exec
<1>4. ASSUME UNCHANGED exec PROVE Same
  BY <1>4
<1> HIDE DEF Same
<1>5. Same
  <2>1. CASE ExecPrepare(e)
    BY <1>1, <1>3, <2>1 DEF ExecPrepare
  <2>2. CASE ExecThrow(e)
    BY <1>1, <1>2, <1>3, <2>2 DEF ExecThrow
  <2>3. CASE \/ ExecLoad(e) \/ ExecPersistDraft(e) \/ ExecOutcome(e) \/ ExecFail(e)
             \/ ExecAbort(e) \/ ExecSave(e) \/ ExecAnchor(e) \/ ExecRescue(e)
    BY <1>1, <1>2, <1>4, <2>3
    DEF ExecLoad, ExecPersistDraft, ExecOutcome, ExecFail, ExecAbort, ExecSave,
        ExecAnchor, ExecRescue, memory
  <2> QED
    BY <2>1, <2>2, <2>3 DEF Inside
<1>6. UNCHANGED <<registry, aborted>>
  BY DEF Inside, ExecLoad, ExecPrepare, ExecPersistDraft, ExecOutcome, ExecFail,
     ExecAbort, ExecSave, ExecAnchor, ExecRescue, ExecThrow, memory
<1> QED
  BY <1>5, <1>6 DEF Same

\* What Begin does to controllers, when the execution has left no trace.
LEMMA BeginCtl ==
  ASSUME Engine, CtlInv, NEW e \in Execs, NEW r \in Runs, NEW sel, Unbegun(e),
         Begin(e, r, sel)
  PROVE  /\ \A d \in Execs \ {e} : exec'[d] = exec[d]
         /\ exec'[e].pc = "load"
         /\ exec'[e].ctl \in {registry[r], e}
         /\ \A q \in Runs : registry'[q] \in {registry[q], registry[r], e}
         /\ \A d \in Execs : exec[d].ctl \in aborted => exec[d].ctl \in aborted'
<1>0. exec \in [Execs -> Exec] /\ registry \in [Runs -> Execs \cup {None}]
  BY DEF Engine, Slots, TypeOK
<1>1. \A d \in Execs : exec[d].ctl # e
  BY DEF CtlInv
<1> QED
  BY <1>0, <1>1 DEF Begin

\* The steps of RunEngine other than a beginning, an end, recovery and a crash.
LEMMA QuietCtl ==
  ASSUME Engine, Next,
         ~PumpBegin, \A h \in Resumers : ~ResumeNotify(h),
         \A e \in Execs : ~ExecEnd(e), ~Crash
  PROVE  /\ \A d \in Execs : exec'[d].ctl = exec[d].ctl
         /\ UNCHANGED registry
         /\ aborted \subseteq aborted'
<1>1. ASSUME NEW e \in Execs, Inside(e)
      PROVE  /\ \A d \in Execs : exec'[d].ctl = exec[d].ctl
             /\ UNCHANGED registry /\ aborted \subseteq aborted'
  BY <1>1, InsideCtl
<1>2. ASSUME Recovery PROVE UNCHANGED <<exec, registry, aborted>>
  BY <1>2 DEF Recovery, BootCancel, BootRetry, BootExhaust, BootCancelsDone,
     BootInterrupt, BootAnchor, BootDone, memory
<1>3. ASSUME \/ PumpWake \/ PumpFindInterrupted \/ PumpCasInterrupted
             \/ PumpFindQueued \/ PumpCasQueued \/ PumpThrow
      PROVE  UNCHANGED <<exec, registry, aborted>>
  BY <1>3 DEF PumpWake, PumpFindInterrupted, PumpCasInterrupted, PumpFindQueued,
              PumpCasQueued, PumpThrow, memory
<1>4. ASSUME NEW r \in Runs,
             \/ StartRun(r) \/ CancelFlag(r) \/ CancelAttempt(r) \/ CancelRead(r)
             \/ CancelThrow(r) \/ \E h \in Resumers : ResumeRead(h, r)
      PROVE  UNCHANGED <<exec, registry, aborted>>
  BY <1>4 DEF StartRun, CancelFlag, CancelAttempt, CancelRead, CancelThrow,
              ResumeRead, memory
<1>5. ASSUME NEW r \in Runs, CancelAbort(r)
      PROVE  UNCHANGED <<exec, registry>> /\ aborted \subseteq aborted'
  BY <1>5 DEF CancelAbort
<1>6. ASSUME NEW h \in Resumers, ResumeSelect(h) \/ ResumeSave(h) \/ ResumeThrow(h)
      PROVE  UNCHANGED <<exec, registry, aborted>>
  BY <1>6 DEF ResumeSelect, ResumeSave, ResumeThrow, memory
<1> QED
  BY <1>1, <1>2, <1>3, <1>4, <1>5, <1>6, EngineAssumption
  DEF Next, PumpStep, ExecStep, CancelStep, ResumeStep, Throw, Inside,
      EngineAssumption

\* Once begun is begun, as long as the process lives.
LEMMA UnbegunKept ==
  ASSUME Engine, Next, Up, ~Crash, NEW e \in Execs, Unbegun(e)'
  PROVE  Unbegun(e)
<1>0. /\ Slots /\ OrderInv /\ pump \in Pump
      /\ hitl \in [Resumers -> [pc  : {"idle", "select", "save", "notify", "done"},
                                run : Runs \cup {None}]]
  BY DEF Engine, Slots, TypeOK
<1>1. CASE e \in Runs /\ ~TakenUp(e)'
  BY <1>0, <1>1, RunKept DEF Unbegun
<1>2. CASE e \in Runs /\ pump'.pc = "claimed" /\ pump'.run = e
  <2>1. CASE PumpStep
    <3>1. CASE PumpCasInterrupted \/ PumpCasQueued
      BY <1>0, <1>2, <3>1
      DEF PumpCasInterrupted, PumpCasQueued, Pump, Unbegun, TakenUp
    <3>2. CASE PumpWake \/ PumpFindInterrupted \/ PumpFindQueued \/ PumpBegin
      BY <1>0, <1>2, <3>2
      DEF PumpWake, PumpFindInterrupted, PumpFindQueued, PumpBegin, IdlePump,
          LoopHead, Pump
    <3> QED
      BY <2>1, <3>1, <3>2 DEF PumpStep
  <2>2. CASE ~PumpStep
    BY <1>0, <1>2, <2>2, PumpKept DEF Unbegun
  <2> QED
    BY <2>1, <2>2
<1>3. CASE e \in Resumers /\ hitl'[e].pc # "done"
  <2>1. ASSUME hitl[e].pc = "done", UNCHANGED hitl PROVE FALSE
    BY <1>3, <2>1
  <2>2. ASSUME hitl[e].pc = "done", NEW h \in Resumers,
               \/ ResumeStep(h) \/ ResumeThrow(h)
               \/ \E r \in Runs : ResumeRead(h, r)
        PROVE  FALSE
    <3>1. CASE h = e
      BY <1>0, <1>3, <2>2, <3>1
      DEF ResumeStep, ResumeSelect, ResumeSave, ResumeNotify, ResumeThrow, ResumeRead
    <3>2. CASE h # e
      <4>1. \E x : hitl' = [hitl EXCEPT ![h] = x]
        BY <2>2
        DEF ResumeStep, ResumeSelect, ResumeSave, ResumeNotify, ResumeThrow,
            ResumeRead, HitlGoto
      <4> QED
        BY <1>0, <1>3, <2>2, <3>2, <4>1
    <3> QED
      BY <3>1, <3>2
  <2>3. ASSUME Recovery \/ PumpStep \/ PumpThrow PROVE UNCHANGED hitl
    BY <2>3 DEF Recovery, BootCancel, BootRetry, BootExhaust, BootCancelsDone,
       BootInterrupt, BootAnchor, BootDone, PumpStep, PumpWake, PumpFindInterrupted,
       PumpCasInterrupted, PumpFindQueued, PumpCasQueued, PumpBegin, PumpThrow,
       handlers
  <2>4. ASSUME NEW d \in Execs, ExecStep(d) \/ ExecThrow(d) PROVE UNCHANGED hitl
    BY <2>4 DEF ExecStep, ExecLoad, ExecPrepare, ExecPersistDraft, ExecOutcome,
       ExecFail, ExecAbort, ExecSave, ExecAnchor, ExecRescue, ExecEnd, ExecThrow,
       handlers
  <2>5. ASSUME NEW r \in Runs,
               StartRun(r) \/ CancelStep(r) \/ CancelRead(r) \/ CancelThrow(r)
        PROVE  UNCHANGED hitl
    BY <2>5 DEF StartRun, CancelStep, CancelFlag, CancelAttempt, CancelAbort,
       CancelRead, CancelThrow, handlers
  <2>6. hitl[e].pc # "done"
    BY <2>1, <2>2, <2>3, <2>4, <2>5, EngineAssumption
    DEF Next, Throw, EngineAssumption
  <2> QED
    BY <1>3, <2>6 DEF Unbegun
<1> QED
  BY <1>1, <1>2, <1>3 DEF Unbegun

\* A begun execution is not to begin again.
LEMMA BegunNow ==
  ASSUME Engine
  PROVE  /\ \A e \in Execs : PumpBegin /\ pump.run = e =>
              e \in Runs /\ Unbegun(e) /\ ~Unbegun(e)'
         /\ \A h \in Resumers : ResumeNotify(h) =>
              hitl[h].run \in Runs /\ Unbegun(h) /\ ~Unbegun(h)'
<1>0. /\ pump \in Pump /\ Control
      /\ hitl \in [Resumers -> [pc  : {"idle", "select", "save", "notify", "done"},
                                run : Runs \cup {None}]]
  BY DEF Engine, Slots, TypeOK
<1>1. ASSUME NEW e \in Execs, PumpBegin, pump.run = e
      PROVE  e \in Runs /\ Unbegun(e) /\ ~Unbegun(e)'
  <2>1. pump.pc = "claimed" /\ e \in Runs /\ TakenUp(e)
    BY <1>0, <1>1 DEF PumpBegin, Control, PumpInv
  <2>2. pump'.pc # "claimed" /\ row' = row
    BY <1>0, <1>1 DEF PumpBegin, IdlePump, LoopHead, Pump
  <2> QED
    BY <1>1, <2>1, <2>2, EngineAssumption DEF Unbegun, TakenUp, Status, EngineAssumption
<1>2. ASSUME NEW h \in Resumers, ResumeNotify(h)
      PROVE  hitl[h].run \in Runs /\ Unbegun(h) /\ ~Unbegun(h)'
  <2>1. hitl[h].pc = "notify" /\ hitl'[h].pc = "done"
    BY <1>0, <1>2 DEF ResumeNotify
  <2> QED
    BY <1>0, <2>1, EngineAssumption DEF Control, HitlInv, Unbegun, EngineAssumption
<1> QED
  BY <1>1, <1>2

\* Only the crash of both modules is a crash.
LEMMA OnlyCrash ==
  ASSUME Engine, PipelineNext, ~PipelineCrash
  PROVE  ~Crash /\ spent'.crashes = spent.crashes
<1>0. spent \in [crashes : 0..MaxCrashes, faults : 0..MaxFaults] /\ MaxCrashes \in Nat
  BY EngineAssumption DEF Engine, Slots, TypeOK, EngineAssumption
<1> DEFINE Same == spent'.crashes = spent.crashes
<1>1. ASSUME Fault \/ UNCHANGED spent PROVE Same
  BY <1>0, <1>1 DEF Fault
<1>2. ASSUME Recovery \/ PumpStep \/ PumpThrow PROVE Fault \/ UNCHANGED spent
  BY <1>2 DEF Recovery, BootCancel, BootRetry, BootExhaust, BootCancelsDone,
     BootInterrupt, BootAnchor, BootDone, PumpStep, PumpWake, PumpFindInterrupted,
     PumpCasInterrupted, PumpFindQueued, PumpCasQueued, PumpBegin, PumpThrow
<1>3. ASSUME NEW r \in Runs,
             StartRun(r) \/ CancelStep(r) \/ CancelRead(r) \/ CancelThrow(r)
      PROVE  Fault \/ UNCHANGED spent
  BY <1>3 DEF StartRun, CancelStep, CancelFlag, CancelAttempt, CancelAbort,
     CancelRead, CancelThrow
<1>4. ASSUME NEW h \in Resumers,
             \/ ResumeStep(h) \/ ResumeThrow(h)
             \/ \E r \in Runs : ResumeRead(h, r)
      PROVE  Fault \/ UNCHANGED spent
  BY <1>4 DEF ResumeStep, ResumeSelect, ResumeSave, ResumeNotify, ResumeThrow,
     ResumeRead
<1>5. ASSUME Surroundings PROVE Fault \/ UNCHANGED spent
  BY <1>2, <1>3, <1>4, <1>5, EngineAssumption DEF Surroundings, EngineAssumption
<1>6. ASSUME NEW e \in Execs,
             \/ Load(e) \/ Prepare(e) \/ ExecSave(e) \/ ExecAnchor(e) \/ ExecRescue(e)
             \/ ExecEnd(e) \/ ExecutorThrow(e)
      PROVE  Fault \/ UNCHANGED spent
  BY <1>6 DEF Load, Prepare, ExecLoad, ExecPrepare, ExecSave, ExecAnchor, ExecRescue,
     ExecEnd, ExecutorThrow, ExecThrow
<1>7. ASSUME NEW e \in Execs, GraphStep(e) PROVE UNCHANGED spent
  BY <1>7 DEF GraphStep, Clear, LoadContext, HopCall, HopAbort, HopRetry, Written,
     Verified, Refined, Count, PersistDraft, PersistItem, PersistOnly, Persisted, Keep,
     NextIdea, Outcome, FailRun, Break, vars, engineOthers
<1> HIDE DEF Same
<1>8. Same
  BY <1>1, <1>5, <1>6, <1>7 DEF PipelineNext, ExecutorStep
<1> QED
  BY <1>0, <1>8 DEF Same, Crash

\* The only step that stores a result.
LEMMA LateEffect ==
  ASSUME PipelineNext
  PROVE  PipelineCrash \/ UNCHANGED late \/ \E e \in Execs : AtWork(e) /\ Persisted(e)
<1>1. ASSUME NEW e \in Execs, PersistDraft(e) \/ PersistItem(e) \/ PersistOnly(e)
      PROVE  AtWork(e) /\ Persisted(e)
  BY <1>1 DEF PersistDraft, PersistItem, PersistOnly
<1>2. ASSUME NEW e \in Execs,
             \/ Load(e) \/ Prepare(e) \/ Clear(e) \/ LoadContext(e) \/ HopCall(e)
             \/ HopAbort(e) \/ HopRetry(e) \/ Written(e) \/ Verified(e) \/ Refined(e)
             \/ Count(e) \/ Keep(e) \/ NextIdea(e) \/ Outcome(e) \/ FailRun(e)
             \/ Break(e) \/ ExecutorThrow(e)
      PROVE  UNCHANGED late
  BY <1>2 DEF Load, Prepare, Clear, LoadContext, HopCall, HopAbort, HopRetry, Written,
     Verified, Refined, Count, Keep, NextIdea, Outcome, FailRun, Break, ExecutorThrow
<1>3. ASSUME Surroundings \/ UNCHANGED pipelineVars PROVE UNCHANGED late
  BY <1>3 DEF Surroundings, pipelineVars
<1> QED
  BY <1>1, <1>2, <1>3 DEF PipelineNext, ExecutorStep, GraphStep

\* An execution that has not begun appears in no controller.
LEMMA CtlKept ==
  ASSUME Engine, CtlInv, Next, ~Crash, NEW e \in Execs, Unbegun(e), Unbegun(e)'
  PROVE  /\ \A d \in Execs : exec'[d].ctl # e
         /\ \A r \in Runs : registry'[r] # e
<1>0. /\ \A d \in Execs : exec[d].ctl # e
      /\ \A r \in Runs : registry[r] # e
      /\ exec \in [Execs -> Exec] /\ registry \in [Runs -> Execs \cup {None}]
  BY DEF CtlInv, Engine, Slots, TypeOK
<1>1. ASSUME NEW b \in Execs, NEW r \in Runs, NEW sel, Unbegun(b), b # e,
             Begin(b, r, sel)
      PROVE  /\ \A d \in Execs : exec'[d].ctl # e
             /\ \A q \in Runs : registry'[q] # e
  <2>1. /\ \A d \in Execs \ {b} : exec'[d] = exec[d]
        /\ exec'[b].ctl \in {registry[r], b}
        /\ \A q \in Runs : registry'[q] \in {registry[q], registry[r], b}
    BY <1>1, BeginCtl
  <2> QED
    BY <1>0, <1>1, <2>1
<1>2. CASE PumpBegin
  <2> DEFINE b == pump.run
  <2>1. b \in Runs /\ Begin(b, b, pump.sel)
    BY <1>2 DEF PumpBegin, Engine, Slots, Control, PumpInv
  <2>2. b \in Execs /\ Unbegun(b) /\ b # e
    BY <1>2, <2>1, BegunNow DEF Execs
  <2> HIDE DEF b
  <2> QED
    BY <1>1, <2>1, <2>2
<1>3. ASSUME NEW h \in Resumers, ResumeNotify(h)
      PROVE  /\ \A d \in Execs : exec'[d].ctl # e
             /\ \A q \in Runs : registry'[q] # e
  <2>1. hitl[h].run \in Runs /\ Unbegun(h) /\ h # e /\ h \in Execs
    BY <1>3, BegunNow DEF Execs
  <2> QED
    BY <1>1, <1>3, <2>1 DEF ResumeNotify
<1>4. ASSUME NEW b \in Execs, ExecEnd(b)
      PROVE  /\ \A d \in Execs : exec'[d].ctl # e
             /\ \A q \in Runs : registry'[q] # e
  <2>1. e # None
    BY EngineAssumption DEF EngineAssumption, Execs
  <2> QED
    BY <1>0, <1>4, <2>1 DEF ExecEnd, NoExec
<1>5. CASE /\ ~PumpBegin
           /\ \A h \in Resumers : ~ResumeNotify(h)
           /\ \A b \in Execs : ~ExecEnd(b)
  BY <1>0, <1>5, QuietCtl
<1> QED
  BY <1>2, <1>3, <1>4, <1>5

LEMMA CtlStep ==
  ASSUME Engine, PipelineTypeOK, FlowInv, PlaceInv, CtlInv, PipelineNext
  PROVE  CtlInv'
<1>0. None \notin Execs /\ late \in [Execs -> Nat]
  BY EngineAssumption DEF EngineAssumption, Execs, PipelineTypeOK
<1>1. CASE PipelineCrash
  BY <1>0, <1>1 DEF PipelineCrash, Crash, CtlInv, NoExec
<1>2. CASE ~PipelineCrash
  <2>1. ~Crash /\ (Next \/ UNCHANGED vars)
    BY <1>2, OnlyCrash, EngineStep
  <2>2. UNCHANGED late \/ \E d \in Execs : AtWork(d) /\ Persisted(d)
    BY <1>2, LateEffect
  <2>3. CASE ~Up
    <3>1. /\ \A d \in Execs : exec[d] = NoExec /\ late[d] = 0
          /\ \A r \in Runs : registry[r] = None
      BY <2>3 DEF CtlInv
    <3>2. UNCHANGED late
      BY <2>2, <3>1 DEF AtWork, NoExec
    <3>3. UNCHANGED <<exec, registry>>
      <4>1. CASE Next
        <5>1. Recovery
          BY <2>1, <2>3, <4>1, OthersServe DEF Engine
        <5> QED
          BY <5>1 DEF Recovery, BootCancel, BootRetry, BootExhaust, BootCancelsDone,
             BootInterrupt, BootAnchor, BootDone, memory
      <4> QED
        BY <2>1, <4>1 DEF vars
    <3> QED
      <4>1. /\ \A d \in Execs : exec'[d] = NoExec /\ late'[d] = 0
            /\ \A r \in Runs : registry'[r] = None
        BY <3>1, <3>2, <3>3
      <4>2. NoExec.ctl = None
        BY DEF NoExec
      <4>3. \A e, d \in Execs : exec'[d].ctl # e
        BY <1>0, <4>1, <4>2
      <4> QED
        BY <1>0, <4>1, <4>3 DEF CtlInv
  <2>4. CASE Up
    <3>1. Up'
      <4>1. CASE Next
        BY <2>1, <2>4, <4>1, OthersServe DEF Engine, Up
      <4> QED
        BY <2>1, <2>4, <4>1 DEF vars, Up
    <3>2. ASSUME NEW e \in Execs, Unbegun(e)'
          PROVE  /\ late'[e] = 0
                 /\ \A d \in Execs : exec'[d].ctl # e
                 /\ \A r \in Runs : registry'[r] # e
      <4>1. Unbegun(e)
        <5>1. CASE Next
          BY <2>1, <2>4, <3>2, <5>1, UnbegunKept
        <5>2. CASE UNCHANGED vars
          BY <3>2, <5>2 DEF vars, Unbegun, TakenUp, Status
        <5> QED
          BY <2>1, <5>1, <5>2
      <4>2. late'[e] = 0
        <5>1. late[e] = 0
          BY <4>1 DEF CtlInv
        <5>2. ASSUME NEW d \in Execs, AtWork(d), Persisted(d) PROVE late'[e] = late[e]
          <6>1. d # e
            BY <4>1, <5>2, UnbegunIdle DEF AtWork, Live
          <6> QED
            BY <1>0, <5>2, <6>1 DEF Persisted
        <5> QED
          BY <2>2, <5>1, <5>2
      <4>3. CASE Next
        BY <2>1, <3>2, <4>1, <4>2, <4>3, CtlKept
      <4>4. CASE UNCHANGED vars
        BY <4>1, <4>2, <4>4 DEF vars, CtlInv
      <4> QED
        BY <2>1, <4>3, <4>4
    <3> QED
      BY <3>1, <3>2 DEF CtlInv
  <2> QED
    BY <2>3, <2>4
<1> QED
  BY <1>1, <1>2

\* A signal that was raised stays up while its execution is at work.
LEMMA AbortKept ==
  ASSUME Engine, CtlInv, Next, ~Crash, NEW e \in Execs, AtWork(e), AtWork(e)',
         IsAborted(e)
  PROVE  IsAborted(e)'
<1>0. exec \in [Execs -> Exec]
  BY DEF Engine, Slots, TypeOK
<1>1. ASSUME NEW b \in Execs, NEW r \in Runs, NEW sel, Unbegun(b), Begin(b, r, sel)
      PROVE  IsAborted(e)'
  <2>1. b # e
    BY <1>1, UnbegunIdle DEF AtWork, Live
  <2> QED
    BY <1>1, <2>1, BeginCtl DEF IsAborted
<1>2. CASE PumpBegin
  <2> DEFINE b == pump.run
  <2>1. b \in Runs /\ Begin(b, b, pump.sel)
    BY <1>2 DEF PumpBegin, Engine, Slots, Control, PumpInv
  <2>2. b \in Execs /\ Unbegun(b)
    BY <1>2, <2>1, BegunNow DEF Execs
  <2> HIDE DEF b
  <2> QED
    BY <1>1, <2>1, <2>2
<1>3. ASSUME NEW h \in Resumers, ResumeNotify(h) PROVE IsAborted(e)'
  <2>1. hitl[h].run \in Runs /\ Unbegun(h) /\ h \in Execs
    BY <1>3, BegunNow DEF Execs
  <2> QED
    BY <1>1, <1>3, <2>1 DEF ResumeNotify
<1>4. ASSUME NEW b \in Execs, ExecEnd(b) PROVE IsAborted(e)'
  BY <1>0, <1>4 DEF ExecEnd, NoExec, AtWork, IsAborted
<1>5. CASE /\ ~PumpBegin
           /\ \A h \in Resumers : ~ResumeNotify(h)
           /\ \A b \in Execs : ~ExecEnd(b)
  BY <1>5, QuietCtl DEF IsAborted
<1> QED
  BY <1>2, <1>3, <1>4, <1>5

-----------------------------------------------------------------------------
(* Results after the signal *)

\* A step of one execution that raises no signal leaves the others warned.
LEMMA OwnWarned ==
  ASSUME LateInv, UNCHANGED aborted, NEW e \in Execs, Warned(e)',
         \A d \in Execs \ {e} :
           exec'[d] = exec[d] /\ flow'[d] = flow[d] /\ late'[d] = late[d]
  PROVE  LateInv'
BY DEF LateInv, Warned, AtWork, IsAborted

\* Inside a graph: whoever has stored its late result goes on without a call.
LEMMA GoesOn ==
  ASSUME PipelineTypeOK, LateInv, UNCHANGED <<exec, aborted, late>>,
         NEW e \in Execs, AtWork(e), NEW f, Step(e, f),
         late[e] # 0 => ~f.calling /\ f.node # "persist"
  PROVE  LateInv'
<1>1. flow'[e] = f /\ \A d \in Execs \ {e} : flow'[d] = flow[d]
  BY DEF Step, PipelineTypeOK
<1>2. Warned(e)
  BY DEF LateInv
<1>3. Warned(e)'
  BY <1>1, <1>2 DEF Warned, AtWork, IsAborted
<1> QED
  BY <1>1, <1>3, OwnWarned

LEMMA LateStep ==
  ASSUME Engine, PipelineTypeOK, FlowInv, PlaceInv, CtlInv, LateInv, PipelineNext
  PROVE  LateInv'
<1>0. /\ exec \in [Execs -> Exec] /\ flow \in [Execs -> Flow]
      /\ late \in [Execs -> Nat]
      /\ \A e \in Execs : exec[e] \in Exec /\ flow[e] \in Flow /\ Warned(e)
  BY DEF Engine, Slots, TypeOK, PipelineTypeOK, LateInv
<1>a. ASSUME NEW e \in Execs, AtWork(e), flow[e].calling \/ flow[e].node = "persist"
      PROVE  late[e] = 0
  BY <1>0, <1>a DEF Warned
<1>b. ASSUME NEW e \in Execs, UNCHANGED <<exec, aborted, late>>, AtWork(e),
             NEW f \in Flow, NEW node \in Nodes, node # "persist" \/ late[e] = 0,
             Step(e, AtNode(f, node))
      PROVE  LateInv'
  <2>1. AtNode(f, node).calling = FALSE /\ AtNode(f, node).node = node
    BY <1>b DEF AtNode, Flow
  <2> QED
    BY <1>b, <2>1, GoesOn
<1>c. ASSUME NEW e \in Execs, exec'[e].pc \notin {"load", "prepare", "work"},
             UNCHANGED <<aborted, late>>,
             \A d \in Execs \ {e} : exec'[d] = exec[d] /\ flow'[d] = flow[d]
      PROVE  LateInv'
  <2>1. Warned(e)'
    BY <1>0, <1>c DEF Warned, AtWork
  <2> QED
    BY <1>c, <2>1, OwnWarned
<1>1. ASSUME NEW e \in Execs, Load(e) \/ Prepare(e) PROVE LateInv'
  <2>1. late[e] = 0 /\ UNCHANGED <<aborted, late>>
    BY <1>0, <1>1 DEF Load, Prepare, ExecLoad, ExecPrepare, Warned
  <2>2. \A d \in Execs \ {e} : exec'[d] = exec[d] /\ flow'[d] = flow[d]
    BY <1>0, <1>1 DEF Load, Prepare, ExecLoad, ExecPrepare, Goto, Leave, Step
  <2>3. Warned(e)'
    BY <2>1 DEF Warned
  <2> QED
    BY <2>1, <2>2, <2>3, OwnWarned
<1>2. ASSUME NEW e \in Execs, Clear(e) \/ Keep(e) \/ NextIdea(e) PROVE LateInv'
  <2>1. PICK f : /\ Step(e, f) /\ f.node \in {"context", "end"}
                 /\ f.calling = flow[e].calling
    <3>1. CASE Clear(e) \/ Keep(e)
      BY <1>0, <1>2, <3>1 DEF Clear, Keep, Flow
    <3>2. CASE NextIdea(e)
      <4> DEFINE f == [flow[e] EXCEPT !.node = "context", !.pos = @ + 1]
      <4>1. Step(e, f)
        BY <3>2 DEF NextIdea
      <4>2. f.node = "context" /\ f.calling = flow[e].calling
        BY <1>0 DEF Flow
      <4> HIDE DEF f
      <4> QED
        BY <4>1, <4>2
    <3> QED
      BY <1>2, <3>1, <3>2
  <2>2. AtWork(e) /\ UNCHANGED <<exec, aborted, late>>
    BY <1>2 DEF Clear, Keep, NextIdea, vars
  <2>3. late[e] # 0 => ~f.calling /\ f.node # "persist"
    BY <1>a, <2>1, <2>2
  <2> QED
    BY <2>1, <2>2, <2>3, GoesOn
<1>3. ASSUME NEW e \in Execs, LoadContext(e) PROVE LateInv'
  <2> DEFINE f == [flow[e] EXCEPT !.count = flow[e].base[flow[e].phase],
                                  !.verdict = "none", !.fresh = FALSE]
  <2>1. Step(e, AtNode(f, "write")) /\ AtWork(e) /\ UNCHANGED <<exec, aborted, late>>
    BY <1>3 DEF LoadContext, vars
  <2>2. flow[e].base[flow[e].phase] \in Nat
    BY <1>0 DEF Flow
  <2>3. f \in Flow
    BY <1>0, <2>2, FlowFields
  <2> HIDE DEF f
  <2> QED
    BY <1>b, <2>1, <2>3 DEF Nodes, Agents
<1>4. ASSUME NEW e \in Execs, HopCall(e) PROVE LateInv'
  <2> DEFINE f == [flow[e] EXCEPT !.calling = TRUE]
  <2>1. /\ Step(e, f) /\ AtWork(e) /\ UNCHANGED <<exec, aborted, late>>
        /\ ~IsAborted(e)
    BY <1>4 DEF HopCall, vars
  <2>2. late[e] = 0
    BY <1>0, <2>1 DEF Warned
  <2> HIDE DEF f
  <2> QED
    BY <2>1, <2>2, GoesOn
<1>5. ASSUME NEW e \in Execs, HopRetry(e) PROVE LateInv'
  <2>1. PICK reason \in HopRetryable :
          Step(e, [flow[e] EXCEPT !.attempt = @ + 1, !.calling = FALSE,
                                  !.bad = @ \cup Refused(flow[e], reason)])
    BY <1>5 DEF HopRetry
  <2> DEFINE f == [flow[e] EXCEPT !.attempt = @ + 1, !.calling = FALSE,
                                  !.bad = @ \cup Refused(flow[e], reason)]
  <2>2. Step(e, f) /\ AtWork(e) /\ UNCHANGED <<exec, aborted, late>> /\ late[e] = 0
    BY <1>5, <1>a, <2>1 DEF HopRetry, vars
  <2> HIDE DEF f
  <2> QED
    BY <2>2, GoesOn
<1>6. ASSUME NEW e \in Execs, Written(e) \/ Count(e) PROVE LateInv'
  <2>1. Step(e, AtNode(flow[e], "verify")) /\ AtWork(e) /\ UNCHANGED <<exec, aborted, late>>
    BY <1>6 DEF Written, Count, vars
  <2> QED
    BY <1>0, <1>b, <2>1 DEF Nodes, Agents
<1>7. ASSUME NEW e \in Execs, Verified(e) PROVE LateInv'
  <2>1. PICK v \in {"ok", "rejected"} :
          Step(e, AtNode([flow[e] EXCEPT !.verdict = v, !.fresh = TRUE],
                         RouteAfterConsistencyVerifier(v, flow[e].count)))
    BY <1>7 DEF Verified
  <2> DEFINE f == [flow[e] EXCEPT !.verdict = v, !.fresh = TRUE]
             node == RouteAfterConsistencyVerifier(v, flow[e].count)
  <2>2. /\ Step(e, AtNode(f, node)) /\ AtWork(e) /\ UNCHANGED <<exec, aborted, late>>
        /\ late[e] = 0
    BY <1>7, <1>a, <2>1 DEF Verified, vars
  <2>3. flow[e].count \in Nat
    BY <1>0 DEF Flow
  <2>4. node \in {"persist", "refine", "fail"}
    BY <2>3, Route
  <2>5. f \in Flow
    BY <1>0, FlowFields
  <2> HIDE DEF f, node
  <2> QED
    BY <1>b, <2>2, <2>4, <2>5 DEF Nodes, Agents
<1>8. ASSUME NEW e \in Execs, Refined(e) PROVE LateInv'
  <2> DEFINE f == [flow[e] EXCEPT !.count = @ + 1, !.fresh = FALSE]
  <2>1. PICK node \in {"count", "verify"} : Step(e, AtNode(f, node))
    BY <1>8 DEF Refined
  <2>2. f \in Flow
    BY <1>0, FlowFields
  <2>3. AtWork(e) /\ UNCHANGED <<exec, aborted, late>>
    BY <1>8 DEF Refined, vars
  <2> HIDE DEF f
  <2> QED
    BY <1>b, <2>1, <2>2, <2>3 DEF Nodes, Agents
<1>9. ASSUME NEW e \in Execs, PersistDraft(e) \/ PersistItem(e) \/ PersistOnly(e)
      PROVE  LateInv'
  <2>1. Persisted(e) /\ AtWork(e) /\ late[e] = 0
    BY <1>9, <1>a DEF PersistDraft, PersistItem, PersistOnly
  <2>2. PICK node \in {"keep", "end"} : Step(e, AtNode(flow[e], node))
    BY <2>1 DEF Persisted
  <2>3. AtNode(flow[e], node).calling = FALSE /\ AtNode(flow[e], node).node = node
    BY <1>0 DEF AtNode, Flow
  <2>4. /\ flow'[e] = AtNode(flow[e], node)
        /\ \A d \in Execs \ {e} : flow'[d] = flow[d] /\ late'[d] = late[d]
    BY <1>0, <2>1, <2>2 DEF Step, Persisted
  <2>5. late'[e] <= 1 /\ (late'[e] # 0 => IsAborted(e))
    BY <1>0, <2>1 DEF Persisted
  <2>6. UNCHANGED <<exec, aborted>>
    BY <2>1 DEF Persisted, engineOthers
  <2>7. Warned(e)'
    BY <2>1, <2>3, <2>4, <2>5, <2>6 DEF Warned, AtWork, IsAborted
  <2> QED
    BY <2>4, <2>6, <2>7, OwnWarned
<1>10. ASSUME NEW e \in Execs,
              HopAbort(e) \/ Outcome(e) \/ FailRun(e) \/ Break(e) \/ ExecutorThrow(e)
       PROVE  LateInv'
  <2>1. /\ exec'[e].pc \in {"final", "save", "rescue"}
        /\ \A d \in Execs \ {e} : exec'[d] = exec[d]
    <3>0. exec \in [Execs -> Exec] /\ exec[e] \in Exec
      BY <1>0
    <3>1. CASE ExecutorThrow(e)
      BY <3>0, <3>1, ThrowLeaves DEF ExecutorThrow
    <3>2. CASE Goto(e, "final") \/ \E to, c : Leave(e, to, c)
      <4>0. TypeOK
        BY DEF Engine, Slots
      <4>1. exec'[e].pc \in {"final", "save"}
        BY <3>2, <4>0, GotoShape, LeaveShape
      <4> QED
        BY <3>0, <3>2, <4>1, MoveKeeps
    <3> QED
      BY <1>10, <3>1, <3>2 DEF HopAbort, Outcome, FailRun, Break
  <2>2. Leaving(e) /\ UNCHANGED <<aborted, late>>
    BY <1>10 DEF HopAbort, Outcome, FailRun, Break, ExecutorThrow, ExecThrow,
                 engineOthers
  <2>3. \A d \in Execs \ {e} : flow'[d] = flow[d]
    BY <1>0, <2>2 DEF Leaving, Step
  <2> QED
    BY <1>c, <2>1, <2>2, <2>3
<1>11. ASSUME PipelineCrash PROVE LateInv'
  BY <1>11 DEF PipelineCrash, Crash, NoExec, LateInv, Warned, AtWork
<1>12. ASSUME ~PipelineCrash,
              \/ Surroundings
              \/ /\ UNCHANGED pipelineVars
                 /\ \E e \in Execs :
                      ExecSave(e) \/ ExecAnchor(e) \/ ExecRescue(e) \/ ExecEnd(e)
       PROVE  LateInv'
  <2>1. UNCHANGED <<flow, late>>
    BY <1>12 DEF Surroundings, pipelineVars
  <2>2. ~Crash /\ (Next \/ UNCHANGED vars)
    BY <1>12, OnlyCrash, EngineStep
  <2>3. ASSUME NEW d \in Execs PROVE Warned(d)'
    <3>1. Warned(d) /\ flow'[d] = flow[d] /\ late'[d] = late[d]
      BY <1>0, <2>1
    <3>2. exec'[d].pc \in {"load", "prepare"} => late[d] = 0
      <4>1. Unbegun(d) => late[d] = 0
        BY DEF CtlInv
      <4>2. /\ exec'[d].pc = "prepare" => exec'[d] = exec[d]
            /\ exec'[d].pc = "load" => exec'[d] = exec[d] \/ Unbegun(d)
        BY <1>12, OthersInGraph
      <4> QED
        BY <3>1, <4>1, <4>2 DEF Warned
    <3>3. ASSUME AtWork(d)', late[d] # 0
          PROVE  IsAborted(d)' /\ ~flow[d].calling /\ flow[d].node # "persist"
      <4>1. exec'[d] = exec[d]
        BY <1>12, <3>3, OthersInGraph DEF AtWork
      <4>2. AtWork(d)
        BY <3>3, <4>1 DEF AtWork
      <4>3. IsAborted(d) /\ ~flow[d].calling /\ flow[d].node # "persist"
        BY <3>1, <3>3, <4>2 DEF Warned
      <4>4. CASE Next
        BY <2>2, <3>3, <4>2, <4>3, <4>4, AbortKept
      <4>5. CASE UNCHANGED vars
        BY <4>3, <4>5 DEF vars, IsAborted
      <4> QED
        BY <2>2, <4>4, <4>5
    <3> QED
      BY <3>1, <3>2, <3>3 DEF Warned
  <2> QED
    BY <2>3 DEF LateInv
<1> QED
  BY <1>1, <1>2, <1>3, <1>4, <1>5, <1>6, <1>7, <1>8, <1>9, <1>10, <1>11, <1>12
  DEF PipelineNext, ExecutorStep, GraphStep

-----------------------------------------------------------------------------
(* The theorems *)

GraphInv ==
  Engine /\ PipelineTypeOK /\ FlowInv /\ PlaceInv /\ StoredInv /\ CtlInv /\ LateInv

LEMMA EngineKept ==
  ASSUME Engine, Next \/ UNCHANGED vars
  PROVE  Engine'
<1>1. ASSUME Next PROVE Engine'
  <2>1. Slots'
    BY <1>1, TypeStep, ControlStep, SlotStep DEF Engine, Slots
  <2>2. Caps' /\ Pool'
    BY <1>1, <2>1, CapStep, PoolStep DEF Engine
  <2>3. OrderInv'
    BY <1>1, HolderStep, RecoveringStep, AgeStep, FoundStep DEF Engine, OrderInv
  <2> QED
    BY <2>1, <2>2, <2>3 DEF Engine
<1>2. ASSUME UNCHANGED vars PROVE Engine'
  BY <1>2, StutterInv, OrderStutterInv DEF Engine
<1> QED
  BY <1>1, <1>2

LEMMA GraphInit ==
  ASSUME PipelineInit
  PROVE  GraphInv
<1>1. Engine
  BY InitInv, OrderInitInv DEF PipelineInit, Engine
<1>2. ZeroCounts \in [Phases -> Nat] /\ NoResult \in Result
  BY DEF ZeroCounts, NoResult, Result
<1>3. PipelineTypeOK
  BY <1>2, NoFlowSound DEF PipelineInit, PipelineTypeOK
<1>4. FlowInv
  BY NoFlowSound DEF PipelineInit, FlowInv
<1>5. PlaceInv
  BY DEF PipelineInit, Init, NoExec, PlaceInv, Placed, AtWork
<1>6. StoredInv
  <2>1. <<>> \in Seq(VerifiedItem)
    OBVIOUS
  <2>2. \A r \in Runs : result[r].ideas = <<>> /\ result[r].items = <<>>
    BY DEF PipelineInit, NoResult
  <2> QED
    BY <2>1, <2>2 DEF StoredInv
<1>7. CtlInv /\ LateInv
  <2>1. None \notin Execs /\ Execs = Runs \cup Resumers
    BY EngineAssumption DEF EngineAssumption, Execs
  <2> QED
    BY <2>1
    DEF PipelineInit, Init, NoExec, CtlInv, LateInv, Warned, AtWork, Up
<1> QED
  BY <1>1, <1>3, <1>4, <1>5, <1>6, <1>7 DEF GraphInv

LEMMA GraphStutter ==
  ASSUME GraphInv, UNCHANGED allVars
  PROVE  GraphInv'
<1>1. UNCHANGED vars /\ UNCHANGED <<flow, result, refined, late>>
  BY DEF allVars, pipelineVars
<1>2. Engine'
  BY <1>1, EngineKept DEF GraphInv
<1>3. PipelineTypeOK' /\ FlowInv' /\ StoredInv'
  BY <1>1 DEF GraphInv, PipelineTypeOK, FlowInv, StoredInv
<1>4. PlaceInv'
  BY <1>1 DEF GraphInv, PlaceInv, Placed, AtWork, Of, NeedsChoice, PhaseOf, vars
<1>5. CtlInv' /\ LateInv'
  BY <1>1 DEF GraphInv, CtlInv, Unbegun, TakenUp, Status, Up, LateInv, Warned, AtWork,
              IsAborted, vars
<1> QED
  BY <1>2, <1>3, <1>4, <1>5 DEF GraphInv

LEMMA GraphStepInv ==
  ASSUME GraphInv, PipelineNext
  PROVE  GraphInv'
<1>1. Engine'
  BY EngineStep, EngineKept DEF GraphInv
<1> QED
  BY <1>1, PipelineTypeStep, FlowStep, PlaceStep, ResultStep, CtlStep, LateStep
  DEF GraphInv

LEMMA GraphInductive == PipelineSpec => []GraphInv
<1>1. GraphInv /\ [PipelineNext]_allVars => GraphInv'
  BY GraphStepInv, GraphStutter
<1> QED
  BY <1>1, GraphInit, PTL DEF PipelineSpec

\* The state of the graphs and of the tables they fill keeps its type: no hop
\* is beyond MAX_GATEWAY_ATTEMPTS, no item is written for an idea outside the
\* choice (LlmHopService, the facades' loop).
THEOREM GraphsTypeCorrect == PipelineSpec => []PipelineTypeOK
<1>1. GraphInv => PipelineTypeOK
  BY DEF GraphInv
<1> QED
  BY <1>1, GraphInductive, PTL

\* Whatever fails, is retried, cancelled or crashes, only a text the verifier
\* accepted as it is stored reaches the tables (the graphs' routers).
THEOREM OnlyVerifiedIsStored == PipelineSpec => []StoredIsVerified
<1>1. GraphInv => StoredIsVerified
  <2>1. ASSUME NEW s \in Seq(VerifiedItem), NEW i \in DOMAIN s PROVE s[i].verified
    BY <2>1 DEF VerifiedItem
  <2> QED
    BY <2>1 DEF GraphInv, StoredInv, StoredIsVerified
<1> QED
  BY <1>1, GraphInductive, PTL

\* For any number of attempts and any mix of failures a hop never sends again
\* a prompt whose reply failed validation (hopUserContent).
THEOREM NoPromptTwice == PipelineSpec => []BadPromptNotRepeated
<1>1. GraphInv => BadPromptNotRepeated
  <2>1. ASSUME NEW f \in Flow, Sound(f) PROVE HopUserContent(f) \notin f.bad
    <3>1. f.attempt \in Nat
      BY PipelineAssumption DEF PipelineAssumption, Flow
    <3> QED
      BY <2>1, <3>1 DEF Sound, HopUserContent
  <2> QED
    BY <2>1 DEF GraphInv, FlowInv, PipelineTypeOK, BadPromptNotRepeated
<1> QED
  BY <1>1, GraphInductive, PTL

\* After an abort at most the result of the hop that was in flight is stored,
\* whoever shares the controller and however often the run is resumed
\* (throwIfAborted).
THEOREM StopsSoonAfterAbort == PipelineSpec => []StopsAfterOneResult
<1>1. GraphInv => StopsAfterOneResult
  BY DEF GraphInv, LateInv, Warned, StopsAfterOneResult
<1> QED
  BY <1>1, GraphInductive, PTL

\* The safety half of ImplementsEngine: the graphs of both pipelines, with
\* their loops, hops and retries, do nothing to the rows, the registry and the
\* slots but what RunEngine says an execution at work may do.
THEOREM RefinesEngine == PipelineSpec => Spec
<1>1. PipelineInit => Init
  BY DEF PipelineInit
<1>2. GraphInv /\ [PipelineNext]_allVars => [Next]_vars
  <2>1. ASSUME GraphInv, PipelineNext PROVE [Next]_vars
    BY <2>1, EngineStep DEF GraphInv
  <2>2. ASSUME UNCHANGED allVars PROVE [Next]_vars
    BY <2>2 DEF allVars
  <2> QED
    BY <2>1, <2>2
<1> QED
  BY <1>1, <1>2, GraphInductive, PTL DEF PipelineSpec, Spec

-----------------------------------------------------------------------------
(* Corrections made and corrections counted                                 *)

\* Of w corrections per phase the counters c have missed k at most.
Paid(c, w, k) == \A p \in Phases : w[p] <= c[p] + k

Counted(r) == Paid(result[r].counts, refined[r], spent.crashes)

\* Whoever holds the run has not begun to correct, or is done until the choice.
Before(t) ==
  \/ ~Working(t)
  \/ exec[t].pc \in {"load", "prepare"}
  \/ exec[t].pc = "save" /\ exec[t].to = "awaiting_hitl"

\* Corrections of the run may go on, but nobody is at one.
Rests(r) ==
  \/ ~Up
  \/ Status(r) \in {"absent", "queued", "interrupted", "awaiting_hitl"}
  \/ \E h \in Resumers : Choosing(h) /\ hitl[h].run = r
  \/ \E t \in Execs : Has(t, r) /\ Before(t)

\* Only a run that rests is sure to have counted everything: a counter that
\* could not be saved is one behind until a crash accounts for it.
BudgetInv ==
  \A r \in ContentRuns :
    /\ \A p \in Phases :
         /\ result[r].counts[p] <= MaxRefine
         /\ refined[r][p] <= MaxRefine + spent.crashes
         /\ refined[r][p] <= result[r].counts[p] + spent.crashes + 1
    /\ Rests(r) => Counted(r)

Settled == Agents \cup {"persist", "keep", "fail", "end"}

\* The counter in the graph's state, between two saves.
InCount(f, c, w, k) ==
  /\ f.node \in Settled \cup {"context", "count"}
  /\ f.node = "context" => f.base = c /\ Paid(c, w, k)
  /\ f.node \in Settled => f.count = c[f.phase] /\ Paid(c, w, k)
  /\ f.node = "refine" => f.count < MaxRefine
  /\ f.node = "count" =>
       /\ f.count = c[f.phase] + 1 /\ f.count <= MaxRefine
       /\ Paid([c EXCEPT ![f.phase] = f.count], w, k)

Counting(e) ==
  /\ exec[e].pc = "prepare" => flow[e].base = result[Of(e)].counts
  /\ AtWork(e) =>
       InCount(flow[e], result[Of(e)].counts, refined[Of(e)], spent.crashes)

CountingInv == \A e \in Execs : IsContent(e) => Counting(e)

\* A graph has its run to itself.
LEMMA Owner ==
  ASSUME Engine, HandInv, NEW e \in Execs, exec[e].pc \in {"prepare", "work"}
  PROVE  /\ Of(e) \in Runs /\ Up /\ Has(e, Of(e)) /\ Status(Of(e)) \in Fresh
         /\ \A d \in Execs \ {e} : ~Has(d, Of(e))
<1>1. Of(e) \in Runs /\ Up
  BY DEF Engine, Slots, Control, ExecInv, BootInv, Live, Of
<1>2. Has(e, Of(e)) /\ Working(e)
  BY DEF Has, Working, Of
<1>3. May(e) = Fresh
  BY <1>2 DEF May, StageOf
<1> QED
  BY <1>1, <1>2, <1>3 DEF HandInv

LEMMA BusyRun ==
  ASSUME Engine, HandInv, AloneInv, NEW e \in Execs, AtWork(e)
  PROVE  ~Rests(Of(e))
<1>1. ~Before(e)
  BY DEF Before, AtWork, Working
<1> QED
  BY <1>1, Owner DEF Rests, AloneInv, AtWork, Fresh

\* A run comes to rest when its graph asks for a choice, and in no other way.
LEMMA RestsCause ==
  ASSUME Engine, HandInv, Next, ~Crash, NEW r \in Runs, Rests(r)'
  PROVE  \/ Rests(r)
         \/ \E e \in Execs : ExecOutcome(e) /\ NeedsChoice(e) /\ exec[e].run = r
<1> DEFINE Goal == \/ Rests(r)
                   \/ \E e \in Execs :
                        ExecOutcome(e) /\ NeedsChoice(e) /\ exec[e].run = r
<1>0. /\ Slots /\ OrderInv /\ Control /\ exec \in [Execs -> Exec]
      /\ hitl \in [Resumers -> [pc  : {"idle", "select", "save", "notify", "done"},
                                run : Runs \cup {None}]]
  BY DEF Engine, Slots, TypeOK
<1>1. CASE ~Up
  BY <1>1 DEF Rests
<1>2. CASE Up /\ Up' /\ Status(r)' \in {"absent", "queued", "interrupted", "awaiting_hitl"}
  <2>1. Caused(r)
    BY <1>0, StatusCause DEF StatusMoved
  <2>2. ASSUME NEW e \in Execs, ExecSave(e), exec[e].run = r, Status(r)' = exec[e].to
        PROVE  Goal
    <3>1. exec[e].to = "awaiting_hitl" /\ exec[e].pc = "save"
      BY <1>0, <1>2, <2>2 DEF ExecSave, Exec
    <3>2. Has(e, r) /\ Before(e)
      BY <2>2, <3>1 DEF Has, Working, Before
    <3> QED
      BY <3>2 DEF Rests
  <2>3. CASE Status(r) \in {"absent", "queued", "interrupted", "awaiting_hitl"}
    BY <2>3 DEF Rests
  <2> HIDE DEF Goal
  <2>4. Goal
    BY <1>2, <2>1, <2>2, <2>3 DEF Caused, Claims, Goal
  <2> QED
    BY <2>4 DEF Goal
<1>3. ASSUME NEW h \in Resumers, Choosing(h)', hitl'[h].run = r PROVE Goal
  <2>1. CASE Choosing(h) /\ hitl[h].run = r
    BY <2>1 DEF Rests
  <2>2. CASE \E q \in Runs : ResumeRead(h, q)
    <3>1. Status(r) = "awaiting_hitl"
      BY <1>0, <1>3, <2>2 DEF ResumeRead
    <3> QED
      BY <3>1 DEF Rests
  <2>3. CASE ResumeSelect(h)
    <3>1. Choosing(h) /\ hitl'[h].run = hitl[h].run
      BY <1>0, <2>3 DEF ResumeSelect, Choosing, HitlGoto
    <3> QED
      BY <1>3, <2>1, <3>1
  <2>4. CASE hitl'[h] = hitl[h]
    BY <1>3, <2>1, <2>4 DEF Choosing
  <2>5. hitl'[h].pc \in {"select", "save"}
    BY <1>3 DEF Choosing
  <2>6. ~ResumeSave(h)
    BY <1>0, <2>5 DEF ResumeSave, HitlGoto
  <2>7. ASSUME ResumeNotify(h) \/ ResumeThrow(h) PROVE FALSE
    <3>1. hitl' = [hitl EXCEPT ![h] = [pc |-> "done", run |-> None]]
      BY <2>7 DEF ResumeNotify, ResumeThrow
    <3>2. hitl'[h].pc = "done"
      BY <1>0, <3>1
    <3> QED
      BY <2>5, <3>2
  <2> HIDE DEF Goal
  <2> QED
    BY <1>0, <2>1, <2>2, <2>3, <2>4, <2>6, <2>7, HitlTurn DEF ResumeStep, Goal
<1>4. ASSUME NEW t \in Execs, Has(t, r)', Before(t)' PROVE Goal
  <2>1. CASE ~Has(t, r)
    <3>1. \/ Status(r) \in {"queued", "interrupted"}
          \/ t \in Resumers /\ ResumeSave(t) /\ hitl[t].run = r
      BY <1>0, <1>4, <2>1, HandTaken
    <3> QED
      BY <3>1 DEF Rests, ResumeSave, Choosing
  <2>2. CASE Has(t, r) /\ Before(t)
    BY <2>2 DEF Rests
  <2>3. CASE Has(t, r) /\ ~Before(t)
    <3>1. /\ Working(t) /\ Live(t) /\ exec[t].run = r
          /\ exec[t].pc \in {"work", "save", "anchor", "rescue"}
      <4>1. Working(t) /\ exec[t] \in Exec
        BY <1>0, <2>3 DEF Before
      <4>2. Live(t)
        BY <4>1 DEF Working, Live
      <4>3. /\ t \in Resumers => hitl[t].pc = "done"
            /\ ~(pump.pc = "claimed" /\ pump.run = t)
        BY <1>0, <4>2 DEF Control, ExecInv, PumpInv
      <4> QED
        BY <2>3, <4>1, <4>2, <4>3 DEF Before, Has, Exec, Working
    <3>2. exec'[t] # exec[t]
      BY <1>4, <2>3 DEF Before, Working
    <3>3. ~ExecEnd(t)
      BY <3>1 DEF ExecEnd
    <3>4. Inside(t)
      BY <1>0, <3>1, <3>2, <3>3, ExecTurn
    <3>5. ~ExecLoad(t) /\ ~ExecPrepare(t) /\ ~ExecPersistDraft(t)
      BY <3>1, <3>2 DEF ExecLoad, ExecPrepare, ExecPersistDraft, memory
    <3>6. UNCHANGED pump /\ UNCHANGED hitl
      BY <3>4, <3>5 DEF Inside, ExecOutcome, ExecFail, ExecAbort, ExecSave, ExecAnchor,
                        ExecRescue, ExecThrow, handlers
    <3>7. Working(t)'
      <4>1. /\ t \in Resumers => hitl[t].pc = "done"
            /\ ~(pump.pc = "claimed" /\ pump.run = t)
        BY <1>0, <3>1 DEF Control, ExecInv, PumpInv
      <4> QED
        BY <1>4, <3>6, <4>1 DEF Has
    <3>8. ASSUME NEW pc, Goto(t, pc) PROVE exec'[t].pc = pc
      BY <1>0, <3>8 DEF Goto, Exec
    <3>9. ASSUME NEW to, NEW c, Leave(t, to, c)
          PROVE  exec'[t].pc = "save" /\ exec'[t].to = to
      BY <1>0, <3>9 DEF Leave, Exec
    <3>10. exec' = [exec EXCEPT ![t] = [@ EXCEPT !.pc = "rescue", !.catcher = "nobody"]]
           => exec'[t].pc = "rescue"
      BY <1>0 DEF Exec
    <3>11. ~ExecAbort(t) /\ ~ExecSave(t) /\ ~ExecAnchor(t) /\ ~ExecRescue(t)
           /\ ~ExecThrow(t) /\ ~ExecFail(t)
      BY <1>4, <3>7, <3>8, <3>9, <3>10
      DEF ExecAbort, ExecSave, ExecAnchor, ExecRescue, ExecThrow, ExecFail, Before,
          Working
    <3>12. ExecOutcome(t)
      BY <3>4, <3>5, <3>11 DEF Inside
    <3>13. NeedsChoice(t)
      BY <1>4, <3>7, <3>9, <3>12 DEF ExecOutcome, Before, Working
    <3> QED
      BY <3>1, <3>12, <3>13
  <2> QED
    BY <2>1, <2>2, <2>3
<1>5. CASE ~Up' /\ Up
  BY <1>0, <1>5, OthersServe DEF Up
<1> HIDE DEF Goal
<1>6. Goal
  BY <1>1, <1>2, <1>3, <1>4, <1>5 DEF Rests, Goal
<1> QED
  BY <1>6 DEF Goal

LEMMA AtNodeKeeps ==
  ASSUME NEW f \in Flow, NEW node
  PROVE  LET g == AtNode(f, node)
         IN  /\ g.node = node /\ g.phase = f.phase /\ g.base = f.base
             /\ g.count = f.count /\ g.pos = f.pos
BY DEF AtNode, Flow

\* The counters say what they said, or a correction was made or counted.
LEMMA CountsEffect ==
  ASSUME Engine, PipelineTypeOK, FlowInv, PlaceInv, CountingInv, PipelineNext,
         NEW r \in ContentRuns
  PROVE  \/ result'[r].counts = result[r].counts /\ refined'[r] = refined[r]
         \/ \E e \in Execs : (Count(e) \/ Refined(e)) /\ Of(e) = r
<1> DEFINE Same == result'[r].counts = result[r].counts /\ refined'[r] = refined[r]
<1>0. /\ result \in [Runs -> Result] /\ refined \in [ContentRuns -> [Phases -> Nat]]
      /\ \A e \in Execs : flow[e] \in Flow
      /\ r \in Runs /\ result[r] \in Result
      /\ \A e \in Execs : exec[e].pc \in {"prepare", "work"} => Of(e) \in Runs
  BY PipelineAssumption
  DEF PipelineTypeOK, PipelineAssumption, Engine, Slots, Control, ExecInv, Live, Of
<1>1. ASSUME NEW q \in Runs, NEW c, result' = [result EXCEPT ![q].counts = c],
             q = r => c = result[r].counts, UNCHANGED refined
      PROVE  Same
  BY <1>0, <1>1 DEF Result
<1>2. ASSUME NEW q \in Runs, NEW s, UNCHANGED refined,
             \/ result' = [result EXCEPT ![q].items = s]
             \/ result' = [result EXCEPT ![q].ideas = s]
      PROVE  Same
  <2>1. CASE result' = [result EXCEPT ![q].items = s]
    BY <1>0, <1>2, <2>1 DEF Result
  <2>2. CASE result' = [result EXCEPT ![q].ideas = s]
    BY <1>0, <1>2, <2>2 DEF Result
  <2> QED
    BY <1>2, <2>1, <2>2
<1>3. ASSUME NEW e \in Execs, Prepare(e) PROVE Same
  <2>1. exec[e].pc = "prepare" /\ Of(e) \in Runs
    BY <1>0, <1>3 DEF Prepare, ExecPrepare
  <2>2. Of(e) = r => flow[e].base = result[r].counts
    BY <2>1 DEF CountingInv, Counting, IsContent
  <2> QED
    BY <1>1, <1>3, <2>1, <2>2 DEF Prepare
<1>4. ASSUME NEW e \in Execs, Keep(e) \/ FailRun(e) PROVE Same
  <2>1. AtWork(e) /\ Of(e) \in Runs /\ flow[e].node \in {"keep", "fail"}
    BY <1>0, <1>4 DEF Keep, FailRun, AtWork
  <2>2. Of(e) = r => SavedCount(e) = result[r].counts
    <3>1. ASSUME Of(e) = r PROVE SavedCount(e) = result[r].counts
      <4>1. flow[e].count = result[r].counts[flow[e].phase]
        BY <2>1, <3>1 DEF CountingInv, Counting, InCount, IsContent, Settled
      <4>2. result[r].counts \in [Phases -> Nat] /\ flow[e].phase \in Phases
        BY <1>0 DEF Result, Flow
      <4> QED
        BY <3>1, <4>1, <4>2 DEF SavedCount
    <3> QED
      BY <3>1
  <2>3. UNCHANGED refined
    BY <1>4 DEF Keep, FailRun
  <2>4. UNCHANGED result \/ result' = [result EXCEPT ![Of(e)].counts = SavedCount(e)]
    BY <1>4 DEF Keep, FailRun
  <2> HIDE DEF Same
  <2>5. UNCHANGED <<result, refined>> => Same
    BY DEF Same
  <2> QED
    BY <1>1, <2>1, <2>2, <2>3, <2>4, <2>5
<1>5. ASSUME NEW e \in Execs, Clear(e) \/ PersistDraft(e) \/ PersistItem(e) \/ PersistOnly(e)
      PROVE  Same
  <2>1. AtWork(e) /\ Of(e) \in Runs /\ UNCHANGED refined
    BY <1>0, <1>5 DEF Clear, PersistDraft, PersistItem, PersistOnly, Persisted, AtWork
  <2>2. \E s : \/ result' = [result EXCEPT ![Of(e)].items = s]
               \/ result' = [result EXCEPT ![Of(e)].ideas = s]
    <3>1. ASSUME NEW x PROVE [result EXCEPT ![Of(e)].items = Append(@, x)]
              = [result EXCEPT ![Of(e)].items = Append(result[Of(e)].items, x)]
      BY <1>0, <2>1
    <3> QED
      BY <1>5, <3>1 DEF Clear, PersistDraft, PersistItem, PersistOnly
  <2> QED
    BY <1>2, <2>1, <2>2
<1>6. ASSUME UNCHANGED <<result, refined>> PROVE Same
  BY <1>6
<1>7. ASSUME NEW e \in Execs, Count(e) \/ Refined(e) PROVE Same \/ Of(e) = r
  <2>1. AtWork(e) /\ Of(e) \in Runs
    BY <1>0, <1>7 DEF Count, Refined, AtWork
  <2>2. CASE Count(e)
    BY <1>1, <2>1, <2>2 DEF Count
  <2>3. CASE Refined(e)
    BY <1>0, <2>3 DEF Refined, CountRefined
  <2> QED
    BY <1>7, <2>2, <2>3
<1>8. ASSUME NEW e \in Execs,
             \/ Load(e) \/ LoadContext(e) \/ HopCall(e) \/ HopAbort(e) \/ HopRetry(e)
             \/ Written(e) \/ Verified(e) \/ NextIdea(e) \/ Outcome(e) \/ Break(e)
             \/ ExecutorThrow(e)
      PROVE  Same
  BY <1>6, <1>8 DEF Load, LoadContext, HopCall, HopAbort, HopRetry, Written, Verified,
                    NextIdea, Outcome, Break, ExecutorThrow
<1>9. ASSUME PipelineCrash \/ Surroundings \/ UNCHANGED pipelineVars PROVE Same
  BY <1>6, <1>9 DEF PipelineCrash, Surroundings, pipelineVars
<1> HIDE DEF Same
<1>10. Same \/ \E e \in Execs : (Count(e) \/ Refined(e)) /\ Of(e) = r
  BY <1>3, <1>4, <1>5, <1>7, <1>8, <1>9 DEF PipelineNext, ExecutorStep, GraphStep
<1> QED
  BY <1>10 DEF Same

\* A step of one graph is no step of another.
LEMMA GraphOfOne ==
  ASSUME Engine, PipelineTypeOK, NEW e \in Execs,
         Load(e) \/ Prepare(e) \/ GraphStep(e) \/ ExecutorThrow(e)
  PROVE  \A d \in Execs \ {e} : exec'[d] = exec[d] /\ flow'[d] = flow[d]
<1>0. /\ exec \in [Execs -> Exec] /\ flow \in [Execs -> Flow]
      /\ TypeOK
  BY DEF Engine, Slots, TypeOK, PipelineTypeOK
<1> DEFINE Others(fun) == \A d \in Execs \ {e} : fun'[d] = fun[d]
<1>1. (\E pc : Goto(e, pc)) \/ (\E to, c : Leave(e, to, c)) \/ UNCHANGED exec
      => Others(exec)
  BY <1>0 DEF Goto, Leave
<1>2. \A f : Step(e, f) => Others(flow)
  BY <1>0 DEF Step
<1>3. Leaving(e) => Others(flow)
  BY <1>2 DEF Leaving
<1> HIDE DEF Others
<1>4. CASE Load(e)
  BY <1>1, <1>2, <1>4 DEF Load, ExecLoad, Others
<1>5. CASE Prepare(e)
  <2>1. Others(exec)
    BY <1>0, <1>1, <1>5 DEF Prepare, ExecPrepare, Others
  <2> QED
    BY <1>2, <1>5, <2>1 DEF Prepare, Others
<1>6. CASE \/ Clear(e) \/ LoadContext(e) \/ HopCall(e) \/ HopRetry(e) \/ Written(e)
           \/ Verified(e) \/ Refined(e) \/ Count(e) \/ Keep(e) \/ NextIdea(e)
  <2>1. UNCHANGED exec
    BY <1>6 DEF Clear, LoadContext, HopCall, HopRetry, Written, Verified, Refined,
       Count, Keep, NextIdea, vars
  <2>2. \E f : Step(e, f)
    BY <1>6 DEF Clear, LoadContext, HopCall, HopRetry, Written, Verified, Refined,
       Count, Keep, NextIdea
  <2> QED
    BY <1>1, <1>2, <2>1, <2>2 DEF Others
<1>7. CASE PersistDraft(e) \/ PersistItem(e) \/ PersistOnly(e)
  <2>1. UNCHANGED exec /\ \E f : Step(e, f)
    BY <1>7 DEF PersistDraft, PersistItem, PersistOnly, Persisted
  <2> QED
    BY <1>1, <1>2, <2>1 DEF Others
<1>8. CASE HopAbort(e) \/ Outcome(e) \/ FailRun(e) \/ Break(e)
  <2>1. (\E pc : Goto(e, pc)) \/ (\E to, c : Leave(e, to, c))
    BY <1>8 DEF HopAbort, Outcome, FailRun, Break
  <2>2. Leaving(e)
    BY <1>8 DEF HopAbort, Outcome, FailRun, Break
  <2> QED
    BY <1>1, <1>3, <2>1, <2>2 DEF Others
<1>9. CASE ExecutorThrow(e)
  <2>1. Others(exec)
    BY <1>0, <1>9, ThrowLeaves DEF ExecutorThrow, Others
  <2> QED
    BY <1>3, <1>9, <2>1 DEF ExecutorThrow, Others
<1> QED
  BY <1>4, <1>5, <1>6, <1>7, <1>8, <1>9 DEF GraphStep

\* A graph stays with its run while it is in it.
LEMMA SameRun ==
  ASSUME Engine, NEW e \in Execs, Load(e) \/ Prepare(e) \/ GraphStep(e)
  PROVE  exec'[e].run = exec[e].run /\ exec'[e].sel = exec[e].sel
<1>0. exec \in [Execs -> Exec] /\ exec[e] \in Exec
  BY DEF Engine, Slots, TypeOK
<1>1. (\E pc : Goto(e, pc)) \/ (\E to, c : Leave(e, to, c)) \/ UNCHANGED exec
      => exec'[e].run = exec[e].run /\ exec'[e].sel = exec[e].sel
  BY <1>0, MoveKeeps
<1>2. CASE Load(e)
  BY <1>1, <1>2 DEF Load, ExecLoad
<1>3. CASE Prepare(e)
  <2>1. Goto(e, "final") \/ Turn(e, "work", "executor")
    BY <1>3 DEF Prepare, ExecPrepare, Turn
  <2> QED
    BY <1>0, <1>1, <2>1, TurnKeeps
<1>4. CASE GraphStep(e)
  <2>1. (\E pc : Goto(e, pc)) \/ (\E to, c : Leave(e, to, c)) \/ UNCHANGED exec
    BY <1>4 DEF GraphStep, Clear, LoadContext, HopCall, HopAbort, HopRetry, Written,
       Verified, Refined, Count, PersistDraft, PersistItem, PersistOnly, Persisted, Keep,
       NextIdea, Outcome, FailRun, Break, vars
  <2> QED
    BY <1>1, <2>1
<1> QED
  BY <1>2, <1>3, <1>4

LEMMA GraphLeft ==
  ASSUME Engine, NEW e \in Execs,
         HopAbort(e) \/ Outcome(e) \/ FailRun(e) \/ Break(e) \/ ExecutorThrow(e)
  PROVE  /\ exec'[e].pc \notin {"prepare", "work"}
         /\ exec'[e].pc = "save" /\ exec'[e].to # "failed" => Outcome(e)
<1>0. TypeOK /\ exec \in [Execs -> Exec]
  BY DEF Engine, Slots, TypeOK
<1>1. CASE HopAbort(e)
  BY <1>0, <1>1, GotoShape DEF HopAbort
<1>2. CASE Outcome(e)
  BY <1>0, <1>2, LeaveShape DEF Outcome
<1>3. CASE FailRun(e)
  BY <1>0, <1>3, LeaveShape DEF FailRun
<1>4. CASE Break(e)
  BY <1>0, <1>4, GotoShape, LeaveShape DEF Break
<1>5. CASE ExecutorThrow(e)
  <2>1. exec'[e].pc \in {"final", "save", "rescue"}
    BY <1>0, <1>5, ThrowLeaves DEF ExecutorThrow
  <2>2. ASSUME exec'[e].pc = "save" PROVE exec'[e].to = "failed"
    <3>1. ExecThrow(e)
      BY <1>5 DEF ExecutorThrow
    <3>2. exec' = [exec EXCEPT ![e] = [@ EXCEPT !.pc = "rescue", !.catcher = "nobody"]]
          => exec'[e].pc = "rescue"
      BY <1>0 DEF Exec
    <3>3. Leave(e, "failed", "worker") \/ Goto(e, "final")
      BY <2>2, <3>1, <3>2 DEF ExecThrow
    <3> QED
      BY <1>0, <2>2, <3>3, GotoShape, LeaveShape
  <2> QED
    BY <2>1, <2>2
<1> QED
  BY <1>1, <1>2, <1>3, <1>4, <1>5

\* The graph of an outcome is at its end.
LEMMA OutcomeHere ==
  ASSUME Engine, PipelineTypeOK, PipelineNext, NEW e \in Execs, ExecOutcome(e)
  PROVE  Outcome(e)
<1>0. /\ exec[e].pc = "work"
      /\ exec'[e].pc = "save" /\ exec'[e].to # "failed"
  BY LeaveShape DEF ExecOutcome, Engine, Slots
<1>1. ASSUME exec'[e] = exec[e] PROVE FALSE
  BY <1>0, <1>1
<1>2. ASSUME PipelineCrash PROVE FALSE
  BY <1>0, <1>2 DEF PipelineCrash, Crash, NoExec
<1>3. ASSUME NEW d \in Execs,
             \/ Surroundings \/ ExecSave(d) \/ ExecAnchor(d) \/ ExecRescue(d) \/ ExecEnd(d)
      PROVE  FALSE
  BY <1>0, <1>1, <1>3, OthersInGraph
<1>4. ASSUME NEW d \in Execs, d # e,
             Load(d) \/ Prepare(d) \/ GraphStep(d) \/ ExecutorThrow(d)
      PROVE  FALSE
  BY <1>1, <1>4, GraphOfOne
<1>5. ~Load(e) /\ ~Prepare(e)
  BY <1>0 DEF Load, ExecLoad, Prepare, ExecPrepare
<1>6. ASSUME GraphStep(e) \/ ExecutorThrow(e) PROVE Outcome(e)
  <2>1. CASE \/ Clear(e) \/ LoadContext(e) \/ HopCall(e) \/ HopRetry(e) \/ Written(e)
             \/ Verified(e) \/ Refined(e) \/ Count(e) \/ Keep(e) \/ NextIdea(e)
             \/ PersistDraft(e) \/ PersistItem(e) \/ PersistOnly(e)
    <3>1. UNCHANGED exec
      BY <2>1 DEF Clear, LoadContext, HopCall, HopRetry, Written, Verified, Refined,
         Count, Keep, NextIdea, PersistDraft, PersistItem, PersistOnly, Persisted, vars
    <3> QED
      BY <1>1, <3>1
  <2>2. CASE HopAbort(e) \/ Outcome(e) \/ FailRun(e) \/ Break(e) \/ ExecutorThrow(e)
    BY <1>0, <2>2, GraphLeft
  <2> QED
    BY <1>6, <2>1, <2>2 DEF GraphStep
<1> QED
  BY <1>2, <1>3, <1>4, <1>5, <1>6 DEF PipelineNext, ExecutorStep

\* What a step of a graph without a statement of the engine leaves alone.
LEMMA RestsKept ==
  ASSUME UNCHANGED vars, NEW r \in Runs
  PROVE  Rests(r)' <=> Rests(r)
BY DEF Rests, Up, Status, Choosing, Has, Before, Working, vars

LEMMA BudgetStep ==
  ASSUME Engine, PipelineTypeOK, FlowInv, PlaceInv, HandInv, AloneInv,
         BudgetInv, CountingInv, PipelineNext
  PROVE  BudgetInv'
<1>1. SUFFICES ASSUME NEW r \in ContentRuns
               PROVE  /\ \A p \in Phases :
                           /\ result'[r].counts[p] <= MaxRefine
                           /\ refined'[r][p] <= MaxRefine + spent'.crashes
                           /\ refined'[r][p] <= result'[r].counts[p] + spent'.crashes + 1
                      /\ Rests(r)' => Paid(result'[r].counts, refined'[r], spent'.crashes)
  BY DEF BudgetInv, Counted
<1> DEFINE c == result[r].counts
           w == refined[r]
           k == spent.crashes
<1>0. /\ r \in Runs /\ c \in [Phases -> Nat] /\ w \in [Phases -> Nat]
      /\ k \in Nat /\ MaxRefine \in Nat
  <2>1. r \in Runs /\ MaxRefine \in Nat
    BY PipelineAssumption DEF PipelineAssumption
  <2>2. k \in Nat
    BY EngineAssumption DEF Engine, Slots, TypeOK, EngineAssumption
  <2> QED
    BY <2>1, <2>2 DEF PipelineTypeOK, Result
<1>2. /\ \A p \in Phases : c[p] <= MaxRefine /\ w[p] <= MaxRefine + k /\ w[p] <= c[p] + k + 1
      /\ Rests(r) => Paid(c, w, k)
  BY DEF BudgetInv, Counted
<1>3. CASE PipelineCrash
  <2>1. result' = result /\ refined' = refined /\ spent'.crashes = k + 1
    BY <1>3 DEF PipelineCrash, Crash, Engine, Slots, TypeOK
  <2> HIDE DEF c, w, k
  <2>2. \A p \in Phases : /\ c[p] <= MaxRefine /\ w[p] <= MaxRefine + (k + 1)
                          /\ w[p] <= c[p] + (k + 1) + 1 /\ w[p] <= c[p] + (k + 1)
    BY <1>0, <1>2
  <2> QED
    BY <2>1, <2>2 DEF Paid, c, w
<1>4. ASSUME ~PipelineCrash PROVE spent'.crashes = k /\ ~Crash
  BY <1>4, OnlyCrash
<1>5. ASSUME ~PipelineCrash, result'[r].counts = c, refined'[r] = w,
             Rests(r)' => Paid(c, w, k)
      PROVE  /\ \A p \in Phases :
                  /\ result'[r].counts[p] <= MaxRefine
                  /\ refined'[r][p] <= MaxRefine + spent'.crashes
                  /\ refined'[r][p] <= result'[r].counts[p] + spent'.crashes + 1
             /\ Rests(r)' => Paid(result'[r].counts, refined'[r], spent'.crashes)
  BY <1>2, <1>4, <1>5
<1>6. CASE ~PipelineCrash /\ result'[r].counts = c /\ refined'[r] = w
  <2>1. ASSUME Rests(r)' PROVE Paid(c, w, k)
    <3>1. CASE UNCHANGED vars
      BY <1>0, <1>2, <2>1, <3>1, RestsKept
    <3>2. CASE Next
      <4>1. ASSUME NEW e \in Execs, ExecOutcome(e), NeedsChoice(e), exec[e].run = r
            PROVE  Paid(c, w, k)
        <5>1. AtWork(e) /\ flow[e].node = "end"
          BY <4>1, OutcomeHere DEF Outcome
        <5>2. InCount(flow[e], c, w, k)
          BY <4>1, <5>1 DEF CountingInv, Counting, IsContent, Of
        <5> QED
          BY <5>1, <5>2 DEF InCount, Settled
      <4> QED
        BY <1>0, <1>2, <1>4, <1>6, <2>1, <3>2, <4>1, RestsCause
    <3> QED
      BY <3>1, <3>2, EngineStep
  <2> QED
    BY <1>5, <1>6, <2>1
<1>7. CASE \E e \in Execs : Count(e) /\ Of(e) = r
  <2>1. PICK e \in Execs : Count(e) /\ Of(e) = r
    BY <1>7
  <2> DEFINE p0 == flow[e].phase
             n == flow[e].count
  <2>2. AtWork(e) /\ flow[e].node = "count"
    BY <2>1 DEF Count
  <2>3. /\ n <= MaxRefine /\ Paid([c EXCEPT ![p0] = n], w, k)
        /\ n = c[p0] + 1 /\ p0 \in Phases
    BY <2>1, <2>2 DEF CountingInv, Counting, InCount, IsContent, PipelineTypeOK, Flow
  <2>4. result'[r].counts = [c EXCEPT ![p0] = n] /\ refined'[r] = w
    <3>1. result' = [result EXCEPT ![r].counts = [c EXCEPT ![p0] = n]]
      BY <2>1 DEF Count, SavedCount
    <3> HIDE DEF c
    <3> QED
      BY <1>0, <2>1, <3>1 DEF Count, PipelineTypeOK, Result
  <2>5. ~PipelineCrash
    <3>1. UNCHANGED spent /\ k \in Nat
      BY <1>0, <2>1 DEF Count, vars
    <3> QED
      BY <3>1 DEF PipelineCrash, Crash, Engine, Slots, TypeOK
  <2>6. spent'.crashes = k
    BY <1>4, <2>5
  <2> HIDE DEF c, w, k, n, p0
  <2>7. \A p \in Phases :
          /\ [c EXCEPT ![p0] = n][p] <= MaxRefine /\ w[p] <= MaxRefine + k
          /\ w[p] <= [c EXCEPT ![p0] = n][p] + k + 1
    BY <1>0, <1>2, <2>3
  <2> QED
    BY <2>3, <2>4, <2>6, <2>7 DEF Paid
<1>8. CASE \E e \in Execs : Refined(e) /\ Of(e) = r
  <2>1. PICK e \in Execs : Refined(e) /\ Of(e) = r
    BY <1>8
  <2> DEFINE p0 == flow[e].phase
  <2>2. AtWork(e) /\ flow[e].node = "refine" /\ IsContent(e) /\ UNCHANGED <<vars, result>>
    BY <2>1 DEF Refined, IsContent
  <2>3. /\ flow[e].count < MaxRefine /\ flow[e].count = c[p0] /\ Paid(c, w, k)
        /\ p0 \in Phases
    BY <2>1, <2>2
    DEF CountingInv, Counting, InCount, Settled, Agents, IsContent, PipelineTypeOK, Flow
  <2>4. refined'[r] = [w EXCEPT ![p0] = w[p0] + 1]
    <3>1. refined' = [refined EXCEPT ![r][p0] = @ + 1]
      BY <2>1, <2>2 DEF Refined, CountRefined
    <3> QED
      BY <1>0, <3>1, <2>3 DEF PipelineTypeOK
  <2>5. ~Rests(r)'
    BY <1>0, <2>1, <2>2, BusyRun, RestsKept
  <2>6. result'[r].counts = c /\ spent'.crashes = k
    BY <2>2 DEF vars
  <2> HIDE DEF c, w, k, p0
  <2>7. \A p \in Phases :
          /\ c[p] <= MaxRefine /\ [w EXCEPT ![p0] = w[p0] + 1][p] <= MaxRefine + k
          /\ [w EXCEPT ![p0] = w[p0] + 1][p] <= c[p] + k + 1
    BY <1>0, <1>2, <2>3 DEF Paid
  <2> QED
    BY <2>4, <2>5, <2>6, <2>7
<1> QED
  BY <1>3, <1>6, <1>7, <1>8, CountsEffect

\* A graph that nobody steps keeps its place among the counters.
LEMMA CountingKept ==
  ASSUME Engine, PipelineTypeOK, FlowInv, PlaceInv, HandInv, CountingInv,
         PipelineNext, ~PipelineCrash, NEW d \in Execs, exec[d].pc \in {"prepare", "work"},
         IsContent(d), exec'[d] = exec[d], flow'[d] = flow[d]
  PROVE  Counting(d)'
<1>1. PICK r \in ContentRuns : r = Of(d)
  BY DEF IsContent
<1>2. spent'.crashes = spent.crashes
  BY OnlyCrash
<1>3. ASSUME NEW e \in Execs, Count(e) \/ Refined(e), Of(e) = r PROVE FALSE
  <2>1. AtWork(e) /\ r \in Runs
    BY <1>1, <1>3, Owner DEF Count, Refined
  <2>2. e = d
    BY <1>1, <1>3, <2>1, Owner DEF AtWork
  <2>3. flow[d].node \in {"count", "refine"} /\ flow'[d].node # flow[d].node
    <3>1. CASE Count(e)
      BY <2>2, <3>1, AtNodeKeeps DEF Count, Step, PipelineTypeOK, IsContent
    <3>2. CASE Refined(e)
      <4> DEFINE f == [flow[d] EXCEPT !.count = @ + 1, !.fresh = FALSE]
      <4>1. f \in Flow
        BY FlowFields DEF PipelineTypeOK
      <4>2. Step(d, AtNode(f, "count")) /\ flow[d].node = "refine"
        BY <2>2, <3>2 DEF Refined, IsContent
      <4> HIDE DEF f
      <4>3. flow'[d].node = "count"
        BY <4>1, <4>2, AtNodeKeeps DEF Step, PipelineTypeOK
      <4> QED
        BY <4>2, <4>3
    <3> QED
      BY <1>3, <3>1, <3>2
  <2> QED
    BY <2>3
<1>4. result'[r].counts = result[r].counts /\ refined'[r] = refined[r]
  BY <1>3, CountsEffect
<1>5. Counting(d)
  BY DEF CountingInv
<1> QED
  BY <1>1, <1>2, <1>4, <1>5 DEF Counting, AtWork, Of

\* A step of a graph that neither makes nor counts a correction.
LEMMA CountingMoves ==
  ASSUME Engine, PipelineTypeOK, FlowInv, PlaceInv, HandInv, CountingInv,
         PipelineNext, ~PipelineCrash, NEW e \in Execs, IsContent(e),
         NEW f, Step(e, f), exec'[e].run = exec[e].run, exec'[e].pc = "work",
         flow[e].node \notin {"count", "refine"},
         exec[e].pc \in {"prepare", "work"},
         InCount(f, result[Of(e)].counts, refined[Of(e)], spent.crashes)
  PROVE  Counting(e)'
<1>1. PICK r \in ContentRuns : r = Of(e)
  BY DEF IsContent
<1>2. spent'.crashes = spent.crashes
  BY OnlyCrash
<1>3. ASSUME NEW d \in Execs, Count(d) \/ Refined(d), Of(d) = r PROVE FALSE
  <2>1. AtWork(d) /\ r \in Runs
    BY <1>1, <1>3, Owner DEF Count, Refined
  <2>2. e = d
    BY <1>1, <1>3, <2>1, Owner DEF AtWork
  <2> QED
    BY <1>3, <2>2 DEF Count, Refined
<1>4. result'[r].counts = result[r].counts /\ refined'[r] = refined[r]
  BY <1>3, CountsEffect
<1>5. flow'[e] = f
  BY DEF Step, PipelineTypeOK
<1>6. exec'[e].run = r
  BY <1>1 DEF Of
<1> QED
  BY <1>1, <1>2, <1>4, <1>5, <1>6 DEF Counting, AtWork, Of

LEMMA OwnCounting ==
  ASSUME Engine, PipelineTypeOK, FlowInv, PlaceInv, HandInv, AloneInv, BudgetInv,
         CountingInv, PipelineNext, ~PipelineCrash, NEW e \in Execs, IsContent(e),
         Load(e) \/ Prepare(e) \/ GraphStep(e), exec'[e].pc \in {"prepare", "work"}
  PROVE  Counting(e)'
<1> DEFINE c == result[Of(e)].counts
           w == refined[Of(e)]
           k == spent.crashes
<1>0. /\ exec \in [Execs -> Exec] /\ flow \in [Execs -> Flow] /\ flow[e] \in Flow
      /\ exec[e] \in Exec /\ Of(e) \in ContentRuns /\ TypeOK
      /\ result \in [Runs -> Result]
  BY DEF Engine, Slots, TypeOK, PipelineTypeOK, IsContent
<1>1. CASE Load(e)
  <2>1. exec'[e].pc = "prepare"
    BY <1>0, <1>1, GotoShape, LeaveShape DEF Load, ExecLoad
  <2>2. exec'[e].run = exec[e].run
    BY <1>0, <1>1, GotoShape, LeaveShape DEF Load, ExecLoad
  <2>3. flow'[e].base = c
    <3>1. Step(e, [NoFlow EXCEPT !.phase = PhaseOf(e), !.base = c])
      BY <1>1, <2>1 DEF Load
    <3>2. flow'[e] = [NoFlow EXCEPT !.phase = PhaseOf(e), !.base = c]
      BY <1>0, <3>1 DEF Step
    <3> QED
      BY <3>2, NoFlowSound DEF Flow
  <2>4. result' = result
    BY <1>1 DEF Load
  <2> QED
    BY <2>1, <2>2, <2>3, <2>4 DEF Counting, AtWork, Of
<1>2. CASE Prepare(e)
  <2>1. /\ exec[e].pc = "prepare" /\ exec'[e].pc = "work"
        /\ exec'[e].run = exec[e].run
    <3>1. exec[e].pc = "prepare"
      BY <1>2 DEF Prepare, ExecPrepare
    <3>2. ~Goto(e, "final")
      BY <1>0, GotoShape
    <3>3. exec' = [exec EXCEPT ![e] = [@ EXCEPT !.pc = "work", !.catcher = "executor"]]
      BY <1>2, <3>2 DEF Prepare, ExecPrepare
    <3> QED
      BY <1>0, <3>1, <3>3 DEF Exec
  <2>2. ~PerIdea(e) /\ flow[e].node = "none" /\ flow[e].base = c
    BY <2>1 DEF PerIdea, IsContent, PlaceInv, Placed, CountingInv, Counting
  <2> DEFINE f == [flow[e] EXCEPT !.node = "context"]
  <2>3. Step(e, f)
    BY <1>2, <2>1, <2>2 DEF Prepare
  <2>4. Paid(c, w, k)
    <3>1. Has(e, Of(e)) /\ Before(e)
      BY <2>1, Owner DEF Before
    <3> QED
      BY <1>0, <3>1 DEF BudgetInv, Counted, Rests
  <2>5. InCount(f, c, w, k)
    BY <1>0, <2>2, <2>4 DEF InCount, Flow, Settled, Agents
  <2> HIDE DEF f
  <2> QED
    BY <2>1, <2>2, <2>3, <2>5, CountingMoves
<1>3. ASSUME AtWork(e), UNCHANGED exec
      PROVE  /\ exec[e].pc = "work" /\ exec'[e].pc = "work"
             /\ exec'[e].run = exec[e].run /\ InCount(flow[e], c, w, k)
  BY <1>3 DEF AtWork, CountingInv, Counting
<1>4. CASE LoadContext(e)
  <2>1. AtWork(e) /\ flow[e].node = "context" /\ UNCHANGED exec
    BY <1>4 DEF LoadContext, vars
  <2>2. flow[e].base = c /\ Paid(c, w, k)
    BY <1>3, <2>1 DEF InCount
  <2> DEFINE g == [flow[e] EXCEPT !.count = flow[e].base[flow[e].phase],
                                  !.verdict = "none", !.fresh = FALSE]
             f == AtNode(g, "write")
  <2>3. Step(e, f)
    BY <1>4 DEF LoadContext
  <2>4. g \in Flow
    <3>1. flow[e].base[flow[e].phase] \in Nat
      BY <1>0 DEF Flow
    <3> QED
      BY <1>0, <3>1, FlowFields
  <2>5. g.count = c[flow[e].phase] /\ g.phase = flow[e].phase
    BY <1>0, <2>2 DEF Flow
  <2> HIDE DEF g, c, w, k
  <2>6. f.node = "write" /\ f.phase = flow[e].phase /\ f.count = c[flow[e].phase]
    BY <2>4, <2>5, AtNodeKeeps
  <2> HIDE DEF f
  <2>7. InCount(f, c, w, k)
    BY <2>2, <2>6 DEF InCount, Settled, Agents
  <2> QED
    BY <1>3, <2>1, <2>3, <2>7, CountingMoves DEF c, w, k
<1>5. ASSUME AtWork(e), UNCHANGED exec, NEW f, Step(e, f), flow[e].node \in Settled,
             flow[e].node # "refine", f.node \in Settled,
             f.node = "refine" => f.count < MaxRefine,
             f.phase = flow[e].phase, f.count = flow[e].count
      PROVE  Counting(e)'
  <2>1. flow[e].count = c[flow[e].phase] /\ Paid(c, w, k)
    BY <1>3, <1>5 DEF InCount
  <2>2. InCount(f, c, w, k)
    BY <1>5, <2>1 DEF InCount, Settled, Agents
  <2>3. flow[e].node \notin {"count", "refine"}
    BY <1>5 DEF Settled, Agents
  <2> QED
    BY <1>3, <1>5, <2>2, <2>3, CountingMoves
<1>6. CASE HopCall(e) \/ HopRetry(e)
  <2>1. PICK f : /\ Step(e, f) /\ f.node = flow[e].node
                 /\ f.phase = flow[e].phase /\ f.count = flow[e].count
    <3>1. CASE HopCall(e)
      <4>1. Step(e, [flow[e] EXCEPT !.calling = TRUE])
        BY <3>1 DEF HopCall
      <4> QED
        BY <1>0, <4>1 DEF Flow
    <3>2. CASE HopRetry(e)
      <4>1. PICK bad : Step(e, [flow[e] EXCEPT !.attempt = @ + 1, !.calling = FALSE,
                                               !.bad = @ \cup bad])
        BY <3>2 DEF HopRetry
      <4> DEFINE g == [flow[e] EXCEPT !.attempt = @ + 1, !.calling = FALSE,
                                      !.bad = @ \cup bad]
      <4>2. /\ g.node = flow[e].node /\ g.phase = flow[e].phase
            /\ g.count = flow[e].count /\ Step(e, g)
        BY <1>0, <4>1 DEF Flow
      <4> HIDE DEF g
      <4> QED
        BY <4>2
    <3> QED
      BY <1>6, <3>1, <3>2
  <2>2. AtWork(e) /\ UNCHANGED exec /\ flow[e].node \in Agents
    <3>1. flow[e].calling => flow[e].node \in Agents
      BY DEF FlowInv, Sound
    <3> QED
      BY <1>6, <3>1 DEF HopCall, HopRetry, vars
  <2>3. InCount(flow[e], c, w, k)
    BY <1>3, <2>2
  <2>4. f.node = "refine" => f.count < MaxRefine
    BY <2>1, <2>3 DEF InCount
  <2>5. InCount(f, c, w, k)
    BY <2>1, <2>2, <2>3 DEF InCount, Settled, Agents
  <2>6. ASSUME NEW d \in Execs, Count(d) \/ Refined(d), Of(d) = Of(e) PROVE FALSE
    <3>1. d = e /\ flow[e].node # "count"
      BY <2>2, <2>6, Owner DEF Count, Refined, AtWork, Agents
    <3>2. flow'[e].node = "count"
      <4> DEFINE g == [flow[e] EXCEPT !.count = @ + 1, !.fresh = FALSE]
      <4>1. g \in Flow
        BY <1>0, FlowFields
      <4>2. Step(e, AtNode(g, "count"))
        BY <2>6, <3>1 DEF Count, Refined
      <4> HIDE DEF g
      <4> QED
        BY <1>0, <4>1, <4>2, AtNodeKeeps DEF Step
    <3>3. flow'[e] = f
      BY <1>0, <2>1 DEF Step
    <3> QED
      BY <2>1, <3>1, <3>2, <3>3
  <2>7. result'[Of(e)].counts = c /\ refined'[Of(e)] = w
    BY <1>0, <2>6, CountsEffect
  <2>8. flow'[e] = f /\ spent'.crashes = k
    BY <1>0, <2>1, OnlyCrash DEF Step
  <2>9. exec' = exec
    BY <2>2
  <2> QED
    BY <2>2, <2>5, <2>7, <2>8, <2>9 DEF Counting, AtWork, Of
<1>7. CASE Written(e)
  <2>1. AtWork(e) /\ flow[e].node = "write" /\ UNCHANGED exec
        /\ Step(e, AtNode(flow[e], "verify"))
    BY <1>7 DEF Written, vars
  <2> QED
    BY <1>0, <1>5, <2>1, AtNodeKeeps DEF Settled, Agents
<1>8. CASE Verified(e)
  <2>1. PICK v \in {"ok", "rejected"} :
          Step(e, AtNode([flow[e] EXCEPT !.verdict = v, !.fresh = TRUE],
                         RouteAfterConsistencyVerifier(v, flow[e].count)))
    BY <1>8 DEF Verified
  <2> DEFINE g == [flow[e] EXCEPT !.verdict = v, !.fresh = TRUE]
             node == RouteAfterConsistencyVerifier(v, flow[e].count)
  <2>2. AtWork(e) /\ flow[e].node = "verify" /\ UNCHANGED exec
    BY <1>8 DEF Verified, vars
  <2>3. node \in {"persist", "refine", "fail"} /\ (node = "refine" => flow[e].count < MaxRefine)
    BY DEF RouteAfterConsistencyVerifier
  <2>4. g \in Flow
    BY <1>0, FlowFields
  <2>5. g.phase = flow[e].phase /\ g.count = flow[e].count
    BY <1>0 DEF Flow
  <2>6. Step(e, AtNode(g, node))
    BY <2>1
  <2> HIDE DEF g, node
  <2>7. /\ AtNode(g, node).node = node /\ AtNode(g, node).phase = flow[e].phase
        /\ AtNode(g, node).count = flow[e].count
    BY <2>4, <2>5, AtNodeKeeps
  <2> QED
    BY <1>5, <2>2, <2>3, <2>6, <2>7 DEF Settled, Agents
<1>9. CASE Refined(e)
  <2>1. AtWork(e) /\ flow[e].node = "refine" /\ UNCHANGED <<exec, result, spent>>
    BY <1>9 DEF Refined, vars
  <2> DEFINE g == [flow[e] EXCEPT !.count = @ + 1, !.fresh = FALSE]
             p0 == flow[e].phase
  <2>2. Step(e, AtNode(g, "count"))
    BY <1>9 DEF Refined
  <2>3. g \in Flow /\ g.phase = p0 /\ g.count = flow[e].count + 1
    <3>1. g \in Flow
      BY <1>0, FlowFields
    <3>2. g.phase = p0 /\ g.count = flow[e].count + 1
      BY <1>0 DEF Flow
    <3> QED
      BY <3>1, <3>2
  <2> HIDE DEF g
  <2>4. flow'[e].node = "count" /\ flow'[e].phase = p0 /\ flow'[e].count = flow[e].count + 1
    BY <1>0, <2>2, <2>3, AtNodeKeeps DEF Step
  <2>5. flow[e].count < MaxRefine /\ flow[e].count = c[p0] /\ Paid(c, w, k)
    BY <1>3, <2>1 DEF InCount, Settled, Agents
  <2>6. refined'[Of(e)] = [w EXCEPT ![p0] = w[p0] + 1]
    <3>1. refined' = [refined EXCEPT ![Of(e)][p0] = @ + 1]
      BY <1>9 DEF Refined, CountRefined
    <3> QED
      BY <1>0, <3>1 DEF PipelineTypeOK, Flow
  <2>7. /\ c \in [Phases -> Nat] /\ w \in [Phases -> Nat] /\ k \in Nat /\ MaxRefine \in Nat
        /\ p0 \in Phases
    <3>1. Of(e) \in Runs /\ MaxRefine \in Nat
      BY <1>0, PipelineAssumption DEF PipelineAssumption
    <3>2. k \in Nat
      BY EngineAssumption DEF Engine, Slots, TypeOK, EngineAssumption
    <3>3. w \in [Phases -> Nat]
      BY <1>0 DEF PipelineTypeOK
    <3>4. c \in [Phases -> Nat] /\ p0 \in Phases
      BY <1>0, <3>1 DEF Result, Flow
    <3> QED
      BY <3>1, <3>2, <3>3, <3>4
  <2>8. result'[Of(e)].counts = c /\ spent'.crashes = k
    BY <2>1
  <2> HIDE DEF c, w, k, p0
  <2> DEFINE n == flow'[e].count
  <2>9. Paid([c EXCEPT ![p0] = n], [w EXCEPT ![p0] = w[p0] + 1], k)
    BY <2>4, <2>5, <2>7 DEF Paid
  <2>10. n = c[p0] + 1 /\ n <= MaxRefine
    BY <2>4, <2>5, <2>7
  <2> HIDE DEF n
  <2>11. InCount(flow'[e], c, [w EXCEPT ![p0] = w[p0] + 1], k)
    BY <2>4, <2>9, <2>10 DEF InCount, Settled, Agents, n
  <2>12. exec' = exec
    BY <2>1
  <2> QED
    BY <2>1, <2>6, <2>8, <2>11, <2>12 DEF Counting, AtWork, Of
<1>10. CASE Count(e)
  <2>1. /\ AtWork(e) /\ flow[e].node = "count" /\ UNCHANGED <<exec, refined, spent>>
        /\ Step(e, AtNode(flow[e], "verify"))
    BY <1>10 DEF Count, vars
  <2> DEFINE p0 == flow[e].phase
             n == flow[e].count
  <2>2. flow'[e].node = "verify" /\ flow'[e].phase = p0 /\ flow'[e].count = n
    BY <1>0, <2>1, AtNodeKeeps DEF Step
  <2>3. Paid([c EXCEPT ![p0] = n], w, k)
    BY <1>3, <2>1 DEF InCount
  <2>4. result'[Of(e)].counts = [c EXCEPT ![p0] = n]
    <3>1. result' = [result EXCEPT ![Of(e)].counts = [c EXCEPT ![p0] = n]]
      BY <1>10 DEF Count, SavedCount
    <3>2. Of(e) \in Runs
      BY <1>0, PipelineAssumption DEF PipelineAssumption
    <3> HIDE DEF c
    <3> QED
      BY <1>0, <3>1, <3>2 DEF Result
  <2>5. [c EXCEPT ![p0] = n][p0] = n
    <3>1. c \in [Phases -> Nat] /\ p0 \in Phases
      BY <1>0, PipelineAssumption DEF PipelineAssumption, Result, Flow
    <3> QED
      BY <3>1
  <2> DEFINE d == [c EXCEPT ![p0] = n]
  <2>6. d[p0] = n /\ Paid(d, w, k) /\ result'[Of(e)].counts = d
    BY <2>3, <2>4, <2>5
  <2> HIDE DEF c, d, n, p0
  <2>7. InCount(flow'[e], d, w, k)
    BY <2>2, <2>6 DEF InCount, Settled, Agents
  <2>8. exec' = exec
    BY <2>1
  <2> QED
    BY <2>1, <2>6, <2>7, <2>8 DEF Counting, AtWork, Of
<1>11. CASE PersistDraft(e) \/ PersistOnly(e)
  <2>1. /\ AtWork(e) /\ flow[e].node = "persist" /\ UNCHANGED exec
        /\ Step(e, AtNode(flow[e], "keep"))
    BY <1>11 DEF PersistDraft, PersistOnly, Persisted
  <2> QED
    BY <1>0, <1>5, <2>1, AtNodeKeeps DEF Settled, Agents
<1>12. CASE Keep(e)
  <2>1. /\ AtWork(e) /\ flow[e].node = "keep" /\ UNCHANGED exec
        /\ Step(e, [flow[e] EXCEPT !.node = "end"])
    BY <1>12 DEF Keep, vars
  <2> DEFINE f == [flow[e] EXCEPT !.node = "end"]
  <2>2. f.node = "end" /\ f.phase = flow[e].phase /\ f.count = flow[e].count /\ Step(e, f)
    BY <1>0, <2>1 DEF Flow
  <2> HIDE DEF f
  <2> QED
    BY <1>5, <2>1, <2>2 DEF Settled, Agents
<1>13. ASSUME Clear(e) \/ PersistItem(e) \/ NextIdea(e) PROVE FALSE
  <2>1. ~PerIdea(e)
    BY DEF PerIdea
  <2>2. ~Clear(e)
    <3>1. AtWork(e) => flow[e].node # "clear"
      BY DEF CountingInv, Counting, InCount, Settled, Agents
    <3> QED
      BY <3>1 DEF Clear
  <2> QED
    BY <1>13, <2>1, <2>2 DEF PersistItem, NextIdea, LastIdea
<1>14. ASSUME HopAbort(e) \/ Outcome(e) \/ FailRun(e) \/ Break(e) PROVE FALSE
  BY <1>14, GraphLeft
<1> QED
  BY <1>1, <1>2, <1>4, <1>6, <1>7, <1>8, <1>9, <1>10, <1>11, <1>12, <1>13, <1>14
  DEF GraphStep

LEMMA CountingStep ==
  ASSUME Engine, PipelineTypeOK, FlowInv, PlaceInv, HandInv, AloneInv, BudgetInv,
         CountingInv, PipelineNext
  PROVE  CountingInv'
<1>1. SUFFICES ASSUME NEW d \in Execs, IsContent(d)' PROVE Counting(d)'
  BY DEF CountingInv
<1>2. CASE exec'[d].pc \notin {"prepare", "work"}
  BY <1>2 DEF Counting, AtWork
<1>3. CASE exec'[d].pc \in {"prepare", "work"}
  <2>1. ~PipelineCrash
    BY <1>3 DEF PipelineCrash, Crash, NoExec
  <2>2. ASSUME exec'[d] = exec[d], flow'[d] = flow[d] PROVE Counting(d)'
    <3>1. IsContent(d) /\ exec[d].pc \in {"prepare", "work"}
      BY <1>1, <1>3, <2>2 DEF IsContent, Of
    <3> QED
      BY <2>1, <2>2, <3>1, CountingKept
  <2>3. CASE Surroundings
    BY <1>3, <2>2, <2>3, OthersInGraph DEF Surroundings, pipelineVars
  <2>4. ASSUME NEW e \in Execs, ExecSave(e) \/ ExecAnchor(e) \/ ExecRescue(e) \/ ExecEnd(e),
               UNCHANGED pipelineVars
        PROVE  Counting(d)'
    BY <1>3, <2>2, <2>4, OthersInGraph DEF pipelineVars
  <2>5. ASSUME NEW e \in Execs, e # d,
               Load(e) \/ Prepare(e) \/ GraphStep(e) \/ ExecutorThrow(e)
        PROVE  Counting(d)'
    BY <2>2, <2>5, GraphOfOne
  <2>6. ~ExecutorThrow(d)
    BY <1>3, GraphLeft
  <2>7. ASSUME Load(d) \/ Prepare(d) \/ GraphStep(d) PROVE Counting(d)'
    BY <1>1, <1>3, <2>1, <2>7, OwnCounting, SameRun DEF IsContent, Of
  <2> QED
    BY <2>1, <2>3, <2>4, <2>5, <2>6, <2>7 DEF PipelineNext, ExecutorStep
<1> QED
  BY <1>2, <1>3

LEMMA BudgetInit ==
  ASSUME PipelineInit
  PROVE  BudgetInv /\ CountingInv
<1>1. MaxRefine \in Nat /\ ContentRuns \subseteq Runs
  BY PipelineAssumption DEF PipelineAssumption
<1>2. \A r \in ContentRuns :
        refined[r] = ZeroCounts /\ result[r].counts = ZeroCounts /\ spent.crashes = 0
  BY <1>1 DEF PipelineInit, Init, NoResult
<1>3. \A p \in Phases : ZeroCounts[p] = 0
  BY DEF ZeroCounts
<1>4. BudgetInv
  BY <1>1, <1>2, <1>3 DEF BudgetInv, Counted, Paid
<1>5. CountingInv
  BY DEF PipelineInit, Init, NoExec, CountingInv, Counting, AtWork
<1> QED
  BY <1>4, <1>5

LEMMA BudgetStutter ==
  ASSUME BudgetInv, CountingInv, UNCHANGED allVars
  PROVE  BudgetInv' /\ CountingInv'
<1>1. UNCHANGED vars /\ UNCHANGED <<flow, result, refined, late>> /\ UNCHANGED <<exec, spent>>
  BY DEF allVars, pipelineVars, vars
<1>2. \A r \in Runs : Rests(r)' <=> Rests(r)
  BY <1>1, RestsKept
<1>3. ContentRuns \subseteq Runs
  BY PipelineAssumption DEF PipelineAssumption
<1> QED
  BY <1>1, <1>2, <1>3
  DEF BudgetInv, Counted, CountingInv, Counting, IsContent, Of, AtWork

\* However often the process dies, a statement throws or the user cancels, a
\* Content phase is corrected MAX_REFINE times, and once more per crash: the
\* counter that could not be saved ends the run (refineOutline, refineDocument).
THEOREM CorrectionsStayInBudget ==
  PipelineSpec /\ []OneChoiceAtATime => []RefineBudget
<1>1. GraphInv /\ HandInv /\ AloneInv /\ BudgetInv /\ CountingInv /\ [PipelineNext]_allVars
      => BudgetInv' /\ CountingInv'
  BY BudgetStep, CountingStep, BudgetStutter DEF GraphInv
<1>2. BudgetInv => RefineBudget
  BY DEF BudgetInv, RefineBudget
<1> QED
  BY <1>1, <1>2, BudgetInit, RefinesEngine, HandsAlone, GraphInductive, PTL
  DEF PipelineSpec

-----------------------------------------------------------------------------
(* What a finished run holds                                                *)

\* The items are those of the first n chosen ideas, in their order.
Filled(s, r, n) == Len(s) = n /\ \A i \in 1..n : s[i].idea = Chosen(r)[i]

Whole(r) == IF r \in IdeasOnly THEN Len(result[r].ideas) = 1
                               ELSE Filled(result[r].items, r, Len(Chosen(r)))

\* PerIdea, of the state of a graph.
Each(f, r) == f.phase = "final" /\ r \in TwoStage /\ r \notin ContentRuns

\* What a graph of run r has stored in x, node by node.
InTables(f, x, r) ==
  /\ f.node = "keep" => r \in ContentRuns
  /\ f.node = "clear" => f.pos = 1
  /\ f.node \in {"keep", "end"} =>
       /\ f.phase = "draft" => Len(x.ideas) = 1
       /\ f.phase = "final" /\ ~Each(f, r) => Filled(x.items, r, 1)
  /\ Each(f, r) /\ f.node # "clear" =>
       Filled(x.items, r, IF f.node = "end" THEN f.pos ELSE f.pos - 1)

Filling(e) ==
  /\ exec[e].pc = "prepare" => flow[e].pos = 1
  /\ AtWork(e) => InTables(flow[e], result[Of(e)], Of(e))

\* Nobody writes for a run that is about to complete, or has completed.
ChoiceInv ==
  /\ \A r \in Runs : Status(r) = "completed" => Whole(r)
  /\ \A e \in Execs : exec[e].pc = "save" /\ exec[e].to = "completed" => Whole(Of(e))
  /\ \A e \in Execs : Filling(e)

Fills(e) == Clear(e) \/ PersistDraft(e) \/ PersistItem(e) \/ PersistOnly(e)

SameTables(r) ==
  result'[r].ideas = result[r].ideas /\ result'[r].items = result[r].items

\* Ideas and items are written by the nodes that fill the tables.
LEMMA TablesEffect ==
  ASSUME Engine, PipelineTypeOK, PipelineNext, NEW r \in Runs
  PROVE  SameTables(r) \/ \E e \in Execs : Fills(e) /\ Of(e) = r
<1>0. /\ result \in [Runs -> Result] /\ result[r] \in Result
      /\ \A e \in Execs : exec[e].pc \in {"prepare", "work"} => Of(e) \in Runs
  BY DEF PipelineTypeOK, Engine, Slots, Control, ExecInv, Live, Of
<1>1. ASSUME NEW q \in Runs, NEW c, result' = [result EXCEPT ![q].counts = c]
      PROVE  SameTables(r)
  BY <1>0, <1>1 DEF Result, SameTables
<1>2. ASSUME NEW q \in Runs, q # r, NEW s,
             \/ result' = [result EXCEPT ![q].items = s]
             \/ result' = [result EXCEPT ![q].ideas = s]
      PROVE  SameTables(r)
  BY <1>0, <1>2 DEF SameTables
<1>3. ASSUME UNCHANGED result PROVE SameTables(r)
  BY <1>3 DEF SameTables
<1>4. ASSUME NEW e \in Execs, Prepare(e) \/ Count(e) \/ Keep(e) \/ FailRun(e)
      PROVE  SameTables(r)
  <2>1. Of(e) \in Runs
    BY <1>0, <1>4 DEF Prepare, ExecPrepare, Count, Keep, FailRun, AtWork
  <2>2. UNCHANGED result \/ \E c : result' = [result EXCEPT ![Of(e)].counts = c]
    BY <1>4 DEF Prepare, Count, Keep, FailRun
  <2> QED
    BY <1>1, <1>3, <2>1, <2>2
<1>5. ASSUME NEW e \in Execs, Fills(e) PROVE SameTables(r) \/ Of(e) = r
  <2>1. AtWork(e) /\ Of(e) \in Runs
    BY <1>0, <1>5 DEF Fills, Clear, PersistDraft, PersistItem, PersistOnly, AtWork
  <2>2. \E s : \/ result' = [result EXCEPT ![Of(e)].items = s]
               \/ result' = [result EXCEPT ![Of(e)].ideas = s]
    <3>1. ASSUME NEW x PROVE [result EXCEPT ![Of(e)].items = Append(@, x)]
              = [result EXCEPT ![Of(e)].items = Append(result[Of(e)].items, x)]
      BY <1>0, <2>1
    <3> QED
      BY <1>5, <3>1 DEF Fills, Clear, PersistDraft, PersistItem, PersistOnly
  <2> QED
    BY <1>2, <2>1, <2>2
<1>6. ASSUME NEW e \in Execs,
             \/ Load(e) \/ LoadContext(e) \/ HopCall(e) \/ HopAbort(e) \/ HopRetry(e)
             \/ Written(e) \/ Verified(e) \/ Refined(e) \/ NextIdea(e) \/ Outcome(e)
             \/ Break(e) \/ ExecutorThrow(e)
      PROVE  UNCHANGED result
  BY <1>6 DEF Load, LoadContext, HopCall, HopAbort, HopRetry, Written, Verified,
              Refined, NextIdea, Outcome, Break, ExecutorThrow
<1>7. ASSUME PipelineCrash \/ Surroundings \/ UNCHANGED pipelineVars
      PROVE  UNCHANGED result
  BY <1>7 DEF PipelineCrash, Surroundings, pipelineVars
<1> QED
  BY <1>3, <1>4, <1>5, <1>6, <1>7 DEF PipelineNext, ExecutorStep, GraphStep, Fills

\* Only who has the run in hand fills its tables.
LEMMA TablesKept ==
  ASSUME Engine, PipelineTypeOK, HandInv, PipelineNext, NEW r \in Runs,
         NEW t \in Execs, Has(t, r), ~Fills(t)
  PROVE  SameTables(r)
<1>1. ASSUME NEW e \in Execs, Fills(e), Of(e) = r PROVE e = t
  <2>1. AtWork(e)
    BY <1>1 DEF Fills, Clear, PersistDraft, PersistItem, PersistOnly
  <2> QED
    BY <1>1, <2>1, Owner DEF AtWork
<1> QED
  BY <1>1, TablesEffect

LEMMA WholeKept ==
  ASSUME NEW r \in Runs, SameTables(r), Whole(r)
  PROVE  Whole(r)'
BY DEF SameTables, Whole

\* A save of "completed" comes from an outcome without a pause.
LEMMA CompletedCause ==
  ASSUME Engine, Next, NEW e \in Execs, exec'[e].pc = "save",
         exec'[e].to = "completed", exec'[e] # exec[e]
  PROVE  ExecOutcome(e) /\ ~NeedsChoice(e)
<1>0. TypeOK /\ exec \in [Execs -> Exec] /\ exec[e] \in Exec /\ Slots /\ OrderInv
  BY DEF Engine, Slots, TypeOK
<1>1. ~ExecEnd(e) /\ ~Crash
  BY <1>0 DEF ExecEnd, Crash, NoExec
<1>2. ~(PumpBegin /\ e = pump.run)
  BY <1>0 DEF PumpBegin, Begin
<1>3. ~(e \in Resumers /\ ResumeNotify(e))
  BY <1>0 DEF ResumeNotify, Begin
<1>4. Inside(e)
  BY <1>0, <1>1, <1>2, <1>3, ExecTurn
<1>5. \A pc : ~Goto(e, pc) \/ pc = "save"
  BY <1>0, GotoShape
<1>6. \A to, c : Leave(e, to, c) => to = "completed"
  BY <1>0, LeaveShape
<1>7. ~ExecLoad(e) /\ ~ExecAbort(e) /\ ~ExecAnchor(e) /\ ~ExecFail(e) /\ ~ExecRescue(e)
  BY <1>5, <1>6 DEF ExecLoad, ExecAbort, ExecAnchor, ExecFail, ExecRescue
<1>8. ~ExecPrepare(e) /\ ~ExecThrow(e)
  <2>1. exec' # [exec EXCEPT ![e] = [@ EXCEPT !.pc = "work", !.catcher = "executor"]]
    BY <1>0 DEF Exec
  <2>2. exec' # [exec EXCEPT ![e] = [@ EXCEPT !.pc = "rescue", !.catcher = "nobody"]]
    BY <1>0 DEF Exec
  <2> QED
    BY <1>5, <1>6, <2>1, <2>2 DEF ExecPrepare, ExecThrow
<1>9. ~ExecSave(e) /\ ~ExecPersistDraft(e)
  <2>1. ASSUME ExecSave(e) PROVE FALSE
    <3>1. PICK pc \in {"anchor", "final"} : Goto(e, pc)
      BY <2>1 DEF ExecSave
    <3> QED
      BY <1>5, <3>1
  <2> QED
    BY <2>1 DEF ExecPersistDraft, memory
<1>10. ExecOutcome(e)
  BY <1>4, <1>7, <1>8, <1>9 DEF Inside
<1> QED
  BY <1>6, <1>10 DEF ExecOutcome

\* A graph that is over has filled the tables of its run.
LEMMA OutcomeWhole ==
  ASSUME Engine, PipelineTypeOK, PlaceInv, ChoiceInv, NEW e \in Execs, Outcome(e),
         ~NeedsChoice(e)
  PROVE  Whole(Of(e))
<1> DEFINE r == Of(e)
           x == result[Of(e)]
<1>1. AtWork(e) /\ flow[e].node = "end" /\ LastIdea(e)
  BY DEF Outcome
<1>2. flow[e].phase = IF r \in IdeasOnly THEN "draft" ELSE "final"
  BY <1>1 DEF PlaceInv, Placed, PhaseOf, AtWork
<1>3. InTables(flow[e], x, r)
  BY <1>1 DEF ChoiceInv, Filling
<1>4. CASE r \in IdeasOnly
  BY <1>1, <1>2, <1>3, <1>4 DEF InTables, Whole
<1>5. CASE r \notin IdeasOnly /\ PerIdea(e)
  <2>1. Each(flow[e], r) /\ Chosen(r) = Selection[r] /\ flow[e].pos = Len(Selection[r])
    BY <1>1, <1>5 DEF PerIdea, Each, Chosen, IsContent, LastIdea
  <2> QED
    BY <1>1, <1>3, <1>5, <2>1 DEF InTables, Whole
<1>6. CASE r \notin IdeasOnly /\ ~PerIdea(e)
  <2>1. ~Each(flow[e], r) /\ flow[e].phase = "final"
    BY <1>2, <1>6 DEF PerIdea, Each, IsContent
  <2>2. Chosen(r) = <<None>>
    BY <2>1 DEF Each, Chosen
  <2>3. Filled(x.items, r, 1)
    BY <1>1, <1>3, <2>1 DEF InTables
  <2> QED
    BY <1>6, <2>2, <2>3 DEF Whole
<1> QED
  BY <1>4, <1>5, <1>6

LEMMA FillingKept ==
  ASSUME Engine, PipelineTypeOK, HandInv, ChoiceInv, PipelineNext, NEW d \in Execs,
         exec[d].pc \in {"prepare", "work"}, ~Fills(d),
         exec'[d] = exec[d], flow'[d] = flow[d]
  PROVE  Filling(d)'
<1>1. PICK r \in Runs : r = Of(d) /\ Has(d, r)
  BY Owner
<1>2. SameTables(r)
  BY <1>1, TablesKept
<1>3. Filling(d) /\ exec'[d].run = r
  BY <1>1 DEF ChoiceInv, Of
<1> QED
  BY <1>1, <1>2, <1>3 DEF Filling, AtWork, Of, SameTables, InTables

\* A step of a graph that stores nothing.
LEMMA FillingMoves ==
  ASSUME Engine, PipelineTypeOK, HandInv, PipelineNext, NEW e \in Execs, ~Fills(e),
         exec[e].pc \in {"prepare", "work"}, exec'[e].pc = "work",
         exec'[e].run = exec[e].run, NEW f, Step(e, f),
         InTables(f, result[Of(e)], Of(e))
  PROVE  Filling(e)'
<1>1. PICK r \in Runs : r = Of(e) /\ Has(e, r)
  BY Owner
<1>2. SameTables(r)
  BY <1>1, TablesKept
<1>3. flow'[e] = f /\ exec'[e].run = r
  BY <1>1 DEF Step, PipelineTypeOK, Of
<1> QED
  BY <1>1, <1>2, <1>3 DEF Filling, AtWork, Of, SameTables, InTables

\* Between clearing and keeping, a move from node to node stores nothing.
LEMMA BetweenNodes ==
  ASSUME NEW f, NEW g, NEW x, NEW r, InTables(f, x, r),
         g.phase = f.phase, g.pos = f.pos,
         f.node \notin {"clear", "keep", "end"}, g.node \notin {"clear", "keep", "end"}
  PROVE  InTables(g, x, r)
BY DEF InTables, Each

\* The nodes that store, and what they store.
LEMMA FillsEffect ==
  ASSUME Engine, PipelineTypeOK, NEW e \in Execs, Fills(e)
  PROVE  /\ UNCHANGED exec /\ AtWork(e) /\ Of(e) \in Runs
         /\ \/ /\ Clear(e) /\ result'[Of(e)].items = <<>>
               /\ flow'[e] = [flow[e] EXCEPT !.node = "context"]
            \/ /\ PersistDraft(e) /\ result'[Of(e)].ideas = <<Text(e, None)>>
               /\ flow'[e] = AtNode(flow[e], IF IsContent(e) THEN "keep" ELSE "end")
            \/ /\ PersistItem(e)
               /\ result'[Of(e)].items = Append(result[Of(e)].items,
                                           Text(e, Selection[Of(e)][flow[e].pos]))
               /\ flow'[e] = AtNode(flow[e], IF IsContent(e) THEN "keep" ELSE "end")
            \/ /\ PersistOnly(e) /\ result'[Of(e)].items = <<Text(e, None)>>
               /\ flow'[e] = AtNode(flow[e], IF IsContent(e) THEN "keep" ELSE "end")
<1>1. UNCHANGED exec /\ AtWork(e)
  BY DEF Fills, Clear, PersistDraft, PersistItem, PersistOnly, Persisted, vars
<1>2. Of(e) \in Runs
  BY <1>1 DEF Engine, Slots, Control, ExecInv, Live, Of, AtWork
<1>3. /\ result \in [Runs -> Result] /\ result[Of(e)] \in Result
      /\ flow \in [Execs -> Flow]
  BY <1>2 DEF PipelineTypeOK
<1>4. \A s : /\ result' = [result EXCEPT ![Of(e)].items = s] => result'[Of(e)].items = s
             /\ result' = [result EXCEPT ![Of(e)].ideas = s] => result'[Of(e)].ideas = s
  BY <1>2, <1>3 DEF Result
<1>5. \A f : Step(e, f) => flow'[e] = f
  BY <1>3 DEF Step
<1>6. ASSUME Persisted(e)
      PROVE  flow'[e] = AtNode(flow[e], IF IsContent(e) THEN "keep" ELSE "end")
  BY <1>5, <1>6 DEF Persisted
<1>7. CASE Clear(e)
  BY <1>1, <1>2, <1>4, <1>5, <1>7 DEF Clear
<1>8. CASE PersistDraft(e)
  BY <1>1, <1>2, <1>4, <1>6, <1>8 DEF PersistDraft
<1>9. CASE PersistItem(e)
  <2> DEFINE s == Append(result[Of(e)].items, Text(e, Selection[Of(e)][flow[e].pos]))
  <2>1. result' = [result EXCEPT ![Of(e)].items = s]
    BY <1>2, <1>3, <1>9 DEF PersistItem
  <2>2. result'[Of(e)].items = s
    BY <1>4, <2>1
  <2> QED
    BY <1>1, <1>2, <1>6, <1>9, <2>2 DEF PersistItem
<1>10. CASE PersistOnly(e)
  BY <1>1, <1>2, <1>4, <1>6, <1>10 DEF PersistOnly
<1> QED
  BY <1>7, <1>8, <1>9, <1>10 DEF Fills

\* One more idea is written.
LEMMA FilledMore ==
  ASSUME NEW s \in Seq(Item), NEW r, NEW n \in Nat, Filled(s, r, n), NEW x \in Item,
         x.idea = Chosen(r)[n + 1]
  PROVE  Filled(Append(s, x), r, n + 1)
<1>1. Len(s) = n /\ \A i \in 1..n : s[i].idea = Chosen(r)[i]
  BY DEF Filled
<1>2. Len(Append(s, x)) = n + 1
  BY <1>1
<1>3. \A i \in 1..n : Append(s, x)[i] = s[i]
  BY <1>1
<1>4. Append(s, x)[n + 1] = x
  BY <1>1
<1>5. \A i \in 1..(n + 1) : i \in 1..n \/ i = n + 1
  OBVIOUS
<1> QED
  BY <1>1, <1>2, <1>3, <1>4, <1>5 DEF Filled

LEMMA FillsKeep ==
  ASSUME Engine, PipelineTypeOK, PlaceInv, ChoiceInv, NEW e \in Execs, Fills(e)
  PROVE  InTables(flow'[e], result'[Of(e)], Of(e))
<1> DEFINE r == Of(e)
           f == flow[e]
           x == result[Of(e)]
           y == result'[Of(e)]
           g == flow'[e]
<1>0. /\ AtWork(e) /\ r \in Runs /\ f \in Flow /\ x \in Result
      /\ exec[e].pc = "work"
  BY FillsEffect DEF PipelineTypeOK, AtWork
<1>1. InTables(f, x, r)
  BY <1>0 DEF ChoiceInv, Filling
<1>2. PerIdea(e) <=> Each(f, r)
  BY DEF PerIdea, Each, IsContent
<1>3. /\ f.pos \in Nat /\ f.phase \in Phases
      /\ r \in TwoStage => f.pos \in 1..Len(Selection[r])
  BY <1>0 DEF Flow, PlaceInv, Placed
<1>4. Text(e, None).idea = None
  BY DEF Text
<1>5. CASE Clear(e)
  <2>1. y.items = <<>> /\ g = [f EXCEPT !.node = "context"] /\ f.node = "clear"
    BY <1>0, <1>5, FillsEffect DEF Clear, PersistDraft, PersistItem, PersistOnly
  <2>2. g.node = "context" /\ g.pos = 1 /\ g.phase = f.phase
    BY <1>0, <1>1, <2>1 DEF InTables, Flow
  <2>3. Filled(<<>>, r, 0)
    BY DEF Filled
  <2> HIDE DEF g, y, f
  <2> QED
    BY <2>1, <2>2, <2>3 DEF InTables, g, y
<1>6. ASSUME f.node = "persist",
             g = AtNode(f, IF IsContent(e) THEN "keep" ELSE "end"),
             f.phase = "draft" => Len(y.ideas) = 1,
             f.phase = "final" => Filled(y.items, r, IF Each(f, r) THEN f.pos ELSE 1)
      PROVE  InTables(g, y, r)
  <2>1. /\ g.node = IF r \in ContentRuns THEN "keep" ELSE "end"
        /\ g.phase = f.phase /\ g.pos = f.pos
    BY <1>0, <1>6, AtNodeKeeps DEF IsContent
  <2>2. Each(g, r) <=> Each(f, r)
    BY <2>1 DEF Each
  <2> HIDE DEF g, y, f
  <2> QED
    BY <1>6, <2>1, <2>2 DEF InTables, Each
<1>7. CASE PersistDraft(e)
  <2>1. f.node = "persist" /\ f.phase = "draft"
    BY <1>7 DEF PersistDraft
  <2>2. y.ideas = <<Text(e, None)>>
        /\ g = AtNode(f, IF IsContent(e) THEN "keep" ELSE "end")
    BY <1>7, <2>1, FillsEffect DEF Clear, PersistItem, PerIdea, PersistOnly
  <2>3. Len(y.ideas) = 1
    BY <2>2
  <2> HIDE DEF f, g, y
  <2> QED
    BY <1>6, <2>1, <2>2, <2>3 DEF g, y
<1>8. CASE PersistItem(e)
  <2>1. f.node = "persist" /\ f.phase = "final" /\ Each(f, r)
    BY <1>2, <1>8 DEF PersistItem, Each
  <2> DEFINE t == Text(e, Selection[r][f.pos])
  <2>2. /\ y.items = Append(x.items, t)
        /\ g = AtNode(f, IF IsContent(e) THEN "keep" ELSE "end")
    BY <1>2, <1>8, <2>1, FillsEffect DEF Clear, PersistDraft, PersistOnly
  <2>3. /\ f.pos \in 1..Len(Selection[r]) /\ Selection[r] \in Seq(Ideas)
        /\ Chosen(r) = Selection[r]
    BY <1>3, <2>1, PipelineAssumption DEF PipelineAssumption, Each, Chosen
  <2>4. Selection[r][f.pos] \in Ideas
    BY <2>3
  <2>5. t \in Item /\ t.idea = Chosen(r)[f.pos]
    BY <2>3, <2>4, TextType DEF PipelineTypeOK, Text
  <2>6. Filled(x.items, r, f.pos - 1) /\ x.items \in Seq(Item)
    BY <1>0, <1>1, <2>1 DEF InTables, Result
  <2> HIDE DEF t, f, x, y, g
  <2>7. f.pos - 1 \in Nat /\ (f.pos - 1) + 1 = f.pos
    BY <2>3
  <2>8. Filled(Append(x.items, t), r, f.pos)
    BY <2>5, <2>6, <2>7, FilledMore
  <2> QED
    BY <1>6, <2>1, <2>2, <2>8 DEF g, y
<1>9. CASE PersistOnly(e)
  <2>1. f.node = "persist" /\ f.phase = "final" /\ ~Each(f, r)
    BY <1>2, <1>9 DEF PersistOnly
  <2>2. y.items = <<Text(e, None)>>
        /\ g = AtNode(f, IF IsContent(e) THEN "keep" ELSE "end")
    BY <1>2, <1>9, <2>1, FillsEffect DEF Clear, PersistDraft, PersistItem
  <2>3. Chosen(r) = <<None>>
    BY <2>1 DEF Each, Chosen
  <2>4. Filled(y.items, r, 1)
    BY <1>4, <2>2, <2>3 DEF Filled
  <2> HIDE DEF f, g, y
  <2> QED
    BY <1>6, <2>1, <2>2, <2>4 DEF g, y
<1> QED
  BY <1>5, <1>7, <1>8, <1>9 DEF Fills

LEMMA OwnFilling ==
  ASSUME Engine, PipelineTypeOK, FlowInv, PlaceInv, HandInv, ChoiceInv, PipelineNext,
         NEW e \in Execs, Load(e) \/ Prepare(e) \/ GraphStep(e),
         exec'[e].pc \in {"prepare", "work"}
  PROVE  Filling(e)'
<1> DEFINE r == Of(e)
           f == flow[e]
           x == result[Of(e)]
<1>0. /\ exec \in [Execs -> Exec] /\ exec[e] \in Exec /\ TypeOK
      /\ flow \in [Execs -> Flow] /\ f \in Flow
      /\ f.calling => f.node \in Agents
      /\ exec'[e].run = exec[e].run
  BY SameRun DEF Engine, Slots, TypeOK, PipelineTypeOK, FlowInv, Sound
<1>1. CASE Fills(e)
  <2>1. exec'[e].pc = "work" /\ exec'[e].run = r
    BY <1>1, FillsEffect DEF AtWork, Of
  <2> QED
    BY <1>1, <2>1, FillsKeep DEF Filling, AtWork, Of
<1>2. CASE Load(e)
  <2>1. exec'[e].pc = "prepare"
    BY <1>0, <1>2, LeaveShape, GotoShape DEF Load, ExecLoad
  <2>2. flow'[e] = [NoFlow EXCEPT !.phase = PhaseOf(e), !.base = x.counts]
    BY <1>0, <1>2, <2>1 DEF Load, Step
  <2>3. flow'[e].pos = 1
    BY <2>2 DEF NoFlow
  <2> QED
    BY <2>1, <2>3 DEF Filling, AtWork
<1>3. CASE Prepare(e)
  <2>1. exec[e].pc = "prepare" /\ exec'[e].pc = "work"
    <3>1. exec[e].pc = "prepare" /\ ~Goto(e, "final")
      BY <1>0, <1>3, GotoShape DEF Prepare, ExecPrepare
    <3>2. exec' = [exec EXCEPT ![e] = [@ EXCEPT !.pc = "work", !.catcher = "executor"]]
      BY <1>3, <3>1 DEF Prepare, ExecPrepare
    <3> QED
      BY <1>0, <3>1, <3>2 DEF Exec
  <2> DEFINE g == [f EXCEPT !.node = IF PerIdea(e) THEN "clear" ELSE "context"]
  <2>2. Step(e, g)
    BY <1>3, <2>1 DEF Prepare
  <2>3. /\ g.node = IF PerIdea(e) THEN "clear" ELSE "context"
        /\ g.phase = f.phase /\ g.pos = f.pos
    BY <1>0 DEF Flow
  <2>4. f.pos = 1
    BY <2>1 DEF ChoiceInv, Filling
  <2>5. PerIdea(e) <=> Each(f, r)
    BY DEF PerIdea, Each, IsContent
  <2> HIDE DEF g, f
  <2>6. InTables(g, x, r)
    BY <2>3, <2>4, <2>5 DEF InTables, Each
  <2>7. ~Fills(e)
    BY <2>1 DEF Fills, Clear, PersistDraft, PersistItem, PersistOnly, AtWork
  <2> QED
    BY <1>0, <2>1, <2>2, <2>6, <2>7, FillingMoves
<1>4. ASSUME AtWork(e), UNCHANGED exec, ~Fills(e), NEW g, Step(e, g), InTables(g, x, r)
      PROVE  Filling(e)'
  BY <1>0, <1>4, FillingMoves DEF AtWork
<1>5. ASSUME AtWork(e) PROVE InTables(f, x, r)
  BY <1>5 DEF ChoiceInv, Filling
<1>6. ASSUME AtWork(e), UNCHANGED exec, ~Fills(e), NEW g, Step(e, g),
             g.phase = f.phase, g.pos = f.pos,
             f.node \notin {"clear", "keep", "end"}, g.node \notin {"clear", "keep", "end"}
      PROVE  Filling(e)'
  <2>1. InTables(f, x, r)
    BY <1>5, <1>6
  <2> HIDE DEF f, x, r
  <2>2. InTables(g, x, r)
    BY <1>6, <2>1, BetweenNodes
  <2> QED
    BY <1>4, <1>6, <2>2
<1>7. CASE ~Fills(e) /\ LoadContext(e)
  <2> DEFINE h == [f EXCEPT !.count = f.base[f.phase], !.verdict = "none", !.fresh = FALSE]
  <2>1. /\ AtWork(e) /\ f.node = "context" /\ UNCHANGED exec
        /\ Step(e, AtNode(h, "write"))
    BY <1>7 DEF LoadContext, vars
  <2>2. h \in Flow /\ h.phase = f.phase /\ h.pos = f.pos
    <3>1. f.base[f.phase] \in Nat
      BY <1>0 DEF Flow
    <3>2. h \in Flow
      BY <1>0, <3>1, FlowFields
    <3>3. h.phase = f.phase /\ h.pos = f.pos
      BY <1>0 DEF Flow
    <3> QED
      BY <3>2, <3>3
  <2> HIDE DEF h, f
  <2>3. /\ AtNode(h, "write").node = "write" /\ AtNode(h, "write").phase = f.phase
        /\ AtNode(h, "write").pos = f.pos
    BY <2>2, AtNodeKeeps
  <2> QED
    BY <1>6, <1>7, <2>1, <2>3
<1>8. CASE ~Fills(e) /\ HopCall(e)
  <2> DEFINE g == [f EXCEPT !.calling = TRUE]
  <2>1. AtWork(e) /\ f.node \in Agents /\ UNCHANGED exec /\ Step(e, g)
    BY <1>8 DEF HopCall, vars
  <2>2. g.node = f.node /\ g.phase = f.phase /\ g.pos = f.pos
    BY <1>0 DEF Flow
  <2> HIDE DEF g, f
  <2> QED
    BY <1>6, <1>8, <2>1, <2>2 DEF Agents
<1>9. CASE ~Fills(e) /\ HopRetry(e)
  <2>1. PICK bad : Step(e, [f EXCEPT !.attempt = @ + 1, !.calling = FALSE,
                                     !.bad = @ \cup bad])
    BY <1>9 DEF HopRetry
  <2> DEFINE g == [f EXCEPT !.attempt = @ + 1, !.calling = FALSE, !.bad = @ \cup bad]
  <2>2. g.node = f.node /\ g.phase = f.phase /\ g.pos = f.pos /\ Step(e, g)
    BY <1>0, <2>1 DEF Flow
  <2>3. AtWork(e) /\ f.node \in Agents /\ UNCHANGED exec
    BY <1>0, <1>9 DEF HopRetry, vars
  <2> HIDE DEF g, f
  <2> QED
    BY <1>6, <1>9, <2>2, <2>3 DEF Agents
<1>10. ASSUME ~Fills(e), AtWork(e), UNCHANGED exec, NEW h \in Flow, NEW n,
              Step(e, AtNode(h, n)), h.phase = f.phase, h.pos = f.pos,
              f.node \in Agents \cup {"count"}, n \notin {"clear", "keep", "end"}
       PROVE  Filling(e)'
  <2> HIDE DEF f
  <2>1. /\ AtNode(h, n).node = n /\ AtNode(h, n).phase = f.phase
        /\ AtNode(h, n).pos = f.pos
    BY <1>10, AtNodeKeeps
  <2> QED
    BY <1>6, <1>10, <2>1 DEF Agents
<1>11. CASE ~Fills(e) /\ (Written(e) \/ Count(e))
  <2>1. /\ AtWork(e) /\ f.node \in {"write", "count"} /\ UNCHANGED exec
        /\ Step(e, AtNode(f, "verify"))
    BY <1>11 DEF Written, Count, vars
  <2> HIDE DEF f
  <2> QED
    BY <1>0, <1>10, <1>11, <2>1 DEF Agents
<1>12. CASE ~Fills(e) /\ Verified(e)
  <2>1. PICK v \in {"ok", "rejected"} :
          Step(e, AtNode([f EXCEPT !.verdict = v, !.fresh = TRUE],
                         RouteAfterConsistencyVerifier(v, f.count)))
    BY <1>12 DEF Verified
  <2> DEFINE h == [f EXCEPT !.verdict = v, !.fresh = TRUE]
             n == RouteAfterConsistencyVerifier(v, f.count)
  <2>2. AtWork(e) /\ f.node = "verify" /\ UNCHANGED exec
    BY <1>12 DEF Verified, vars
  <2>3. n \in {"persist", "refine", "fail"}
    BY DEF RouteAfterConsistencyVerifier
  <2>4. h \in Flow
    BY <1>0, FlowFields
  <2>5. h.phase = f.phase /\ h.pos = f.pos /\ Step(e, AtNode(h, n))
    BY <1>0, <2>1 DEF Flow
  <2> HIDE DEF h, n, f
  <2> QED
    BY <1>10, <1>12, <2>2, <2>3, <2>4, <2>5 DEF Agents
<1>13. CASE ~Fills(e) /\ Refined(e)
  <2> DEFINE h == [f EXCEPT !.count = @ + 1, !.fresh = FALSE]
             n == IF IsContent(e) THEN "count" ELSE "verify"
  <2>1. /\ AtWork(e) /\ f.node = "refine" /\ UNCHANGED exec
        /\ Step(e, AtNode(h, n))
    BY <1>13 DEF Refined, vars
  <2>2. h \in Flow
    BY <1>0, FlowFields
  <2>3. h.phase = f.phase /\ h.pos = f.pos
    BY <1>0 DEF Flow
  <2> HIDE DEF h, f
  <2> QED
    BY <1>10, <1>13, <2>1, <2>2, <2>3 DEF Agents
<1>14. CASE ~Fills(e) /\ Keep(e)
  <2> DEFINE g == [f EXCEPT !.node = "end"]
  <2>1. AtWork(e) /\ f.node = "keep" /\ UNCHANGED exec /\ Step(e, g)
    BY <1>14 DEF Keep, vars
  <2>2. g.node = "end" /\ g.phase = f.phase /\ g.pos = f.pos
    BY <1>0 DEF Flow
  <2>3. InTables(f, x, r)
    BY <1>5, <2>1
  <2> HIDE DEF g, f, x, r
  <2>4. InTables(g, x, r)
    BY <2>1, <2>2, <2>3 DEF InTables, Each
  <2> QED
    BY <1>4, <1>14, <2>1, <2>4
<1>15. CASE ~Fills(e) /\ NextIdea(e)
  <2> DEFINE g == [f EXCEPT !.node = "context", !.pos = @ + 1]
  <2>1. AtWork(e) /\ f.node = "end" /\ PerIdea(e) /\ UNCHANGED exec /\ Step(e, g)
    BY <1>15 DEF NextIdea, LastIdea, vars
  <2>2. g.node = "context" /\ g.phase = f.phase /\ g.pos = f.pos + 1 /\ f.pos \in Nat
    BY <1>0 DEF Flow
  <2>3. Each(f, r)
    BY <2>1 DEF PerIdea, Each, IsContent
  <2>4. InTables(f, x, r)
    BY <1>5, <2>1
  <2> HIDE DEF g, f, x, r
  <2>5. Filled(x.items, r, f.pos)
    BY <2>1, <2>3, <2>4 DEF InTables
  <2>6. Filled(x.items, r, g.pos - 1)
    <3>1. g.pos - 1 = f.pos
      BY <2>2
    <3> QED
      BY <2>5, <3>1
  <2>7. InTables(g, x, r)
    BY <2>2, <2>6 DEF InTables
  <2> QED
    BY <1>4, <1>15, <2>1, <2>7
<1>16. ~HopAbort(e) /\ ~Outcome(e) /\ ~FailRun(e) /\ ~Break(e)
  BY GraphLeft
<1> QED
  BY <1>1, <1>2, <1>3, <1>7, <1>8, <1>9, <1>11, <1>12, <1>13, <1>14, <1>15, <1>16
  DEF GraphStep, Fills

LEMMA FillingStep ==
  ASSUME Engine, PipelineTypeOK, FlowInv, PlaceInv, HandInv, ChoiceInv, PipelineNext,
         NEW d \in Execs
  PROVE  Filling(d)'
<1>1. CASE exec'[d].pc \notin {"prepare", "work"}
  BY <1>1 DEF Filling, AtWork
<1>2. CASE exec'[d].pc \in {"prepare", "work"}
  <2>1. ~PipelineCrash
    BY <1>2 DEF PipelineCrash, Crash, NoExec
  <2>2. ASSUME exec'[d] = exec[d], flow'[d] = flow[d], ~Fills(d) PROVE Filling(d)'
    BY <1>2, <2>2, FillingKept
  <2>3. CASE Fills(d)
    BY <1>2, <2>3, OwnFilling DEF GraphStep, Fills
  <2>4. CASE Surroundings
    BY <1>2, <2>2, <2>3, <2>4, OthersInGraph DEF Surroundings, pipelineVars
  <2>5. ASSUME NEW e \in Execs, ExecSave(e) \/ ExecAnchor(e) \/ ExecRescue(e) \/ ExecEnd(e),
               UNCHANGED pipelineVars
        PROVE  Filling(d)'
    BY <1>2, <2>2, <2>3, <2>5, OthersInGraph DEF pipelineVars
  <2>6. ASSUME NEW e \in Execs, e # d,
               Load(e) \/ Prepare(e) \/ GraphStep(e) \/ ExecutorThrow(e)
        PROVE  Filling(d)'
    BY <2>2, <2>3, <2>6, GraphOfOne
  <2>7. ~ExecutorThrow(d)
    BY <1>2, GraphLeft
  <2>8. ASSUME Load(d) \/ Prepare(d) \/ GraphStep(d) PROVE Filling(d)'
    BY <1>2, <2>8, OwnFilling
  <2> QED
    BY <2>1, <2>4, <2>5, <2>6, <2>7, <2>8 DEF PipelineNext, ExecutorStep
<1> QED
  BY <1>1, <1>2

LEMMA ChoiceStep ==
  ASSUME Engine, PipelineTypeOK, FlowInv, PlaceInv, HandInv, ChoiceInv, PipelineNext
  PROVE  ChoiceInv'
<1>0. Next \/ UNCHANGED vars
  BY EngineStep
<1>1. ASSUME NEW e \in Execs, exec[e].pc = "save", exec[e].to = "completed"
      PROVE  /\ Of(e) \in Runs /\ Whole(Of(e)) /\ Has(e, Of(e)) /\ SameTables(Of(e))
  <2>1. Of(e) \in Runs
    BY <1>1 DEF Engine, Slots, Control, ExecInv, Live, Of
  <2>2. Has(e, Of(e)) /\ ~AtWork(e)
    BY <1>1 DEF Has, Working, AtWork, Of
  <2>3. ~Fills(e)
    BY <2>2 DEF Fills, Clear, PersistDraft, PersistItem, PersistOnly
  <2> QED
    BY <1>1, <2>1, <2>2, <2>3, TablesKept DEF ChoiceInv
<1>2. ASSUME NEW r \in Runs, Status(r)' = "completed" PROVE Whole(r)'
  <2>1. CASE Status(r) = "completed"
    <3>1. ASSUME NEW e \in Execs, Fills(e), Of(e) = r PROVE FALSE
      <4>1. AtWork(e)
        BY <3>1 DEF Fills, Clear, PersistDraft, PersistItem, PersistOnly
      <4> QED
        BY <2>1, <3>1, <4>1, Owner DEF AtWork, Fresh
    <3>2. SameTables(r)
      BY <3>1, TablesEffect
    <3> QED
      BY <2>1, <3>2, WholeKept DEF ChoiceInv
  <2>2. CASE Status(r) # "completed"
    <3>1. Next
      BY <1>0, <1>2, <2>2 DEF Status, vars
    <3>2. Caused(r)
      BY <3>1, StatusCause DEF Engine, StatusMoved
    <3>3. PICK e \in Execs : ExecSave(e) /\ exec[e].run = r /\ exec[e].to = "completed"
      BY <1>2, <2>2, <3>2 DEF Caused, Claims
    <3>4. Whole(r) /\ SameTables(r)
      BY <1>1, <3>3 DEF ExecSave, Of
    <3> QED
      BY <3>4, WholeKept
  <2> QED
    BY <2>1, <2>2
<1>3. ASSUME NEW e \in Execs, exec'[e].pc = "save", exec'[e].to = "completed"
      PROVE  Whole(Of(e))'
  <2>1. CASE exec'[e] = exec[e]
    <3>1. PICK r \in Runs : r = Of(e) /\ Whole(r) /\ SameTables(r)
      BY <1>1, <1>3, <2>1
    <3>2. Whole(r)' /\ exec'[e].run = r
      BY <2>1, <3>1, WholeKept DEF Of
    <3> QED
      BY <3>2 DEF Of, Whole
  <2>2. CASE exec'[e] # exec[e]
    <3>1. Next
      BY <1>0, <2>2 DEF vars
    <3>2. ExecOutcome(e) /\ ~NeedsChoice(e)
      BY <1>3, <2>2, <3>1, CompletedCause
    <3>3. Outcome(e)
      BY <3>2, OutcomeHere
    <3>4. PICK r \in Runs : r = Of(e) /\ Whole(r)
      <4>1. Of(e) \in Runs
        BY <3>3 DEF Outcome, AtWork, Engine, Slots, Control, ExecInv, Live, Of
      <4> QED
        BY <3>2, <3>3, <4>1, OutcomeWhole
    <3>5. exec'[e].run = r
      BY <3>3, <3>4, SameRun DEF GraphStep, Of
    <3>6. UNCHANGED result
      BY <3>3 DEF Outcome
    <3> QED
      BY <3>4, <3>5, <3>6 DEF Of, Whole
  <2> QED
    BY <2>1, <2>2
<1> QED
  BY <1>2, <1>3, FillingStep DEF ChoiceInv

LEMMA ChoiceInit ==
  ASSUME PipelineInit
  PROVE  ChoiceInv
BY DEF PipelineInit, Init, NoExec, NoRow, ChoiceInv, Filling, AtWork, Status

LEMMA ChoiceStutter ==
  ASSUME ChoiceInv, UNCHANGED allVars
  PROVE  ChoiceInv'
<1>1. UNCHANGED <<row, exec, flow, result>>
  BY DEF allVars, pipelineVars, vars
<1> QED
  BY <1>1 DEF ChoiceInv, Filling, InTables, Whole, Of, AtWork, Status

\* Whatever attempts died half-way and whatever cancels raced them, a run that
\* says "completed" holds one item per chosen idea, in the order of the choice:
\* the facade's loop starts from cleared tables and nobody else writes them.
THEOREM CompletedRunsHoldTheChoice ==
  PipelineSpec /\ []OneChoiceAtATime => []CompletedHoldsTheChoice
<1>1. GraphInv /\ HandInv /\ ChoiceInv /\ [PipelineNext]_allVars => ChoiceInv'
  BY ChoiceStep, ChoiceStutter DEF GraphInv
<1>2. GraphInv /\ ChoiceInv => CompletedHoldsTheChoice
  <2>1. ASSUME GraphInv, NEW r \in Runs, Whole(r), r \notin IdeasOnly
        PROVE  [i \in DOMAIN result[r].items |-> result[r].items[i].idea] = Chosen(r)
    <3> DEFINE s == result[r].items
    <3>1. s \in Seq(Item)
      BY <2>1 DEF GraphInv, PipelineTypeOK, Result
    <3>2. Chosen(r) \in Seq(Ideas) \/ Chosen(r) = <<None>>
      BY PipelineAssumption DEF PipelineAssumption, Chosen
    <3>3. Len(s) = Len(Chosen(r)) /\ \A i \in 1..Len(s) : s[i].idea = Chosen(r)[i]
      BY <2>1 DEF Whole, Filled
    <3> HIDE DEF s
    <3>4. DOMAIN s = 1..Len(s) /\ DOMAIN Chosen(r) = 1..Len(s)
      BY <3>1, <3>2, <3>3
    <3>5. Chosen(r) = [i \in DOMAIN s |-> Chosen(r)[i]]
      BY <3>2, <3>4
    <3> QED
      BY <3>3, <3>4, <3>5 DEF s
  <2> QED
    BY <2>1 DEF ChoiceInv, Whole, CompletedHoldsTheChoice
<1> QED
  BY <1>1, <1>2, ChoiceInit, RefinesEngine, HandsAlone, GraphInductive, PTL
  DEF PipelineSpec

\* With one request for a choice per process, as in the run of this module,
\* nothing is assumed of the users: cancels, crashes and faults are free.
THEOREM OneUserIsServedRight ==
  ASSUME \A g, h \in Resumers : g = h
  PROVE  PipelineSpec =>
           [](OneWorkingExecution /\ RefineBudget /\ CompletedHoldsTheChoice)
BY OneUserOneChoice, RefinesEngine, OneChoiceOneExecution, CorrectionsStayInBudget,
   CompletedRunsHoldTheChoice, PTL

\* What the engine promises of any graph it promises of these: whatever their
\* hops and loops do, slots are accounted for, claims keep to the cap and their
\* order, recovery is bounded, a cancel is undone by a holder alone, recovery
\* and the drain come nearer to their end and wakes are lost to throws alone.
THEOREM PipelinesKeepTheEngine ==
  PipelineSpec => /\ [](SlotAccounting /\ ClaimedWithinCap /\ RecoveryBounded)
                  /\ ClaimOrder
                  /\ CancelUndoneOnlyByHolder
                  /\ [][BootNearer /\ DrainNearer]_vars
                  /\ ClaimsReturn => []NoWakeLost
<1>1. Spec => /\ [](SlotAccounting /\ ClaimedWithinCap /\ RecoveryBounded)
              /\ ClaimOrder
              /\ CancelUndoneOnlyByHolder
              /\ ClaimsReturn => []NoWakeLost
  BY SlotsAccounted, ClaimsWithinCap, RecoveryStaysBounded, ClaimsInOrder,
     CancelUndoneByHolderOnly, WakesAreKept, PTL
<1>2. Spec => [][BootNearer /\ DrainNearer]_vars
  BY RecoveryComesNearer, DrainsComeNearer, PTL
<1> QED
  BY <1>1, <1>2, RefinesEngine, PTL

-----------------------------------------------------------------------------
(* Every execution comes nearer to its end                                  *)

\* What a throw leads to comes after it: the executor's catch, the worker's,
\* and nobody's; and after each of them the statements of its save.
Catcher == [executor |-> 7, worker |-> 4, nobody |-> 1]

Statement == [rescue |-> 3, save |-> 2, anchor |-> 1]

Stage(x) ==
  CASE x.pc = "load"    -> 13
    [] x.pc = "prepare" -> 12
    [] x.pc = "work"    -> 11
    [] x.pc = "final"   -> 1
    [] x.pc = "none"    -> 0
    [] OTHER            -> Catcher[x.catcher] + Statement[x.pc]

IdeasLeft(x, f) ==
  IF x.pc = "work" /\ f.phase = "final" /\ x.run \in TwoStage \ ContentRuns
    THEN Len(Selection[x.run]) - f.pos
    ELSE 0

\* A graph may start from counters above the limit; it corrects nothing then.
CorrectionsLeft(f) ==
  CASE f.node \in {"none", "clear", "context"} -> MaxRefine + 1
    [] f.node \notin {"none", "clear", "context"} /\ f.count < MaxRefine
         -> MaxRefine - f.count
    [] OTHER -> 0

NodesLeft ==
  [clear |-> 9, context |-> 8, write |-> 7, count |-> 7, verify |-> 6,
   refine |-> 5, persist |-> 5, keep |-> 4, end |-> 3, fail |-> 3, none |-> 0]

CallsLeft(f) == IF f.calling THEN 0 ELSE 1

\* How far an execution x in the graph f is from its end.
Rank(x, f) ==
  <<Stage(x), IdeasLeft(x, f), CorrectionsLeft(f), NodesLeft[f.node],
    MaxGatewayAttempts - f.attempt, CallsLeft(f)>>

LEMMA SixNumbers ==
  ASSUME NEW a1 \in Nat, NEW a2 \in Nat, NEW a3 \in Nat,
         NEW a4 \in Nat, NEW a5 \in Nat, NEW a6 \in Nat
  PROVE  <<a1, a2, a3, a4, a5, a6>> \in Ranks(6)
BY DEF Ranks

\* The order, written out.
LEMMA Lower ==
  ASSUME NEW a \in Ranks(6), NEW b \in Ranks(6),
         \/ a[1] < b[1]
         \/ a[1] = b[1] /\ a[2] < b[2]
         \/ a[1] = b[1] /\ a[2] = b[2] /\ a[3] < b[3]
         \/ a[1] = b[1] /\ a[2] = b[2] /\ a[3] = b[3] /\ a[4] < b[4]
         \/ a[1] = b[1] /\ a[2] = b[2] /\ a[3] = b[3] /\ a[4] = b[4] /\ a[5] < b[5]
         \/ a[1] = b[1] /\ a[2] = b[2] /\ a[3] = b[3] /\ a[4] = b[4] /\ a[5] = b[5] 
            /\ a[6] < b[6]
  PROVE  a \prec b
<1>0. DOMAIN a = 1..6
  BY DEF Ranks
<1>1. ASSUME NEW j \in 1..6, a[j] < b[j], \A i \in 1..(j - 1) : a[i] = b[i]
      PROVE  a \prec b
  BY <1>0, <1>1 DEF \prec
<1>2. CASE a[1] < b[1]
  BY <1>1, <1>2
<1>3. CASE a[1] = b[1] /\ a[2] < b[2]
  <2>1. \A i \in 1..1 : i = 1
    OBVIOUS
  <2> QED
    BY <1>1, <1>3, <2>1
<1>4. CASE a[1] = b[1] /\ a[2] = b[2] /\ a[3] < b[3]
  <2>1. \A i \in 1..2 : i = 1 \/ i = 2
    OBVIOUS
  <2> QED
    BY <1>1, <1>4, <2>1
<1>5. CASE a[1] = b[1] /\ a[2] = b[2] /\ a[3] = b[3] /\ a[4] < b[4]
  <2>1. \A i \in 1..3 : i = 1 \/ i = 2 \/ i = 3
    OBVIOUS
  <2> QED
    BY <1>1, <1>5, <2>1
<1>6. CASE a[1] = b[1] /\ a[2] = b[2] /\ a[3] = b[3] /\ a[4] = b[4] /\ a[5] < b[5]
  <2>1. \A i \in 1..4 : i = 1 \/ i = 2 \/ i = 3 \/ i = 4
    OBVIOUS
  <2> QED
    BY <1>1, <1>6, <2>1
<1>7. CASE /\ a[1] = b[1] /\ a[2] = b[2] /\ a[3] = b[3] /\ a[4] = b[4]
           /\ a[5] = b[5] /\ a[6] < b[6]
  <2>1. \A i \in 1..5 : i = 1 \/ i = 2 \/ i = 3 \/ i = 4 \/ i = 5
    OBVIOUS
  <2> QED
    BY <1>1, <1>7, <2>1
<1> QED
  BY <1>2, <1>3, <1>4, <1>5, <1>6, <1>7

\* No step takes an execution further from its end, each of its own brings it
\* nearer, and so does each throw.
Nearer ==
  \A e \in Execs :
    /\ Rank(exec[e], flow[e]) \in Ranks(6)
    /\ exec[e].pc # "none" =>
         \/ Rank(exec'[e], flow'[e]) = Rank(exec[e], flow[e])
         \/ Rank(exec'[e], flow'[e]) \prec Rank(exec[e], flow[e])
    /\ ExecutorStep(e) \/ ExecutorThrow(e) =>
         Rank(exec'[e], flow'[e]) \prec Rank(exec[e], flow[e])

LEMMA StageBounds ==
  ASSUME NEW x \in Exec
  PROVE  /\ Stage(x) \in 0..13
         /\ x.pc \notin {"load", "prepare", "work"} => Stage(x) < 11
<1>1. x.pc \in {"rescue", "save", "anchor"} =>
        Stage(x) = Catcher[x.catcher] + Statement[x.pc]
  BY DEF Stage
<1>2. Catcher[x.catcher] \in {1, 4, 7}
  BY DEF Catcher, Exec
<1>3. x.pc \in {"rescue", "save", "anchor"} => Statement[x.pc] \in 1..3
  BY DEF Statement
<1>4. x.pc \in {"rescue", "save", "anchor"} => Stage(x) \in 2..10
  BY <1>1, <1>2, <1>3
<1>5. x.pc \notin {"rescue", "save", "anchor"} =>
        /\ Stage(x) \in 0..13
        /\ x.pc \notin {"load", "prepare", "work"} => Stage(x) < 11
  BY DEF Stage, Exec
<1> QED
  BY <1>4, <1>5

LEMMA RankBounds ==
  ASSUME NEW x \in Exec, NEW f \in Flow,
         x.pc = "work" /\ x.run \in TwoStage => f.pos \in 1..Len(Selection[x.run])
  PROVE  /\ Stage(x) \in Nat
         /\ IdeasLeft(x, f) \in Nat
         /\ CorrectionsLeft(f) \in Nat
         /\ NodesLeft[f.node] \in Nat
         /\ MaxGatewayAttempts - f.attempt \in Nat
         /\ CallsLeft(f) \in Nat
         /\ Rank(x, f) \in Ranks(6)
<1>1. /\ MaxRefine \in Nat /\ MaxGatewayAttempts \in Nat
      /\ \A r \in TwoStage : Len(Selection[r]) \in Nat
  BY PipelineAssumption DEF PipelineAssumption
<1>2. Stage(x) \in Nat
  BY StageBounds
<1>3. IdeasLeft(x, f) \in Nat
  <2>1. CASE x.pc = "work" /\ x.run \in TwoStage
    <3>1. Len(Selection[x.run]) \in Nat /\ f.pos \in 1..Len(Selection[x.run])
      BY <1>1, <2>1
    <3>2. Len(Selection[x.run]) - f.pos \in Nat
      BY <3>1
    <3> QED
      BY <3>2 DEF IdeasLeft
  <2>2. CASE ~(x.pc = "work" /\ x.run \in TwoStage)
    BY <2>2 DEF IdeasLeft
  <2> QED
    BY <2>1, <2>2
<1>4. CorrectionsLeft(f) \in Nat
  <2>1. f.count \in Nat
    BY DEF Flow
  <2>2. f.count < MaxRefine => MaxRefine - f.count \in Nat
    BY <1>1, <2>1
  <2> QED
    BY <1>1, <2>2 DEF CorrectionsLeft
<1>5. NodesLeft[f.node] \in Nat
  BY DEF NodesLeft, Flow, Agents
<1>6. MaxGatewayAttempts - f.attempt \in Nat
  <2>1. f.attempt \in 1..MaxGatewayAttempts
    BY DEF Flow
  <2> QED
    BY <1>1, <2>1
<1>7. CallsLeft(f) \in Nat
  BY DEF CallsLeft
<1> QED
  BY <1>2, <1>3, <1>4, <1>5, <1>6, <1>7, SixNumbers DEF Rank

\* The graph goes from f to g inside one idea: to a later node, to the verifier
\* after a correction, to the next attempt of a hop or into its call.
Onward(f, g) ==
  /\ g.phase = f.phase /\ g.pos = f.pos
  /\ \/ CorrectionsLeft(g) < CorrectionsLeft(f)
     \/ /\ CorrectionsLeft(g) = CorrectionsLeft(f)
        /\ \/ NodesLeft[g.node] < NodesLeft[f.node]
           \/ /\ g.node = f.node
              /\ \/ g.attempt > f.attempt
                 \/ g.attempt = f.attempt /\ ~f.calling /\ g.calling

\* The execution goes from y in f to x in g: what is left, in its order.
LEMMA RankFalls ==
  ASSUME NEW x \in Exec, NEW f \in Flow, NEW y \in Exec, NEW g \in Flow,
         x.pc = "work" /\ x.run \in TwoStage => f.pos \in 1..Len(Selection[x.run]),
         y.pc = "work" /\ y.run \in TwoStage => g.pos \in 1..Len(Selection[y.run]),
         \/ Stage(y) < Stage(x)
         \/ /\ Stage(y) = Stage(x)
            /\ \/ IdeasLeft(y, g) < IdeasLeft(x, f)
               \/ IdeasLeft(y, g) = IdeasLeft(x, f) /\ Onward(f, g)
  PROVE  Rank(y, g) \prec Rank(x, f)
<1> DEFINE a1 == Stage(y)                          b1 == Stage(x)
           a2 == IdeasLeft(y, g)                   b2 == IdeasLeft(x, f)
           a3 == CorrectionsLeft(g)                b3 == CorrectionsLeft(f)
           a4 == NodesLeft[g.node]                 b4 == NodesLeft[f.node]
           a5 == MaxGatewayAttempts - g.attempt    b5 == MaxGatewayAttempts - f.attempt
           a6 == CallsLeft(g)                      b6 == CallsLeft(f)
<1>1. /\ b1 \in Nat /\ b2 \in Nat /\ b3 \in Nat /\ b4 \in Nat /\ b5 \in Nat /\ b6 \in Nat
  BY RankBounds
<1>2. /\ a1 \in Nat /\ a2 \in Nat /\ a3 \in Nat /\ a4 \in Nat /\ a5 \in Nat /\ a6 \in Nat
  BY RankBounds
<1>3. /\ Rank(x, f) \in Ranks(6) /\ Rank(y, g) \in Ranks(6)
      /\ Rank(x, f) = <<b1, b2, b3, b4, b5, b6>>
      /\ Rank(y, g) = <<a1, a2, a3, a4, a5, a6>>
  BY RankBounds DEF Rank
<1>4. Onward(f, g) =>
        \/ a3 < b3
        \/ a3 = b3 /\ a4 < b4
        \/ a3 = b3 /\ a4 = b4 /\ a5 < b5
        \/ a3 = b3 /\ a4 = b4 /\ a5 = b5 /\ a6 < b6
  <2>1. g.attempt > f.attempt => a5 < b5
    BY PipelineAssumption DEF PipelineAssumption, Flow
  <2>2. ~f.calling /\ g.calling => a6 < b6
    BY DEF CallsLeft
  <2> QED
    BY <2>1, <2>2 DEF Onward
<1>5. \/ a1 < b1
      \/ a1 = b1 /\ a2 < b2
      \/ a1 = b1 /\ a2 = b2 /\ Onward(f, g)
  OBVIOUS
<1> HIDE DEF a1, a2, a3, a4, a5, a6, b1, b2, b3, b4, b5, b6
<1> DEFINE a == Rank(y, g)
           b == Rank(x, f)
<1>6. /\ a[1] = a1 /\ a[2] = a2 /\ a[3] = a3 /\ a[4] = a4 /\ a[5] = a5 /\ a[6] = a6
      /\ b[1] = b1 /\ b[2] = b2 /\ b[3] = b3 /\ b[4] = b4 /\ b[5] = b5 /\ b[6] = b6
  BY <1>3
<1> HIDE DEF a, b
<1>7. a \in Ranks(6) /\ b \in Ranks(6)
  BY <1>3 DEF a, b
<1>8. a \prec b
  BY <1>4, <1>5, <1>6, <1>7, Lower
<1> QED
  BY <1>8 DEF a, b

LEMMA IdeaFalls ==
  ASSUME NEW x \in Exec, NEW f \in Flow, NEW g \in Flow,
         x.pc = "work", x.run \in TwoStage \ ContentRuns, f.phase = "final",
         f.pos \in 1..Len(Selection[x.run]), g.pos \in 1..Len(Selection[x.run]),
         g.phase = f.phase, g.pos = f.pos + 1
  PROVE  Rank(x, g) \prec Rank(x, f)
<1>1. Len(Selection[x.run]) \in Nat
  BY PipelineAssumption DEF PipelineAssumption
<1>2. /\ IdeasLeft(x, f) = Len(Selection[x.run]) - f.pos
      /\ IdeasLeft(x, g) = Len(Selection[x.run]) - g.pos
  BY DEF IdeasLeft
<1>3. IdeasLeft(x, g) < IdeasLeft(x, f)
  BY <1>1, <1>2
<1> QED
  BY <1>3, RankFalls

LEMMA NodeFalls ==
  ASSUME NEW x \in Exec, NEW f \in Flow, NEW g \in Flow,
         x.pc = "work" /\ x.run \in TwoStage => f.pos \in 1..Len(Selection[x.run]),
         Onward(f, g)
  PROVE  Rank(x, g) \prec Rank(x, f)
<1>1. g.phase = f.phase /\ g.pos = f.pos
  BY DEF Onward
<1>2. IdeasLeft(x, g) = IdeasLeft(x, f)
  BY <1>1 DEF IdeasLeft
<1> QED
  BY <1>1, <1>2, RankFalls

\* The router sends a text to be corrected below the limit only.
Refinable(f) == f.node = "refine" => f.count < MaxRefine

RefineInv == \A e \in Execs : Refinable(flow[e])

\* A node hands the same text, or the same count, to a later node.
LEMMA HandsOn ==
  ASSUME NEW f, NEW g, g.phase = f.phase, g.pos = f.pos, g.count = f.count,
         f.node \notin {"none", "clear", "context"},
         g.node \notin {"none", "clear", "context"},
         NodesLeft[g.node] < NodesLeft[f.node]
  PROVE  Onward(f, g)
BY DEF Onward, CorrectionsLeft

LEMMA StepTo ==
  ASSUME PipelineTypeOK, NEW e \in Execs, NEW g, Step(e, g)
  PROVE  flow'[e] = g /\ \A d \in Execs \ {e} : flow'[d] = flow[d]
BY DEF PipelineTypeOK, Step

LEMMA GraphMoves ==
  ASSUME PipelineTypeOK, FlowInv, NEW e \in Execs, Refinable(flow[e]), GraphStep(e)
  PROVE  /\ Refinable(flow'[e])
         /\ \/ HopAbort(e) \/ Outcome(e) \/ FailRun(e) \/ Break(e)
            \/ NextIdea(e)
            \/ UNCHANGED exec /\ AtWork(e) /\ Onward(flow[e], flow'[e])
<1> DEFINE f == flow[e]
           Goal == /\ Refinable(flow'[e])
                   /\ UNCHANGED exec /\ AtWork(e) /\ Onward(f, flow'[e])
<1>0. f \in Flow /\ Sound(f) /\ Refinable(f) /\ f.count \in Nat
  BY DEF PipelineTypeOK, FlowInv, Flow
<1>a. MaxRefine \in Nat
  BY PipelineAssumption DEF PipelineAssumption
<1>b. ASSUME NEW g, Step(e, g), UNCHANGED exec, AtWork(e), Refinable(g), Onward(f, g)
      PROVE  Goal
  BY <1>b, StepTo
<1> HIDE DEF f, Goal
<1>c. ASSUME NEW node, Step(e, AtNode(f, node)), UNCHANGED exec, AtWork(e),
             f.node \notin {"none", "clear", "context"},
             node \notin {"none", "clear", "context", "refine"},
             NodesLeft[node] < NodesLeft[f.node]
      PROVE  Goal
  <2> DEFINE g == AtNode(f, node)
  <2>1. g.node = node /\ g.phase = f.phase /\ g.pos = f.pos /\ g.count = f.count
    BY <1>0, AtNodeKeeps
  <2> HIDE DEF g
  <2>2. Onward(f, g) /\ Refinable(g)
    BY <1>c, <2>1, HandsOn DEF Refinable
  <2> QED
    BY <1>b, <1>c, <2>2 DEF g
<1>1. ASSUME Clear(e) PROVE Goal
  <2> DEFINE g == [f EXCEPT !.node = "context"]
  <2>1. Step(e, g) /\ UNCHANGED exec /\ AtWork(e) /\ f.node = "clear"
    BY <1>1 DEF Clear, vars, f
  <2>2. g.phase = f.phase /\ g.pos = f.pos /\ g.node = "context"
    BY <1>0 DEF Flow
  <2> HIDE DEF g
  <2>3. CorrectionsLeft(g) = CorrectionsLeft(f)
    BY <2>1, <2>2 DEF CorrectionsLeft
  <2>4. NodesLeft[g.node] < NodesLeft[f.node]
    BY <2>1, <2>2 DEF NodesLeft
  <2>5. Onward(f, g) /\ Refinable(g)
    BY <2>2, <2>3, <2>4 DEF Onward, Refinable
  <2> QED
    BY <1>b, <2>1, <2>5
<1>2. ASSUME LoadContext(e) PROVE Goal
  <2> DEFINE h == [f EXCEPT !.count = f.base[f.phase],
                            !.verdict = "none", !.fresh = FALSE]
             g == AtNode(h, "write")
  <2>1. Step(e, g) /\ UNCHANGED exec /\ AtWork(e) /\ f.node = "context"
    BY <1>2 DEF LoadContext, vars, f
  <2>2. f.base[f.phase] \in Nat
    BY <1>0 DEF Flow
  <2>3. h \in Flow
    BY <1>0, <2>2, FlowFields
  <2>4. h.phase = f.phase /\ h.pos = f.pos /\ h.count \in Nat
    BY <1>0, <2>2 DEF Flow
  <2> HIDE DEF h
  <2>5. g.node = "write" /\ g.phase = f.phase /\ g.pos = f.pos /\ g.count \in Nat
    BY <2>3, <2>4, AtNodeKeeps
  <2> HIDE DEF g
  <2>6. CorrectionsLeft(f) = MaxRefine + 1
    BY <2>1 DEF CorrectionsLeft
  <2>7. CorrectionsLeft(g) \in 0..MaxRefine
    BY <1>a, <2>5 DEF CorrectionsLeft
  <2>8. CorrectionsLeft(g) < CorrectionsLeft(f)
    BY <1>a, <2>6, <2>7
  <2>9. Onward(f, g) /\ Refinable(g)
    BY <2>5, <2>8 DEF Onward, Refinable
  <2> QED
    BY <1>b, <2>1, <2>9
<1>3. ASSUME HopCall(e) PROVE Goal
  <2> DEFINE g == [f EXCEPT !.calling = TRUE]
  <2>1. Step(e, g) /\ UNCHANGED exec /\ AtWork(e) /\ ~f.calling
    BY <1>3 DEF HopCall, vars, f
  <2>2. /\ g.phase = f.phase /\ g.pos = f.pos /\ g.node = f.node
        /\ g.count = f.count /\ g.attempt = f.attempt /\ g.calling
    BY <1>0 DEF Flow
  <2> HIDE DEF g
  <2>3. Onward(f, g) /\ Refinable(g)
    BY <1>0, <2>1, <2>2 DEF Onward, CorrectionsLeft, Refinable
  <2> QED
    BY <1>b, <2>1, <2>3
<1>4. ASSUME HopRetry(e) PROVE Goal
  <2>1. PICK reason \in HopRetryable :
          Step(e, [f EXCEPT !.attempt = @ + 1, !.calling = FALSE,
                            !.bad = @ \cup Refused(f, reason)])
    BY <1>4 DEF HopRetry, f
  <2> DEFINE g == [f EXCEPT !.attempt = @ + 1, !.calling = FALSE,
                            !.bad = @ \cup Refused(f, reason)]
  <2>2. UNCHANGED exec /\ AtWork(e)
    BY <1>4 DEF HopRetry, vars
  <2>3. /\ g.phase = f.phase /\ g.pos = f.pos /\ g.node = f.node
        /\ g.count = f.count /\ g.attempt = f.attempt + 1
    BY <1>0 DEF Flow
  <2>4. Step(e, g)
    BY <2>1
  <2> HIDE DEF g
  <2>5. g.attempt > f.attempt
    BY <1>0, <2>3, PipelineAssumption DEF PipelineAssumption, Flow
  <2>6. Onward(f, g) /\ Refinable(g)
    BY <1>0, <2>3, <2>5 DEF Onward, CorrectionsLeft, Refinable
  <2> QED
    BY <1>b, <2>2, <2>4, <2>6
<1>5. ASSUME Written(e) \/ Count(e) PROVE Goal
  <2>1. /\ Step(e, AtNode(f, "verify")) /\ UNCHANGED exec /\ AtWork(e)
        /\ f.node \in {"write", "count"}
    BY <1>5 DEF Written, Count, vars, f
  <2> QED
    BY <1>c, <2>1 DEF NodesLeft
<1>6. ASSUME Verified(e) PROVE Goal
  <2>1. PICK v \in {"ok", "rejected"} :
          Step(e, AtNode([f EXCEPT !.verdict = v, !.fresh = TRUE],
                         RouteAfterConsistencyVerifier(v, f.count)))
    BY <1>6 DEF Verified, f
  <2> DEFINE h == [f EXCEPT !.verdict = v, !.fresh = TRUE]
             node == RouteAfterConsistencyVerifier(v, f.count)
             g == AtNode(h, node)
  <2>2. UNCHANGED exec /\ AtWork(e) /\ f.node = "verify" /\ Step(e, g)
    BY <1>6, <2>1 DEF Verified, vars, f
  <2>3. node \in {"persist", "refine", "fail"}
    BY <1>0, Route
  <2>4. node = "refine" => f.count < MaxRefine
    BY DEF RouteAfterConsistencyVerifier
  <2>5. h \in Flow
    BY <1>0, FlowFields
  <2>6. h.phase = f.phase /\ h.pos = f.pos /\ h.count = f.count
    BY <1>0 DEF Flow
  <2> HIDE DEF h, node
  <2>7. g.node = node /\ g.phase = f.phase /\ g.pos = f.pos /\ g.count = f.count
    BY <2>5, <2>6, AtNodeKeeps
  <2> HIDE DEF g
  <2>8. NodesLeft[g.node] < NodesLeft[f.node]
    BY <2>2, <2>3, <2>7 DEF NodesLeft
  <2>9. Onward(f, g) /\ Refinable(g)
    BY <2>2, <2>3, <2>4, <2>7, <2>8, HandsOn DEF Refinable
  <2> QED
    BY <1>b, <2>2, <2>9
<1>7. ASSUME Refined(e) PROVE Goal
  <2> DEFINE h == [f EXCEPT !.count = @ + 1, !.fresh = FALSE]
  <2>1. PICK node \in {"count", "verify"} : Step(e, AtNode(h, node))
    BY <1>7 DEF Refined, f
  <2> DEFINE g == AtNode(h, node)
  <2>2. UNCHANGED exec /\ AtWork(e) /\ f.node = "refine" /\ Step(e, g)
    BY <1>7, <2>1 DEF Refined, vars, f
  <2>3. h \in Flow
    BY <1>0, FlowFields
  <2>4. h.phase = f.phase /\ h.pos = f.pos /\ h.count = f.count + 1
    BY <1>0 DEF Flow
  <2> HIDE DEF h
  <2>5. g.node = node /\ g.phase = f.phase /\ g.pos = f.pos /\ g.count = f.count + 1
    BY <2>3, <2>4, AtNodeKeeps
  <2> HIDE DEF g
  <2>6. f.count < MaxRefine
    BY <1>0, <2>2 DEF Refinable
  <2>7. CorrectionsLeft(f) = MaxRefine - f.count
    BY <2>2, <2>6 DEF CorrectionsLeft
  <2>8. CorrectionsLeft(g) = MaxRefine - (f.count + 1)
    BY <1>0, <1>a, <2>5, <2>6 DEF CorrectionsLeft
  <2>9. CorrectionsLeft(g) < CorrectionsLeft(f)
    BY <1>0, <1>a, <2>7, <2>8
  <2>10. Onward(f, g) /\ Refinable(g)
    BY <2>5, <2>9 DEF Onward, Refinable
  <2> QED
    BY <1>b, <2>2, <2>10
<1>8. ASSUME PersistDraft(e) \/ PersistItem(e) \/ PersistOnly(e) PROVE Goal
  <2>1. Persisted(e) /\ AtWork(e) /\ f.node = "persist"
    BY <1>8 DEF PersistDraft, PersistItem, PersistOnly, f
  <2>2. PICK node \in {"keep", "end"} : Step(e, AtNode(f, node))
    BY <2>1 DEF Persisted, f
  <2>3. UNCHANGED exec
    BY <2>1 DEF Persisted
  <2> QED
    BY <1>c, <2>1, <2>2, <2>3 DEF NodesLeft
<1>9. ASSUME Keep(e) PROVE Goal
  <2> DEFINE g == [f EXCEPT !.node = "end"]
  <2>1. Step(e, g) /\ UNCHANGED exec /\ AtWork(e) /\ f.node = "keep"
    BY <1>9 DEF Keep, vars, f
  <2>2. g.phase = f.phase /\ g.pos = f.pos /\ g.node = "end" /\ g.count = f.count
    BY <1>0 DEF Flow
  <2> HIDE DEF g
  <2>3. NodesLeft[g.node] < NodesLeft[f.node]
    BY <2>1, <2>2 DEF NodesLeft
  <2>4. Onward(f, g) /\ Refinable(g)
    BY <2>1, <2>2, <2>3, HandsOn DEF Refinable
  <2> QED
    BY <1>b, <2>1, <2>4
<1>10. CASE NextIdea(e)
  <2> DEFINE g == [f EXCEPT !.node = "context", !.pos = @ + 1]
  <2>1. Step(e, g)
    BY <1>10 DEF NextIdea, f
  <2>2. g.node = "context"
    BY <1>0 DEF Flow
  <2> HIDE DEF g
  <2>3. Refinable(flow'[e])
    BY <2>1, <2>2, StepTo DEF Refinable
  <2> QED
    BY <1>10, <2>3
<1>11. CASE HopAbort(e) \/ Outcome(e) \/ FailRun(e) \/ Break(e)
  <2>1. Step(e, NoFlow)
    BY <1>11 DEF HopAbort, Outcome, FailRun, Break, Leaving
  <2>2. Refinable(flow'[e])
    BY <2>1, StepTo DEF Refinable, NoFlow
  <2> QED
    BY <1>11, <2>2
<1>12. Goal => /\ Refinable(flow'[e])
               /\ UNCHANGED exec /\ AtWork(e) /\ Onward(flow[e], flow'[e])
  BY DEF Goal, f
<1> QED
  BY <1>1, <1>2, <1>3, <1>4, <1>5, <1>6, <1>7, <1>8, <1>9, <1>10, <1>11, <1>12
  DEF GraphStep

LEMMA OneFlow ==
  ASSUME NEW e \in Execs,
         Load(e) \/ Prepare(e) \/ GraphStep(e) \/ ExecutorThrow(e)
  PROVE  \E g : Step(e, g)
<1>1. CASE Load(e) \/ Prepare(e)
  BY <1>1 DEF Load, Prepare
<1>2. CASE ExecutorThrow(e)
  BY <1>2 DEF ExecutorThrow, Leaving
<1>3. CASE GraphStep(e)
  BY <1>3 DEF GraphStep, Clear, LoadContext, HopCall, HopAbort, HopRetry, Written,
     Verified, Refined, Count, PersistDraft, PersistItem, PersistOnly, Persisted, Keep,
     NextIdea, Outcome, FailRun, Break, Leaving
<1> QED
  BY <1>1, <1>2, <1>3

LEMMA RefineStep ==
  ASSUME PipelineTypeOK, FlowInv, RefineInv, PipelineNext
  PROVE  RefineInv'
<1>1. ASSUME NEW e \in Execs, Refinable(flow'[e]), \E g : Step(e, g) PROVE RefineInv'
  BY <1>1, StepTo DEF RefineInv, Refinable
<1>2. ASSUME UNCHANGED flow PROVE RefineInv'
  BY <1>2 DEF RefineInv, Refinable
<1>3. ASSUME NEW e \in Execs, Load(e) PROVE Refinable(flow'[e])
  <2> DEFINE g == [NoFlow EXCEPT !.phase = PhaseOf(e), !.base = result[Of(e)].counts]
  <2>1. Step(e, NoFlow) \/ Step(e, g)
    BY <1>3 DEF Load
  <2>2. NoFlow.node = "none" /\ g.node = "none"
    BY DEF NoFlow
  <2> HIDE DEF g
  <2> QED
    BY <2>1, <2>2, StepTo DEF Refinable
<1>4. ASSUME NEW e \in Execs, Prepare(e) PROVE Refinable(flow'[e])
  <2>1. PICK n \in {"clear", "context"} :
          Step(e, NoFlow) \/ Step(e, [flow[e] EXCEPT !.node = n])
    BY <1>4 DEF Prepare
  <2>2. CASE Step(e, NoFlow)
    BY <2>2, StepTo DEF Refinable, NoFlow
  <2>3. CASE Step(e, [flow[e] EXCEPT !.node = n])
    <3>1. [flow[e] EXCEPT !.node = n].node = n
      BY DEF PipelineTypeOK, Flow
    <3> QED
      BY <2>3, <3>1, StepTo DEF Refinable
  <2> QED
    BY <2>1, <2>2, <2>3
<1>5. ASSUME NEW e \in Execs, GraphStep(e) PROVE Refinable(flow'[e])
  BY <1>5, GraphMoves DEF RefineInv
<1>6. ASSUME NEW e \in Execs, ExecutorThrow(e) PROVE Refinable(flow'[e])
  BY <1>6, StepTo DEF ExecutorThrow, Leaving, Refinable, NoFlow
<1>7. CASE PipelineCrash
  BY <1>7 DEF PipelineCrash, RefineInv, Refinable, NoFlow
<1>8. CASE Surroundings \/ UNCHANGED pipelineVars
  BY <1>2, <1>8 DEF Surroundings, pipelineVars
<1> QED
  BY <1>1, <1>3, <1>4, <1>5, <1>6, <1>7, <1>8, OneFlow DEF PipelineNext, ExecutorStep

LEMMA RefineInductive == PipelineSpec => []RefineInv
<1>1. PipelineInit => RefineInv
  BY DEF PipelineInit, RefineInv, Refinable, NoFlow
<1>2. RefineInv /\ UNCHANGED allVars => RefineInv'
  BY DEF RefineInv, Refinable, allVars, pipelineVars
<1>3. GraphInv /\ RefineInv /\ [PipelineNext]_allVars => RefineInv'
  BY <1>2, RefineStep DEF GraphInv
<1> QED
  BY <1>1, <1>3, GraphInductive, PTL DEF PipelineSpec

\* A statement of the executor, and the catch it may be in, lead on.
LEMMA StagesAround ==
  ASSUME TypeOK, TypeOK', NEW e \in Execs,
         \/ ExecLoad(e) \/ ExecPrepare(e) \/ ExecSave(e) \/ ExecAnchor(e)
         \/ ExecRescue(e) \/ ExecEnd(e) \/ ExecThrow(e)
  PROVE  Stage(exec'[e]) < Stage(exec[e])
<1> DEFINE x == exec[e]
           y == exec'[e]
<1>0. x \in Exec /\ y \in Exec /\ exec \in [Execs -> Exec]
  BY DEF TypeOK
<1>a. /\ \A pc : Goto(e, pc) => y.pc = pc /\ y.catcher = x.catcher
      /\ \A to, c : Leave(e, to, c) => y.pc = "save" /\ y.catcher = c
  BY GotoShape, LeaveShape
<1>b. \A pc, c : Turn(e, pc, c) => y.pc = pc /\ y.catcher = c
  BY <1>0 DEF Turn, Exec
<1> HIDE DEF x, y
<1>c. /\ \A z \in {x, y} : z.pc = "save" => Stage(z) = Catcher[z.catcher] + 2
      /\ \A z \in {x, y} : z.pc = "anchor" => Stage(z) = Catcher[z.catcher] + 1
      /\ \A z \in {x, y} : z.pc = "rescue" => Stage(z) = Catcher[z.catcher] + 3
  BY DEF Stage, Statement
<1>d. /\ Catcher["executor"] = 7 /\ Catcher["worker"] = 4 /\ Catcher["nobody"] = 1
      /\ Catcher[x.catcher] \in 1..7
  BY <1>0 DEF Catcher, Exec
<1>e. /\ x.pc = "load" => Stage(x) = 13
      /\ x.pc = "prepare" => Stage(x) = 12
      /\ x.pc = "final" => Stage(x) = 1
      /\ y.pc = "prepare" => Stage(y) = 12
      /\ y.pc = "work" => Stage(y) = 11
      /\ y.pc = "final" => Stage(y) = 1
      /\ y.pc = "none" => Stage(y) = 0
  BY DEF Stage
<1>1. CASE ExecLoad(e)
  <2>1. x.pc = "load" /\ (Leave(e, "awaiting_hitl", "worker") \/ Goto(e, "prepare"))
    BY <1>1 DEF ExecLoad, x
  <2> QED
    BY <1>a, <1>c, <1>d, <1>e, <2>1 DEF x, y
<1>2. CASE ExecPrepare(e)
  <2>1. x.pc = "prepare" /\ (Goto(e, "final") \/ Turn(e, "work", "executor"))
    BY <1>2 DEF ExecPrepare, Turn, x
  <2> QED
    BY <1>a, <1>b, <1>e, <2>1 DEF x, y
<1>3. CASE ExecSave(e) \/ ExecAnchor(e)
  <2>1. \/ x.pc = "save" /\ (Goto(e, "anchor") \/ Goto(e, "final"))
        \/ x.pc = "anchor" /\ Goto(e, "final")
    BY <1>3 DEF ExecSave, ExecAnchor, x
  <2> QED
    BY <1>a, <1>c, <1>d, <1>e, <2>1 DEF x, y
<1>4. CASE ExecRescue(e)
  <2>1. x.pc = "rescue" /\ (Leave(e, "failed", "nobody") \/ Goto(e, "final"))
    BY <1>4 DEF ExecRescue, x
  <2> QED
    BY <1>a, <1>c, <1>d, <1>e, <2>1 DEF x, y
<1>5. CASE ExecEnd(e)
  <2>1. x.pc = "final" /\ y.pc = "none"
    BY <1>0, <1>5 DEF ExecEnd, NoExec, x, y
  <2> QED
    BY <1>e, <2>1 DEF x, y
<1>6. CASE ExecThrow(e)
  <2>1. /\ x.pc \in {"load", "prepare", "save", "anchor", "rescue"}
        /\ \/ Goto(e, "final")
           \/ x.catcher = "executor" /\ Leave(e, "failed", "worker")
           \/ x.catcher = "worker" /\ Turn(e, "rescue", "nobody")
    BY <1>6 DEF ExecThrow, Turn, x
  <2>2. /\ Stage(x) > 1
        /\ x.catcher = "executor" => Stage(x) > 6
        /\ x.catcher = "worker" => Stage(x) > 4
    BY <1>c, <1>d, <1>e, <2>1
  <2>3. CASE Goto(e, "final")
    BY <1>a, <1>e, <2>2, <2>3 DEF x, y
  <2>4. CASE x.catcher = "executor" /\ Leave(e, "failed", "worker")
    <3>1. Stage(y) = 6
      BY <1>a, <1>c, <1>d, <2>4 DEF x, y
    <3> QED
      BY <2>2, <2>4, <3>1 DEF x, y
  <2>5. CASE x.catcher = "worker" /\ Turn(e, "rescue", "nobody")
    <3>1. Stage(y) = 4
      BY <1>b, <1>c, <1>d, <2>5 DEF x, y
    <3> QED
      BY <2>2, <2>5, <3>1 DEF x, y
  <2> QED
    BY <2>1, <2>3, <2>4, <2>5
<1> QED
  BY <1>1, <1>2, <1>3, <1>4, <1>5, <1>6

\* Nobody outside moves an execution that has begun.
LEMMA OthersSpare ==
  ASSUME Engine, Surroundings
  PROVE  \A d \in Execs : exec[d].pc # "none" => exec'[d] = exec[d]
<1> DEFINE Goal == \A d \in Execs : exec[d].pc # "none" => exec'[d] = exec[d]
<1>0. exec \in [Execs -> Exec]
  BY DEF Engine, Slots, TypeOK
<1>1. ASSUME NEW e, NEW r, NEW sel, Begin(e, r, sel), ~Live(e) PROVE Goal
  BY <1>0, <1>1 DEF Begin, Live
<1>2. ASSUME PumpBegin \/ \E h \in Resumers : ResumeNotify(h) PROVE Goal
  BY <1>1, <1>2, UnbegunIdle
  DEF PumpBegin, ResumeNotify, Unbegun, Engine, Slots, Control, PumpInv, ExecInv, Execs
<1>3. ASSUME Recovery \/ \E r \in Runs : CancelStep(r) PROVE UNCHANGED exec
  BY <1>3 DEF Recovery, BootCancel, BootRetry, BootExhaust, BootCancelsDone,
     BootInterrupt, BootAnchor, BootDone, CancelStep, CancelFlag, CancelAttempt,
     CancelAbort, memory
<1>4. ASSUME \/ PumpWake \/ PumpFindInterrupted \/ PumpCasInterrupted
             \/ PumpFindQueued \/ PumpCasQueued \/ PumpThrow
      PROVE  UNCHANGED exec
  BY <1>4 DEF PumpWake, PumpFindInterrupted, PumpCasInterrupted, PumpFindQueued,
              PumpCasQueued, PumpThrow, memory
<1>5. ASSUME NEW r \in Runs,
             \/ StartRun(r) \/ CancelRead(r) \/ CancelThrow(r)
             \/ \E h \in Resumers : ResumeRead(h, r)
      PROVE  UNCHANGED exec
  BY <1>5 DEF StartRun, CancelRead, CancelThrow, ResumeRead, memory
<1>6. ASSUME NEW h \in Resumers, ResumeSelect(h) \/ ResumeSave(h) \/ ResumeThrow(h)
      PROVE  UNCHANGED exec
  BY <1>6 DEF ResumeSelect, ResumeSave, ResumeThrow, memory
<1>7. UNCHANGED exec => Goal
  OBVIOUS
<1> HIDE DEF Goal
<1>8. Goal
  BY <1>2, <1>3, <1>4, <1>5, <1>6, <1>7, EngineAssumption
  DEF Surroundings, PumpStep, ResumeStep, EngineAssumption
<1> QED
  BY <1>8 DEF Goal

\* Nor does one execution move another, or another's graph.
LEMMA EachItsOwn ==
  ASSUME Engine, PipelineTypeOK, NEW e \in Execs, ExecutorStep(e) \/ ExecutorThrow(e)
  PROVE  \A d \in Execs \ {e} : exec'[d] = exec[d] /\ flow'[d] = flow[d]
<1> DEFINE Goal == \A d \in Execs \ {e} : exec'[d] = exec[d]
<1>0. exec \in [Execs -> Exec]
  BY DEF Engine, Slots, TypeOK
<1>1. ASSUME \/ \E pc : Goto(e, pc)
             \/ \E to, c : Leave(e, to, c)
             \/ \E pc, c : Turn(e, pc, c)
             \/ UNCHANGED exec
      PROVE  Goal
  BY <1>0, <1>1, MoveKeeps, TurnKeeps
<1> HIDE DEF Goal
<1>2. CASE GraphStep(e)
  <2>1. (\E pc : Goto(e, pc)) \/ (\E to, c : Leave(e, to, c)) \/ UNCHANGED exec
    BY <1>2 DEF GraphStep, Clear, LoadContext, HopCall, HopAbort, HopRetry, Written,
       Verified, Refined, Count, PersistDraft, PersistItem, PersistOnly, Persisted, Keep,
       NextIdea, Outcome, FailRun, Break, vars
  <2> QED
    BY <1>1, <1>2, <2>1, OneFlow, StepTo DEF Goal
<1>3. CASE Load(e) \/ Prepare(e) \/ ExecutorThrow(e)
  <2>1. \/ \E pc : Goto(e, pc)
        \/ \E to, c : Leave(e, to, c)
        \/ \E pc, c : Turn(e, pc, c)
    BY <1>3 DEF Load, ExecLoad, Prepare, ExecPrepare, ExecutorThrow, ExecThrow, Turn
  <2> QED
    BY <1>1, <1>3, <2>1, OneFlow, StepTo DEF Goal
<1>4. CASE /\ ExecSave(e) \/ ExecAnchor(e) \/ ExecRescue(e) \/ ExecEnd(e)
           /\ UNCHANGED pipelineVars
  <2>1. CASE ExecSave(e) \/ ExecAnchor(e) \/ ExecRescue(e)
    <3>1. (\E pc : Goto(e, pc)) \/ (\E to, c : Leave(e, to, c))
      BY <2>1 DEF ExecSave, ExecAnchor, ExecRescue
    <3> QED
      BY <1>1, <1>4, <3>1 DEF Goal, pipelineVars
  <2>2. CASE ExecEnd(e)
    BY <1>0, <1>4, <2>2 DEF ExecEnd, pipelineVars
  <2> QED
    BY <1>4, <2>1, <2>2
<1> QED
  BY <1>2, <1>3, <1>4 DEF ExecutorStep

LEMMA OwnFalls ==
  ASSUME GraphInv, RefineInv, GraphInv', NEW e \in Execs,
         ExecutorStep(e) \/ ExecutorThrow(e)
  PROVE  Rank(exec'[e], flow'[e]) \prec Rank(exec[e], flow[e])
<1> DEFINE x == exec[e]
           y == exec'[e]
           f == flow[e]
           g == flow'[e]
<1>1. /\ x \in Exec /\ y \in Exec /\ f \in Flow /\ g \in Flow
      /\ TypeOK /\ TypeOK'
  BY DEF GraphInv, Engine, Slots, TypeOK, PipelineTypeOK
<1>2. /\ x.pc = "work" /\ x.run \in TwoStage => f.pos \in 1..Len(Selection[x.run])
      /\ y.pc = "work" /\ y.run \in TwoStage => g.pos \in 1..Len(Selection[y.run])
  BY DEF GraphInv, PlaceInv, Placed, Of
<1>3. CASE Stage(y) < Stage(x)
  <2> HIDE DEF x, y, f, g
  <2>1. Rank(y, g) \prec Rank(x, f)
    BY <1>1, <1>2, <1>3, RankFalls
  <2> QED
    BY <2>1 DEF x, y, f, g
<1>4. CASE \/ Load(e) \/ Prepare(e) \/ ExecutorThrow(e)
           \/ ExecSave(e) \/ ExecAnchor(e) \/ ExecRescue(e) \/ ExecEnd(e)
  BY <1>1, <1>3, <1>4, StagesAround DEF Load, Prepare, ExecutorThrow
<1>5. CASE HopAbort(e) \/ Outcome(e) \/ FailRun(e) \/ Break(e)
  <2>1. /\ x.pc = "work"
        /\ (\E pc \in {"final"} : Goto(e, pc)) \/ (\E to, c : Leave(e, to, c))
    BY <1>5 DEF HopAbort, Outcome, FailRun, Break, AtWork
  <2>2. y.pc \in {"final", "save"}
    BY <1>1, <2>1, GotoShape, LeaveShape
  <2>3. Stage(x) = 11 /\ Stage(y) < 11
    BY <1>1, <2>1, <2>2, StageBounds DEF Stage
  <2> QED
    BY <1>3, <2>3
<1>6. CASE NextIdea(e)
  <2>1. /\ x.pc = "work" /\ y = x
        /\ x.run \in TwoStage \ ContentRuns /\ f.phase = "final"
    BY <1>6 DEF NextIdea, AtWork, vars, LastIdea, PerIdea, IsContent, Of
  <2>2. g = [f EXCEPT !.node = "context", !.pos = @ + 1]
    BY <1>6, StepTo DEF NextIdea, GraphInv
  <2>3. g.phase = f.phase /\ g.pos = f.pos + 1
    BY <1>1, <2>2 DEF Flow
  <2> HIDE DEF x, y, f, g
  <2>4. Rank(x, g) \prec Rank(x, f)
    BY <1>1, <1>2, <2>1, <2>3, IdeaFalls
  <2> QED
    BY <2>1, <2>4 DEF x, y, f, g
<1>7. CASE UNCHANGED exec /\ AtWork(e) /\ Onward(f, g)
  <2>1. y = x
    BY <1>7
  <2> HIDE DEF x, y, f, g
  <2>2. Rank(x, g) \prec Rank(x, f)
    BY <1>1, <1>2, <1>7, NodeFalls
  <2> QED
    BY <2>1, <2>2 DEF x, y, f, g
<1>8. CASE GraphStep(e)
  <2>1. PipelineTypeOK /\ FlowInv /\ Refinable(flow[e])
    BY DEF GraphInv, RefineInv
  <2>2. \/ HopAbort(e) \/ Outcome(e) \/ FailRun(e) \/ Break(e)
        \/ NextIdea(e)
        \/ UNCHANGED exec /\ AtWork(e) /\ Onward(f, g)
    BY <1>8, <2>1, GraphMoves
  <2> QED
    BY <1>5, <1>6, <1>7, <2>2
<1> QED
  BY <1>4, <1>8 DEF ExecutorStep

LEMMA NearerStep ==
  ASSUME GraphInv, RefineInv, PipelineNext
  PROVE  Nearer
<1>0. GraphInv'
  BY GraphStepInv
<1>1. SUFFICES ASSUME NEW e \in Execs
               PROVE  /\ Rank(exec[e], flow[e]) \in Ranks(6)
                      /\ exec[e].pc # "none" =>
                           \/ Rank(exec'[e], flow'[e]) = Rank(exec[e], flow[e])
                           \/ Rank(exec'[e], flow'[e]) \prec Rank(exec[e], flow[e])
                      /\ ExecutorStep(e) \/ ExecutorThrow(e) =>
                           Rank(exec'[e], flow'[e]) \prec Rank(exec[e], flow[e])
  BY DEF Nearer
<1>2. /\ exec[e] \in Exec /\ flow[e] \in Flow
      /\ exec'[e] \in Exec /\ flow'[e] \in Flow
  BY <1>0 DEF GraphInv, Engine, Slots, TypeOK, PipelineTypeOK
<1>3. exec[e].pc = "work" /\ exec[e].run \in TwoStage =>
        flow[e].pos \in 1..Len(Selection[exec[e].run])
  BY DEF GraphInv, PlaceInv, Placed, Of
<1>4. Rank(exec[e], flow[e]) \in Ranks(6)
  BY <1>2, <1>3, RankBounds
<1>5. ExecutorStep(e) \/ ExecutorThrow(e) =>
        Rank(exec'[e], flow'[e]) \prec Rank(exec[e], flow[e])
  BY <1>0, OwnFalls
<1>6. ASSUME exec[e].pc # "none"
      PROVE  \/ Rank(exec'[e], flow'[e]) = Rank(exec[e], flow[e])
             \/ Rank(exec'[e], flow'[e]) \prec Rank(exec[e], flow[e])
  <2>1. CASE Surroundings
    <3>1. exec'[e] = exec[e] /\ flow'[e] = flow[e]
      BY <1>6, <2>1, OthersSpare DEF GraphInv, Surroundings, pipelineVars
    <3> QED
      BY <3>1
  <2>2. CASE \E d \in Execs : ExecutorStep(d) \/ ExecutorThrow(d)
    <3>1. PICK d \in Execs : ExecutorStep(d) \/ ExecutorThrow(d)
      BY <2>2
    <3>2. CASE d = e
      BY <1>5, <3>1, <3>2
    <3>3. CASE d # e
      <4>1. exec'[e] = exec[e] /\ flow'[e] = flow[e]
        BY <3>1, <3>3, EachItsOwn DEF GraphInv
      <4> QED
        BY <4>1
    <3> QED
      BY <3>2, <3>3
  <2>3. CASE PipelineCrash
    <3>1. exec'[e].pc = "none"
      BY <2>3 DEF PipelineCrash, Crash, NoExec
    <3>2. Stage(exec'[e]) = 0
      BY <3>1 DEF Stage
    <3>3. Stage(exec[e]) > 0
      <4>1. /\ Catcher[exec[e].catcher] \in 1..7
            /\ exec[e].pc \in {"rescue", "save", "anchor"} => Statement[exec[e].pc] \in 1..3
        BY <1>2 DEF Catcher, Statement, Exec
      <4> QED
        BY <1>2, <1>6, <4>1 DEF Stage, Exec
    <3>4. Rank(exec'[e], flow'[e]) \prec Rank(exec[e], flow[e])
      BY <1>2, <1>3, <3>1, <3>2, <3>3, RankFalls
    <3> QED
      BY <3>4
  <2> QED
    BY <2>1, <2>2, <2>3 DEF PipelineNext
<1> QED
  BY <1>4, <1>5, <1>6

\* A descent for which there is no infinite one: once begun, an execution of
\* either pipeline is brought nearer to its end by every statement, reply,
\* retry, correction and throw of its own, and by nobody taken further from it
\* (the loops of the hops, of the refine nodes and of the facades).
THEOREM GraphsComeNearer ==
  /\ IsWellFoundedOn(OpToRel(\prec, Ranks(6)), Ranks(6))
  /\ PipelineSpec => [][Nearer]_allVars
<1>1. GraphInv /\ RefineInv /\ [PipelineNext]_allVars => [Nearer]_allVars
  BY NearerStep
<1>2. IsWellFoundedOn(OpToRel(\prec, Ranks(6)), Ranks(6))
  BY DescentEnds
<1> QED
  BY <1>1, <1>2, GraphInductive, RefineInductive, PTL DEF PipelineSpec
=============================================================================
