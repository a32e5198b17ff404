------------------------------ MODULE Pipeline ------------------------------
(***************************************************************************)
(* What an execution does while the RunEngine module says it is at "work": *)
(* the facade invokes the task's graph (load context, write, verify,       *)
(* refine, persist), and every agent node is a hop through the gateway     *)
(* with bounded retries.  The Social and the Content pipelines have the    *)
(* same shape; they differ in what they persist and in who loops over the  *)
(* chosen ideas.                                                           *)
(*                                                                         *)
(* The module refines RunEngine: its engine variables are RunEngine's own, *)
(* and the graph's steps are stutters, or one of the "work" actions there. *)
(***************************************************************************)
EXTENDS RunEngine, Sequences

CONSTANTS
  ContentRuns,        \* the runs of the Content pipeline; the others are Social
  IdeasOnly,          \* one-stage runs that end with their ideas
  Ideas,              \* ids of ideas and outlines
  Selection,          \* the ids a user picks for a two-stage run, in order
  MaxRefine,          \* MAX_REFINE
  MaxGatewayAttempts, \* MAX_GATEWAY_ATTEMPTS
  MaxStarted          \* bound: runs started

ASSUME PipelineAssumption ==
  /\ ContentRuns \subseteq Runs
  /\ IdeasOnly \subseteq Runs \ TwoStage
  /\ Selection \in [TwoStage -> Seq(Ideas)]
  /\ \A r \in TwoStage : Len(Selection[r]) >= 1
  /\ \A r \in TwoStage \cap ContentRuns : Len(Selection[r]) = 1
  /\ MaxRefine \in Nat
  /\ MaxGatewayAttempts \in Nat \ {0}
  /\ MaxStarted \in Nat

VARIABLES
  flow,    \* the graph invocation each execution is in
  result,  \* the result tables and the refine counters of the run row
  refined, \* history: corrected texts received, per Content run and phase
  late     \* history: results an execution stored after it was aborted

pipelineVars == <<flow, result, refined, late>>
allVars == <<vars, pipelineVars>>

Phases == {"draft", "final"}  \* ideas | outline, and content | copy

Agents == {"write", "verify", "refine"}

\* base: the counters read by the executor; fresh: the verdict in the graph's
\* state is about the text in it; bad: prompts of this hop answered with a
\* reply that failed validation.
Flow ==
  [node    : Agents \cup {"none", "clear", "context", "count", "persist",
                          "keep", "fail", "end"},
   phase   : Phases,
   base    : [Phases -> Nat],
   pos     : Nat,
   count   : Nat,
   verdict : {"none", "ok", "rejected"},
   fresh   : BOOLEAN,
   attempt : 1..MaxGatewayAttempts,
   calling : BOOLEAN,
   bad     : SUBSET (0..MaxGatewayAttempts)]

ZeroCounts == [p \in Phases |-> 0]

NoFlow ==
  [node |-> "none", phase |-> "draft", base |-> ZeroCounts, pos |-> 1,
   count |-> 0, verdict |-> "none", fresh |-> FALSE, attempt |-> 1,
   calling |-> FALSE, bad |-> {}]

\* A stored text: the chosen idea it was written for (None without a choice),
\* and whether the verifier accepted that very text.
Item == [idea : Ideas \cup {None}, verified : BOOLEAN]

Result == [ideas : Seq(Item), items : Seq(Item), counts : [Phases -> Nat]]

NoResult == [ideas |-> <<>>, items |-> <<>>, counts |-> ZeroCounts]

PipelineTypeOK ==
  /\ flow \in [Execs -> Flow]
  /\ result \in [Runs -> Result]
  /\ refined \in [ContentRuns -> [Phases -> Nat]]
  /\ late \in [Execs -> Nat]

-----------------------------------------------------------------------------
(* Helpers *)

AtWork(e) == exec[e].pc = "work"

Of(e) == exec[e].run

IsContent(e) == Of(e) \in ContentRuns

\* resolvePhase
PhaseOf(e) == IF NeedsChoice(e) \/ Of(e) \in IdeasOnly THEN "draft" ELSE "final"

\* The facade loops over the chosen ideas.
PerIdea(e) == flow[e].phase = "final" /\ Of(e) \in TwoStage /\ ~IsContent(e)

\* Seeded fault: the repair suffix does not number the attempt.
RepairUnnumbered(f) == IF f.bad = {} \/ f.attempt = 1 THEN 0 ELSE 1

\* hopUserContent: the task itself, or the task with a numbered repair suffix.
HopUserContent(f) == IF f.bad = {} \/ f.attempt = 1 THEN 0 ELSE f.attempt

\* routeAfterConsistencyVerifier
RouteAfterConsistencyVerifier(verdict, count) ==
  CASE verdict = "ok" -> "persist"
    [] verdict # "ok" /\ count < MaxRefine -> "refine"
    [] OTHER -> "fail"

Step(e, f) == flow' = [flow EXCEPT ![e] = f]

\* A hop begins: attempt 1, nothing refused yet.
AtNode(f, node) ==
  [f EXCEPT !.node = node, !.attempt = 1, !.calling = FALSE, !.bad = {}]

Leaving(e) == Step(e, NoFlow)

engineOthers ==
  <<boot, pump, inFlight, registry, aborted, handlers, resumed, spent>>

-----------------------------------------------------------------------------
(* The executor around the graph                                            *)

\* getPipelineState is one of the reads of ExecLoad.
Load(e) ==
  /\ ExecLoad(e)
  /\ Step(e, IF exec'[e].pc = "prepare"
               THEN [NoFlow EXCEPT !.phase = PhaseOf(e), !.base = result[Of(e)].counts]
               ELSE NoFlow)
  /\ UNCHANGED <<result, refined, late>>

\* savePipelineState writes back the counters as read; then the graph is
\* invoked, or the facade first clears the items of an earlier attempt.
Prepare(e) ==
  /\ ExecPrepare(e)
  /\ result' = [result EXCEPT ![Of(e)].counts = flow[e].base]
  /\ Step(e, IF exec'[e].pc # "work" THEN NoFlow
             ELSE [flow[e] EXCEPT !.node = IF PerIdea(e) THEN "clear" ELSE "context"])
  /\ UNCHANGED <<refined, late>>

\* Seeded fault: the facade appends to what an earlier attempt left.
ClearNothing(e) ==
  /\ AtWork(e) /\ flow[e].node = "clear"
  /\ Step(e, [flow[e] EXCEPT !.node = "context"])
  /\ UNCHANGED <<vars, result, refined, late>>

\* clearContents, clearReelScripts
Clear(e) ==
  /\ AtWork(e) /\ flow[e].node = "clear"
  /\ result' = [result EXCEPT ![Of(e)].items = <<>>]
  /\ Step(e, [flow[e] EXCEPT !.node = "context"])
  /\ UNCHANGED <<vars, refined, late>>

\* loadContext and normalizeBrief: a graph starts with the base counters and
\* without a verdict.
LoadContext(e) ==
  /\ AtWork(e) /\ flow[e].node = "context"
  /\ Step(e, AtNode([flow[e] EXCEPT !.count = flow[e].base[flow[e].phase],
                                    !.verdict = "none", !.fresh = FALSE], "write"))
  /\ UNCHANGED <<vars, result, refined, late>>

-----------------------------------------------------------------------------
(* A hop: LlmHopService.chatJson. The log written after each reply is part  *)
(* of the step that takes the reply.                                        *)

\* Seeded fault: nobody looks at the signal.
HopCallRegardless(e) ==
  /\ AtWork(e) /\ flow[e].node \in Agents /\ ~flow[e].calling
  /\ Step(e, [flow[e] EXCEPT !.calling = TRUE])
  /\ UNCHANGED <<vars, result, refined, late>>

\* throwIfAborted was quiet: the request leaves.
HopCall(e) ==
  /\ AtWork(e) /\ flow[e].node \in Agents /\ ~flow[e].calling
  /\ ~IsAborted(e)
  /\ Step(e, [flow[e] EXCEPT !.calling = TRUE])
  /\ UNCHANGED <<vars, result, refined, late>>

\* throwIfAborted throws, or fetch does: AbortError passes the hop's catch and
\* the graph, and the executor returns without a status.
HopAbort(e) ==
  /\ AtWork(e) /\ flow[e].node \in Agents
  /\ IsAborted(e)
  /\ Goto(e, "final")
  /\ Leaving(e)
  /\ UNCHANGED <<row, engineOthers, result, refined, late>>

\* isHopRetryable: parseLlmJson refused the reply, or the gateway's code is one
\* of RATE_LIMITED, PROVIDER_RATE_LIMITED, _TIMEOUT and _UNAVAILABLE.
HopRetryable == {"invalid", "transient"}

\* lastParseError
Refused(f, reason) == IF reason = "invalid" THEN {HopUserContent(f)} ELSE {}

\* Seeded fault: the loop does not count its attempts.
HopRetryForever(e) ==
  /\ AtWork(e) /\ flow[e].calling
  /\ Step(e, [flow[e] EXCEPT !.calling = FALSE])
  /\ UNCHANGED <<vars, result, refined, late>>

\* The reply failed validation, or the gateway failed in a way worth a retry.
HopRetry(e) ==
  /\ AtWork(e) /\ flow[e].calling
  /\ flow[e].attempt < MaxGatewayAttempts
  /\ \E reason \in HopRetryable :
       Step(e, [flow[e] EXCEPT !.attempt = @ + 1, !.calling = FALSE,
                               !.bad = @ \cup Refused(flow[e], reason)])
  /\ UNCHANGED <<vars, result, refined, late>>

\* The writer's text, not seen by the verifier yet.
Written(e) ==
  /\ AtWork(e) /\ flow[e].calling /\ flow[e].node = "write"
  /\ Step(e, AtNode(flow[e], "verify"))
  /\ UNCHANGED <<vars, result, refined, late>>

Verified(e) ==
  /\ AtWork(e) /\ flow[e].calling /\ flow[e].node = "verify"
  /\ \E verdict \in {"ok", "rejected"} :
       Step(e, AtNode([flow[e] EXCEPT !.verdict = verdict, !.fresh = TRUE],
                      RouteAfterConsistencyVerifier(verdict, flow[e].count)))
  /\ UNCHANGED <<vars, result, refined, late>>

CountRefined(e) ==
  refined' = IF IsContent(e) THEN [refined EXCEPT ![Of(e)][flow[e].phase] = @ + 1]
                             ELSE refined

\* Seeded fault: the refine node leads to the router, past the verifier.
RefinedUnchecked(e) ==
  /\ AtWork(e) /\ flow[e].calling /\ flow[e].node = "refine"
  /\ CountRefined(e)
  /\ Step(e, AtNode([flow[e] EXCEPT !.count = @ + 1, !.fresh = FALSE], "persist"))
  /\ UNCHANGED <<vars, result, late>>

\* The corrected text; the Content node saves the counter before it returns.
Refined(e) ==
  /\ AtWork(e) /\ flow[e].calling /\ flow[e].node = "refine"
  /\ CountRefined(e)
  /\ Step(e, AtNode([flow[e] EXCEPT !.count = @ + 1, !.fresh = FALSE],
                    IF IsContent(e) THEN "count" ELSE "verify"))
  /\ UNCHANGED <<vars, result, late>>

SavedCount(e) ==
  [result[Of(e)].counts EXCEPT ![flow[e].phase] = flow[e].count]

\* Seeded fault: the refine node keeps the counter to itself.
CountUnsaved(e) ==
  /\ AtWork(e) /\ flow[e].node = "count"
  /\ Step(e, AtNode(flow[e], "verify"))
  /\ UNCHANGED <<vars, result, refined, late>>

\* refineOutline, refineDocument: savePipelineState
Count(e) ==
  /\ AtWork(e) /\ flow[e].node = "count"
  /\ result' = [result EXCEPT ![Of(e)].counts = SavedCount(e)]
  /\ Step(e, AtNode(flow[e], "verify"))
  /\ UNCHANGED <<vars, refined, late>>

-----------------------------------------------------------------------------
(* Persisting and leaving the graph                                         *)

Text(e, idea) == [idea |-> idea, verified |-> flow[e].verdict = "ok" /\ flow[e].fresh]

Persisted(e) ==
  /\ late' = [late EXCEPT ![e] = IF IsAborted(e) THEN @ + 1 ELSE @]
  /\ Step(e, AtNode(flow[e], IF IsContent(e) THEN "keep" ELSE "end"))
  /\ UNCHANGED <<exec, engineOthers, refined>>

\* replaceIdeas, replaceReelIdeas, replaceOutline: one transaction.
PersistDraft(e) ==
  /\ AtWork(e) /\ flow[e].node = "persist" /\ flow[e].phase = "draft"
  /\ result' = [result EXCEPT ![Of(e)].ideas = <<Text(e, None)>>]
  /\ row' = IF NeedsChoice(e) THEN [row EXCEPT ![Of(e)].draft = TRUE] ELSE row
  /\ Persisted(e)

\* appendContent, appendReelScript: one item per chosen idea.
PersistItem(e) ==
  /\ AtWork(e) /\ flow[e].node = "persist" /\ PerIdea(e)
  /\ result' = [result EXCEPT ![Of(e)].items =
                  Append(@, Text(e, Selection[Of(e)][flow[e].pos]))]
  /\ UNCHANGED row
  /\ Persisted(e)

\* replaceContent, replaceReelScript, replaceDocument: the only item.
PersistOnly(e) ==
  /\ AtWork(e) /\ flow[e].node = "persist"
  /\ flow[e].phase = "final" /\ ~PerIdea(e)
  /\ result' = [result EXCEPT ![Of(e)].items = <<Text(e, None)>>]
  /\ UNCHANGED row
  /\ Persisted(e)

\* Content saves its counters again, in the node and in the executor.
Keep(e) ==
  /\ AtWork(e) /\ flow[e].node = "keep"
  /\ result' = [result EXCEPT ![Of(e)].counts = SavedCount(e)]
  /\ Step(e, [flow[e] EXCEPT !.node = "end"])
  /\ UNCHANGED <<vars, refined, late>>

LastIdea(e) == PerIdea(e) => flow[e].pos = Len(Selection[Of(e)])

\* The graph of one idea is over and the loop goes on.
NextIdea(e) ==
  /\ AtWork(e) /\ flow[e].node = "end"
  /\ ~LastIdea(e)
  /\ Step(e, [flow[e] EXCEPT !.node = "context", !.pos = @ + 1])
  /\ UNCHANGED <<vars, result, refined, late>>

\* toOutcome: a two-stage draft awaits the choice, everything else is done.
Outcome(e) ==
  /\ AtWork(e) /\ flow[e].node = "end"
  /\ LastIdea(e)
  /\ Leave(e, IF NeedsChoice(e) THEN "awaiting_hitl" ELSE "completed", "executor")
  /\ Leaving(e)
  /\ UNCHANGED <<row, engineOthers, result, refined, late>>

\* failRun, in Content with its counters saved; the outcome is 'failed'.
FailRun(e) ==
  /\ AtWork(e) /\ flow[e].node = "fail"
  /\ result' = IF IsContent(e) THEN [result EXCEPT ![Of(e)].counts = SavedCount(e)]
                               ELSE result
  /\ Leave(e, "failed", "executor")
  /\ Leaving(e)
  /\ UNCHANGED <<row, engineOthers, refined, late>>

\* A statement of the graph throws, the gateway fails for good, or the last
\* attempt of a hop fails: the executor's catch.
Break(e) ==
  /\ AtWork(e)
  /\ \/ flow[e].calling
     \/ flow[e].node \in {"clear", "context", "count", "persist", "keep"}
     \/ flow[e].node = "fail" /\ IsContent(e)
  /\ IF IsAborted(e) THEN Goto(e, "final") ELSE Leave(e, "failed", "worker")
  /\ Leaving(e)
  /\ UNCHANGED <<row, engineOthers, result, refined, late>>

-----------------------------------------------------------------------------
(* Specification *)

PipelineInit ==
  /\ Init
  /\ flow = [e \in Execs |-> NoFlow]
  /\ result = [r \in Runs |-> NoResult]
  /\ refined = [r \in ContentRuns |-> ZeroCounts]
  /\ late = [e \in Execs |-> 0]

GraphStep(e) ==
  \/ Clear(e) \/ LoadContext(e) \/ HopCall(e) \/ HopAbort(e) \/ HopRetry(e)
  \/ Written(e) \/ Verified(e) \/ Refined(e) \/ Count(e) \/ PersistDraft(e)
  \/ PersistItem(e) \/ PersistOnly(e) \/ Keep(e) \/ NextIdea(e) \/ Outcome(e)
  \/ FailRun(e) \/ Break(e)

ExecutorStep(e) ==
  \/ Load(e) \/ Prepare(e) \/ GraphStep(e)
  \/ /\ ExecSave(e) \/ ExecAnchor(e) \/ ExecRescue(e) \/ ExecEnd(e)
     /\ UNCHANGED pipelineVars

\* A statement around the graph throws.
ExecutorThrow(e) ==
  /\ ExecThrow(e)
  /\ Leaving(e)
  /\ UNCHANGED <<result, refined, late>>

\* The process dies in the middle of a graph; the tables survive.
PipelineCrash ==
  /\ Crash
  /\ flow' = [e \in Execs |-> NoFlow]
  /\ late' = [e \in Execs |-> 0]
  /\ UNCHANGED <<result, refined>>

\* The steps of RunEngine that do not concern a graph.
Surroundings ==
  /\ \/ Recovery
     \/ PumpStep
     \/ \E r \in Runs : CancelStep(r)
     \/ Cardinality(Created) < MaxStarted /\ \E r \in Runs : StartRun(r)
     \/ \E r \in Cancellable : CancelRead(r)
     \/ \E h \in Resumers : ResumeStep(h) \/ \E r \in Runs : ResumeRead(h, r)
     \/ PumpThrow
     \/ \E r \in Runs : CancelThrow(r)
     \/ \E h \in Resumers : ResumeThrow(h)
  /\ UNCHANGED pipelineVars

PipelineNext ==
  \/ Surroundings
  \/ \E e \in Execs : ExecutorStep(e) \/ ExecutorThrow(e)
  \/ PipelineCrash

PipelineSpec == PipelineInit /\ [][PipelineNext]_allVars

\* Statements return and so does every call of the gateway, with a reply or an
\* error. Nothing is assumed of a graph as a whole.
PipelineFairness ==
  /\ WF_allVars(Recovery /\ UNCHANGED pipelineVars)
  /\ WF_allVars(PumpStep /\ UNCHANGED pipelineVars)
  /\ \A e \in Execs : WF_allVars(ExecutorStep(e))
  /\ \A r \in Runs : WF_allVars(CancelStep(r) /\ UNCHANGED pipelineVars)
  /\ \A h \in Resumers : WF_allVars(ResumeStep(h) /\ UNCHANGED pipelineVars)

PipelineFairSpec == PipelineSpec /\ PipelineFairness

-----------------------------------------------------------------------------
(* Properties *)

\* Nothing reaches the result tables but a text the verifier accepted as it
\* is stored: not a text changed after its verdict, and not one left over from
\* an earlier attempt (the graphs, anty_patterny.md on skipping the verifier).
StoredIsVerified ==
  \A r \in Runs :
    /\ \A i \in DOMAIN result[r].ideas : result[r].ideas[i].verified
    /\ \A i \in DOMAIN result[r].items : result[r].items[i].verified

Chosen(r) == IF r \in TwoStage /\ r \notin ContentRuns THEN Selection[r] ELSE <<None>>

\* A completed run holds what was asked for: one item per chosen idea, in the
\* order of the choice, whatever attempts crashed half-way before (the facade's
\* loop with its clear, the replace transactions).
CompletedHoldsTheChoice ==
  \A r \in Runs : Status(r) = "completed" =>
    IF r \in IdeasOnly
      THEN Len(result[r].ideas) = 1
      ELSE [i \in DOMAIN result[r].items |-> result[r].items[i].idea] = Chosen(r)

\* The refine limit holds across recovery where the counter is persisted: a
\* Content phase is corrected MAX_REFINE times over the life of its run, plus
\* at most the one correction each crash made the run forget.
RefineBudget ==
  \A r \in ContentRuns, p \in Phases : refined[r][p] <= MaxRefine + spent.crashes

\* An execution whose controller was aborted stores at most one more result, the
\* one of the hop that was in flight: the signal is looked at before a hop, and
\* no node looks at it before it persists.  This is what the code keeps, and less
\* than SPEC-RUNY R-11.6 asks, where nothing is added after `cancelled`.
StopsAfterOneResult == \A e \in Execs : late[e] <= 1

\* A hop never repeats a prompt whose reply failed validation: the gateway
\* would answer it from its cache, with the same reply (hopUserContent).
BadPromptNotRepeated ==
  \A e \in Execs : flow[e].calling => HopUserContent(flow[e]) \notin flow[e].bad

\* The graph, with its loops and retries, does to the run what RunEngine says,
\* and every invocation ends: the fairness RunEngine assumes of an execution
\* is earned here from single statements and calls.
ImplementsEngine == Spec /\ \A e \in Execs : WF_vars(ExecStep(e))
=============================================================================
