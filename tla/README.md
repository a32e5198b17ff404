# Content Chain in TLA+

A formal model of Content Chain. Its centre is a *run* (an order for social posts,
reels or web copy) in the `api` process between `POST /runs` and its final status:
concurrent executions, the graph of language-model calls inside each, cancels, human
choices, failing database statements and crashes of the process. Around it are the
review an author may give a run, the admission of the runs that guests start, the
event stream by which a page follows a run, the accounts and sessions of the people
who start them, and the gateway through which every model call goes. TLC checks the
modules on small instances; TLAPS proves the main theorems for every value of the
constants.

Paths below are relative to `apps/api/src/` unless they say otherwise.

## 1. Inventory of the system

| Component | State it keeps | Operations | Talks to |
| --- | --- | --- | --- |
| Status graph (`runs/domain/status-transitions.ts`) | none | `assertTransition`, the cancelable statuses | used by everything that changes a status |
| Worker (`runs/application/lifecycle/in-process-run.worker.ts`) | `inFlight`, `pumpTail` | boot, `notifyQueued`, `notifyHitlResumed`, `drain`, execute with rescue | repository, recovery, executors, abort registry |
| Abort registry (`run-abort.registry.ts`) | one `AbortController` per run | `begin`, `requestCancel`, `end` | worker, cancel |
| Lifecycle (`run-lifecycle.service.ts`) | none | `transition`: save status, then set the review anchor, then publish | repository, event hub |
| Recovery (`recover-interrupted-runs.use-case.ts`) | `recoveryAttempts` in the row | leftovers to cancelled, interrupted or failed | repository, lifecycle |
| Start, cancel, HITL (`runs/application/*.use-case.ts`) | snapshots across awaits | the three requests that move a run | repository, worker, registry, guest policy |
| Executors (`social/`, `content/`) | phase and drafts in the result tables | load, prepare, invoke a phase, save the status | graphs, lifecycle, result stores |
| Graphs and refine policy | the state of one invocation | route between writer, verifier, refiner and persist | LLM hop |
| LLM hop, gateway client (`shared/llm`, `llm/`) | none | up to three gateway attempts, JSON repair, abort | gateway |
| Review window (`review-window.ts`, rating, edit, finalise, boot sweep) | `pipelineFinishedAt`, `reviewFinalizedAt`, rating | check the window on a snapshot, then a guarded write | repository |
| Guest admission and purge | counters in Redis with a UTC day in the key | count, increment, release, purge | start, auth |
| Event stream (`run-sse.hub.ts`, controller) | a subject with a time to live per run | subscribe, publish, complete | lifecycle, browser |
| Accounts, sessions, invitations (`auth/`) | users, refresh sessions, tokens | register, activate, login, refresh, delete, invite | mailer, repository |
| Company context, feedback, health, metrics | one row or counters | create, read, update | - |
| Gateway (`apps/ai-provider-gateway`) | cooldowns, response cache, rate windows, circuit breaker | retry, fall back, single flight, limit | providers, Redis |

**Hard behaviours.** Node runs one thing at a time, but every `await` lets any
other handler run: a status is read, something is awaited, and the decision is
written with an update that may or may not look at the row again. Only two
updates do (`attemptCancel` and the claims); `saveStatus` does not. A crash can
fall between any two statements, and only some leftovers are found again on
boot. HITL resumes start executions without asking for a slot. An execution
that throws is caught in three nested places. A slot freed while a drain is
ending must still wake the next one.

**What makes each component correct.** Worker: slots are counted exactly and
claims stay in the cap; no queued run is forgotten; nobody is left `running`
without an execution. Status: only allowed edges, and final means final.
Recovery: bounded, and a requested stop survives a crash. Review: the anchor is
set only on finished runs. Graphs: at most two refinements per phase, and what
is persisted is what the verifier accepted. LLM hop: at most three attempts, none
after an abort. Review window: nothing changes after finalisation. Admission: the
daily counter equals the runs admitted that day. Event stream: a page that follows
a run shows its end, and a subject does not outlive its run. Gateway: one call per
key in flight, caches hold finished replies of the alias asked for, every stream
pays its slot back. Accounts: a refresh token has one successor, an account that
is gone refreshes nothing, an invitation is accepted once.

`PROJECT.json` lists the same components with their status, and under
`hazards` every hard behaviour with its line and the property that covers it.

## 2. Modules

| Module | Holds |
| --- | --- |
| `RunStatus` | statuses, allowed edges, cancelable and reviewable statuses |
| `RunStatusGraph` | abstract specification: what may happen to the status of a run |
| `RunEngine` | the execution core, one action per stretch of code between two awaits |
| `RunEngineProps` | its properties, and the refinement mapping to `RunStatusGraph` |
| `RunEngineProofs`, `RunEngineHolderProofs` | the theorems about it: slots, claims and recovery; the order of claims, who may undo a cancel, that one execution works on a run, and the refinement of `RunStatusGraph` |
| `MCRunEngine` | the module TLC runs |
| `Review` | abstract specification: what the review of a run promises its author |
| `ReviewWindow` | rating, edit, finalisation and the sweeps against the clock; its properties and the mapping to `Review` |
| `ReviewWindowProofs`, `MCReviewWindow` | its theorems; the module TLC runs |
| `GuestAdmission` | quotas of guest starts in the database and in Redis, deletion of a guest; its properties |
| `GuestAdmissionProofs`, `MCGuestAdmission` | its theorems; the module TLC runs |
| `Pipeline`, `MCPipeline` | the graph, its hops and the result tables inside an execution, as an implementation of `RunEngine`; its properties; the module TLC runs |
| `PipelineProofs` | the theorems about it, the refinement among them |
| `Gateway` | a chat request in the AI provider gateway, from the guard to the release of its stream |
| `GatewayProps`, `GatewayProofs`, `MCGateway` | its properties; its theorems; the module TLC runs |
| `RunStream`, `RunStreamProofs` | the hub, the events handler and the page that follows a run, with its properties; its theorems |
| `Accounts` | users, invitations, activations and refresh sessions; its properties |
| `AccountsProofs`, `MCAccounts` | its theorems; the module TLC runs |

**How they fit.** `RunEngine`, `ReviewWindow` and `GuestAdmission` share the `Run`
table, each its own columns, and meet where one ends: a run that `GuestAdmission`
creates is a `StartRun` of `RunEngine`, and the anchor `RunEngine` sets
(`ExecAnchor`, `BootAnchor`) is the `Finish` of `ReviewWindow`. With one exception
none of them reads what another writes, so they are checked apart. The exception is
the deletion of a guest, which aborts the executions of its live runs and deletes
their rows under them: `RunEngine` does not know it, and what an execution does
without its row is not modelled.

`Pipeline` is composed with `RunEngine`: it has the engine's variables and actions,
replaces the few actions that stand for the inside of a graph by the graph itself,
and is shown to implement the engine (`ImplementsEngine`). Its hops end at the
gateway, whose answers it takes as arbitrary; `Gateway` is the other side. What a
hop relies on there, that a refused prompt would be answered again from the cache
with the same reply, is `FirstWriterWins`.

`RunStream` takes the writers of `RunEngine` at the grain the page can see: the
statement that changes the status, and what is published some awaits later. It adds
the hub, the handler and the browser. `Accounts` stops at the hard deletion of a
guest, which `GuestAdmission` has together with the guest's runs.

### `RunEngine`: state and the code it stands for

| Variable | Code |
| --- | --- |
| `row` | the `Run` table: status, `createdAt` (as an order), `cancelRequested`, whether a choice is selected, whether phase one has left a draft in the result tables, `recoveryAttempts`, whether `pipelineFinishedAt` and `cancelledAt` are set |
| `boot` | where `onModuleInit` stands in recovery |
| `pump` | `pumpTail`: the current drain, what it read, and whether another drain waits |
| `inFlight` | the worker's counter |
| `exec` | the stack of one execution: where it stands, the record it holds, its controller, and which catch a throw would reach |
| `registry`, `aborted` | the controllers map, and the controllers whose signal is aborted |
| `cancel`, `hitl` | where each request handler stands |
| `resumed` | history only: how often a run was put back to work by recovery |
| `spent` | crashes and failing statements so far (bounds) |

### `RunEngine`: actions

* **Boot**: `BootCancel`, `BootCancelsDone`, `BootRetry`, `BootInterrupt`,
  `BootExhaust`, `BootAnchor`, `BootDone`. HTTP opens after `onModuleInit`, so
  nothing runs beside it. A throw on boot ends the process and is a `Crash`.
* **Start**: `StartRun`. The date, the insert and `notifyQueued` are one step.
* **Pump**: `PumpWake`, `PumpFindInterrupted`, `PumpCasInterrupted`,
  `PumpFindQueued`, `PumpCasQueued`, `PumpBegin`; `PumpThrow` is the logged
  error that ends a drain. Drains are chained, and two waiting drains do no more
  than one.
* **Execution**: `ExecLoad` (with the early return to `awaiting_hitl`),
  `ExecPrepare` (pipeline state, then the abort check), `ExecPersistDraft`,
  `ExecOutcome`, `ExecFail`, `ExecAbort`, `ExecSave`, `ExecAnchor`, `ExecThrow`,
  `ExecRescue`, `ExecEnd`.
* **Cancel**: `CancelRead`, `CancelFlag`, `CancelAttempt`, `CancelAbort`,
  `CancelThrow`.
* **HITL**: `ResumeRead`, `ResumeSelect`, `ResumeSave`, `ResumeNotify`,
  `ResumeThrow`.
* **Crash**: everything in memory is lost, the table stays.

### `RunEngine`: abstractions

* A two-stage task stands for `post_ideas_then_content`,
  `reel_ideas_then_scripts` and `page_outline_then_copy`; a run whose choice was
  made at the start behaves like a single-stage one.
* One invocation of a graph is: perhaps a persisted draft, then a result.
  `Pipeline` has what happens between its nodes.
* A database fault is a statement that throws and is not applied.
* `AbortError` comes from the run's own signal only; the gateway client has no
  other source of it.
* `createdAt` is the order of creation. Two inserts reordered by the database,
  or equal to the millisecond, are left out.
* Ownership and input checks and logs are left out, and so is the publication of
  events, which changes nothing the engine reads. `RunStream` has it, with the log
  write after a won cancel that may throw before the terminal event goes out.
* In the content executor the failure for an invalid choice is one of the
  failing outcomes, and its second write of the pipeline state is part of the
  first.
* A HITL request id is used once, so the set of ids bounds the requests.

### `ReviewWindow`

| Variable | Code |
| --- | --- |
| `review` | columns of the `Run` table: `pipelineFinishedAt`, `reviewFinalizedAt`, `userRating`, and who wrote the result tables last (`outputEdited` is: not the pipeline) |
| `now`, `up` | the clock; whether `onModuleInit` is over and HTTP is open |
| `request` | the author's handlers: what they checked, and when |
| `sweep` | the sweeps in flight: the rows found and not yet written |

`Check` is `assertRunReviewable`, which looks at a snapshot; `Plan` and `Refuse`
are the awaits between check and write (the guest's rating quota, the stored
parts an edit replaces); `Write` is the update that asks for `reviewFinalizedAt
IS NULL` and not for the clock. `SweepFind`, `SweepLock`, `SweepEnd` are the
sweep, awaited on boot and then started by a timer that does not wait for the
one before, so two may overlap. `Crash`, `RequestThrow`, `SweepThrow` are the
failures; a sweep that throws on boot ends the process.

Abstractions: an edit is one transaction, and which parts it replaces is accepted
or refused; the answer of the rating quota is arbitrary; the two dates finalise
reads in a row are the same instant, as are the date of an anchor and its write.
Nothing in a review depends on another run, so the run below has one.

### `GuestAdmission`

| Variable | Code |
| --- | --- |
| `day` | the UTC date |
| `counter`, `ttl` | the Redis keys `content-chain:guest:daily:runs:{date}`, and which of them expire |
| `users`, `run` | rows of the `User` table, and of the `Run` table: none, live or ended |
| `request` | the start handlers: stage, guest, type, day of admission, and the date in the key of the command at hand |
| `deletion` | an administrator's `DELETE /users/:id`, between its check and its transaction |
| `stray` | history only: decrements of a day's key that took back no increment of that day |

`Count` is the query by author and type; `Incr`, `Expire`, `Undo` are the commands
of `tryIncr`; `Create` and `CreateFails` are `runs.create`, which fails on the
foreign key when the guest is gone; `Release` decrements the key of the day on
which the create failed. `Throw` is a command or statement that fails without
effect, and `Resend` a command that has been executed before the connection was
lost and is sent again, as the Redis client does; the two together are a command
that took effect and was answered with an error. `DeleteCheck` and `DeleteTx` are
the check for live runs and the transaction, which SQLite runs alone.

Abstractions: `DEMO_MODE` is on; a request for a type outside the allowlist has no
effect and is left out, as are loss of Redis data, the clock skew between Redis
and the process, and what becomes of a run beyond being live or ended.

### `Pipeline`

| Variable | Code |
| --- | --- |
| `flow` | the graph invocation an execution is in: the node and phase; the refine counters the executor read (`base`) and the one in the graph's state (`count`); which chosen idea it writes for (`pos`); the verdict, and whether it is about the present text (`verdict`, `fresh`); the attempt of the hop, whether its request is out, and the prompts that were answered with a refused reply (`attempt`, `calling`, `bad`) |
| `result` | the result tables of a run (ideas or outline, then items) and the refine counters in its row |
| `refined`, `late` | history only: corrected texts received per phase; results stored after an abort |

`Load`, `Prepare`, `Outcome`, `FailRun` and `Break` are the executor and facade
around the graph; `Clear` and `NextIdea` the facade's loop over the chosen ideas;
`LoadContext`, `Written`, `Verified`, `Refined`, `Count`, `PersistDraft`,
`PersistItem`, `PersistOnly`, `Keep` the nodes, routed by
`RouteAfterConsistencyVerifier`; `HopCall`, `HopRetry`, `HopAbort` the loop of
`LlmHopService.chatJson`. Social and Content share them: the runs in `ContentRuns`
save their counters (`Count`, `Keep`) and have one item, the others do not save and
have one item per idea.

Abstractions: a prompt is the task, or the task with a numbered repair suffix; a
reply is refused, rejected or accepted; a text is what it was written for and
whether the verifier accepted it as it is stored. The signal reaches a request in
flight as an error of `fetch`, or too late, after its reply.

### `Gateway`

| Variable | Code |
| --- | --- |
| `pc`, `call`, `vector`, `reply`, `answer` | a request: the await it is at; alias and attempt in the resilient executor; `embedState`; the reply it holds; what its client got |
| `flight` | the map of `in-process-singleflight.ts` |
| `failures`, `cooled`, `trial` | `embedding-circuit-breaker.ts` |
| `redis` | whether Redis answers |
| `slots`, `slotTtl`, `cooling` | the keys of the concurrent streams and of the cooldown |
| `exact`, `entry` | the exact cache, and the hash of the semantic one: reply, vector, time to live |
| `counted` | history only: the stream's increment has not been paid back |
| `load`, `faults` | bounds: the requests that come, the kinds of fault so far |

`Arrive`, `IncrStreams`, `ExpireStreams`, `UndoIncr` are the guard; `Prepare` the
cooldown; `LookupExact`, `LookupText`, `LookupTextFails`, `LookupEmbed`, `LookupKnn`
the two caches, `DropCorrupt` the later `DEL` of a hash that a read found unservable, and `Miss` the single flight; `ProviderReplies`, `ProviderFails`,
`SetCooldown` the executor; `SaveExact`, `SaveEmbed`, `UpsertClaim`, `UpsertFill`,
`UpsertCheck`, `UpsertHeal` the writes; `ReleaseStream` the interceptor.
`CircuitCools`, `CooldownExpires`, `SlotsExpire`, `CacheExpires` are time,
`RedisGoes`, `RedisReturns`, `Crash` failures. Every catch that carries on without
Redis is the `ELSE` of the step it is in. `UpsertCheck` is one step because the
adapter sends `HEXISTS` and `TTL` together and awaits both in one `Promise.all`.

Abstractions: the token bucket is one script in Redis and refuses arbitrarily; a
5xx includes the timeout's 504; texts are equal or unrelated, so the vector search
finds the hash of the same text or nothing; the search index exists. Two facts about
the code the model keeps: the native stream route asked with a query string
(`Queried`) is counted by the guard and not released by the interceptor, which
compares the whole URL; and a stream past the guard releases its slot although the
guard let it in without counting it, when Redis came back meanwhile.

### `RunStream`

| Variable | Code |
| --- | --- |
| `status`, `stop`, `chosen` | columns of the `Run` row |
| `job`, `aborted`, `cancel`, `hitl` | the writers: an execution with its controller, the two request handlers |
| `subject` | the hub's map |
| `handler`, `latest` | `GET /runs/:runId/events` between its two reads and its subscription |
| `shown`, `source`, `fetch`, `list` | the page: the status it shows, its EventSource, the snapshots `onError` has asked for (how many are sent, and how many bring which status), the refresh of the list |
| `up`, `expired` | whether the api serves; whether the access cookie has expired |
| `loads`, `troubles` | bounds |

The page is `Load`, `ListRead`, `ListApply`, `ListFails`, `FetchRead`, `FetchApply`,
`FetchFails`; the handler `EventsRead`, `EventsReadAgain`, `EventsJoin`,
`EventsOrphan`, `EventsRefused`; the hub `Publish` and `SubjectExpires`; the writers
`Claim` to `Announce`, `CancelRequest` to `CancelPublish`, `ResumeRead` to
`ResumeNotify`; and the world `Drops`, `TokenExpires`, `Crash`, `Boot`.

Each error of the EventSource asks for a snapshot, whatever is still on its way, so
answers may arrive in another order than they were asked for; `MaxFetches` bounds
those on their way, and an error beyond it asks for none.

Abstractions: one handler at a time works for the page; what is written to an open
connection arrives; log events and the heartbeat change no status; the status the
page sets itself after a cancel or a choice it asked for is left out. The access token lives for 15 minutes and a subject for 10,
so a connection is renewed before or after either.

### `Accounts`

| Variable | Code |
| --- | --- |
| `user`, `invitation`, `activation`, `session` | the four tables; a row bears the name of the request that inserted it, and a token of the one that drew it |
| `pc`, `row`, `owner` | a handler: the await it is at, the row its reads have chosen, the user of that row |
| `known` | tokens that were mailed or answered, the only ones a request can present |
| `load` | bound: the requests that come |

Every handler of `auth/` that writes these tables in production is a chain of
actions named after it: `Bootstrap...`, `Invite...`, `Resend...`, `Revoke...`,
`Accept...`, `Register...`, `Activate...`, `Remind...`, `Delete...`,
`Reactivate...`, `Email...`, `Login...`, `Refresh...`, `Logout...`. `GiveUp` is all
that is left of a handler whose statement throws, whose argument is refused or whose
process dies; a crash is several of them. A transaction is one step: SQLite runs
them one at a time. The first admin is there from the start unless `Installer` is
among the requests that come.

Abstractions: `DEMO_MODE` is off; passwords and ages are checks that may refuse; the
reminder's limiter, lists and the text of mails change no table. Two things the code
does not prevent are in the model: a login that was checking a password when the
account was deleted inserts its session afterwards, and a logout that found its
session before a refresh replaced it deletes nothing.

Definitions marked *Seeded fault* are not part of the specification. Each is a
plausible bug in the definition that follows it (a dropped guard, an off-by-one,
a forgotten wake-up); substituting it makes TLC violate the property
`PROJECT.json` pairs it with, which shows the property is sensitive to that code.

## 3. Runs

`CHECK_DEADLOCK FALSE` everywhere: finitely many runs are started and requests
sent, and a system in which all have come to rest has nothing more to do.

| Run | Instance | Checks |
| --- | --- | --- |
| `engine_safety` | two runs (one pauses, one can be cancelled), 1 slot, 1 HITL request, recovery cap 1, 2 crashes, 1 failing statement | `RecoveryBounded`, `OneWorkingExecution`, `RunningHasOwner`, `AnchorMeansFinished`, `SlotAccounting`, `ClaimedWithinCap`, `CancelUndoneOnlyByHolder`, `ClaimOrder` |
| `engine_live` | the same with fairness, 1 crash, no failing statement | `FollowsGraph`, `QueuedIsTaken`, `RunSettles`, `SlotsReturned` |
| `cancel_is_final` | one cancellable run | violates `CancelledIsFinal` |
| `double_hitl` | one pausing run, two HITL requests | violates `HitlOnlyWhilePaused` |
| `crash_anchor` | one run, one crash | violates `FinishedHasAnchor` |
| `leftover_cancel` | one cancellable run, one crash | violates `LeftoverCancelHonoured` |
| `review_window` | one review, two requests, two sweeps, a window of 2, time to 3, one crash, one failing statement, with fairness | `LockInWindow`, `LateChangeWasInTime`, `FollowsReview`, `ExpiredIsLocked` |
| `guest_admission` | two guests, one type, three starts, cap 1, two days, one crash, two failures | `DailyCap`, `NoSlotLost`, `DeletedOwnsNothing` |
| `pipeline` | one run of each kind (posts with two chosen ideas, ideas only, a single post, a page), one started at a time; 1 crash, 1 failing statement, 1 cancel, 1 choice; with fairness | `StoredIsVerified`, `CompletedHoldsTheChoice`, `RefineBudget`, `StopsAfterOneResult`, `BadPromptNotRepeated`, `ImplementsEngine` |
| `gateway` | two JSON requests and two streams for one key, one stream with tools and a query string, in pairs with two kinds of fault and in triples with none; 1 stream slot, 2 attempts, circuit open after 1; with fairness | `CacheHoldsPrimaryReplies`, `NoEternalVector`, `SingleFlight`, `TrialHasOwner`, `StreamSlots`, `FirstWriterWins`, `AnswerAfterStore`, `RequestsEnd` |
| `run_stream` | one run and one page, one load or focus, two snapshots at a time, two troubles; with fairness | `NoDeafStream`, `PageCatchesUp`, `NoZombieSubject` |
| `accounts` | seven sets of five to eight requests | `OneTokenPerLogin`, `ActivationMeansUnverified`, `RotatesOnlyActive`, `AcceptedLostOnlyToStaleReader` |

The runs named `engine_*` and the four after them go through `MCRunEngine`.

**Why the bounds suffice.** The hazards involve at most a holder of the row, a
rival writer and a crash, so two runs, one request of each kind and a second
crash inside recovery cover each pairing. Cap 1 with two runs makes every claim
wait, and a resume that bypasses it makes `inFlight` exceed the cap (2 live
executions), which `ClaimedWithinCap` must survive; the theorem has every other cap.
With recovery cap 1 and two crashes both sides of the comparison are taken.

A review is contended for by a request against a request, a request against a
sweep, or a sweep against a sweep: two of each are all pairings, and time to 3
with a window of 2 has instants inside, at the end of and after the window, also
for an anchor set at 1. Three starts against cap 1 have one admitted, one refused
and one that comes when either is giving back; two days are one midnight, and two
failures make a command that took effect, was sent again and then failed.

In `pipeline` the counters are the program's own (`MAX_REFINE` 2, three gateway
attempts), so both limits are reached, and a crash in between shows what is forgotten.
One run at a time is enough, because invocations share nothing but the engine, and
how executions share that is what `engine_safety` is about. In `gateway` a pair of
requests has every race for the flight, the circuit and an entry, together with
two faults (an outage and an expiry, a crash and an expired slot key); a triple adds
a second follower, or a third claimant of the one slot. In `run_stream` the two
troubles pair a lost event with whatever would have repaired it, and one load races
an older answer with a newer event; two snapshots on their way are an older one that
arrives after a newer one. In `accounts` each set is built around
one table and holds every handler that writes it, with two requests of the kind that
races with itself (two acceptances, two activations, three refreshes).

**Where the passing properties stop.** They are stated for the instances in
which the code really keeps them:

* `OneWorkingExecution`, `RunningHasOwner` and `AnchorMeansFinished` need one
  HITL request per pause and a cancel that does not meet a HITL request on the
  same run. `double_hitl` shows what two requests do. A cancel that wins between
  the request's read and its write is undone, and can leave a `running` run in
  nobody's hands.
* `FollowsGraph` speaks of the runs nobody may cancel (`cancel_is_final` shows
  why) and holds without failing statements: if `setPipelineFinishedAt` throws
  after `completed` was saved, the executor's catch saves `failed` over it.
* `QueuedIsTaken` holds without failing statements: a claim that throws ends the
  drain, and the queue sleeps until something else wakes it.
* A cancel between a won claim and the registration of its controller finds
  nothing to abort: the run is cancelled, executed to its end, and its result
  overwrites `cancelled`.
* `StopsAfterOneResult` is weaker than the documents. `spec/SPEC-RUNY.md:227`
  (R-11.6) says "hop w locie **nie** jest dopisywany po `cancelled`": the hop in flight
  is not added after `cancelled`; `docs/data_flow.md:348` and `docs/anty_patterny.md:71`
  repeat it. The code does add it: `throwIfAborted` (`shared/llm/llm-hop.ts:110`) looks at
  the signal before a request and `fetch` during it, and a node that has its text
  persists it without looking. Asked for `late = 0`, TLC answers with a run whose cancel
  has won: the abort comes when the verifier's reply has been received, `Verified`
  takes that reply, and `PersistDraft` stores the ideas of the cancelled run.
  `late <= 1` is what holds. It counts from the abort, so what is stored between the
  update that wins the cancel and the abort is not counted, nor is the result of the
  execution in the bullet before, which finds no signal at all; both disagree with
  R-11.6 as well.
* `LateChangeWasInTime` says what the code guarantees and no more: a rating or an
  edit that passed the check inside the window may write shortly after its end,
  as long as no lock was first.
* `DailyCap` allows one start more for every stray decrement. The commonest is a
  create that fails after midnight: it was admitted yesterday and gives its slot
  to today, so today one more guest run is started than `spec/SPEC-RUNY.md` R-12.3
  says. It also speaks of the current day only, by its date of admission.
* Two concurrent starts of one type by one guest both count none and are both
  admitted, although `spec/SPEC-RUNY.md:240` grants one start of a type. The model
  has this behaviour, and its properties hold of runs so admitted.
* `RefineBudget` is about Content, which saves its counters. Social does not, so
  its limit is one per invocation.
* `StreamSlots` speaks of the time in which Redis answers and the counter does not
  expire under a stream; a stream of the native route with a query string keeps its
  slot until the counter expires.
* `PageCatchesUp` exempts a page whose EventSource the browser has closed for good:
  after a 401 or a 500 nothing connects again until the page is loaded anew,
  although `spec/SPEC-RUNY.md:162` has the client reconnect.
* `AcceptedLostOnlyToStaleReader` says what the code guarantees and no more: an
  administrator who revokes or resends an invitation that is accepted meanwhile still
  takes the acceptance back, though the account stays.
* A guest that starts a run between `hasLiveRuns` and the transaction of its
  deletion loses it live, without `purge=true` and without an abort. The model has
  this behaviour; no property forbids it.

**Fairness.** In `RunEngine`, `FairSpec` asks weak fairness of recovery, of the pump, of each
execution and of each request already begun: the event loop runs what is ready,
statements return, and an invocation of the graph ends because the HTTP client
bounds every gateway call. Users need not start, cancel or answer anything, and
nothing must crash or fail. A run that waits for its human choice may therefore
wait for ever, and `RunSettles` counts it as settled. In `ReviewWindow` the
steps of the sweeps are weakly fair, because the timer fires for as long as the
process is up and the process is restarted when it is down; requests are not
fair. `GuestAdmission` and `Accounts` have safety properties only.

`Pipeline` assumes less of an execution than `RunEngine`: that single statements and
calls return, with whatever result. That an invocation ends, which `RunEngine`
assumes, follows, and is part of `ImplementsEngine`. In `Gateway` a request that has
arrived goes on, because each await has a deadline: the policy's timeout at the
provider, `EMBEDDING_TIMEOUT_MS` at Ollama, a bounded number of retries at Redis; a
Redis that never returns and a circuit that never cools are allowed. In `RunStream`
statements return, the timer of a subject fires, requests are answered (with
an error while the api is down), the api is restarted and the browser connects again.

### Findings

Each is a run that violates one property, quoted with its source in
`PROJECT.json`: a result saved over `cancelled`; a HITL choice accepted twice; a
finished run without a review anchor after a crash between two writes; a cancel
request lost when the process died before the run left `queued`. The remaining
disagreements with the documents are listed above, where the passing properties stop.

## 4. Proofs

`RunEngineProofs` proves, assuming `EngineAssumption` (finite sets of runs and
request ids, disjoint; a positive number of slots; natural bounds):

| Theorem | Property |
| --- | --- |
| `TypeCorrect` | `TypeOK` |
| `SlotsAccounted` | `SlotAccounting`: `inFlight` is the number of live executions |
| `ClaimsWithinCap` | `ClaimedWithinCap`: claims hold at most `MaxConcurrent` slots |
| `RecoveryStaysBounded` | `RecoveryBounded`: a run is resumed at most as often as it paid for |

They hold for any number of runs, slots, HITL requests, crashes and failing
statements, double resumes included.

**Inductive invariant.** None of the last three is inductive alone.

* `Slots` adds `Control`: an execution the pump started is named after its run,
  and that run has left the queue (`ExecInv`); a claim that has won concerns a
  run that is not executing (`PumpInv`); a request that has not notified has no
  execution (`HitlInv`); during boot nothing runs (`BootInv`). Without them a
  claim or a resume could raise `inFlight` for an execution that exists already.
* `Caps` adds `CapInv`: the capacity the drain saw before its awaited statements
  is still free when the claim wins, because only the one running drain takes
  it; HITL executions are not counted as claimed.
* `Pool` adds `RecoveryInv`: a run that is interrupted, or about to be, has paid
  one attempt more than it has used.

Type correctness is proved action by action (`TypeStep`), then `ControlStep`,
`SlotStep`, `CapStep` and `PoolStep` reuse it; `InductiveInv` puts them together.
TLC checks the same invariant on small instances before it is proved.

`RunEngineHolderProofs` goes on from there, with the same assumption:

| Theorem | Property | Condition |
| --- | --- | --- |
| `ClaimsInOrder` | `ClaimOrder`, as an action property | none |
| `CancelUndoneByHolderOnly` | `CancelUndoneOnlyByHolder`, as an action property | none |
| `OneExecutionWorks` | `OneWorkingExecution` | `HitlOnlyWhilePaused` |
| `OneChoiceOneExecution` | `OneWorkingExecution` | `[]OneChoiceAtATime` |
| `AnchorsMeanFinished` | `AnchorMeansFinished` | `HitlOnlyWhilePaused` |
| `RunningRunsAreKept` | `RunningHasOwner` | `OverIsOver`, `LastCatchWorks` |
| `RefinesStatusGraph` | `FollowsGraph`: the refinement of `RunStatusGraph` | `HitlOnlyWhilePaused`, `AnchorsHold` |
| `ApartChoicesFindTheRunPaused` | `HitlOnlyWhilePaused` | `[]ChoicesApart` |
| `UndisputedRunsAreSafe` | `OneWorkingExecution`, `AnchorMeansFinished` | `Undisputed` |
| `OneFaultLeavesNobodyBehind` | `RunningHasOwner` | `Undisputed`, `MaxFaults <= 1` |
| `UndisputedRunsFollowGraph` | `FollowsGraph` | `Undisputed`, `MaxFaults = 0` |
| `OnlyAThrowLosesAWake` | `WakeInv` is kept by every step but `PumpThrow` | none |
| `WakesAreKept` | `NoWakeLost`: a run that may be claimed has a drain at work or due, or an execution in every slot | `ClaimsReturn` |
| `RecoveryComesNearer` | `BootNearer`: recovery acts alone, and each of its statements lowers a well-founded rank | none |
| `DrainsComeNearer` | `DrainNearer`: each step of the drain lowers a well-founded rank, and only new work raises it | none |

**The order of claims.** A claim is chosen by a read and made by a later statement,
and in between anything but the drain may act. `FoundInv` says what survives: while the
drain is past its look at the interrupted runs none is waiting, and what it found is no
younger than its rivals. That needs three facts about the others: nothing becomes
interrupted while the process serves (`RecoveringInv`), a run created meanwhile is
younger than all there are (`AgeInv`), and whoever holds a run holds one that has left
the queue (`HolderInv`), so nobody brings it back. `RowEffect` says once what a step may
do to a row, `Moves` that a status changes by a holder, by the drain's own claim, or by
recovery. That a read of a table with rows finds an oldest is a well-founded induction
(`OldestExists`).

**The hand.** An execution, a claim that won and a request that has saved its choice
hold a run in turn, each with a set of statuses the run may have meanwhile (`May`).
`HandInv` says that a run has one holder and a status of its set. A step that
takes a run finds it held by nobody, since it looked at the status in the same
statement. Only the update that resumes a run does not look: there the code leaves
correctness to its callers, and there the theorems have their condition.

**The conditions** are on the behaviour (the last one on the constants). Each excludes
something the code lets happen and TLC finds, and says what a run's users or its
statements have to do for the property to hold:

| Condition | What it says | Without it |
| --- | --- | --- |
| `HitlOnlyWhilePaused` | a choice is saved for a run that is still `awaiting_hitl` (`spec/SPEC-RUNY.md`, "Idempotencja HITL") | `double_hitl`: two executions of one run; an anchor on a run that works again |
| `ChoicesApart` | while a choice for a run is being saved nobody cancels that run or chooses for it | the same |
| `OneChoiceAtATime` | while a choice for a run is being saved nobody chooses for it; cancels are free | the same |
| `OverIsOver` | a run that is over is not brought back | a cancel has aborted the controller of a run that then says `running` |
| `LastCatchWorks` | the worker's last catch does not throw in its turn | two failing statements strand a `running` run |
| `AnchorsHold` | `setPipelineFinishedAt` does not throw | the executor saves `failed` over `completed` |
| `Undisputed` | one request for a choice in a process, and a two-stage run is not cancelled | any of the first four |
| `ClaimsReturn` | the statements of a claim do not throw | a drain ends with a log line and a queued run waits for the next start, end or restart (`in-process-run.worker.ts:78`) |

TLC finds the violations of the third column on one two-stage run with two requests for
a choice (a run that may be cancelled, except for `FollowsGraph`, which speaks of the
others; for `NoWakeLost` on the instance of `engine_safety` with a failing claim), and
finds none when the behaviours are restricted by the condition. None of the
conditions is about crashes, recovery or the number of runs, and only `LastCatchWorks`,
`AnchorsHold` and `ClaimsReturn` are about failing statements: everything else may throw
anywhere. `Undisputed` with its bound on faults
is what the constants of `engine_safety` and `engine_live` choose, so the three
theorems that have it say of every set of runs, every cap and any number of crashes what those
runs show on two. `ApartChoicesFindTheRunPaused` reduces the rule about a
statement to a rule about users, with `PausedInv` (a run that is being chosen for is
paused). `OneChoiceOneExecution` drops the cancels from it: `AloneInv` says that a
run being chosen for is paused, or was cancelled while it waited, and in both cases
nobody holds it.

`RunningRunsAreKept` looks at signals, because an execution whose signal is raised leaves
without saving. `ControllerInv` says which run a controller belongs to, `AbortInv` that a raised
one belongs to a run that is over, `LeftoverInv` that boot leaves no requested stop
behind, and `KeepInv` is `RunningHasOwner` made inductive. For `RefinesStatusGraph`
`EdgeInv` adds that an execution that has not saved its outcome works on a run that waits
for it, and `QuietInv` that nothing is recorded of a cancel of the runs nobody may cancel.
`OverIsOver` cannot be replaced there by `ChoicesApart`, which keeps choices and
cancels of a run apart only while a choice is being saved. An execution may save
`awaiting_hitl` over a cancel that has won and not yet aborted; the abort then
reaches its controller when it has only to leave; and a choice made now joins that
controller before the end removes it. The new execution finds its signal raised and
leaves, and its run says `running` with nobody to settle it.

**Wakes and ranks.** What TLC shows of progress under fairness has a half that needs none.
`WakeInv` says that a drain that sleeps with a slot free and no drain due has nothing to
take. Everybody who creates a run or returns a slot enqueues a drain, and one that goes to
sleep has just looked; that its look at the interrupted runs, two statements ago, is still
good is `FoundInv` again. `RecoveryComesNearer` and `DrainsComeNearer` are descents of tuples of
natural numbers, of which none goes on for ever (`DescentEnds`, from the lexicographic
order of the library). Recovery counts the cancels, then the runs that still run, and
which of its two statements on a run comes next (`BootRank`). The drain counts the runs left
to take, then the drain that is due, then where it stands (`DrainRank`): a find that somebody
has overtaken stands higher than the look it goes back to, so a lost race is a
descent as well, and whoever takes a run from under the drain lowers the count.

`PipelineProofs` proves, assuming `PipelineAssumption` (every two-stage run has a
choice, of one element for Content; at least one attempt per hop) with
`EngineAssumption`:

| Theorem | Property |
| --- | --- |
| `GraphsTypeCorrect` | `PipelineTypeOK` |
| `OnlyVerifiedIsStored` | `StoredIsVerified` |
| `NoPromptTwice` | `BadPromptNotRepeated` |
| `StopsSoonAfterAbort` | `StopsAfterOneResult` |
| `RefinesEngine` | the safety half of `ImplementsEngine`: `PipelineSpec => Spec` |
| `PipelinesKeepTheEngine` | what the engine keeps without a condition, of both pipelines |
| `CorrectionsStayInBudget` | `RefineBudget`, given `[]OneChoiceAtATime` |
| `CompletedRunsHoldTheChoice` | `CompletedHoldsTheChoice`, given `[]OneChoiceAtATime` |
| `OneUserIsServedRight` | both and `OneWorkingExecution`, for one request for a choice per process |
| `GraphsComeNearer` | `Nearer`: each step of an execution lowers a well-founded rank that nobody else changes for the worse |

By `RefinesEngine` every theorem about `RunEngine` holds of the pipelines. Its proof
maps each step of a graph to an action of the engine or to a stutter; the one case
that is not immediate is a two-stage draft that leaves the graph, which the engine
lets go only once the draft is stored (`PlaceInv`). `FlowInv` says what a node may
rely on: at `persist` the verdict is about the present text, and the prompts that were
refused carry smaller numbers than the next one. `StopsSoonAfterAbort` proves the one
result the code allows, not the none that R-11.6 asks for, and needs more than a look at
the hop. A double resume shares the controller of the first execution, and
the end of either removes it from the registry, so the signal of an execution is only
as good as the claim that nobody brings a fresh controller of the same name under it:
`CtlInv` says that an execution yet to begin has left no trace in the registry nor in
another execution, and `AbortKept` that a raised signal then stays up.

The three after `PipelinesKeepTheEngine` need a run to be worked on by one graph at a time, which two choices saved
at once would break (`double_hitl`), so they take `OneChoiceAtATime` from the engine; the
run `pipeline` has one request for a choice, and for that `OneUserIsServedRight` assumes
nothing. By `HandInv` a graph then has the run's tables to itself (`Owner`).

* A correction is made in one step, counted in the graph's state in another and saved
  by a third, which may be lost. `CountingInv` follows it node by node; `BudgetInv` says
  that the row misses at most one correction beyond those crashes account for, and
  none once the run rests (it waits for a claim or a choice, or its graph has not
  begun). A save that throws ends the run, so the one that is missing is never followed
  by another correction; only a crash makes the run start over without it, and each
  crash pays for one.
* Items are stored one by one, by an attempt that may die half-way. `Filling` says how
  many of the chosen ideas are in the tables at each node, beginning with the clear,
  and `ChoiceInv` that nobody writes between the last one and `completed`. A choice
  is fixed for a run, so what an earlier attempt left is replaced, not added to.

`GraphsComeNearer` is the half of `ImplementsEngine`'s liveness that needs no fairness: the
engine assumes that a graph ends, and here its loops are seen to be finite. `Rank` is six
numbers: the stage of the execution (the work, then what a throw leads to: the catches in
their order and the statements of each save), the chosen ideas that are left,
the corrections that are left, the nodes to the end of this turn of the loop, the
attempts of the hop, and whether its call is out. A step lowers one and leaves those before
it. The refine loop is the reason for the third: the way back to the verifier raises
the node and has used a correction. A graph may start from a stored counter above the limit,
and corrects nothing then; `RefineInv` says that one at its refine node is below it.

TLC checks these invariants first, with two requests for a choice under the rule, on
the page (a million states), the social run and the single post.

`ReviewWindowProofs` proves, assuming `ReviewAssumption` (a positive window, a
null that is no integer):

| Theorem | Property |
| --- | --- |
| `ReviewTypeCorrect` | `TypeOK` |
| `LocksAreInWindow` | `LockInWindow`: dated from the anchor to the end of the window |
| `LateChangesWereInTime` | `LateChangeWasInTime`, as an action property |
| `ImplementsReview` | `FollowsReview`: the refinement of `Review` |

Its invariant adds what the actors carry from an earlier moment: a request was
checked inside the window of its run (`RequestInv`), a sweep holds only runs whose
window has passed (`SweepInv`), no anchor is in the future (`ClockInv`). A lock is
dated from what they carry, so `LockInWindow` needs all three.

`GuestAdmissionProofs` proves, assuming `AdmissionAssumption` (finitely many
requests, a positive cap) and `NullAssumption`:

| Theorem | Property |
| --- | --- |
| `AdmissionTypeCorrect` | `TypeOK` |
| `DailyCapKept` | `DailyCap` |
| `SlotsAreNotLost` | `NoSlotLost` |
| `DeletedGuestsOwnNothing` | `DeletedOwnsNothing` |

An increment is judged by the counter, so the invariant weighs the counter against
what it stands for (`Balance`): with the stray decrements put back it covers the
starts admitted today and the increments about to be taken back, and equals them
while nothing has failed. `Dates` says which day's key a request holds, `Blank`
that no future key has been touched (which is what a midnight needs), `RunStarted`
that a run belongs to a request that has been answered. `KeepsBalance` and
`KeepsCap` reduce every step of a request to the change of that request's own
weight (`Weigh`).

`RunStreamProofs` proves, assuming `StreamAssumption` (natural bounds, also on the
snapshots on their way):

| Theorem | Property |
| --- | --- |
| `TypeCorrect` | `TypeOK` |
| `StreamsAreHeard` | `NoDeafStream` |

`HandlerInv` adds that a handler on its way works for a page that is still waiting,
and that what it is about to show is live; otherwise it could join behind an event
that released the page.

`GatewayProofs` proves, assuming `GatewayAssumption` (finitely many requests,
positive limits) and `NoneAssumption`:

| Theorem | Property |
| --- | --- |
| `TypeCorrect` | `TypeOK` |
| `CachesHoldPrimaryReplies` | `CacheHoldsPrimaryReplies` |
| `VectorsExpire` | `NoEternalVector` |
| `FirstWriterStays` | `FirstWriterWins`, as an action property |
| `TrialsEnd` | `TrialHasOwner` |
| `OneCallPerFlight` | `SingleFlight` |
| `StreamsAreCounted` | `StreamSlots` |
| `StoredBeforeAnswered` | `AnswerAfterStore`, as an action property |
| `RequestsComeNearer` | `Nearing`: each step of a request lowers its `Distance`, a number up to `18 + 2 * MaxAttempts`, and nothing else raises it |

A reply is judged when it arrives and written some awaits later, so `HoldsStorable`
adds what a storing request has in its hands. `FlightsLed` adds that the leader of a
flight is a request that may lead. `SlotsExact` counts: the key equals the number of
streams that have not paid back, and `SlotOf` says at which awaits a stream owes its
slot. `AnswerAfterStore` is about a request at the moment of its answer, so
`SavedIsInCache` says that one behind its write of the exact cache finds its key there, while
Redis keeps what it has, and `EmptyHands` that one before its reply, or in the flight of
another, holds no reply of its own. Steps are sorted by the part of a request they belong to (`GuardMove`,
`ServeMove`, `ServeMiss`, `ServeSettle`), so each part of the invariant looks only at
those that touch it. `Distance` orders the awaits of a request and counts the tries it
has left at the primary and, behind it, at the fallback; a request in the flight of
another has only its answer before it, which is the leader's step.

`AccountsProofs` proves, assuming `AccountsAssumption` (a kind and an address for each
request, an installer) and `NoneAssumption`:

| Theorem | Property |
| --- | --- |
| `TypeCorrect` | `TypeOK` |
| `OneLiveToken` | `OneTokenPerLogin` |
| `RefreshesAreOfActive` | `RotatesOnlyActive`, as an action property |
| `AcceptanceStays` | `AcceptedLostOnlyToStaleReader`, as an action property |
| `ActivationsAreOpen` | `ActivationMeansUnverified`: an activation token belongs to an account not verified yet |

`RowInv` says what a handler may rely on between two awaits: the row it chose is
still there, and a refresh about to rotate finds its session gone or its owner active.
`TableInv` ties the tables to each other and each row to the request that inserted it,
which is why a token cannot have two successors.

**Only model-checked**: everything under fairness, that is `QueuedIsTaken`,
`RunSettles`, `SlotsReturned`, `ExpiredIsLocked`, `RequestsEnd`, `PageCatchesUp`,
`NoZombieSubject` and the liveness half of `ImplementsEngine`. Liveness and `ENABLED`
are beyond the prover used, as is induction over data. For recovery, the drain, the
graphs and the gateway's requests the ranks above are the safety half, for every value of
the constants: what steps there are lead to the end. That some step is always possible,
and that fairness takes it, is what TLC checks. Every other property of a
passing run is a theorem. The type invariants of all modules are proved, and so are not
repeated in the runs.

## 5. Not modelled

* **Company context and feedback**: request handlers that read and write one row;
  nothing spans more than a read and a write.
* **Health, metrics, public configuration**: reads and counters without effect on
  anything else.
* **Gateway: configuration, command line, integrations, observability**: files that
  are edited by one operator at a time, adapters that translate formats, logs. The
  OpenAI and Anthropic compatible routes go through the same service as the native
  ones and differ in their encoding.
* **Frontend**: views, forms, dictionaries, client-side validation. They are the
  larger part of the repository by lines and have no state that another actor
  changes; the part that has, a page's copy of a run's status, is in `RunStream`.
* **Prompts and schemas**: a reply is valid or not; which one is not a question of
  interleavings.
* Inside modelled components: listing, summary and log appends of runs, the soft
  quota of ratings and the reads of guests, expiry of tokens by the clock, and the
  deltas of a stream (a retried attempt sends its text again from the start).

## 6. Plan

The execution core with its graphs, the review window, guest admission, the event
stream, the gateway's resilience and the accounts are done. Worth doing next, in
order:

1. `RunningHasOwner` from a rule about users, for runs that may be cancelled: keeping
   choices and cancels apart while a choice is saved is not enough (see "The conditions"),
   so the rule has to reach to the end of the execution that was cancelled.
2. What an execution that two choices share still keeps: an item of one choice may stand
   beside one of the other, and which of the two rests in the row is worth stating.
3. The deletion of a guest composed with the execution of its runs: what an executor
   does when its row is gone.
4. Runs that show the two disagreements described only in words: an EventSource
   closed for good, and two starts of one type by one guest.
