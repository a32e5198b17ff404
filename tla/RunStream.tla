----------------------------- MODULE RunStream -----------------------------
(***************************************************************************)
(* The event stream of one run: the hub with its subject and the subject's *)
(* time to live, the handler of GET .../events with its two reads before   *)
(* it subscribes, and the page that lists its user's runs and follows the  *)
(* live ones with an EventSource.  RunEngine has the writers of the run in *)
(* detail; here each is its status writes, what it publishes after them    *)
(* and the awaits in between.                                              *)
(*                                                                         *)
(* What is written to an open connection arrives at once: a connection     *)
(* that breaks before it arrives is one that broke before it was written.  *)
(***************************************************************************)
EXTENDS Naturals, Functions, RunStatus

CONSTANTS
  MaxLoads,   \* bound: loads of the page and returns of the focus to it
  MaxFetches, \* bound: snapshots that are asked for and not yet answered
  MaxTroubles \* bound: crashes of the api, statements that throw,
              \* connections that drop and access tokens that expire

ASSUME StreamAssumption ==
  MaxLoads \in Nat /\ MaxFetches \in Nat /\ MaxTroubles \in Nat

VARIABLES
  status,   \* of the row
  stop,     \* its cancelRequested
  chosen,   \* the choice is made (selectedIdeaIds), or the task needs none
  up,       \* the api serves
  job,      \* the execution of the run: where it stands, and what it saves
  aborted,  \* its controller is
  cancel,   \* the handler of POST .../cancel
  hitl,     \* the handler of POST .../hitl
  subject,  \* the hub holds a subject
  handler,  \* GET .../events: none, between its reads, about to subscribe, or
            \* left by its client
  latest,   \* what its second read saw
  shown,    \* the status the page shows; absent without an answer
  source,   \* its EventSource
  fetch,    \* the snapshots onError asked for: how many are sent, and how many
            \* were read, by the status they bring
  list,     \* the same for refresh() of the own runs
  expired,  \* the access cookie has expired
  loads,
  troubles

record  == <<status, stop, chosen>>
writers == <<job, aborted, cancel, hitl>>
server  == <<subject, handler, latest>>
page    == <<shown, source, fetch, list>>
limits  == <<loads, troubles>>
vars    == <<record, up, writers, server, page, expired, limits>>

-----------------------------------------------------------------------------

\* LIVE_RUN_STATUSES of the frontend: a queued run has no EventSource.
Followed == {"running", "awaiting_hitl", "interrupted"}

\* No answer yet, or the status in it.
Request == {"none", "sent"} \cup RunStatuses

NoFetch == [kind \in Request \ {"none"} |-> 0]
Pending == FoldFunction(LAMBDA m, n : m + n, 0, fetch)

NoJob == [pc |-> "none", to |-> "failed"]

TypeOK ==
  /\ status \in RunStatuses
  /\ stop \in BOOLEAN /\ chosen \in BOOLEAN /\ up \in BOOLEAN
  /\ job \in [pc : {"none", "claimed", "work", "save", "saved"},
              to : {"awaiting_hitl", "completed", "failed"}]
  /\ aborted \in BOOLEAN
  /\ cancel \in {"idle", "cas", "abort", "log"}
  /\ hitl \in {"idle", "select", "save", "notify"}
  /\ subject \in BOOLEAN
  /\ handler \in {"none", "second", "join", "orphan"}
  /\ latest \in LiveStatuses \cup {"none"}
  /\ shown \in RunStatuses \cup {"absent"}
  /\ source \in {"none", "connecting", "open", "dead"}
  /\ fetch \in [Request \ {"none"} -> Nat] /\ list \in Request
  /\ expired \in BOOLEAN
  /\ loads \in 0..MaxLoads /\ troubles \in 0..MaxTroubles

Init ==
  /\ status = "queued" /\ stop = FALSE
  /\ chosen \in BOOLEAN
  /\ up = TRUE
  /\ job = NoJob /\ aborted = FALSE
  /\ cancel = "idle" /\ hitl = "idle"
  /\ subject = FALSE
  /\ handler = "none" /\ latest = "none"
  /\ shown = "absent" /\ source = "none"
  /\ fetch = NoFetch /\ list = "none"
  /\ expired = FALSE
  /\ loads = 0 /\ troubles = 0

Trouble == troubles < MaxTroubles /\ troubles' = troubles + 1 /\ UNCHANGED loads

-----------------------------------------------------------------------------
(* The page *)

\* releaseOnce: the source is closed, and the answers it waits for are ignored.
Release ==
  /\ source' = "none"
  /\ fetch' = NoFetch
  /\ handler' = IF handler = "none" THEN "none" ELSE "orphan"

\* The list shows s, and follows the run while s is live.
Show(s) ==
  /\ shown' = s
  /\ IF s \in Followed
       THEN /\ source' = IF source = "none" THEN "connecting" ELSE source
            /\ UNCHANGED <<fetch, handler>>
       ELSE Release

\* onStatus, and onTerminal with its refresh of the list.
Receive(s) ==
  /\ Show(s)
  /\ list' = IF s \in TerminalStatuses THEN "sent" ELSE list

\* Each error asks for a snapshot, whatever is still on its way; the browser
\* connects again, unless the answer was no stream: then the EventSource is
\* closed for good.
OnError(next) ==
  /\ source' = next
  /\ fetch' = IF Pending < MaxFetches THEN [fetch EXCEPT !["sent"] = @ + 1] ELSE fetch
  /\ UNCHANGED <<shown, list>>

\* The page is loaded first, or gets the focus: an older answer will be ignored.
Load ==
  /\ loads < MaxLoads
  /\ loads' = loads + 1
  /\ list' = "sent"
  /\ UNCHANGED <<server, shown, source, fetch, expired, troubles>>

\* apiFetch renews the session on a 401.
ListRead ==
  /\ list = "sent" /\ up
  /\ list' = status
  /\ expired' = FALSE
  /\ UNCHANGED <<server, shown, source, fetch, limits>>

ListApply ==
  /\ list \notin {"none", "sent"}
  /\ Show(list)
  /\ list' = "none"
  /\ UNCHANGED <<subject, latest, expired, limits>>

ListFails ==
  /\ list = "sent" /\ ~up
  /\ Show("absent")
  /\ list' = "none"
  /\ UNCHANGED <<subject, latest, expired, limits>>

\* Snapshots are read, and arrive, in any order.
FetchRead ==
  /\ fetch["sent"] > 0 /\ up
  /\ fetch' = [fetch EXCEPT !["sent"] = @ - 1, ![status] = @ + 1]
  /\ expired' = FALSE
  /\ UNCHANGED <<server, shown, source, list, limits>>

FetchApply(s) ==
  /\ fetch[s] > 0
  /\ shown' = s
  /\ IF s \in Followed
       THEN fetch' = [fetch EXCEPT ![s] = @ - 1] /\ UNCHANGED <<source, handler>>
       ELSE Release
  /\ list' = IF s \in TerminalStatuses THEN "sent" ELSE list
  /\ UNCHANGED <<subject, latest, expired, limits>>

FetchFails ==
  /\ fetch["sent"] > 0 /\ ~up
  /\ fetch' = [fetch EXCEPT !["sent"] = @ - 1]
  /\ UNCHANGED <<server, shown, source, list, expired, limits>>

-----------------------------------------------------------------------------
(* GET /runs/:runId/events *)

\* The snapshot of a run that is over is all the stream there is.
Snapshot == Receive(status) /\ UNCHANGED <<subject, latest, expired, limits>>

EventsRead ==
  /\ source = "connecting" /\ handler = "none"
  /\ up /\ ~expired
  /\ IF status \in TerminalStatuses
       THEN Snapshot
       ELSE /\ handler' = "second"
            /\ UNCHANGED <<subject, latest, page, expired, limits>>

EventsReadAgain ==
  /\ handler = "second"
  /\ IF status \in TerminalStatuses
       THEN /\ shown' = status
            /\ source' = "none" /\ fetch' = NoFetch /\ handler' = "none"
            /\ list' = "sent"
            /\ UNCHANGED <<subject, latest, expired, limits>>
       ELSE /\ handler' = "join"
            /\ latest' = status
            /\ UNCHANGED <<subject, page, expired, limits>>

\* subscribe makes a subject if there is none, and starts its timer; the first
\* event is what the second read saw, some awaits ago.
EventsJoin ==
  /\ handler = "join"
  /\ subject' = TRUE
  /\ handler' = "none" /\ latest' = "none"
  /\ source' = "open"
  /\ shown' = latest
  /\ UNCHANGED <<fetch, list, expired, limits>>

\* The client has gone: the subject the handler may have made stays.
EventsOrphan ==
  /\ handler = "orphan"
  /\ handler' = "none" /\ latest' = "none"
  /\ subject' \in {subject, TRUE}
  /\ UNCHANGED <<page, expired, limits>>

\* 401, or 500 from the proxy while the api is down.
EventsRefused ==
  /\ source = "connecting" /\ handler = "none"
  /\ ~up \/ expired
  /\ OnError("dead")
  /\ UNCHANGED <<server, expired, limits>>

Drops ==
  /\ source = "open" /\ Trouble
  /\ OnError("connecting")
  /\ UNCHANGED <<server, expired>>

TokenExpires ==
  /\ ~expired /\ Trouble
  /\ expired' = TRUE
  /\ UNCHANGED <<server, page>>

-----------------------------------------------------------------------------
(* The hub *)

\* Seeded fault: the map forgets the subject and its subscribers are not told.
SubjectForgotten ==
  /\ subject
  /\ subject' = FALSE
  /\ UNCHANGED <<handler, latest, page, expired, limits>>

\* Seeded fault: the timer spares a subject nobody listens to.
SubjectExpiresIfHeard ==
  /\ subject /\ source = "open"
  /\ subject' = FALSE
  /\ OnError("connecting")
  /\ UNCHANGED <<handler, latest, expired, limits>>

\* RUN_SSE_SUBJECT_TTL_MS after it was made the subject ends with an error.
SubjectExpires ==
  /\ subject
  /\ subject' = FALSE
  /\ IF source = "open" THEN OnError("connecting") ELSE UNCHANGED page
  /\ UNCHANGED <<handler, latest, expired, limits>>

\* publish, and complete after a terminal event.
Publish(s) ==
  /\ IF subject /\ source = "open" THEN Receive(s) ELSE UNCHANGED <<page, handler>>
  /\ subject' = (subject /\ s \notin TerminalStatuses)
  /\ UNCHANGED <<latest, expired>>

Unheard == UNCHANGED <<server, page, expired>>

-----------------------------------------------------------------------------
(* The writers of the run *)

\* The drain claims the run; stop keeps it away from an interrupted one.
Claim ==
  /\ up /\ job.pc = "none"
  /\ \/ status = "queued"
     \/ status = "interrupted" /\ ~stop
  /\ status' = "running"
  /\ job' = [job EXCEPT !.pc = "claimed"]
  /\ UNCHANGED <<stop, chosen, up, aborted, cancel, hitl, limits>> /\ Unheard

\* executeClaimed: a new controller, and the event.
Begin ==
  /\ job.pc = "claimed"
  /\ job' = [job EXCEPT !.pc = "work"]
  /\ aborted' = FALSE
  /\ Publish("running")
  /\ UNCHANGED <<record, up, cancel, hitl, limits>>

\* The executor ends in a pause, a result or a failure, or sees the signal.
Outcome ==
  /\ job.pc = "work"
  /\ \/ \E to \in {"failed", IF chosen THEN "completed" ELSE "awaiting_hitl"} :
          job' = [pc |-> "save", to |-> to]
     \/ aborted /\ job' = NoJob
  /\ UNCHANGED <<record, up, aborted, cancel, hitl, limits>> /\ Unheard

\* saveStatus, unconditional.
Save ==
  /\ job.pc = "save"
  /\ status' = job.to
  /\ job' = [job EXCEPT !.pc = "saved"]
  /\ UNCHANGED <<stop, chosen, up, aborted, cancel, hitl, limits>> /\ Unheard

\* The events follow, those of the end after setPipelineFinishedAt.
Announce ==
  /\ job.pc = "saved"
  /\ job' = NoJob
  /\ Publish(job.to)
  /\ UNCHANGED <<record, up, aborted, cancel, hitl, limits>>

\* A statement throws: the catches try to save failed, or give up.
JobThrows ==
  /\ job.pc \in {"save", "saved"} /\ Trouble
  /\ job' \in {[pc |-> "save", to |-> "failed"], NoJob}
  /\ UNCHANGED <<record, up, aborted, cancel, hitl>> /\ Unheard

\* getById and setCancelRequested, which looks at the status again.
CancelRequest ==
  /\ up /\ cancel = "idle"
  /\ status \in Cancelable
  /\ stop' = TRUE
  /\ cancel' = "cas"
  /\ UNCHANGED <<status, chosen, up, job, aborted, hitl, limits>> /\ Unheard

CancelAttempt ==
  /\ cancel = "cas"
  /\ IF status \in Cancelable
       THEN status' = "cancelled" /\ stop' = FALSE /\ cancel' = "abort"
       ELSE cancel' = "idle" /\ UNCHANGED <<status, stop>>
  /\ UNCHANGED <<chosen, up, job, aborted, hitl, limits>> /\ Unheard

\* requestCancel finds a controller only once the execution has begun.
CancelAbort ==
  /\ cancel = "abort"
  /\ cancel' = "log"
  /\ aborted' = (aborted \/ job.pc \in {"work", "save", "saved"})
  /\ UNCHANGED <<record, up, job, hitl, limits>> /\ Unheard

\* appendLog, then publishCancelled.
CancelPublish ==
  /\ cancel = "log"
  /\ cancel' = "idle"
  /\ Publish("cancelled")
  /\ UNCHANGED <<record, up, job, aborted, hitl, limits>>

\* A statement of the handler throws: nothing is undone, and the cancel that
\* was saved is never published.
CancelThrows ==
  /\ cancel \in {"cas", "log"} /\ Trouble
  /\ cancel' = "idle"
  /\ UNCHANGED <<record, up, job, aborted, hitl>> /\ Unheard

ResumeRead ==
  /\ up /\ hitl = "idle"
  /\ status = "awaiting_hitl"
  /\ hitl' = "select"
  /\ UNCHANGED <<record, up, job, aborted, cancel, limits>> /\ Unheard

ResumeSelect ==
  /\ hitl = "select"
  /\ hitl' = "save"
  /\ chosen' = TRUE
  /\ UNCHANGED <<status, stop, up, job, aborted, cancel, limits>> /\ Unheard

ResumeSave ==
  /\ hitl = "save"
  /\ hitl' = "notify"
  /\ status' = "running"
  /\ UNCHANGED <<stop, chosen, up, job, aborted, cancel, limits>> /\ Unheard

\* notifyHitlResumed
ResumeNotify ==
  /\ hitl = "notify"
  /\ hitl' = "idle"
  /\ job' = [NoJob EXCEPT !.pc = "work"]
  /\ aborted' = FALSE
  /\ Publish("running")
  /\ UNCHANGED <<record, up, cancel, limits>>

\* A broken connection is tried again; a request without an answer is lost.
Crash ==
  /\ up /\ Trouble
  /\ up' = FALSE
  /\ job' = NoJob /\ aborted' = FALSE
  /\ cancel' = "idle" /\ hitl' = "idle"
  /\ subject' = FALSE
  /\ handler' = "none" /\ latest' = "none"
  /\ CASE source = "open" -> OnError("connecting")
       [] handler \in {"second", "join"} -> OnError("dead")
       [] OTHER -> UNCHANGED page
  /\ UNCHANGED <<record, expired>>

\* Recovery ends before the api serves, so nobody hears of it.  Whether the
\* pool of attempts is used up is left open.
Boot ==
  /\ ~up
  /\ up' = TRUE
  /\ \/ /\ stop /\ status \in {"running", "interrupted"}
        /\ status' = "cancelled" /\ stop' = FALSE
     \/ /\ ~stop /\ status = "running"
        /\ status' \in {"interrupted", "failed"}
        /\ UNCHANGED stop
     \/ /\ status # "running" /\ ~(stop /\ status = "interrupted")
        /\ UNCHANGED <<status, stop>>
  /\ UNCHANGED <<chosen, writers, limits>> /\ Unheard

-----------------------------------------------------------------------------
(* Specification *)

Work == Claim \/ Begin \/ Outcome \/ Save \/ Announce
Cancelling == CancelAttempt \/ CancelAbort \/ CancelPublish
Resuming == ResumeSelect \/ ResumeSave \/ ResumeNotify
Connect == EventsRead \/ EventsReadAgain \/ EventsJoin \/ EventsOrphan \/ EventsRefused

Fetch == FetchRead \/ FetchFails \/ \E s \in RunStatuses : FetchApply(s)

Client ==
  /\ \/ Load \/ ListRead \/ ListApply \/ ListFails
     \/ Fetch
     \/ Connect \/ Drops \/ TokenExpires \/ SubjectExpires
  /\ UNCHANGED <<record, up, writers>>

Next ==
  \/ Work \/ JobThrows
  \/ CancelRequest \/ Cancelling \/ CancelThrows
  \/ ResumeRead \/ Resuming
  \/ Crash \/ Boot
  \/ Client

\* Statements return, the timer of a subject fires, requests are answered and
\* the browser connects again.  Nobody need act, and nothing need fail.
Fairness ==
  /\ WF_vars(Work) /\ WF_vars(Cancelling) /\ WF_vars(Resuming) /\ WF_vars(Boot)
  /\ WF_vars((ListRead \/ ListApply \/ ListFails) /\ UNCHANGED <<record, up, writers>>)
  /\ WF_vars(Fetch /\ UNCHANGED <<record, up, writers>>)
  /\ WF_vars(Connect /\ UNCHANGED <<record, up, writers>>)
  /\ WF_vars(SubjectExpires /\ UNCHANGED <<record, up, writers>>)

Spec == Init /\ [][Next]_vars /\ Fairness

-----------------------------------------------------------------------------
(* Properties *)

\* SPEC-RUNY R-4a, K-3b: a page that follows a run shows its status in the
\* end, also when the event fell between the read and the subscription, when
\* it was never published, when an old answer overtook a newer event or when
\* the connection dropped - unless the browser has given the stream up.
PageCatchesUp == []<>(source \in {"none", "dead"} \/ shown = status)

\* K-3b: no subject outlives its run for good, whoever left it behind.
NoZombieSubject == []<>(subject => status \notin TerminalStatuses)

\* A stream that is open hangs on the subject in the map, so the next event of
\* the run, or the end of the subject's time, will reach it.
NoDeafStream == source = "open" => subject
=============================================================================
