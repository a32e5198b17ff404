-------------------------- MODULE RunStreamProofs --------------------------
(***************************************************************************)
(* Theorems about RunStream, whatever the number of loads, of snapshots    *)
(* asked for at a time and of troubles.                                    *)
(*                                                                         *)
(* NoDeafStream alone is not inductive: a published event releases the     *)
(* page only when it is a last one, and the handler about to subscribe     *)
(* must not be overtaken by a connection already open.                     *)
(***************************************************************************)
EXTENDS RunStream, TLAPS

-----------------------------------------------------------------------------
(* The inductive invariant *)

\* The handler works for a page that waits for it; what it saw is live.
HandlerInv ==
  /\ handler \in {"second", "join"} => source = "connecting"
  /\ handler = "join" => latest \in LiveStatuses

Inv == TypeOK /\ NoDeafStream /\ HandlerInv

LEMMA StatusFacts ==
  /\ LiveStatuses \subseteq RunStatuses
  /\ TerminalStatuses \subseteq RunStatuses
  /\ Followed \subseteq LiveStatuses
  /\ LiveStatuses \cap TerminalStatuses = {}
  /\ "none" \notin RunStatuses
  /\ {"queued", "running", "interrupted", "cancelled"} \subseteq RunStatuses
  /\ {"awaiting_hitl", "completed", "failed"} \subseteq RunStatuses
  <1> DEFINE All == {"queued", "running", "awaiting_hitl", "interrupted",
                     "completed", "failed", "cancelled"}
  <1>1. RunStatuses = All
    BY DEF RunStatuses, LiveStatuses, TerminalStatuses
  <1>2. Followed \subseteq LiveStatuses
    BY DEF LiveStatuses, Followed
  <1>3. LiveStatuses \cap TerminalStatuses = {}
    BY DEF LiveStatuses, TerminalStatuses
  <1>4. LiveStatuses \subseteq RunStatuses /\ TerminalStatuses \subseteq RunStatuses
    BY DEF RunStatuses
  <1> QED
    BY <1>1, <1>2, <1>3, <1>4

\* The counts of the snapshots; a status may be counted, and so may "sent".
LEMMA FetchFacts ==
  /\ NoFetch \in [Request \ {"none"} -> Nat]
  /\ RunStatuses \cup {"sent"} \subseteq Request \ {"none"}
  BY StatusFacts DEF NoFetch, Request

LEMMA InitInv == Init => Inv
  <1> SUFFICES ASSUME Init PROVE Inv
    OBVIOUS
  <1>1. status \in RunStatuses /\ "none" \in Request
    BY StatusFacts DEF Init, Request
  <1>2. NoJob \in [pc : {"none", "claimed", "work", "save", "saved"},
                  to : {"awaiting_hitl", "completed", "failed"}]
    BY DEF NoJob
  <1>3. 0 \in 0..MaxLoads /\ 0 \in 0..MaxTroubles
    BY StreamAssumption
  <1>4. TypeOK
    BY <1>1, <1>2, <1>3, FetchFacts DEF Init, TypeOK
  <1>5. NoDeafStream /\ HandlerInv
    BY DEF Init, NoDeafStream, HandlerInv
  <1> QED
    BY <1>4, <1>5 DEF Inv

-----------------------------------------------------------------------------
(* The operators the actions share *)

\* Parts of the type of the page and the hub.
PageOK ==
  /\ shown \in RunStatuses \cup {"absent"}
  /\ source \in {"none", "connecting", "open", "dead"}
  /\ fetch \in [Request \ {"none"} -> Nat] /\ list \in Request
HubOK ==
  /\ subject \in BOOLEAN
  /\ handler \in {"none", "second", "join", "orphan"}
  /\ latest \in LiveStatuses \cup {"none"}

StreamInv == PageOK /\ HubOK /\ NoDeafStream /\ HandlerInv

\* Showing a status opens no stream, and closes it before the handler of it
\* is forgotten.
LEMMA ShowKeeps ==
  ASSUME StreamInv, NEW s \in RunStatuses \cup {"absent"}, Show(s)
  PROVE  /\ shown' = s
         /\ source' \in {"none", "connecting", "open", "dead"}
         /\ fetch' \in [Request \ {"none"} -> Nat]
         /\ handler' \in {"none", "second", "join", "orphan"}
         /\ source' = "open" => source = "open" /\ s \in Followed
         /\ handler' \in {"second", "join"} =>
              handler' = handler /\ source' = source
  BY FetchFacts DEF StreamInv, PageOK, HubOK, HandlerInv, Show, Release

\* So does an event of the hub, and the end of the run closes the stream
\* together with the subject.
LEMMA PublishKeeps ==
  ASSUME StreamInv, NEW s \in RunStatuses, Publish(s)
  PROVE  StreamInv' /\ expired' = expired
  <1>1. CASE subject /\ source = "open"
    <2>1. Receive(s)
      BY <1>1 DEF Publish
    <2>2. Show(s) /\ list' \in Request
      BY <2>1 DEF Receive, StreamInv, PageOK, Request
    <2>3. source' = "open" => s \notin TerminalStatuses
      BY <2>2, ShowKeeps, StatusFacts
    <2>4. subject' \in BOOLEAN /\ (s \notin TerminalStatuses => subject')
      BY <1>1 DEF Publish
    <2>5. PageOK'
      BY <2>2, ShowKeeps DEF PageOK
    <2>6. HubOK'
      BY <2>2, <2>4, ShowKeeps DEF Publish, StreamInv, HubOK
    <2>7. NoDeafStream'
      BY <2>3, <2>4 DEF NoDeafStream
    <2>8. HandlerInv'
      BY <1>1, <2>2, ShowKeeps DEF Publish, StreamInv, HandlerInv
    <2> QED
      BY <2>5, <2>6, <2>7, <2>8 DEF Publish, StreamInv
  <1>2. CASE ~(subject /\ source = "open")
    BY <1>2 DEF Publish, StreamInv, PageOK, HubOK, NoDeafStream, HandlerInv, page
  <1> QED
    BY <1>1, <1>2

\* A step that does not touch the stream keeps what holds of it.
LEMMA UnheardKeeps ==
  ASSUME StreamInv, Unheard
  PROVE  StreamInv' /\ expired' = expired
  BY DEF StreamInv, PageOK, HubOK, NoDeafStream, HandlerInv, Unheard, server, page

-----------------------------------------------------------------------------
(* The writers *)

\* The rest of the type: the row, the writers and the counters.
RunOK ==
  /\ status \in RunStatuses
  /\ stop \in BOOLEAN /\ chosen \in BOOLEAN /\ up \in BOOLEAN
  /\ job \in [pc : {"none", "claimed", "work", "save", "saved"},
              to : {"awaiting_hitl", "completed", "failed"}]
  /\ aborted \in BOOLEAN
  /\ cancel \in {"idle", "cas", "abort", "log"}
  /\ hitl \in {"idle", "select", "save", "notify"}
CountOK == loads \in 0..MaxLoads /\ troubles \in 0..MaxTroubles

LEMMA InvParts ==
  /\ Inv <=> RunOK /\ CountOK /\ expired \in BOOLEAN /\ StreamInv
  /\ Inv' <=> RunOK' /\ CountOK' /\ expired' \in BOOLEAN /\ StreamInv'
  <1>1. Inv <=> RunOK /\ CountOK /\ expired \in BOOLEAN /\ StreamInv
    BY DEF Inv, TypeOK, RunOK, CountOK, StreamInv, PageOK, HubOK
  <1>2. Inv' <=> RunOK' /\ CountOK' /\ expired' \in BOOLEAN /\ StreamInv'
    BY DEF Inv, TypeOK, RunOK, CountOK, StreamInv, PageOK, HubOK
  <1> QED
    BY <1>1, <1>2

LEMMA TroubleCounts ==
  ASSUME CountOK, Trouble
  PROVE  CountOK'
  BY StreamAssumption DEF CountOK, Trouble

LEMMA WorkKeeps ==
  ASSUME Inv, Work \/ JobThrows
  PROVE  Inv'
  <1> USE InvParts, StatusFacts
  <1>1. CASE Claim
    BY <1>1, UnheardKeeps DEF Claim, RunOK, CountOK, limits
  <1>2. CASE Begin
    BY <1>2, PublishKeeps DEF Begin, RunOK, CountOK, limits, record
  <1>3. CASE Outcome
    BY <1>3, UnheardKeeps DEF Outcome, RunOK, CountOK, limits, record, NoJob
  <1>4. CASE Save
    BY <1>4, UnheardKeeps DEF Save, RunOK, CountOK, limits
  <1>5. CASE Announce
    BY <1>5, PublishKeeps DEF Announce, RunOK, CountOK, limits, record, NoJob
  <1>6. CASE JobThrows
    BY <1>6, UnheardKeeps, TroubleCounts DEF JobThrows, RunOK, record, NoJob
  <1> QED
    BY <1>1, <1>2, <1>3, <1>4, <1>5, <1>6 DEF Work

LEMMA CancelKeeps ==
  ASSUME Inv, CancelRequest \/ Cancelling \/ CancelThrows
  PROVE  Inv'
  <1> USE InvParts, StatusFacts
  <1>1. CASE CancelRequest
    BY <1>1, UnheardKeeps DEF CancelRequest, RunOK, CountOK, limits
  <1>2. CASE CancelAttempt
    <2>1. StreamInv' /\ expired' = expired
      BY <1>2, UnheardKeeps DEF CancelAttempt
    <2>2. RunOK' /\ CountOK'
      BY <1>2 DEF CancelAttempt, RunOK, CountOK, limits
    <2> QED
      BY <2>1, <2>2
  <1>3. CASE CancelAbort
    BY <1>3, UnheardKeeps DEF CancelAbort, RunOK, CountOK, limits, record
  <1>4. CASE CancelPublish
    BY <1>4, PublishKeeps DEF CancelPublish, RunOK, CountOK, limits, record
  <1>5. CASE CancelThrows
    BY <1>5, UnheardKeeps, TroubleCounts DEF CancelThrows, RunOK, record
  <1> QED
    BY <1>1, <1>2, <1>3, <1>4, <1>5 DEF Cancelling

LEMMA ResumeKeeps ==
  ASSUME Inv, ResumeRead \/ Resuming
  PROVE  Inv'
  <1> USE InvParts, StatusFacts
  <1>1. CASE ResumeRead
    BY <1>1, UnheardKeeps DEF ResumeRead, RunOK, CountOK, limits, record
  <1>2. CASE ResumeSelect
    BY <1>2, UnheardKeeps DEF ResumeSelect, RunOK, CountOK, limits
  <1>3. CASE ResumeSave
    BY <1>3, UnheardKeeps DEF ResumeSave, RunOK, CountOK, limits
  <1>4. CASE ResumeNotify
    BY <1>4, PublishKeeps DEF ResumeNotify, RunOK, CountOK, limits, record, NoJob
  <1> QED
    BY <1>1, <1>2, <1>3, <1>4 DEF Resuming

\* The page's error handler asks for one more snapshot.
LEMMA OnErrorKeeps ==
  ASSUME PageOK, NEW next \in {"none", "connecting", "dead"}, OnError(next)
  PROVE  PageOK' /\ source' = next
  BY DEF PageOK, OnError, Request

LEMMA RestartKeeps ==
  ASSUME Inv, Crash \/ Boot
  PROVE  Inv'
  <1> USE InvParts, StatusFacts
  <1>1. CASE Crash
    <2>1. RunOK' /\ CountOK' /\ expired' \in BOOLEAN
      BY <1>1, TroubleCounts DEF Crash, RunOK, record, NoJob
    <2>2. PageOK' /\ source' # "open"
      <3>1. CASE source = "open"
        BY <1>1, <3>1, OnErrorKeeps DEF Crash, StreamInv
      <3>2. CASE source # "open" /\ handler \in {"second", "join"}
        BY <1>1, <3>2, OnErrorKeeps DEF Crash, StreamInv
      <3>3. CASE source # "open" /\ handler \notin {"second", "join"}
        BY <1>1, <3>3 DEF Crash, StreamInv, PageOK, page
      <3> QED
        BY <3>1, <3>2, <3>3
    <2> QED
      BY <1>1, <2>1, <2>2 DEF Crash, StreamInv, HubOK, NoDeafStream, HandlerInv
  <1>2. CASE Boot
    <2>1. status' \in RunStatuses /\ stop' \in BOOLEAN
      BY <1>2 DEF Boot, RunOK
    <2> QED
      BY <1>2, <2>1, UnheardKeeps DEF Boot, RunOK, CountOK, limits, writers
  <1> QED
    BY <1>1, <1>2

-----------------------------------------------------------------------------
(* The page, the handler of the stream and the subject *)

LEMMA AnswerKeeps ==
  ASSUME Inv, UNCHANGED <<record, up, writers>>,
         \/ Load \/ ListRead \/ ListApply \/ ListFails
         \/ Fetch
  PROVE  Inv'
  <1> USE InvParts, StatusFacts
  <1>0. RunOK'
    BY DEF RunOK, record, writers
  <1>1. CASE Load
    BY <1>0, <1>1, StreamAssumption
       DEF Load, CountOK, StreamInv, PageOK, HubOK, NoDeafStream, HandlerInv,
           server, Request
  <1>2. CASE ListRead
    BY <1>0, <1>2 DEF ListRead, RunOK, CountOK, StreamInv, PageOK, HubOK,
                      NoDeafStream, HandlerInv, server, limits, Request
  <1>3. CASE ListApply
    <2>1. list \in RunStatuses
      BY <1>3 DEF ListApply, StreamInv, PageOK, Request
    <2> QED
      BY <1>0, <1>3, <2>1, ShowKeeps
         DEF ListApply, CountOK, StreamInv, PageOK, HubOK, NoDeafStream,
             HandlerInv, limits, Request
  <1>4. CASE ListFails
    BY <1>0, <1>4, ShowKeeps
       DEF ListFails, CountOK, StreamInv, PageOK, HubOK, NoDeafStream,
           HandlerInv, limits, Request
  <1>5. CASE FetchRead
    <2>1. fetch' \in [Request \ {"none"} -> Nat]
      BY <1>5, FetchFacts DEF FetchRead, RunOK, StreamInv, PageOK
    <2> QED
      BY <1>0, <1>5, <2>1 DEF FetchRead, CountOK, StreamInv, PageOK, HubOK,
                              NoDeafStream, HandlerInv, server, limits
  <1>6. ASSUME NEW s \in RunStatuses, FetchApply(s) PROVE Inv'
    <2>1. shown' = s /\ list' \in Request
      BY <1>6 DEF FetchApply, StreamInv, PageOK, Request
    <2>2. CASE s \in Followed
      BY <1>0, <1>6, <2>1, <2>2
         DEF FetchApply, CountOK, StreamInv, PageOK, HubOK, NoDeafStream, HandlerInv,
             limits, Request
    <2>3. CASE s \notin Followed
      BY <1>0, <1>6, <2>1, <2>3, FetchFacts
         DEF FetchApply, Release, CountOK, StreamInv, PageOK, HubOK, NoDeafStream,
             HandlerInv, limits
    <2> QED
      BY <2>2, <2>3
  <1>7. CASE FetchFails
    BY <1>0, <1>7 DEF FetchFails, CountOK, StreamInv, PageOK, HubOK,
                      NoDeafStream, HandlerInv, server, limits, Request
  <1> QED
    BY <1>1, <1>2, <1>3, <1>4, <1>5, <1>6, <1>7 DEF Fetch

LEMMA ConnectKeeps ==
  ASSUME Inv, UNCHANGED <<record, up, writers>>, Connect
  PROVE  Inv'
  <1> USE InvParts, StatusFacts
  <1>0. RunOK'
    BY DEF RunOK, record, writers
  <1>1. CASE EventsRead
    <2>1. CASE status \in TerminalStatuses
      <3>1. Show(status) /\ list' \in Request /\ status \notin Followed
        BY <1>1, <2>1 DEF EventsRead, Snapshot, Receive, StreamInv, PageOK, Request
      <3> QED
        BY <1>0, <1>1, <2>1, <3>1, ShowKeeps
           DEF EventsRead, Snapshot, RunOK, CountOK, StreamInv, PageOK, HubOK,
               NoDeafStream, HandlerInv, limits
    <2>2. CASE status \notin TerminalStatuses
      BY <1>0, <1>1, <2>2
         DEF EventsRead, CountOK, StreamInv, PageOK, HubOK, NoDeafStream,
             HandlerInv, limits, page
    <2> QED
      BY <2>1, <2>2
  <1>2. CASE EventsReadAgain
    <2>1. CASE status \in TerminalStatuses
      BY <1>0, <1>2, <2>1, FetchFacts
         DEF EventsReadAgain, RunOK, CountOK, StreamInv, PageOK, HubOK,
             NoDeafStream, HandlerInv, limits, Request
    <2>2. CASE status \notin TerminalStatuses
      <3>1. status \in LiveStatuses
        BY <2>2 DEF RunOK, RunStatuses
      <3> QED
        BY <1>0, <1>2, <2>2, <3>1
           DEF EventsReadAgain, CountOK, StreamInv, PageOK, HubOK, NoDeafStream,
               HandlerInv, limits, page
    <2> QED
      BY <2>1, <2>2
  <1>3. CASE EventsJoin
    BY <1>0, <1>3 DEF EventsJoin, CountOK, StreamInv, PageOK, HubOK,
                      NoDeafStream, HandlerInv, limits
  <1>4. CASE EventsOrphan
    BY <1>0, <1>4 DEF EventsOrphan, CountOK, StreamInv, PageOK, HubOK,
                      NoDeafStream, HandlerInv, limits, page
  <1>5. CASE EventsRefused
    <2>1. PageOK' /\ source' = "dead"
      BY <1>5, OnErrorKeeps DEF EventsRefused, StreamInv
    <2> QED
      BY <1>0, <1>5, <2>1 DEF EventsRefused, CountOK, StreamInv, HubOK,
                              NoDeafStream, HandlerInv, limits, server
  <1> QED
    BY <1>1, <1>2, <1>3, <1>4, <1>5 DEF Connect

LEMMA LossKeeps ==
  ASSUME Inv, UNCHANGED <<record, up, writers>>,
         Drops \/ TokenExpires \/ SubjectExpires
  PROVE  Inv'
  <1> USE InvParts, StatusFacts
  <1>0. RunOK'
    BY DEF RunOK, record, writers
  <1>1. CASE Drops
    <2>1. PageOK' /\ source' = "connecting"
      BY <1>1, OnErrorKeeps DEF Drops, StreamInv
    <2> QED
      BY <1>0, <1>1, <2>1, TroubleCounts
         DEF Drops, StreamInv, HubOK, NoDeafStream, HandlerInv, server
  <1>2. CASE TokenExpires
    BY <1>0, <1>2, TroubleCounts
       DEF TokenExpires, StreamInv, PageOK, HubOK, NoDeafStream, HandlerInv,
           server, page
  <1>3. CASE SubjectExpires
    <2>1. PageOK' /\ source' # "open" /\ (source' = source \/ source = "open")
      BY <1>3, OnErrorKeeps DEF SubjectExpires, StreamInv, PageOK, page
    <2> QED
      BY <1>0, <1>3, <2>1
         DEF SubjectExpires, CountOK, StreamInv, HubOK, NoDeafStream, HandlerInv,
             limits
  <1> QED
    BY <1>1, <1>2, <1>3

-----------------------------------------------------------------------------
(* The theorems *)

LEMMA NextInv == Inv /\ [Next]_vars => Inv'
  <1> SUFFICES ASSUME Inv, [Next]_vars PROVE Inv'
    OBVIOUS
  <1>1. CASE UNCHANGED vars
    BY <1>1 DEF Inv, TypeOK, NoDeafStream, HandlerInv, vars, record, writers,
                server, page, limits
  <1>2. CASE Client
    BY <1>2, AnswerKeeps, ConnectKeeps, LossKeeps DEF Client
  <1> QED
    BY <1>1, <1>2, WorkKeeps, CancelKeeps, ResumeKeeps, RestartKeeps DEF Next

\* The type invariant of the event stream.
THEOREM TypeCorrect == Spec => []TypeOK
  <1>1. Inv => TypeOK
    BY DEF Inv
  <1> QED
    BY InitInv, NextInv, <1>1, PTL DEF Spec

\* However the reads of the handler, the events, the timer, a crash and the
\* page's answers interleave, an open stream hangs on the run's subject.
THEOREM StreamsAreHeard == Spec => []NoDeafStream
  <1>1. Inv => NoDeafStream
    BY DEF Inv
  <1> QED
    BY InitInv, NextInv, <1>1, PTL DEF Spec
=============================================================================
