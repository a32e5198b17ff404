--------------------------- MODULE ReviewWindow ----------------------------
(***************************************************************************)
(* The review of finished runs: rating, edited output and finalisation by  *)
(* the author, each a check of the window on a snapshot followed, after an *)
(* await or more, by a write that looks at reviewFinalizedAt only; and the *)
(* sweeps that lock expired reviews, on boot and on a timer.               *)
(*                                                                         *)
(* A definition marked "Seeded fault" is a plausible bug in the code of    *)
(* the definition below it and not part of the specification.              *)
(***************************************************************************)
EXTENDS Integers

CONSTANTS
  Runs,
  Requests,   \* ids of the author's requests in flight
  Sweeps,     \* ids of the sweeps in flight: the timer does not wait for one
  Ttl,        \* env REVIEW_TTL
  MaxStars,   \* the highest rating
  Null,       \* SQL null
  MaxTime,    \* bound: the clock stops there
  MaxCrashes, \* bound: crashes of the api process
  MaxFaults   \* bound: database statements that throw

ASSUME ReviewAssumption ==
  /\ Ttl \in Nat \ {0}
  /\ MaxStars \in Nat
  /\ MaxTime \in Nat
  /\ MaxCrashes \in Nat
  /\ MaxFaults \in Nat
  /\ Null \notin Int
  /\ "pipeline" \notin Requests

VARIABLES
  review,  \* the review columns of the Run table
  now,     \* the clock
  up,      \* onModuleInit is over and HTTP is open
  request, \* the request handlers
  sweep,   \* the sweeps: the rows found and not yet written
  spent    \* crashes and faults so far

vars == <<review, now, up, request, sweep, spent>>

-----------------------------------------------------------------------------
(* Types *)

Time == 0..MaxTime

\* output says who wrote the result tables last; outputEdited, set in the same
\* transaction and never cleared, is output # "pipeline".
ReviewRow ==
  [finished : Time \cup {Null},           \* pipelineFinishedAt
   locked   : Nat \cup {Null},            \* reviewFinalizedAt
   rating   : (1..MaxStars) \cup {Null},  \* userRating
   output   : Requests \cup {"pipeline"}]

Request ==
  [pc : {"plan", "write"}, kind : {"rate", "edit", "finalize"},
   run : Runs, at : Time]

Sweep == [pc : {"idle", "locking"}, todo : SUBSET Runs]

TypeOK ==
  /\ review \in [Runs -> ReviewRow]
  /\ now \in Time
  /\ up \in BOOLEAN
  /\ request \in [Requests -> Request \cup {Null}]
  /\ sweep \in [Sweeps -> Sweep]
  /\ spent \in [crashes : 0..MaxCrashes, faults : 0..MaxFaults]

Expiry(r) == review[r].finished + Ttl

Fault ==
  /\ spent.faults < MaxFaults
  /\ spent' = [spent EXCEPT !.faults = @ + 1]

NoSweep == [s \in Sweeps |-> [pc |-> "idle", todo |-> {}]]

-----------------------------------------------------------------------------
(* The process and the clock *)

Init ==
  /\ review = [r \in Runs |-> [finished |-> Null, locked |-> Null,
                               rating |-> Null, output |-> "pipeline"]]
  /\ now = 0
  /\ up = FALSE
  /\ request = [q \in Requests |-> Null]
  /\ sweep = NoSweep
  /\ spent = [crashes |-> 0, faults |-> 0]

Tick ==
  /\ now < MaxTime
  /\ now' = now + 1
  /\ UNCHANGED <<review, up, request, sweep, spent>>

\* The pipeline of the run ends: setPipelineFinishedAt, only where it is null.
\* On boot, recovery does so before the sweep.
Finish(r) ==
  /\ up \/ sweep = NoSweep
  /\ review[r].finished = Null
  /\ review' = [review EXCEPT ![r].finished = now]
  /\ UNCHANGED <<now, up, request, sweep, spent>>

Down ==
  /\ up' = FALSE
  /\ request' = [q \in Requests |-> Null]
  /\ sweep' = NoSweep

Crash ==
  /\ spent.crashes < MaxCrashes
  /\ spent' = [spent EXCEPT !.crashes = @ + 1]
  /\ Down
  /\ UNCHANGED <<review, now>>

-----------------------------------------------------------------------------
(* PATCH .../rating, POST .../output-edited and POST .../finalize-review,   *)
(* sent by the author                                                      *)

\* Seeded fault: the window is still open at its very end.
OpenAtExpiry(r) ==
  /\ review[r].locked = Null
  /\ review[r].finished # Null
  /\ now <= Expiry(r)

\* isReviewWindowOpen
Open(r) ==
  /\ review[r].locked = Null
  /\ review[r].finished # Null
  /\ now < Expiry(r)

\* ratingSchema
Rateable == (1..MaxStars) \cup {Null}

\* getById and assertRunReviewable, which answers 409 outside the window.
\* The date finalize will store is read here.
Check(q, r, kind) ==
  /\ up
  /\ request[q] = Null
  /\ Open(r)
  /\ request' = [request EXCEPT ![q] =
                   [pc |-> IF kind = "finalize" THEN "write" ELSE "plan",
                    kind |-> kind, run |-> r, at |-> now]]
  /\ UNCHANGED <<review, now, up, sweep, spent>>

\* Between check and write, a guest's rating asks the quota and an edit reads
\* the stored parts it replaces.
Plan(q) ==
  /\ request[q] # Null
  /\ request[q].pc = "plan"
  /\ request' = [request EXCEPT ![q].pc = "write"]
  /\ UNCHANGED <<review, now, up, sweep, spent>>

\* The quota is exceeded, or the edit does not fit what is stored: 429 or 400.
Refuse(q) ==
  /\ request[q] # Null
  /\ request[q].pc = "plan"
  /\ request' = [request EXCEPT ![q] = Null]
  /\ UNCHANGED <<review, now, up, sweep, spent>>

\* What the update of a request makes of the row.
Written(q, row) ==
  CASE request[q].kind = "rate"     -> {[row EXCEPT !.rating = n] : n \in Rateable}
    [] request[q].kind = "edit"     -> {[row EXCEPT !.output = q]}
    [] request[q].kind = "finalize" -> {[row EXCEPT !.locked = request[q].at]}

\* Seeded fault: the update matches the row by id alone.
WriteAnyway(q) ==
  /\ request[q] # Null
  /\ request[q].pc = "write"
  /\ \E row \in Written(q, review[request[q].run]) :
       review' = [review EXCEPT ![request[q].run] = row]
  /\ request' = [request EXCEPT ![q] = Null]
  /\ UNCHANGED <<now, up, sweep, spent>>

\* saveRating, saveFinalizedAt, or the transaction of an edit: an update where
\* reviewFinalizedAt is null; no row matched is answered 409.
Write(q) ==
  /\ request[q] # Null
  /\ request[q].pc = "write"
  /\ LET r == request[q].run
     IN  \/ /\ review[r].locked = Null
            /\ \E row \in Written(q, review[r]) :
                 review' = [review EXCEPT ![r] = row]
         \/ /\ review[r].locked # Null
            /\ UNCHANGED review
  /\ request' = [request EXCEPT ![q] = Null]
  /\ UNCHANGED <<now, up, sweep, spent>>

\* A statement of the request throws: 500, and a transaction is rolled back.
RequestThrow(q) ==
  /\ request[q] # Null
  /\ Fault
  /\ request' = [request EXCEPT ![q] = Null]
  /\ UNCHANGED <<review, now, up, sweep>>

-----------------------------------------------------------------------------
(* The sweep: awaited on boot, then started by a timer whatever became of   *)
(* the one before.                                                         *)

\* Seeded fault: rows that expire at this very moment are left out.
ExpiredLate ==
  {r \in Runs : /\ review[r].locked = Null
                /\ review[r].finished # Null
                /\ review[r].finished < now - Ttl}

\* finalizeExpiredReviews, findMany
Expired ==
  {r \in Runs : /\ review[r].locked = Null
                /\ review[r].finished # Null
                /\ review[r].finished <= now - Ttl}

SweepFind(s) ==
  /\ up \/ sweep = NoSweep
  /\ sweep[s].pc = "idle"
  /\ sweep' = [sweep EXCEPT ![s] = [pc |-> "locking", todo |-> Expired]]
  /\ UNCHANGED <<review, now, up, request, spent>>

\* Seeded fault: the lock carries the time of the sweep.
SweepLockNow(s, r) ==
  /\ r \in sweep[s].todo
  /\ review' = [review EXCEPT ![r].locked = IF @ = Null THEN now ELSE @]
  /\ sweep' = [sweep EXCEPT ![s].todo = @ \ {r}]
  /\ UNCHANGED <<now, up, request, spent>>

\* finalizeExpiredReviews, updateMany for one of the rows found.
SweepLock(s, r) ==
  /\ r \in sweep[s].todo
  /\ review' = [review EXCEPT ![r].locked = IF @ = Null THEN Expiry(r) ELSE @]
  /\ sweep' = [sweep EXCEPT ![s].todo = @ \ {r}]
  /\ UNCHANGED <<now, up, request, spent>>

\* The sweep of the boot opens HTTP and starts the timer.
SweepEnd(s) ==
  /\ sweep[s] = [pc |-> "locking", todo |-> {}]
  /\ sweep' = [sweep EXCEPT ![s].pc = "idle"]
  /\ up' = TRUE
  /\ UNCHANGED <<review, now, request, spent>>

\* A statement of the sweep throws: logged, but on boot it ends the process.
SweepThrow(s) ==
  /\ sweep[s].pc = "locking"
  /\ Fault
  /\ \/ /\ up
        /\ sweep' = [sweep EXCEPT ![s] = [pc |-> "idle", todo |-> {}]]
        /\ UNCHANGED <<up, request>>
     \/ ~up /\ Down
  /\ UNCHANGED <<review, now>>

-----------------------------------------------------------------------------
(* Specification *)

SweepStep(s) ==
  SweepFind(s) \/ (\E r \in Runs : SweepLock(s, r)) \/ SweepEnd(s)

RequestStep(q) ==
  \/ \E r \in Runs, kind \in {"rate", "edit", "finalize"} : Check(q, r, kind)
  \/ Plan(q) \/ Refuse(q) \/ Write(q) \/ RequestThrow(q)

Next ==
  \/ Tick
  \/ Crash
  \/ \E r \in Runs : Finish(r)
  \/ \E q \in Requests : RequestStep(q)
  \/ \E s \in Sweeps : SweepStep(s) \/ SweepThrow(s)

Spec == Init /\ [][Next]_vars

\* The timer fires again and again and its statements return.  Nobody need send
\* a request, and an answer may be as late as it likes.
FairSpec == Spec /\ \A s \in Sweeps : WF_vars(SweepStep(s))

-----------------------------------------------------------------------------
(* Properties *)

\* R-10.5, R-10.9: a review is locked between the end of the pipeline and the
\* end of its window, never in the future, and downtime does not extend it.
LockInWindow ==
  \A r \in Runs : review[r].locked # Null =>
    /\ review[r].finished # Null
    /\ review[r].finished <= review[r].locked
    /\ review[r].locked <= Expiry(r)
    /\ review[r].locked <= now

\* What the author puts into a review.
Content(r) == <<review[r].rating, review[r].output>>

\* R-10.8: from the end of the window on, what the review holds is changed only
\* by a request that was let in before it (assertRunReviewable).
LateChangeWasInTime ==
  [][\A r \in Runs :
       /\ review[r].finished # Null
       /\ now >= Expiry(r)
       /\ Content(r)' # Content(r)
       => \E q \in Requests : /\ request[q] # Null
                              /\ request[q].run = r
                              /\ request[q].at < Expiry(r)]_vars

Phase(r) ==
  IF review[r].finished = Null THEN "none"
  ELSE IF review[r].locked = Null THEN "open" ELSE "locked"

Abstract == INSTANCE Review WITH
  Contents <- ((1..MaxStars) \cup {Null}) \X (Requests \cup {"pipeline"}),
  Fresh    <- <<Null, "pipeline">>,
  phase    <- [r \in Runs |-> Phase(r)],
  content  <- [r \in Runs |-> Content(r)]

\* R-10.7: a review opens once, changes only while it is open and stays as it
\* is once locked, whoever else was on the way to change it.
FollowsReview == Abstract!Spec

\* R-10.9: a review whose window has passed is eventually locked, through
\* crashes, downtime and sweeps that fail half way.
ExpiredIsLocked ==
  \A r \in Runs :
    (review[r].finished # Null /\ now >= Expiry(r)) ~> review[r].locked # Null
=============================================================================
