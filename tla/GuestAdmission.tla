-------------------------- MODULE GuestAdmission --------------------------
(***************************************************************************)
(* Admission of the runs a guest starts in DEMO_MODE: one run of each type *)
(* for the life of the account, counted in the database, and at most Cap   *)
(* starts a day for all guests together, counted in Redis; and the         *)
(* deletion of a guest's account with the runs it owns.  Between counting, *)
(* incrementing, creating and giving back lies an await each, and midnight *)
(* or a crash may fall into any of them.                                   *)
(*                                                                         *)
(* A definition marked "Seeded fault" is a plausible bug in the code of    *)
(* the definition below it and not part of the specification.              *)
(***************************************************************************)
EXTENDS Integers, FiniteSets

CONSTANTS
  Guests,
  Types,      \* GUEST_TASK_TYPES: other types are refused before any effect
  Requests,   \* POST /runs requests; the run a request starts has its name
  Cap,        \* env GUEST_GLOBAL_CAP_PER_DAY
  Null,
  MaxDay,     \* bound: the last day, counted from 0
  MaxCrashes, \* bound: crashes of the api process
  MaxFaults   \* bound: database and Redis failures

ASSUME AdmissionAssumption ==
  /\ IsFiniteSet(Requests)
  /\ Cap \in Nat \ {0}
  /\ MaxDay \in Nat
  /\ MaxCrashes \in Nat
  /\ MaxFaults \in Nat

VARIABLES
  day,       \* the UTC date
  counter,   \* Redis: content-chain:guest:daily:runs:{date}; 0 when absent
  ttl,       \* the days whose key expires at its midnight
  users,     \* the guests with a row in the User table
  request,   \* the start requests
  run,       \* the run of each request: none, live, or ended
  deletion,  \* an administrator's deletion of a guest, past its check
  stray,     \* history: decrements of a day's key that paid back no start of it
  spent      \* crashes and faults so far

vars == <<day, counter, ttl, users, request, run, deletion, stray, spent>>

-----------------------------------------------------------------------------
(* Types *)

Days == 0..MaxDay

\* counting: COUNT of the guest's runs of the type; incr, expire, undo: the
\* commands of tryIncr; create: runs.create; release: releaseDailyRun;
\* then the answer, started or refused.
Stages ==
  {"count", "incr", "expire", "undo", "create", "release", "started", "refused"}

\* day is the date of admission, key the date in the key of the command at hand.
Request == [pc : Stages, guest : Guests, type : Types, day : Days, key : Days]

ASSUME NullAssumption == Null \notin Request

TypeOK ==
  /\ day \in Days
  /\ counter \in [Days -> Int]
  /\ ttl \subseteq Days
  /\ users \subseteq Guests
  /\ request \in [Requests -> Request \cup {Null}]
  /\ run \in [Requests -> {"none", "live", "ended"}]
  /\ deletion \in [Guests -> [purge : BOOLEAN] \cup {Null}]
  /\ stray \in [Days -> Nat]
  /\ spent \in [crashes : 0..MaxCrashes, faults : 0..MaxFaults]

At(q, pc) == request[q] # Null /\ request[q].pc = pc

RunsOf(g) == {q \in Requests : run[q] # "none" /\ request[q].guest = g}

HasLiveRuns(g) == \E q \in RunsOf(g) : run[q] = "live"

Fault ==
  /\ spent.faults < MaxFaults
  /\ spent' = [spent EXCEPT !.faults = @ + 1]

Goto(q, pc) == request' = [request EXCEPT ![q].pc = pc]

-----------------------------------------------------------------------------
(* Time, the life of a run, and the process *)

Init ==
  /\ day = 0
  /\ counter = [d \in Days |-> 0]
  /\ ttl = {}
  /\ users = Guests
  /\ request = [q \in Requests |-> Null]
  /\ run = [q \in Requests |-> "none"]
  /\ deletion = [g \in Guests |-> Null]
  /\ stray = [d \in Days |-> 0]
  /\ spent = [crashes |-> 0, faults |-> 0]

Midnight ==
  /\ day < MaxDay
  /\ day' = day + 1
  /\ UNCHANGED <<counter, ttl, users, request, run, deletion, stray, spent>>

\* Redis drops the key of a day that is over; the next command on it starts at 0.
KeyExpires(d) ==
  /\ d \in ttl
  /\ d < day
  /\ counter' = [counter EXCEPT ![d] = 0]
  /\ ttl' = ttl \ {d}
  /\ UNCHANGED <<day, users, request, run, deletion, stray, spent>>

\* The run reaches a status that is not among LIVE_RUN_STATUSES.
RunEnds(q) ==
  /\ run[q] = "live"
  /\ run' = [run EXCEPT ![q] = "ended"]
  /\ UNCHANGED <<day, counter, ttl, users, request, deletion, stray, spent>>

\* What the handlers have in hand is lost, a slot in the counter with it.
Crash ==
  /\ spent.crashes < MaxCrashes
  /\ spent' = [spent EXCEPT !.crashes = @ + 1]
  /\ request' = [q \in Requests |->
                   IF request[q] = Null \/ At(q, "started") THEN request[q]
                   ELSE [request[q] EXCEPT !.pc = "refused"]]
  /\ deletion' = [g \in Guests |-> Null]
  /\ UNCHANGED <<day, counter, ttl, users, run, stray>>

-----------------------------------------------------------------------------
(* POST /runs by a guest: admitStart, runs.create, release *)

Start(q, g, t) ==
  /\ request[q] = Null
  /\ g \in users
  /\ request' = [request EXCEPT ![q] = [pc |-> "count", guest |-> g, type |-> t,
                                        day |-> day, key |-> day]]
  /\ UNCHANGED <<day, counter, ttl, users, run, deletion, stray, spent>>

\* countByUserAndType, whatever the status; then tryAdmitDailyRun takes the date.
Count(q) ==
  /\ At(q, "count")
  /\ LET used == {p \in RunsOf(request[q].guest) : request[p].type = request[q].type}
     IN  \/ used # {} /\ Goto(q, "refused")
         \/ /\ used = {}
            /\ request' = [request EXCEPT ![q] =
                 [@ EXCEPT !.pc = "incr", !.day = day, !.key = day]]
  /\ UNCHANGED <<day, counter, ttl, users, run, deletion, stray, spent>>

\* Seeded fault: one start more than the cap.
VerdictOffByOne(value) ==
  IF value = 1 THEN "expire" ELSE IF value > Cap + 1 THEN "undo" ELSE "create"

\* What tryIncr does with the value INCR has returned.
Verdict(value) ==
  IF value = 1 THEN "expire" ELSE IF value > Cap THEN "undo" ELSE "create"

Incr(q) ==
  /\ At(q, "incr")
  /\ LET d == request[q].key
     IN  /\ counter' = [counter EXCEPT ![d] = @ + 1]
         /\ Goto(q, Verdict(counter[d] + 1))
  /\ UNCHANGED <<day, ttl, users, run, deletion, stray, spent>>

\* PEXPIRE until the midnight that ends the day of the key.
Expire(q) ==
  /\ At(q, "expire")
  /\ ttl' = ttl \cup {request[q].key}
  /\ Goto(q, "create")
  /\ UNCHANGED <<day, counter, users, run, deletion, stray, spent>>

\* A decrement on behalf of q: stray unless it takes back q's own increment.
Decr(q, own) ==
  LET d == request[q].key
  IN  /\ counter' = [counter EXCEPT ![d] = @ - 1]
      /\ stray' = [stray EXCEPT ![d] = IF own THEN @ ELSE @ + 1]

Undo(q) ==
  /\ At(q, "undo")
  /\ Decr(q, TRUE)
  /\ Goto(q, "refused")
  /\ UNCHANGED <<day, ttl, users, run, deletion, spent>>

\* Seeded fault: the run does not refer to its author.
CreateUnowned(q) ==
  /\ At(q, "create")
  /\ run' = [run EXCEPT ![q] = "live"]
  /\ Goto(q, "started")
  /\ UNCHANGED <<day, counter, ttl, users, deletion, stray, spent>>

\* runs.create.  It fails on the foreign key when the guest is gone.
Create(q) ==
  /\ At(q, "create")
  /\ request[q].guest \in users
  /\ run' = [run EXCEPT ![q] = "live"]
  /\ Goto(q, "started")
  /\ UNCHANGED <<day, counter, ttl, users, deletion, stray, spent>>

\* Seeded fault: a failing create is answered without the release.
CreateFailsQuietly(q) ==
  /\ At(q, "create")
  /\ \/ request[q].guest \notin users /\ UNCHANGED spent
     \/ Fault
  /\ Goto(q, "refused")
  /\ UNCHANGED <<day, counter, ttl, users, run, deletion, stray>>

\* The catch around runs.create calls release, which takes the date anew.
CreateFails(q) ==
  /\ At(q, "create")
  /\ \/ request[q].guest \notin users /\ UNCHANGED spent
     \/ Fault
  /\ request' = [request EXCEPT ![q] =
                   [@ EXCEPT !.pc = "release", !.key = day]]
  /\ UNCHANGED <<day, counter, ttl, users, run, deletion, stray>>

Release(q) ==
  /\ At(q, "release")
  /\ Decr(q, request[q].key = request[q].day)
  /\ Goto(q, "refused")
  /\ UNCHANGED <<day, ttl, users, run, deletion, spent>>

\* The statement or command at hand throws without effect: tryIncr answers
\* unavailable, which refuses the start, and release swallows the error.
Throw(q) ==
  /\ \E pc \in {"count", "incr", "expire", "undo", "release"} : At(q, pc)
  /\ Fault
  /\ Goto(q, "refused")
  /\ UNCHANGED <<day, counter, ttl, users, run, deletion, stray>>

\* Redis runs the command and the connection is lost before the reply: the
\* client sends the command again on the new connection.
Resend(q) ==
  /\ Fault
  /\ \/ /\ At(q, "incr")
        /\ counter' = [counter EXCEPT ![request[q].key] = @ + 1]
        /\ UNCHANGED stray
     \/ /\ At(q, "undo") \/ At(q, "release")
        /\ Decr(q, FALSE)
  /\ UNCHANGED <<day, ttl, users, request, run, deletion>>

-----------------------------------------------------------------------------
(* DELETE /users/:id of a guest by the administrator *)

\* findById and hasLiveRuns; a guest with live runs needs ?purge=true, which
\* also aborts their executions.
DeleteCheck(g, purge) ==
  /\ g \in users
  /\ deletion[g] = Null
  /\ HasLiveRuns(g) => purge
  /\ deletion' = [deletion EXCEPT ![g] = [purge |-> purge]]
  /\ UNCHANGED <<day, counter, ttl, users, request, run, stray, spent>>

\* The transaction: the runs of the guest, and the guest.
DeleteTx(g) ==
  /\ deletion[g] # Null
  /\ run' = [q \in Requests |-> IF q \in RunsOf(g) THEN "none" ELSE run[q]]
  /\ users' = users \ {g}
  /\ deletion' = [deletion EXCEPT ![g] = Null]
  /\ UNCHANGED <<day, counter, ttl, request, stray, spent>>

\* The transaction throws and is rolled back.
DeleteThrow(g) ==
  /\ deletion[g] # Null
  /\ Fault
  /\ deletion' = [deletion EXCEPT ![g] = Null]
  /\ UNCHANGED <<day, counter, ttl, users, request, run, stray>>

-----------------------------------------------------------------------------
(* Specification *)

RequestStep(q) ==
  \/ \E g \in Guests, t \in Types : Start(q, g, t)
  \/ Count(q) \/ Incr(q) \/ Expire(q) \/ Undo(q)
  \/ Create(q) \/ CreateFails(q) \/ Release(q)
  \/ Throw(q) \/ Resend(q)

DeleteStep(g) ==
  (\E purge \in BOOLEAN : DeleteCheck(g, purge)) \/ DeleteTx(g) \/ DeleteThrow(g)

Next ==
  \/ Midnight
  \/ Crash
  \/ \E d \in Days : KeyExpires(d)
  \/ \E q \in Requests : RequestStep(q) \/ RunEnds(q)
  \/ \E g \in Guests : DeleteStep(g)

Spec == Init /\ [][Next]_vars

-----------------------------------------------------------------------------
(* Properties *)

\* Starts admitted on a day and not refused since.
Held(d) ==
  {q \in Requests : /\ request[q] # Null
                    /\ request[q].day = d
                    /\ request[q].pc \in {"expire", "create", "started"}}

\* Requests about to take back the increment they made on that day.
Owing(d) ==
  {q \in Requests : /\ request[q] # Null
                    /\ request[q].day = d
                    /\ request[q].key = d
                    /\ request[q].pc \in {"undo", "release"}}

\* R-12.3: while a day lasts, guests have started no more runs on it than the
\* cap, and one more for every decrement its key got on account of something
\* else: the release of an earlier day's start, or a command sent twice.
DailyCap == Cardinality(Held(day)) <= Cap + stray[day]

\* R-12.3: without crashes and failures nothing is lost: today's counter is
\* the starts it admitted, less what came back for another day.
NoSlotLost ==
  spent = [crashes |-> 0, faults |-> 0] =>
    counter[day] = Cardinality(Held(day)) + Cardinality(Owing(day)) - stray[day]

\* A-10, D-63, D-65: no run of a deleted guest is left or appears later,
\* also when a start was on its way while the account was deleted.
DeletedOwnsNothing ==
  \A q \in Requests : run[q] # "none" => request[q].guest \in users
=============================================================================
