------------------------------ MODULE Gateway ------------------------------
(***************************************************************************)
(* A chat request in the AI provider gateway, from its guard to the end of *)
(* its response: the token bucket and the slots of concurrent streams, the *)
(* cooldown after a 429, the exact and the semantic cache with the         *)
(* embedding circuit breaker, the single flight of JSON requests, retries  *)
(* and fallback at the provider, and the two writes to the caches.  Every  *)
(* await is a step; Redis may go away, keys may expire and the process may *)
(* crash between any two.                                                  *)
(*                                                                         *)
(* A definition marked "Seeded fault" is a plausible bug in the code of    *)
(* the definition below it and not part of the specification.              *)
(***************************************************************************)
EXTENDS Integers, FiniteSets

CONSTANTS
  Requests,   \* chat requests of one client key, each sent at most once
  Streams,    \* those that ask for a stream; the others for JSON
  Tooling,    \* those with tools: neither cached, nor joined, nor fallen back
  Queried,    \* streams of the native route whose URL has a query string
  Keys,
  KeyOf,      \* the cache identity of a request
  MaxStreams,  \* rateLimit.maxConcurrentStreams
  MaxAttempts, \* policy.retry.maxAttempts
  OpenAfter,   \* EMBEDDING_CIRCUIT_OPEN_AFTER
  MaxFaults,   \* bound: for each set of requests that may come in a behaviour,
               \* the number of kinds of environment fault that may come with it
  None

Loads == DOMAIN MaxFaults

ASSUME GatewayAssumption ==
  /\ IsFiniteSet(Requests)
  /\ Streams \subseteq Requests
  /\ Tooling \subseteq Requests
  /\ Queried \subseteq Streams
  /\ KeyOf \in [Requests -> Keys]
  /\ MaxStreams \in Nat \ {0}
  /\ MaxAttempts \in Nat \ {0}
  /\ OpenAfter \in Nat \ {0}
  /\ Loads \subseteq SUBSET Requests
  /\ MaxFaults \in [Loads -> Nat]

VARIABLES
  load,     \* bound: the requests that come
  pc,       \* the await a request is at
  call,     \* its place in the executor: alias, attempt, primary ended in a 429
  vector,   \* embedState: not attempted, failed, or the vector
  reply,    \* the provider's reply it holds
  answer,   \* what its client got
  flight,   \* the single flight: the leader of each key
  failures, \* the circuit breaker: consecutive failures, at most OpenAfter
  cooled,   \* its cooldown is over
  trial,    \* trialInFlight
  redis,    \* Redis is reachable
  slots,    \* Redis: rateLimit:streams:{key}; 0 when absent
  slotTtl,  \* that key has a time to live
  cooling,  \* Redis: rateLimit:cooldown:{key}:{provider} exists
  exact,    \* Redis: the exact cache
  entry,    \* Redis: the semantic cache's hash of each key
  counted,  \* history: the stream's INCR has not been paid back
  faults    \* kinds of environment fault so far

bounds == <<load, faults>>
memory == <<flight, failures, cooled, trial>>
redisVars == <<redis, slots, slotTtl, cooling, exact, entry>>
vars == <<pc, call, vector, reply, answer, memory, redisVars, counted, bounds>>

-----------------------------------------------------------------------------
(* Types *)

Errors == {"429", "5xx", "fatal"}  \* 5xx stands for the timeout's 504 too
FaultKinds == {"outage", "crash", "slotsExpired", "cacheExpired", "flakyRead"}
StoreStages == {"saveExact", "saveEmbed", "claim", "fill", "check", "heal"}
Embedding == {"embed", "saveEmbed"}
Stages == {"idle", "incr", "expire", "expireOver", "undo", "cooldown", "exact",
           "text", "dropText", "embed", "knn", "dropKnn", "joined", "call", "cool",
           "release", "end"}
          \cup StoreStages

\* A reply: who fetched it, from which alias, and whether it is storable
\* (finishReason stop, with text, without tool calls).
Reply == [by : Requests, via : {"primary", "fallback"}, full : BOOLEAN]
ASSUME NoneAssumption == None \notin Requests \cup Reply

Call  == [via : {"primary", "fallback"}, attempt : 1..MaxAttempts, limited : BOOLEAN]
FirstCall == [via |-> "primary", attempt |-> 1, limited |-> FALSE]
Entry == [reply : Reply \cup {None}, vector : BOOLEAN, ttl : BOOLEAN]
NoEntry == [reply |-> None, vector |-> FALSE, ttl |-> FALSE]

Init ==
  /\ load \in Loads
  /\ pc = [r \in Requests |-> "idle"]
  /\ call = [r \in Requests |-> FirstCall]
  /\ vector = [r \in Requests |-> "none"]
  /\ reply = [r \in Requests |-> None]
  /\ answer = [r \in Requests |-> "none"]
  /\ flight = [k \in Keys |-> None]
  /\ failures = 0 /\ cooled = FALSE /\ trial = FALSE
  /\ redis = TRUE
  /\ slots = 0 /\ slotTtl = FALSE
  /\ cooling = FALSE
  /\ exact = [k \in Keys |-> None]
  /\ entry = [k \in Keys |-> NoEntry]
  /\ counted = [r \in Requests |-> FALSE]
  /\ faults = {}

-----------------------------------------------------------------------------

Fault(kind) ==
  /\ kind \notin faults /\ Cardinality(faults) < MaxFaults[load]
  /\ faults' = faults \cup {kind}
  /\ UNCHANGED load

(* Ends of a request *)

MayCoalesce(r) == r \notin Streams \cup Tooling

\* A stream that got past its guard gives its slot back, whatever its answer.
\* Seeded fault: only after a live stream.
ReleaseIfLive(r) == IF r \in Streams /\ answer[r] # "none" THEN "release" ELSE "end"
AfterAnswer(r) == IF r \in Streams THEN "release" ELSE "end"

Leave(r, a) ==
  /\ answer' = [answer EXCEPT ![r] = a]
  /\ pc' = [pc EXCEPT ![r] = AfterAnswer(r)]
  /\ vector' = [vector EXCEPT ![r] = "none"]

Hit(r) == Leave(r, "reply")

\* The callers that share r's promise, r included.
Sharing(r) ==
  {r} \cup {q \in Requests : /\ pc[q] = "joined"
                             /\ KeyOf[q] = KeyOf[r]
                             /\ flight[KeyOf[r]] = r}

\* The promise of r settles: the flight is over and everyone in it is answered.
\* The locals of a handler that ended are forgotten.
Settle(r, a, found) ==
  /\ answer' = [q \in Requests |-> IF q \in Sharing(r) THEN a ELSE answer[q]]
  /\ reply' = [reply EXCEPT ![r] = found]
  /\ pc' = [q \in Requests |-> IF q \in Sharing(r) THEN AfterAnswer(q) ELSE pc[q]]
  /\ flight' = IF flight[KeyOf[r]] = r THEN [flight EXCEPT ![KeyOf[r]] = None] ELSE flight
  /\ call' = [call EXCEPT ![r] = FirstCall]
  /\ vector' = [q \in Requests |-> IF q \in Sharing(r) THEN "none" ELSE vector[q]]

\* A miss of the caches: join the flight of the key, or call the provider.
\* Seeded fault: every request calls.
MissAlone(r) ==
  /\ flight' = IF MayCoalesce(r) THEN [flight EXCEPT ![KeyOf[r]] = r] ELSE flight
  /\ pc' = [pc EXCEPT ![r] = "call"]
Miss(r) ==
  IF MayCoalesce(r) /\ flight[KeyOf[r]] # None
    THEN /\ pc' = [pc EXCEPT ![r] = "joined"]
         /\ UNCHANGED flight
    ELSE /\ flight' = IF MayCoalesce(r) THEN [flight EXCEPT ![KeyOf[r]] = r] ELSE flight
         /\ pc' = [pc EXCEPT ![r] = "call"]

-----------------------------------------------------------------------------
(* The embedding circuit breaker *)

Open == failures >= OpenAfter
SkipEmbed == Open /\ (~cooled \/ trial)
TakeTrial == trial' = (trial \/ Open)

\* Seeded fault: the trial that fails is never over.
EmbedFailedInTrial ==
  /\ failures' = IF Open THEN failures ELSE failures + 1
  /\ cooled' = (cooled /\ failures' < OpenAfter)
  /\ UNCHANGED trial
EmbedFailed ==
  /\ failures' = IF Open THEN failures ELSE failures + 1
  /\ cooled' = (cooled /\ failures' < OpenAfter)
  /\ trial' = FALSE

EmbedWorked == failures' = 0 /\ cooled' = FALSE /\ trial' = FALSE

\* The cooldown is longer than an embedding may take (30 s against
\* EMBEDDING_TIMEOUT_MS), so what was in flight when it began is over.
CircuitCools ==
  /\ Open /\ ~cooled
  /\ \A r \in Requests : pc[r] \notin Embedding
  /\ cooled' = TRUE
  /\ UNCHANGED <<pc, call, vector, reply, answer, flight, failures, trial, redisVars,
                 counted, bounds>>

-----------------------------------------------------------------------------
(* Admission *)

\* The guard's token bucket may refuse; without Redis it lets everyone in.
Arrive(r) ==
  /\ pc[r] = "idle" /\ r \in load
  /\ \/ /\ pc' = [pc EXCEPT ![r] = IF r \in Streams THEN "incr" ELSE "cooldown"]
        /\ UNCHANGED answer
     \/ /\ redis
        /\ pc' = [pc EXCEPT ![r] = "end"]
        /\ answer' = [answer EXCEPT ![r] = "error"]
  /\ UNCHANGED <<call, vector, reply, memory, redisVars, counted, bounds>>

\* Every command of checkConcurrentStreams that fails admits the stream.
IncrStreams(r) ==
  /\ pc[r] = "incr"
  /\ IF redis
       THEN /\ slots' = slots + 1
            /\ counted' = [counted EXCEPT ![r] = TRUE]
            /\ pc' = [pc EXCEPT ![r] = IF slots' <= MaxStreams THEN "expire" ELSE "expireOver"]
       ELSE /\ pc' = [pc EXCEPT ![r] = "cooldown"]
            /\ UNCHANGED <<slots, counted>>
  /\ UNCHANGED <<call, vector, reply, answer, memory, redis, slotTtl, cooling, exact,
                 entry, bounds>>

ExpireStreams(r) ==
  /\ pc[r] \in {"expire", "expireOver"}
  /\ slotTtl' = (slotTtl \/ redis)
  /\ pc' = [pc EXCEPT ![r] = IF redis /\ @ = "expireOver" THEN "undo" ELSE "cooldown"]
  /\ UNCHANGED <<call, vector, reply, answer, memory, redis, slots, cooling, exact,
                 entry, counted, bounds>>

UndoIncr(r) ==
  /\ pc[r] = "undo"
  /\ IF redis
       THEN /\ slots' = slots - 1
            /\ counted' = [counted EXCEPT ![r] = FALSE]
            /\ answer' = [answer EXCEPT ![r] = "error"]
            /\ pc' = [pc EXCEPT ![r] = "end"]
       ELSE /\ pc' = [pc EXCEPT ![r] = "cooldown"]
            /\ UNCHANGED <<slots, counted, answer>>
  /\ UNCHANGED <<call, vector, reply, memory, redis, slotTtl, cooling, exact, entry, bounds>>

\* prepareRequestForExecution: an invalid request, then the cooldown.
Prepare(r) ==
  /\ pc[r] = "cooldown"
  /\ \/ Leave(r, "error")
     \/ redis /\ cooling /\ Leave(r, "error")
     \/ /\ ~(redis /\ cooling)
        /\ pc' = [pc EXCEPT ![r] = IF r \in Tooling THEN "call" ELSE "exact"]
        /\ UNCHANGED <<answer, vector>>
  /\ UNCHANGED <<call, reply, memory, redisVars, counted, bounds>>

-----------------------------------------------------------------------------
(* Lookup *)

LookupExact(r) ==
  /\ pc[r] = "exact"
  /\ IF redis /\ exact[KeyOf[r]] # None
       THEN Hit(r)
       ELSE /\ pc' = [pc EXCEPT ![r] = "text"]
            /\ UNCHANGED <<answer, vector>>
  /\ UNCHANGED <<call, reply, memory, redisVars, counted, bounds>>

Complete(k) == entry[k].reply # None /\ entry[k].vector

EmbedOrMiss(r) ==
  IF SkipEmbed
    THEN Miss(r) /\ UNCHANGED trial
    ELSE /\ pc' = [pc EXCEPT ![r] = "embed"]
         /\ TakeTrial
         /\ UNCHANGED flight

\* getByTextIdentity: an entry without its vector is a miss and stays.
LookupText(r) ==
  /\ pc[r] = "text"
  /\ IF redis /\ Complete(KeyOf[r])
       THEN Hit(r) /\ UNCHANGED <<flight, trial>>
       ELSE EmbedOrMiss(r) /\ UNCHANGED <<answer, vector>>
  /\ UNCHANGED <<call, reply, failures, cooled, redisVars, counted, bounds>>

\* Whatever hmget or the parser throws, the catch deletes the entry.
LookupTextFails(r) ==
  /\ pc[r] = "text" /\ redis
  /\ Fault("flakyRead")
  /\ pc' = [pc EXCEPT ![r] = "dropText"]
  /\ UNCHANGED <<call, vector, reply, answer, memory, redisVars, counted>>

LookupEmbed(r) ==
  /\ pc[r] = "embed"
  /\ \/ /\ EmbedWorked
        /\ vector' = [vector EXCEPT ![r] = "have"]
        /\ pc' = [pc EXCEPT ![r] = "knn"]
        /\ UNCHANGED flight
     \/ /\ EmbedFailed
        /\ vector' = [vector EXCEPT ![r] = "failed"]
        /\ Miss(r)
  /\ UNCHANGED <<call, reply, answer, redisVars, counted, bounds>>

\* The search finds the hash of the same text, if it has a vector by now; one
\* without a reply is to be deleted (parseKnnHits).
LookupKnn(r) ==
  /\ pc[r] = "knn"
  /\ IF redis /\ entry[KeyOf[r]].vector
       THEN /\ UNCHANGED flight
            /\ IF Complete(KeyOf[r])
                 THEN Hit(r)
                 ELSE /\ pc' = [pc EXCEPT ![r] = "dropKnn"]
                      /\ UNCHANGED <<answer, vector>>
       ELSE Miss(r) /\ UNCHANGED <<answer, vector>>
  /\ UNCHANGED <<call, reply, failures, cooled, trial, redisVars, counted, bounds>>

\* The DEL of what a read found unservable: by now the hash may be another
\* writer's.  A DEL that fails is swallowed.
DropCorrupt(r) ==
  /\ pc[r] \in {"dropText", "dropKnn"}
  /\ entry' = IF redis THEN [entry EXCEPT ![KeyOf[r]] = NoEntry] ELSE entry
  /\ IF pc[r] = "dropText" THEN EmbedOrMiss(r) ELSE Miss(r) /\ UNCHANGED trial
  /\ UNCHANGED <<call, vector, reply, answer, failures, cooled, redis, slots, slotTtl,
                 cooling, exact, counted, bounds>>

-----------------------------------------------------------------------------
(* The provider: retries, then one hop to the fallback *)

\* Seeded fault: the reply of the fallback alias is stored as well.
StorableAnyway(r, new) == new.full /\ r \notin Tooling
Storable(r, new) == new.via = "primary" /\ new.full /\ r \notin Tooling

\* A stream's done event goes out before the reply is stored, a JSON answer after.
ProviderReplies(r) ==
  /\ pc[r] = "call"
  /\ \E full \in BOOLEAN :
       LET new == [by |-> r, via |-> call[r].via, full |-> full]
       IN /\ IF Storable(r, new)
               THEN /\ pc' = [pc EXCEPT ![r] = "saveExact"]
                    /\ answer' = IF r \in Streams THEN [answer EXCEPT ![r] = "reply"] ELSE answer
                    /\ reply' = [reply EXCEPT ![r] = new]
                    /\ UNCHANGED <<call, vector, flight>>
               ELSE Settle(r, "reply", new)
  /\ UNCHANGED <<failures, cooled, trial, redisVars, counted, bounds>>

HasFallback(r) == call[r].via = "primary" /\ r \notin Tooling

\* The error that is thrown once the aliases are exhausted is the primary's.
Exhausted(r, limited) ==
  IF limited
    THEN pc' = [pc EXCEPT ![r] = "cool"] /\ UNCHANGED <<call, vector, reply, answer, flight>>
    ELSE Settle(r, "error", None)

\* Seeded fault: the attempts of a timed-out provider start over.
ProviderFailsForever(r) ==
  /\ pc[r] = "call"
  /\ call' = [call EXCEPT ![r].attempt = (@ % MaxAttempts) + 1]
  /\ UNCHANGED <<pc, vector, reply, answer, memory, redisVars, counted, bounds>>
ProviderFails(r) ==
  /\ pc[r] = "call"
  /\ \E e \in Errors :
       IF e # "fatal" /\ call[r].attempt < MaxAttempts
         THEN /\ call' = [call EXCEPT ![r].attempt = @ + 1]
              /\ UNCHANGED <<pc, vector, reply, answer, flight>>
         ELSE IF HasFallback(r)
           THEN /\ call' = [call EXCEPT ![r] =
                              [via |-> "fallback", attempt |-> 1, limited |-> e = "429"]]
                /\ UNCHANGED <<pc, vector, reply, answer, flight>>
           ELSE Exhausted(r, IF call[r].via = "primary" THEN e = "429" ELSE call[r].limited)
  /\ UNCHANGED <<failures, cooled, trial, redisVars, counted, bounds>>

\* handleProviderError
SetCooldown(r) ==
  /\ pc[r] = "cool"
  /\ cooling' = (cooling \/ redis)
  /\ Settle(r, "error", None)
  /\ UNCHANGED <<failures, cooled, trial, redis, slots, slotTtl, exact,
                 entry, counted, bounds>>

-----------------------------------------------------------------------------
(* The two writes: exact SET NX, then the semantic hash in two statements *)

Done(r) == Settle(r, "reply", reply[r])

\* Seeded fault: without a vector nothing is stored.
SaveExactWithVector(r) ==
  /\ pc[r] = "saveExact"
  /\ IF vector[r] = "have"
       THEN /\ exact' = IF redis /\ exact[KeyOf[r]] = None
                          THEN [exact EXCEPT ![KeyOf[r]] = reply[r]] ELSE exact
            /\ pc' = [pc EXCEPT ![r] = "claim"]
            /\ UNCHANGED <<call, vector, reply, answer, flight>>
       ELSE Done(r) /\ UNCHANGED exact
  /\ UNCHANGED <<failures, cooled, trial, redis, slots, slotTtl, cooling,
                 entry, counted, bounds>>
SaveExact(r) ==
  /\ pc[r] = "saveExact"
  /\ exact' = IF redis /\ exact[KeyOf[r]] = None
                THEN [exact EXCEPT ![KeyOf[r]] = reply[r]] ELSE exact
  /\ IF vector[r] = "have"
       THEN /\ pc' = [pc EXCEPT ![r] = "claim"]
            /\ UNCHANGED <<call, vector, reply, answer, flight, trial>>
       ELSE IF vector[r] = "failed" \/ SkipEmbed
         THEN Done(r) /\ UNCHANGED trial
         ELSE /\ pc' = [pc EXCEPT ![r] = "saveEmbed"]
              /\ TakeTrial
              /\ UNCHANGED <<call, vector, reply, answer, flight>>
  /\ UNCHANGED <<failures, cooled, redis, slots, slotTtl, cooling, entry,
                 counted, bounds>>

SaveEmbed(r) ==
  /\ pc[r] = "saveEmbed"
  /\ \/ /\ EmbedWorked
        /\ pc' = [pc EXCEPT ![r] = "claim"]
        /\ UNCHANGED <<call, vector, reply, answer, flight>>
     \/ EmbedFailed /\ Done(r)
  /\ UNCHANGED <<redisVars, counted, bounds>>

\* A statement of the upsert: without Redis the rest is given up.
Upsert(r, from, Write) ==
  /\ pc[r] = from
  /\ UNCHANGED <<failures, cooled, trial, redis, slots, slotTtl, cooling,
                 exact, counted, bounds>>
  /\ IF redis THEN Write ELSE Done(r) /\ UNCHANGED entry

\* HSETNX of the reply: the first writer of the hash wins.
\* Seeded fault: HSET, the last writer wins.
ClaimAnyway(r) ==
  /\ entry' = [entry EXCEPT ![KeyOf[r]].reply = reply[r]]
  /\ pc' = [pc EXCEPT ![r] = "fill"]
  /\ UNCHANGED <<call, vector, reply, answer, flight>>
Claim(r) ==
  /\ IF entry[KeyOf[r]].reply = None
       THEN /\ entry' = [entry EXCEPT ![KeyOf[r]].reply = reply[r]]
            /\ pc' = [pc EXCEPT ![r] = "fill"]
       ELSE /\ pc' = [pc EXCEPT ![r] = "check"]
            /\ UNCHANGED entry
  /\ UNCHANGED <<call, vector, reply, answer, flight>>

\* MULTI: the vector and its partition fields, and the time to live.
\* Seeded fault: no EXPIRE when an entry is healed.
FillForever(r) ==
  /\ entry' = [entry EXCEPT ![KeyOf[r]].vector = TRUE]
  /\ Done(r)
Fill(r) ==
  /\ entry' = [entry EXCEPT ![KeyOf[r]].vector = TRUE, ![KeyOf[r]].ttl = TRUE]
  /\ Done(r)

\* Someone else's reply: complete what a crash, an expiry or a delete left.
\* HEXISTS and TTL are sent together and awaited together (Promise.all).
Check(r) ==
  /\ UNCHANGED entry
  /\ IF entry[KeyOf[r]].vector /\ entry[KeyOf[r]].ttl
       THEN Done(r)
       ELSE /\ pc' = [pc EXCEPT ![r] = "heal"]
            /\ UNCHANGED <<call, vector, reply, answer, flight>>

UpsertClaim(r) == Upsert(r, "claim", Claim(r))
UpsertFill(r)  == Upsert(r, "fill", Fill(r))
UpsertCheck(r) == Upsert(r, "check", Check(r))
UpsertHeal(r)  == Upsert(r, "heal", Fill(r))

\* The interceptor looks for /stream at the end of the URL, query string
\* included; the guard looked at the path alone.
ReleaseStream(r) ==
  /\ pc[r] = "release"
  /\ pc' = [pc EXCEPT ![r] = "end"]
  /\ IF redis /\ r \notin Queried
       THEN /\ slots' = slots - 1
            /\ counted' = [counted EXCEPT ![r] = FALSE]
       ELSE UNCHANGED <<slots, counted>>
  /\ reply' = [reply EXCEPT ![r] = None]
  /\ UNCHANGED <<call, vector, answer, memory, redis, slotTtl, cooling, exact,
                 entry, bounds>>

-----------------------------------------------------------------------------
(* The environment *)

RedisGoes ==
  /\ Fault("outage")
  /\ redis' = FALSE
  /\ UNCHANGED <<pc, call, vector, reply, answer, memory, slots, slotTtl, cooling, exact,
                 entry, counted>>

RedisReturns ==
  /\ ~redis
  /\ redis' = TRUE
  /\ UNCHANGED <<pc, call, vector, reply, answer, memory, slots, slotTtl, cooling, exact,
                 entry, counted, bounds>>

\* 300 s after the last EXPIRE; a stream may live longer.
SlotsExpire ==
  /\ Fault("slotsExpired") /\ slotTtl
  /\ slots' = 0 /\ slotTtl' = FALSE
  /\ UNCHANGED <<pc, call, vector, reply, answer, memory, redis, cooling, exact, entry,
                 counted>>

CooldownExpires ==
  /\ cooling
  /\ cooling' = FALSE
  /\ UNCHANGED <<pc, call, vector, reply, answer, memory, redis, slots, slotTtl, exact,
                 entry, counted, bounds>>

CacheExpires(k) ==
  /\ Fault("cacheExpired")
  /\ \/ exact[k] # None /\ exact' = [exact EXCEPT ![k] = None] /\ UNCHANGED entry
     \/ entry[k].ttl /\ entry' = [entry EXCEPT ![k] = NoEntry] /\ UNCHANGED exact
  /\ UNCHANGED <<pc, call, vector, reply, answer, memory, redis, slots, slotTtl, cooling,
                 counted>>

\* The connections break and the memory is gone; Redis keeps what it has.
Crash ==
  /\ Fault("crash")
  /\ answer' = [r \in Requests |-> IF pc[r] \notin {"idle", "end"} /\ answer[r] = "none"
                                   THEN "error" ELSE answer[r]]
  /\ pc' = [r \in Requests |-> IF pc[r] = "idle" THEN "idle" ELSE "end"]
  /\ call' = [r \in Requests |-> FirstCall]
  /\ vector' = [r \in Requests |-> "none"]
  /\ flight' = [k \in Keys |-> None]
  /\ failures' = 0 /\ cooled' = FALSE /\ trial' = FALSE
  /\ reply' = [r \in Requests |-> None]
  /\ UNCHANGED <<redisVars, counted>>

-----------------------------------------------------------------------------

Step(r) ==
  \/ IncrStreams(r) \/ ExpireStreams(r) \/ UndoIncr(r) \/ Prepare(r)
  \/ LookupExact(r) \/ LookupText(r) \/ LookupTextFails(r) \/ LookupEmbed(r) \/ LookupKnn(r)
  \/ DropCorrupt(r)
  \/ ProviderReplies(r) \/ ProviderFails(r) \/ SetCooldown(r)
  \/ SaveExact(r) \/ SaveEmbed(r) \/ UpsertClaim(r) \/ UpsertFill(r) \/ UpsertCheck(r)
  \/ UpsertHeal(r) \/ ReleaseStream(r)

Environment ==
  \/ CircuitCools \/ RedisGoes \/ RedisReturns \/ SlotsExpire \/ CooldownExpires \/ Crash
  \/ \E k \in Keys : CacheExpires(k)

Next == Environment \/ \E r \in Requests : Arrive(r) \/ Step(r)

\* Every await of a request has a deadline: policy.timeoutMs at the provider,
\* EMBEDDING_TIMEOUT_MS at Ollama, maxRetriesPerRequest at Redis.
Spec == Init /\ [][Next]_vars
FairSpec == Spec /\ \A r \in Requests : WF_vars(Step(r))
=============================================================================
