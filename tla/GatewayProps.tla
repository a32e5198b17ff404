---------------------------- MODULE GatewayProps ----------------------------
(* What the gateway owes its clients, its caches and its limits. *)
EXTENDS Gateway

\* The types of the variables; an attempt beyond maxAttempts is none of them.
TypeOK ==
  /\ pc \in [Requests -> Stages]
  /\ call \in [Requests -> Call]
  /\ vector \in [Requests -> {"none", "failed", "have"}]
  /\ reply \in [Requests -> Reply \cup {None}]
  /\ answer \in [Requests -> {"none", "reply", "error"}]
  /\ flight \in [Keys -> Requests \cup {None}]
  /\ failures \in 0..OpenAfter
  /\ {cooled, trial, redis, slotTtl, cooling} \subseteq BOOLEAN
  /\ slots \in Int
  /\ exact \in [Keys -> Reply \cup {None}]
  /\ entry \in [Keys -> Entry]
  /\ counted \in [Requests -> BOOLEAN]
  /\ faults \subseteq FaultKinds

\* Both caches hold finished replies of the alias that was asked for, and none
\* of a request with tools, whichever request wrote them and in what order.
CacheHoldsPrimaryReplies ==
  \A k \in Keys : \A held \in {exact[k], entry[k].reply} \ {None} :
    held.via = "primary" /\ held.full /\ held.by \notin Tooling

\* An entry the vector search can find expires: no crash, expiry or delete
\* between HSETNX and MULTI, and no heal by another writer, leaves an eternal
\* vector (redis-vector-store.adapter.ts:371).
NoEternalVector == \A k \in Keys : entry[k].vector => entry[k].ttl

\* JSON requests of one key share one execution: whoever is at the provider or
\* storing is the leader of the key's flight, and whoever joined has a leader
\* that is still at work (in-process-singleflight.ts:11).
AtWork == StoreStages \cup {"call", "cool"}
SingleFlight ==
  \A r \in Requests : MayCoalesce(r) =>
    /\ pc[r] \in AtWork <=> flight[KeyOf[r]] = r
    /\ pc[r] = "joined" => flight[KeyOf[r]] # None

\* A trial of the open circuit is some request's embedding: the flag never
\* outlives it, or nothing would ever be embedded again.
TrialHasOwner == trial => \E r \in Requests : pc[r] \in Embedding

\* Streams past the guard, which the limit is about.
OpenStreams ==
  {r \in Streams : pc[r] \notin {"idle", "incr", "expire", "expireOver", "undo", "end"}}

\* As long as Redis answers and the key does not expire under a stream, the key
\* counts the streams that have not paid back, it never admits more than the
\* limit, and without a crash every ended stream has paid back, but for the
\* native route asked with a query string.
StreamSlots ==
  faults \cap {"outage", "slotsExpired"} = {} =>
    /\ slots = Cardinality({r \in Requests : counted[r]})
    /\ Cardinality(OpenStreams) <= MaxStreams
    /\ "crash" \notin faults =>
         \A r \in Requests \ Queried : pc[r] = "end" => ~counted[r]

\* A reply in a cache is never replaced by another (SET NX, HSETNX): a key that
\* has been answered from the cache keeps its answer until it expires.
FirstWriterWins ==
  [][\A k \in Keys :
       /\ exact[k] # None => exact'[k] \in {exact[k], None}
       /\ entry[k].reply # None => entry'[k].reply \in {entry[k].reply, None}]_vars

\* With Redis up, a JSON answer that may be reused is in the exact cache when it
\* goes out (chat.service.ts:340), so whoever asks afterwards finds it.
AnswerAfterStore ==
  [][\A r \in Requests :
       /\ MayCoalesce(r) /\ answer[r] = "none" /\ answer'[r] = "reply"
       /\ reply'[r] # None /\ reply'[r].via = "primary" /\ reply'[r].full
       /\ faults \cap {"outage", "cacheExpired"} = {}
       => exact'[KeyOf[r]] # None]_vars

\* Every request that arrived is over some day, those that joined a flight and
\* those of an open circuit or a Redis that never returns included.
RequestsEnd == <>[](\A r \in Requests : pc[r] \in {"idle", "end"})
=============================================================================
