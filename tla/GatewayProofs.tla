--------------------------- MODULE GatewayProofs ---------------------------
(***************************************************************************)
(* Theorems about Gateway, for every set of requests and keys, any limits  *)
(* and any number of environment faults.                                   *)
(*                                                                         *)
(* What the caches hold is not inductive: a reply is judged when it        *)
(* arrives and stored some awaits later, so the invariant adds what a      *)
(* request that is storing holds in its hands.  Likewise SingleFlight adds *)
(* that a flight belongs to a request that may lead it, and                *)
(* AnswerAfterStore that a request behind its write finds its key in the   *)
(* cache, and that one before it, or in another's flight, holds no reply.  *)
(*                                                                         *)
(* The last part measures how far a request is from its end, retries and   *)
(* the fallback included: its own steps lower that and no other raises it. *)
(***************************************************************************)
EXTENDS GatewayProps, FiniteSetTheorems, TLAPS

-----------------------------------------------------------------------------
(* Types, in the parts the actions change *)

LocalOK ==
  /\ pc \in [Requests -> Stages]
  /\ call \in [Requests -> Call]
  /\ vector \in [Requests -> {"none", "failed", "have"}]
  /\ reply \in [Requests -> Reply \cup {None}]
  /\ answer \in [Requests -> {"none", "reply", "error"}]
  /\ flight \in [Keys -> Requests \cup {None}]

BreakerOK ==
  /\ failures \in 0..OpenAfter
  /\ cooled \in BOOLEAN
  /\ trial \in BOOLEAN

LimitOK ==
  /\ redis \in BOOLEAN /\ slotTtl \in BOOLEAN /\ cooling \in BOOLEAN
  /\ slots \in Int
  /\ counted \in [Requests -> BOOLEAN]
  /\ faults \subseteq FaultKinds

CacheOK ==
  /\ exact \in [Keys -> Reply \cup {None}]
  /\ entry \in [Keys -> Entry]

LEMMA TypeParts ==
  /\ TypeOK <=> LocalOK /\ BreakerOK /\ LimitOK /\ CacheOK
  /\ TypeOK' <=> LocalOK' /\ BreakerOK' /\ LimitOK' /\ CacheOK'
  <1>1. {cooled, trial, redis, slotTtl, cooling} \subseteq BOOLEAN <=>
          /\ cooled \in BOOLEAN /\ trial \in BOOLEAN /\ redis \in BOOLEAN
          /\ slotTtl \in BOOLEAN /\ cooling \in BOOLEAN
    BY Zenon
  <1>2. {cooled', trial', redis', slotTtl', cooling'} \subseteq BOOLEAN <=>
          /\ cooled' \in BOOLEAN /\ trial' \in BOOLEAN /\ redis' \in BOOLEAN
          /\ slotTtl' \in BOOLEAN /\ cooling' \in BOOLEAN
    BY Zenon
  <1>3. TypeOK <=> LocalOK /\ BreakerOK /\ LimitOK /\ CacheOK
    BY <1>1, Zenon DEF TypeOK, LocalOK, BreakerOK, LimitOK, CacheOK
  <1>4. TypeOK' <=> LocalOK' /\ BreakerOK' /\ LimitOK' /\ CacheOK'
    BY <1>2, Zenon DEF TypeOK, LocalOK, BreakerOK, LimitOK, CacheOK
  <1> QED
    BY <1>3, <1>4

LEMMA KeyOfType == \A r \in Requests : KeyOf[r] \in Keys
  BY GatewayAssumption

-----------------------------------------------------------------------------
(* The operators the steps of a request share *)

LEMMA StageFacts ==
  /\ {"idle", "incr", "expire", "expireOver", "undo", "cooldown", "exact", "text",
      "dropText", "embed", "knn", "dropKnn", "joined", "call", "cool", "release", "end"}
       \subseteq Stages
  /\ StoreStages \subseteq Stages
  /\ {"saveExact", "saveEmbed", "claim", "fill", "check", "heal"} \subseteq Stages
  /\ \A r : AfterAnswer(r) \in {"release", "end"}
  BY DEF Stages, StoreStages, AfterAnswer

LEMMA CallFacts ==
  /\ FirstCall \in Call
  /\ \A limited \in BOOLEAN :
       [via |-> "fallback", attempt |-> 1, limited |-> limited] \in Call
  /\ \A c \in Call : c.attempt < MaxAttempts =>
       [c EXCEPT !.attempt = @ + 1] \in Call
  <1>1. 1 \in 1..MaxAttempts
    BY GatewayAssumption
  <1>2. \A c \in Call : c.attempt < MaxAttempts =>
          [c EXCEPT !.attempt = @ + 1] \in Call
    BY GatewayAssumption DEF Call
  <1> QED
    BY <1>1, <1>2 DEF FirstCall, Call

LEMMA SettleType ==
  ASSUME LocalOK, NEW r \in Requests, NEW a \in {"reply", "error"},
         NEW found \in Reply \cup {None}, Settle(r, a, found)
  PROVE  LocalOK'
  <1>1. pc' \in [Requests -> Stages]
    BY StageFacts DEF LocalOK, Settle
  <1>2. call' \in [Requests -> Call]
    BY CallFacts DEF LocalOK, Settle
  <1>3. vector' \in [Requests -> {"none", "failed", "have"}]
    BY DEF LocalOK, Settle
  <1>4. reply' \in [Requests -> Reply \cup {None}]
    BY DEF LocalOK, Settle
  <1>5. answer' \in [Requests -> {"none", "reply", "error"}]
    BY DEF LocalOK, Settle
  <1>6. flight' \in [Keys -> Requests \cup {None}]
    BY DEF LocalOK, Settle
  <1> QED
    BY <1>1, <1>2, <1>3, <1>4, <1>5, <1>6 DEF LocalOK

LEMMA MissType ==
  ASSUME LocalOK, NEW r \in Requests, Miss(r)
  PROVE  pc' \in [Requests -> Stages] /\ flight' \in [Keys -> Requests \cup {None}]
  BY StageFacts DEF LocalOK, Miss

LEMMA LeaveType ==
  ASSUME LocalOK, NEW r \in Requests, NEW a \in {"reply", "error"}, Leave(r, a)
  PROVE  /\ pc' \in [Requests -> Stages]
         /\ answer' \in [Requests -> {"none", "reply", "error"}]
         /\ vector' \in [Requests -> {"none", "failed", "have"}]
  BY StageFacts DEF LocalOK, Leave

LEMMA EmbedType ==
  ASSUME BreakerOK, EmbedWorked \/ EmbedFailed
  PROVE  BreakerOK' /\ trial' = FALSE
  <1>1. CASE EmbedWorked
    <2>1. 0 \in 0..OpenAfter
      BY GatewayAssumption
    <2> QED
      BY <1>1, <2>1 DEF EmbedWorked, BreakerOK
  <1>2. CASE EmbedFailed
    <2>1. failures' \in 0..OpenAfter
      BY <1>2, GatewayAssumption DEF EmbedFailed, BreakerOK, Open
    <2>2. cooled' \in BOOLEAN /\ trial' = FALSE
      BY <1>2 DEF EmbedFailed
    <2> QED
      BY <2>1, <2>2 DEF BreakerOK
  <1> QED
    BY <1>1, <1>2

LEMMA FaultType ==
  ASSUME faults \subseteq FaultKinds, NEW kind \in FaultKinds, Fault(kind)
  PROVE  faults' \subseteq FaultKinds
  BY DEF Fault

LEMMA KindFacts ==
  {"outage", "crash", "slotsExpired", "cacheExpired", "flakyRead"} = FaultKinds
  BY DEF FaultKinds

-----------------------------------------------------------------------------
(* Type correctness *)

LEMMA AdmissionType ==
  ASSUME TypeOK, NEW r \in Requests,
         \/ Arrive(r) \/ IncrStreams(r) \/ ExpireStreams(r) \/ UndoIncr(r)
         \/ Prepare(r) \/ ReleaseStream(r)
  PROVE  TypeOK'
  <1> USE TypeParts, StageFacts
  <1>1. CASE Arrive(r)
    <2>1. LocalOK'
      BY <1>1 DEF Arrive, LocalOK, memory
    <2> QED
      BY <1>1, <2>1 DEF Arrive, BreakerOK, LimitOK, CacheOK, memory, redisVars, bounds
  <1>2. CASE IncrStreams(r)
    <2>1. LocalOK'
      BY <1>2 DEF IncrStreams, LocalOK, memory
    <2>2. slots' \in Int
      BY <1>2 DEF IncrStreams, LimitOK
    <2>5. counted' \in [Requests -> BOOLEAN]
      BY <1>2 DEF IncrStreams, LimitOK
    <2>3. UNCHANGED <<redis, slotTtl, cooling, faults>>
      BY <1>2 DEF IncrStreams, bounds
    <2>4. LimitOK'
      BY <2>2, <2>3, <2>5 DEF LimitOK
    <2> QED
      BY <1>2, <2>1, <2>4 DEF IncrStreams, BreakerOK, CacheOK, memory
  <1>3. CASE ExpireStreams(r)
    <2>1. slotTtl' \in BOOLEAN
      BY <1>3 DEF ExpireStreams
    <2>2. LocalOK'
      BY <1>3 DEF ExpireStreams, LocalOK, memory
    <2> QED
      BY <1>3, <2>1, <2>2 DEF ExpireStreams, BreakerOK, LimitOK, CacheOK, memory, bounds
  <1>4. CASE UndoIncr(r)
    <2>1. LocalOK'
      BY <1>4 DEF UndoIncr, LocalOK, memory
    <2>2. slots' \in Int
      BY <1>4 DEF UndoIncr, LimitOK
    <2>5. counted' \in [Requests -> BOOLEAN]
      BY <1>4 DEF UndoIncr, LimitOK
    <2>3. UNCHANGED <<redis, slotTtl, cooling, faults>>
      BY <1>4 DEF UndoIncr, bounds
    <2>4. LimitOK'
      BY <2>2, <2>3, <2>5 DEF LimitOK
    <2> QED
      BY <1>4, <2>1, <2>4 DEF UndoIncr, BreakerOK, CacheOK, memory
  <1>5. CASE Prepare(r)
    <2>1. LocalOK'
      <3>1. CASE Leave(r, "error")
        BY <1>5, <3>1, LeaveType DEF Prepare, LocalOK, memory
      <3>2. CASE ~Leave(r, "error")
        BY <1>5, <3>2 DEF Prepare, LocalOK, memory
      <3> QED
        BY <3>1, <3>2
    <2> QED
      BY <1>5, <2>1 DEF Prepare, BreakerOK, LimitOK, CacheOK, memory, redisVars, bounds
  <1>6. CASE ReleaseStream(r)
    <2>1. LocalOK'
      BY <1>6 DEF ReleaseStream, LocalOK, memory
    <2>2. slots' \in Int
      BY <1>6 DEF ReleaseStream, LimitOK
    <2>5. counted' \in [Requests -> BOOLEAN]
      BY <1>6 DEF ReleaseStream, LimitOK
    <2>3. UNCHANGED <<redis, slotTtl, cooling, faults>>
      BY <1>6 DEF ReleaseStream, bounds
    <2>4. LimitOK'
      BY <2>2, <2>3, <2>5 DEF LimitOK
    <2> QED
      BY <1>6, <2>1, <2>4 DEF ReleaseStream, BreakerOK, CacheOK, memory
  <1> QED
    BY <1>1, <1>2, <1>3, <1>4, <1>5, <1>6

LEMMA EmbedOrMissType ==
  ASSUME LocalOK, BreakerOK, NEW r \in Requests, EmbedOrMiss(r)
  PROVE  /\ pc' \in [Requests -> Stages]
         /\ flight' \in [Keys -> Requests \cup {None}]
         /\ trial' \in BOOLEAN
  <1>1. CASE SkipEmbed
    BY <1>1, MissType DEF EmbedOrMiss, BreakerOK
  <1>2. CASE ~SkipEmbed
    BY <1>2, StageFacts DEF EmbedOrMiss, TakeTrial, LocalOK
  <1> QED
    BY <1>1, <1>2

LEMMA LookupType ==
  ASSUME TypeOK, NEW r \in Requests,
         \/ LookupExact(r) \/ LookupText(r) \/ LookupTextFails(r)
         \/ LookupEmbed(r) \/ LookupKnn(r) \/ DropCorrupt(r)
  PROVE  TypeOK'
  <1> USE TypeParts, StageFacts
  <1>0. NoEntry \in Entry
    BY DEF NoEntry, Entry
  <1>1. CASE LookupExact(r)
    <2>1. LocalOK'
      <3>1. CASE redis /\ exact[KeyOf[r]] # None
        BY <1>1, <3>1, LeaveType DEF LookupExact, Hit, LocalOK, memory
      <3>2. CASE ~(redis /\ exact[KeyOf[r]] # None)
        BY <1>1, <3>2 DEF LookupExact, LocalOK, memory
      <3> QED
        BY <3>1, <3>2
    <2> QED
      BY <1>1, <2>1 DEF LookupExact, BreakerOK, LimitOK, CacheOK, memory, redisVars, bounds
  <1>2. CASE LookupText(r)
    <2>1. LocalOK' /\ trial' \in BOOLEAN
      <3>1. CASE redis /\ Complete(KeyOf[r])
        BY <1>2, <3>1, LeaveType DEF LookupText, Hit, LocalOK, BreakerOK
      <3>2. CASE ~(redis /\ Complete(KeyOf[r]))
        BY <1>2, <3>2, EmbedOrMissType DEF LookupText, LocalOK
      <3> QED
        BY <3>1, <3>2
    <2> QED
      BY <1>2, <2>1 DEF LookupText, BreakerOK, LimitOK, CacheOK, redisVars, bounds
  <1>3. CASE LookupTextFails(r)
    <2>1. LocalOK'
      BY <1>3 DEF LookupTextFails, LocalOK, memory
    <2>2. LimitOK'
      BY <1>3, FaultType, KindFacts DEF LookupTextFails, LimitOK, redisVars
    <2> QED
      BY <1>3, <2>1, <2>2 DEF LookupTextFails, BreakerOK, CacheOK, memory, redisVars
  <1>4. CASE LookupEmbed(r)
    <2>1. BreakerOK'
      BY <1>4, EmbedType DEF LookupEmbed
    <2>2. LocalOK'
      BY <1>4, MissType DEF LookupEmbed, LocalOK
    <2> QED
      BY <1>4, <2>1, <2>2 DEF LookupEmbed, LimitOK, CacheOK, redisVars, bounds
  <1>5. CASE LookupKnn(r)
    <2>1. LocalOK'
      <3>1. CASE redis /\ entry[KeyOf[r]].vector
        BY <1>5, <3>1, LeaveType DEF LookupKnn, Hit, LocalOK
      <3>2. CASE ~(redis /\ entry[KeyOf[r]].vector)
        BY <1>5, <3>2, MissType DEF LookupKnn, LocalOK
      <3> QED
        BY <3>1, <3>2
    <2> QED
      BY <1>5, <2>1 DEF LookupKnn, BreakerOK, LimitOK, CacheOK, redisVars, bounds
  <1>6. CASE DropCorrupt(r)
    <2>1. LocalOK' /\ trial' \in BOOLEAN
      BY <1>6, EmbedOrMissType, MissType DEF DropCorrupt, LocalOK, BreakerOK
    <2>2. CacheOK'
      BY <1>0, <1>6 DEF DropCorrupt, CacheOK
    <2> QED
      BY <1>6, <2>1, <2>2 DEF DropCorrupt, BreakerOK, LimitOK, bounds
  <1> QED
    BY <1>1, <1>2, <1>3, <1>4, <1>5, <1>6

LEMMA ProviderType ==
  ASSUME TypeOK, NEW r \in Requests,
         ProviderReplies(r) \/ ProviderFails(r) \/ SetCooldown(r)
  PROVE  TypeOK'
  <1> USE TypeParts, StageFacts
  <1>1. CASE ProviderReplies(r)
    <2>1. PICK full \in BOOLEAN :
            LET new == [by |-> r, via |-> call[r].via, full |-> full]
            IN /\ IF Storable(r, new)
                    THEN /\ pc' = [pc EXCEPT ![r] = "saveExact"]
                         /\ answer' = IF r \in Streams THEN [answer EXCEPT ![r] = "reply"]
                                                       ELSE answer
                         /\ reply' = [reply EXCEPT ![r] = new]
                         /\ UNCHANGED <<call, vector, flight>>
                    ELSE Settle(r, "reply", new)
      BY <1>1 DEF ProviderReplies
    <2> DEFINE new == [by |-> r, via |-> call[r].via, full |-> full]
    <2>2. new \in Reply
      BY DEF LocalOK, Call, Reply
    <2>3. LocalOK'
      <3>1. CASE Storable(r, new)
        BY <2>1, <2>2, <3>1 DEF LocalOK
      <3>2. CASE ~Storable(r, new)
        BY <2>1, <2>2, <3>2, SettleType
      <3> QED
        BY <3>1, <3>2
    <2> QED
      BY <1>1, <2>3 DEF ProviderReplies, BreakerOK, LimitOK, CacheOK, redisVars, bounds
  <1>2. CASE ProviderFails(r)
    <2>1. PICK e \in Errors :
            IF e # "fatal" /\ call[r].attempt < MaxAttempts
              THEN /\ call' = [call EXCEPT ![r].attempt = @ + 1]
                   /\ UNCHANGED <<pc, vector, reply, answer, flight>>
              ELSE IF HasFallback(r)
                THEN /\ call' = [call EXCEPT ![r] =
                           [via |-> "fallback", attempt |-> 1, limited |-> e = "429"]]
                     /\ UNCHANGED <<pc, vector, reply, answer, flight>>
                ELSE Exhausted(r, IF call[r].via = "primary" THEN e = "429"
                                                             ELSE call[r].limited)
      BY <1>2 DEF ProviderFails
    <2>2. LocalOK'
      <3>1. CASE e # "fatal" /\ call[r].attempt < MaxAttempts
        <4>1. call[r] \in Call
          BY DEF LocalOK
        <4>2. [call[r] EXCEPT !.attempt = @ + 1] \in Call
          BY <3>1, <4>1, CallFacts
        <4>3. call' = [call EXCEPT ![r] = [call[r] EXCEPT !.attempt = @ + 1]]
          BY <2>1, <3>1
        <4> QED
          BY <2>1, <3>1, <4>2, <4>3 DEF LocalOK
      <3>2. CASE ~(e # "fatal" /\ call[r].attempt < MaxAttempts) /\ HasFallback(r)
        <4>1. [via |-> "fallback", attempt |-> 1, limited |-> e = "429"] \in Call
          BY CallFacts
        <4> QED
          BY <2>1, <3>2, <4>1 DEF LocalOK
      <3>3. CASE ~(e # "fatal" /\ call[r].attempt < MaxAttempts) /\ ~HasFallback(r)
        BY <2>1, <3>3, SettleType DEF Exhausted, LocalOK
      <3> QED
        BY <3>1, <3>2, <3>3
    <2> QED
      BY <1>2, <2>2 DEF ProviderFails, BreakerOK, LimitOK, CacheOK, redisVars, bounds
  <1>3. CASE SetCooldown(r)
    <2>1. LocalOK'
      BY <1>3, SettleType DEF SetCooldown
    <2>2. cooling' \in BOOLEAN
      BY <1>3 DEF SetCooldown
    <2> QED
      BY <1>3, <2>1, <2>2 DEF SetCooldown, BreakerOK, LimitOK, CacheOK, bounds
  <1> QED
    BY <1>1, <1>2, <1>3

LEMMA StoreType ==
  ASSUME TypeOK, NEW r \in Requests,
         \/ SaveExact(r) \/ SaveEmbed(r) \/ UpsertClaim(r) \/ UpsertFill(r)
         \/ UpsertCheck(r) \/ UpsertHeal(r)
  PROVE  TypeOK'
  <1> USE TypeParts, StageFacts, KeyOfType
  <1>0. ASSUME Done(r) PROVE LocalOK'
    <2>1. reply[r] \in Reply \cup {None}
      BY DEF LocalOK
    <2> QED
      BY <1>0, <2>1, SettleType DEF Done
  <1>1. CASE SaveExact(r)
    <2>1. LocalOK'
      <3>1. CASE Done(r)
        BY <1>0, <3>1
      <3>2. CASE ~Done(r)
        BY <1>1, <3>2 DEF SaveExact, LocalOK
      <3> QED
        BY <3>1, <3>2
    <2>2. BreakerOK'
      BY <1>1 DEF SaveExact, BreakerOK, TakeTrial
    <2>3. CacheOK'
      BY <1>1 DEF SaveExact, CacheOK, LocalOK
    <2> QED
      BY <1>1, <2>1, <2>2, <2>3 DEF SaveExact, LimitOK, bounds
  <1>2. CASE SaveEmbed(r)
    <2>1. BreakerOK'
      BY <1>2, EmbedType DEF SaveEmbed
    <2>2. LocalOK'
      <3>1. CASE Done(r)
        BY <1>0, <3>1
      <3>2. CASE ~Done(r)
        BY <1>2, <3>2 DEF SaveEmbed, LocalOK
      <3> QED
        BY <3>1, <3>2
    <2> QED
      BY <1>2, <2>1, <2>2 DEF SaveEmbed, LimitOK, CacheOK, redisVars, bounds
  <1>3. ASSUME entry' \in [Keys -> Entry], LocalOK',
               UNCHANGED <<failures, cooled, trial, redis, slots, slotTtl, cooling,
                           exact, counted, bounds>>
        PROVE  TypeOK'
    BY <1>3 DEF BreakerOK, LimitOK, CacheOK, bounds
  <1>4. entry[KeyOf[r]] \in Entry /\ reply[r] \in Reply \cup {None}
    BY DEF CacheOK, LocalOK
  <1>5. entry \in [Keys -> Entry]
    BY DEF CacheOK
  <1>6. CASE UpsertClaim(r)
    <2>1. CASE redis
      <3>1. Claim(r)
        BY <1>6, <2>1 DEF UpsertClaim, Upsert
      <3>2. LocalOK'
        BY <3>1 DEF Claim, LocalOK
      <3>3. [entry[KeyOf[r]] EXCEPT !.reply = reply[r]] \in Entry
        BY <1>4 DEF Entry
      <3>4. entry' \in [Keys -> Entry]
        BY <1>5, <3>1, <3>3 DEF Claim
      <3> QED
        BY <1>3, <1>6, <3>2, <3>4 DEF UpsertClaim, Upsert
    <2>2. CASE ~redis
      BY <1>0, <1>3, <1>5, <1>6, <2>2 DEF UpsertClaim, Upsert
    <2> QED
      BY <2>1, <2>2
  <1>7. CASE UpsertFill(r) \/ UpsertHeal(r)
    <2>1. CASE redis
      <3>1. Fill(r)
        BY <1>7, <2>1 DEF UpsertFill, UpsertHeal, Upsert
      <3>2. LocalOK'
        BY <1>0, <3>1 DEF Fill
      <3>3. [entry[KeyOf[r]] EXCEPT !.vector = TRUE, !.ttl = TRUE] \in Entry
        BY <1>4 DEF Entry
      <3>4. entry' = [entry EXCEPT ![KeyOf[r]] =
                       [entry[KeyOf[r]] EXCEPT !.vector = TRUE, !.ttl = TRUE]]
        BY <1>5, <3>1 DEF Fill, Entry
      <3>5. entry' \in [Keys -> Entry]
        BY <1>5, <3>3, <3>4
      <3> QED
        BY <1>3, <1>7, <3>2, <3>5 DEF UpsertFill, UpsertHeal, Upsert
    <2>2. CASE ~redis
      BY <1>0, <1>3, <1>5, <1>7, <2>2 DEF UpsertFill, UpsertHeal, Upsert
    <2> QED
      BY <2>1, <2>2
  <1>8. CASE UpsertCheck(r)
    <2>1. CASE redis
      <3>1. Check(r)
        BY <1>8, <2>1 DEF UpsertCheck, Upsert
      <3>2. LocalOK'
        <4>1. CASE Done(r)
          BY <1>0, <4>1
        <4>2. CASE ~Done(r)
          BY <3>1, <4>2 DEF Check, LocalOK
        <4> QED
          BY <4>1, <4>2
      <3>3. entry' = entry
        BY <3>1 DEF Check
      <3> QED
        BY <1>3, <1>5, <1>8, <3>2, <3>3 DEF UpsertCheck, Upsert
    <2>2. CASE ~redis
      BY <1>0, <1>3, <1>5, <1>8, <2>2 DEF UpsertCheck, Upsert
    <2> QED
      BY <2>1, <2>2
  <1> QED
    BY <1>1, <1>2, <1>6, <1>7, <1>8

LEMMA EnvironmentType ==
  ASSUME TypeOK, Environment
  PROVE  TypeOK'
  <1> USE TypeParts, StageFacts
  <1>0. NoEntry \in Entry
    BY DEF NoEntry, Entry
  <1>1. CASE CircuitCools
    BY <1>1 DEF CircuitCools, LocalOK, BreakerOK, LimitOK, CacheOK, redisVars, bounds
  <1>2. CASE RedisGoes
    <2>1. LimitOK'
      BY <1>2, FaultType, KindFacts DEF RedisGoes, LimitOK
    <2> QED
      BY <1>2, <2>1 DEF RedisGoes, LocalOK, BreakerOK, CacheOK, memory
  <1>3. CASE RedisReturns
    BY <1>3 DEF RedisReturns, LocalOK, BreakerOK, LimitOK, CacheOK, memory, bounds
  <1>4. CASE SlotsExpire
    <2>0. faults \subseteq FaultKinds /\ "slotsExpired" \in FaultKinds
      BY KindFacts DEF LimitOK
    <2>1. faults' \subseteq FaultKinds
      BY <1>4, <2>0, FaultType DEF SlotsExpire
    <2>3. slots' \in Int /\ UNCHANGED <<redis, cooling, counted>> /\ slotTtl' = FALSE
      BY <1>4 DEF SlotsExpire
    <2>2. LimitOK'
      BY <2>1, <2>3 DEF LimitOK
    <2> QED
      BY <1>4, <2>2 DEF SlotsExpire, LocalOK, BreakerOK, CacheOK, memory
  <1>5. CASE CooldownExpires
    BY <1>5 DEF CooldownExpires, LocalOK, BreakerOK, LimitOK, CacheOK, memory, bounds
  <1>6. CASE Crash
    <2>1. LimitOK'
      BY <1>6, FaultType, KindFacts DEF Crash, LimitOK, redisVars
    <2>2. pc' \in [Requests -> Stages] /\ call' \in [Requests -> Call]
      BY <1>6, CallFacts DEF Crash
    <2>3. answer' \in [Requests -> {"none", "reply", "error"}]
      BY <1>6 DEF Crash, LocalOK
    <2>4. LocalOK'
      BY <1>6, <2>2, <2>3 DEF Crash, LocalOK
    <2>5. BreakerOK'
      <3>1. 0 \in 0..OpenAfter
        BY GatewayAssumption
      <3> QED
        BY <1>6, <3>1 DEF Crash, BreakerOK
    <2> QED
      BY <1>6, <2>1, <2>4, <2>5 DEF Crash, CacheOK, redisVars
  <1>7. ASSUME NEW k \in Keys, CacheExpires(k) PROVE TypeOK'
    <2>1. LimitOK'
      BY <1>7, FaultType, KindFacts DEF CacheExpires, LimitOK
    <2>2. CacheOK'
      BY <1>0, <1>7 DEF CacheExpires, CacheOK
    <2> QED
      BY <1>7, <2>1, <2>2 DEF CacheExpires, LocalOK, BreakerOK, memory
  <1> QED
    BY <1>1, <1>2, <1>3, <1>4, <1>5, <1>6, <1>7 DEF Environment

LEMMA InitType ==
  ASSUME Init
  PROVE  TypeOK
  <1>1. NoEntry \in Entry /\ FirstCall \in Call
    BY CallFacts DEF NoEntry, Entry
  <1>2. LocalOK
    BY <1>1, StageFacts DEF Init, LocalOK
  <1>3. 0 \in 0..OpenAfter
    BY GatewayAssumption
  <1>4. BreakerOK
    BY <1>3 DEF Init, BreakerOK
  <1>5. LimitOK
    <2>1. counted \in [Requests -> BOOLEAN] /\ slots \in Int /\ faults \subseteq FaultKinds
      BY DEF Init
    <2> QED
      BY <2>1 DEF Init, LimitOK
  <1>6. CacheOK
    BY <1>1 DEF Init, CacheOK
  <1> QED
    BY <1>2, <1>4, <1>5, <1>6, TypeParts

LEMMA StutterType ==
  ASSUME TypeOK, UNCHANGED vars
  PROVE  TypeOK'
  BY TypeParts DEF vars, memory, redisVars, bounds, LocalOK, BreakerOK, LimitOK, CacheOK

LEMMA TypeStep ==
  ASSUME TypeOK, [Next]_vars
  PROVE  TypeOK'
  <1>1. ASSUME NEW r \in Requests, Arrive(r) \/ Step(r) PROVE TypeOK'
    BY <1>1, AdmissionType, LookupType, ProviderType, StoreType DEF Step
  <1> QED
    BY <1>1, EnvironmentType, StutterType DEF Next

\* TypeOK is an invariant of Spec: whatever the interleaving of requests, errors,
\* outages and crashes, no request is at an attempt beyond policy.retry.maxAttempts
\* and the circuit never counts past EMBEDDING_CIRCUIT_OPEN_AFTER.
THEOREM TypeCorrect == Spec => []TypeOK
  <1>1. Init => TypeOK
    BY InitType
  <1>2. TypeOK /\ [Next]_vars => TypeOK'
    BY TypeStep
  <1> QED
    BY <1>1, <1>2, PTL DEF Spec

-----------------------------------------------------------------------------
(* What a step may do to the caches *)

ExactStep(k) ==
  \/ exact'[k] \in {exact[k], None}
  \/ exact[k] = None /\ \E r \in Requests : pc[r] = "saveExact" /\ exact'[k] = reply[r]

EntryStep(k) ==
  \/ entry'[k] \in {entry[k], NoEntry}
  \/ /\ entry[k].reply = None
     /\ \E r \in Requests :
          pc[r] = "claim" /\ entry'[k] = [entry[k] EXCEPT !.reply = reply[r]]
  \/ entry'[k] = [entry[k] EXCEPT !.vector = TRUE, !.ttl = TRUE]

LEMMA UpsertEntry ==
  ASSUME TypeOK, NEW k \in Keys, NEW r \in Requests,
         UpsertClaim(r) \/ UpsertFill(r) \/ UpsertCheck(r) \/ UpsertHeal(r)
  PROVE  EntryStep(k)
  <1>1. entry \in [Keys -> Entry] /\ KeyOf[r] \in Keys
    BY TypeParts, KeyOfType DEF CacheOK
  <1>2. CASE ~redis \/ UpsertCheck(r)
    BY <1>2 DEF UpsertClaim, UpsertFill, UpsertCheck, UpsertHeal, Upsert, Check, EntryStep
  <1>3. CASE redis /\ UpsertClaim(r)
    BY <1>1, <1>3 DEF UpsertClaim, Upsert, Claim, EntryStep
  <1>4. CASE redis /\ (UpsertFill(r) \/ UpsertHeal(r))
    <2>1. Fill(r)
      BY <1>4 DEF UpsertFill, UpsertHeal, Upsert
    <2>2. entry' = [entry EXCEPT ![KeyOf[r]] =
                     [entry[KeyOf[r]] EXCEPT !.vector = TRUE, !.ttl = TRUE]]
      BY <1>1, <2>1 DEF Fill, Entry
    <2> QED
      BY <1>1, <2>2 DEF EntryStep
  <1> QED
    BY <1>2, <1>3, <1>4

LEMMA CacheSteps ==
  ASSUME TypeOK, [Next]_vars, NEW k \in Keys
  PROVE  ExactStep(k) /\ EntryStep(k)
  <1>0. exact \in [Keys -> Reply \cup {None}] /\ entry \in [Keys -> Entry]
    BY TypeParts DEF CacheOK
  <1>1. ASSUME UNCHANGED <<exact, entry>> PROVE ExactStep(k) /\ EntryStep(k)
    BY <1>1 DEF ExactStep, EntryStep
  <1>2. ASSUME NEW r \in Requests, Arrive(r) \/ Step(r) PROVE ExactStep(k) /\ EntryStep(k)
    <2>0. KeyOf[r] \in Keys
      BY KeyOfType
    <2>1. CASE Arrive(r) \/ IncrStreams(r) \/ ExpireStreams(r) \/ UndoIncr(r) \/ Prepare(r)
      BY <1>1, <2>1 DEF Arrive, IncrStreams, ExpireStreams, UndoIncr, Prepare, redisVars
    <2>2. CASE \/ LookupExact(r) \/ LookupText(r) \/ LookupTextFails(r)
               \/ LookupEmbed(r) \/ LookupKnn(r) \/ ReleaseStream(r)
      BY <1>1, <2>2 DEF LookupExact, LookupText, LookupTextFails, LookupEmbed, LookupKnn,
                        ReleaseStream, redisVars
    <2>3. CASE DropCorrupt(r)
      BY <1>0, <2>0, <2>3 DEF DropCorrupt, ExactStep, EntryStep
    <2>4. CASE ProviderReplies(r) \/ ProviderFails(r) \/ SetCooldown(r) \/ SaveEmbed(r)
      BY <1>1, <2>4 DEF ProviderReplies, ProviderFails, SetCooldown, SaveEmbed, redisVars
    <2>5. CASE SaveExact(r)
      BY <1>0, <2>0, <2>5 DEF SaveExact, ExactStep, EntryStep
    <2>6. CASE UpsertClaim(r) \/ UpsertFill(r) \/ UpsertCheck(r) \/ UpsertHeal(r)
      <3>1. exact' = exact
        BY <2>6 DEF UpsertClaim, UpsertFill, UpsertCheck, UpsertHeal, Upsert
      <3> QED
        BY <2>6, <3>1, UpsertEntry DEF ExactStep
    <2> QED
      BY <1>2, <2>1, <2>2, <2>3, <2>4, <2>5, <2>6 DEF Step
  <1>3. ASSUME Environment PROVE ExactStep(k) /\ EntryStep(k)
    <2>1. CASE CircuitCools \/ RedisGoes \/ RedisReturns \/ SlotsExpire
      BY <1>1, <2>1 DEF CircuitCools, RedisGoes, RedisReturns, SlotsExpire, redisVars
    <2>2. CASE CooldownExpires \/ Crash
      BY <1>1, <2>2 DEF CooldownExpires, Crash, redisVars
    <2>3. ASSUME NEW j \in Keys, CacheExpires(j) PROVE ExactStep(k) /\ EntryStep(k)
      BY <1>0, <2>3 DEF CacheExpires, ExactStep, EntryStep
    <2> QED
      BY <1>3, <2>1, <2>2, <2>3 DEF Environment
  <1>4. ASSUME UNCHANGED vars PROVE ExactStep(k) /\ EntryStep(k)
    BY <1>1, <1>4 DEF vars, redisVars
  <1> QED
    BY <1>2, <1>3, <1>4 DEF Next

\* NoEternalVector is an invariant of Spec, for any number of writers of one hash
\* and any crash, expiry, outage or delete between their statements.
THEOREM VectorsExpire == Spec => []NoEternalVector
  <1>1. Init => NoEternalVector
    BY DEF Init, NoEternalVector, NoEntry
  <1>2. TypeOK /\ NoEternalVector /\ [Next]_vars => NoEternalVector'
    <2> SUFFICES ASSUME TypeOK, NoEternalVector, [Next]_vars, NEW k \in Keys
                 PROVE  entry'[k].vector => entry'[k].ttl
      BY DEF NoEternalVector
    <2>1. EntryStep(k) /\ entry[k] \in Entry /\ (entry[k].vector => entry[k].ttl)
      BY CacheSteps, TypeParts DEF CacheOK, NoEternalVector
    <2>2. CASE entry'[k] \in {entry[k], NoEntry}
      BY <2>1, <2>2 DEF NoEntry
    <2>3. ASSUME NEW r \in Requests, entry'[k] = [entry[k] EXCEPT !.reply = reply[r]]
          PROVE  entry'[k].vector => entry'[k].ttl
      BY <2>1, <2>3 DEF Entry
    <2>4. CASE entry'[k] = [entry[k] EXCEPT !.vector = TRUE, !.ttl = TRUE]
      BY <2>1, <2>4 DEF Entry
    <2> QED
      BY <2>1, <2>2, <2>3, <2>4 DEF EntryStep
  <1> QED
    BY <1>1, <1>2, TypeCorrect, PTL DEF Spec

\* FirstWriterWins holds of every behaviour of Spec.
THEOREM FirstWriterStays == Spec => FirstWriterWins
  <1>1. ASSUME TypeOK, [Next]_vars, NEW k \in Keys
        PROVE  /\ exact[k] # None => exact'[k] \in {exact[k], None}
               /\ entry[k].reply # None => entry'[k].reply \in {entry[k].reply, None}
    <2>1. ExactStep(k) /\ EntryStep(k) /\ entry[k] \in Entry
      BY <1>1, CacheSteps, TypeParts DEF CacheOK
    <2>2. exact[k] # None => exact'[k] \in {exact[k], None}
      BY <2>1 DEF ExactStep
    <2>3. entry[k].reply # None => entry'[k].reply \in {entry[k].reply, None}
      <3>1. CASE entry'[k] \in {entry[k], NoEntry}
        BY <3>1 DEF NoEntry
      <3>2. CASE entry'[k] = [entry[k] EXCEPT !.vector = TRUE, !.ttl = TRUE]
        BY <2>1, <3>2 DEF Entry
      <3> QED
        BY <2>1, <3>1, <3>2 DEF EntryStep
    <2> QED
      BY <2>2, <2>3
  <1>2. TypeOK /\ [Next]_vars =>
          [\A k \in Keys :
             /\ exact[k] # None => exact'[k] \in {exact[k], None}
             /\ entry[k].reply # None => entry'[k].reply \in {entry[k].reply, None}]_vars
    BY <1>1
  <1> QED
    BY <1>2, TypeCorrect, PTL DEF Spec, FirstWriterWins

-----------------------------------------------------------------------------
(* Where a step may move its request, and who moves with it *)

GuardStages == {"idle", "incr", "expire", "expireOver", "undo"}
Serving == Stages \ (GuardStages \cup {"end"})

Guard(r) ==
  Arrive(r) \/ IncrStreams(r) \/ ExpireStreams(r) \/ UndoIncr(r) \/ ReleaseStream(r)

Serve(r) ==
  \/ Prepare(r)
  \/ LookupExact(r) \/ LookupText(r) \/ LookupTextFails(r) \/ LookupEmbed(r) \/ LookupKnn(r)
  \/ DropCorrupt(r)
  \/ ProviderReplies(r) \/ ProviderFails(r) \/ SetCooldown(r)
  \/ SaveExact(r) \/ SaveEmbed(r) \/ UpsertClaim(r) \/ UpsertFill(r) \/ UpsertCheck(r)
  \/ UpsertHeal(r)

LEMMA StepSplit == \A r : Arrive(r) \/ Step(r) <=> Guard(r) \/ Serve(r)
  BY DEF Step, Guard, Serve

GuardMove(r) ==
  /\ pc[r] \in GuardStages \cup {"release"}
  /\ \E x \in (GuardStages \ {"idle"}) \cup {"cooldown", "end"} :
       pc' = [pc EXCEPT ![r] = x]
  /\ UNCHANGED <<flight, trial, exact, entry>>

ServeMove(r) ==
  /\ pc[r] \in Serving \ {"joined", "release"}
  /\ \E x \in (Serving \ {"joined", "release"}) \cup {AfterAnswer(r)} :
       /\ pc' = [pc EXCEPT ![r] = x]
       /\ MayCoalesce(r) => (pc[r] \in AtWork <=> x \in AtWork)
  /\ UNCHANGED flight

ServeMiss(r) ==
  pc[r] \in {"text", "dropText", "embed", "knn", "dropKnn"} /\ Miss(r)

ServeSettle(r) ==
  /\ pc[r] \in AtWork
  /\ \E a \in {"reply", "error"}, found \in Reply \cup {None} : Settle(r, a, found)

LEMMA StageSets ==
  /\ AtWork \subseteq Serving \ {"joined", "release"}
  /\ StoreStages \subseteq AtWork
  /\ {"cooldown", "exact", "text", "dropText", "embed", "knn", "dropKnn", "call", "cool"}
       \subseteq Serving \ {"joined", "release"}
  /\ {"cooldown", "exact", "text", "dropText", "embed", "knn", "dropKnn", "release", "end"}
       \cap AtWork = {}
  /\ Embedding \subseteq Serving \ {"joined", "release"}
  /\ GuardStages \subseteq Stages
  /\ (GuardStages \cup {"release", "cooldown", "end", "joined"}) \cap (AtWork \cup Embedding) = {}
  BY DEF AtWork, StoreStages, Serving, Stages, GuardStages, Embedding

LEMMA GuardKinds ==
  ASSUME TypeOK, NEW r \in Requests, Guard(r)
  PROVE  GuardMove(r) /\ \A q \in Requests \ {r} : reply'[q] = reply[q]
  <1> USE TypeParts
  <1>1. CASE Arrive(r)
    BY <1>1 DEF Arrive, GuardMove, GuardStages, memory, redisVars
  <1>2. CASE IncrStreams(r)
    BY <1>2 DEF IncrStreams, GuardMove, GuardStages, memory
  <1>3. CASE ExpireStreams(r)
    BY <1>3 DEF ExpireStreams, GuardMove, GuardStages, memory
  <1>4. CASE UndoIncr(r)
    BY <1>4 DEF UndoIncr, GuardMove, GuardStages, memory
  <1>5. CASE ReleaseStream(r)
    BY <1>5 DEF ReleaseStream, GuardMove, GuardStages, memory, LocalOK
  <1> QED
    BY <1>1, <1>2, <1>3, <1>4, <1>5 DEF Guard

LEMMA PrepareKind ==
  ASSUME TypeOK, NEW r \in Requests, Prepare(r)
  PROVE  ServeMove(r)
  <1>1. CASE \E a \in {"error"} : Leave(r, a)
    BY <1>1, StageSets DEF Prepare, Leave, ServeMove, AfterAnswer, memory
  <1>2. CASE ~\E a \in {"error"} : Leave(r, a)
    <2>1. pc' = [pc EXCEPT ![r] = IF r \in Tooling THEN "call" ELSE "exact"]
      BY <1>2 DEF Prepare
    <2>2. CASE r \in Tooling
      BY <2>1, <2>2, StageSets DEF Prepare, ServeMove, MayCoalesce, memory
    <2>3. CASE r \notin Tooling
      BY <2>1, <2>3, StageSets DEF Prepare, ServeMove, memory
    <2> QED
      BY <2>2, <2>3
  <1> QED
    BY <1>1, <1>2

LEMMA HitKind ==
  ASSUME NEW r \in Requests, Hit(r), UNCHANGED flight, pc[r] \in {"exact", "text", "knn"}
  PROVE  ServeMove(r)
  BY StageSets DEF Hit, Leave, ServeMove, AfterAnswer

LEMMA LookupKind ==
  ASSUME TypeOK, NEW r \in Requests,
         \/ LookupExact(r) \/ LookupText(r) \/ LookupTextFails(r)
         \/ LookupEmbed(r) \/ LookupKnn(r) \/ DropCorrupt(r)
  PROVE  ServeMove(r) \/ ServeMiss(r)
  <1>1. CASE LookupExact(r)
    <2>1. CASE redis /\ exact[KeyOf[r]] # None
      BY <1>1, <2>1, HitKind DEF LookupExact, memory
    <2>2. CASE ~(redis /\ exact[KeyOf[r]] # None)
      BY <1>1, <2>2, StageSets DEF LookupExact, ServeMove, memory
    <2> QED
      BY <2>1, <2>2
  <1>2. ASSUME pc[r] \in {"text", "dropText"}, EmbedOrMiss(r)
        PROVE  ServeMove(r) \/ ServeMiss(r)
    BY <1>2, StageSets DEF EmbedOrMiss, ServeMove, ServeMiss
  <1>3. CASE LookupText(r)
    <2>1. CASE redis /\ Complete(KeyOf[r])
      BY <1>3, <2>1, HitKind DEF LookupText
    <2>2. CASE ~(redis /\ Complete(KeyOf[r]))
      BY <1>2, <1>3, <2>2 DEF LookupText
    <2> QED
      BY <2>1, <2>2
  <1>4. CASE LookupTextFails(r)
    BY <1>4, StageSets DEF LookupTextFails, ServeMove, memory
  <1>5. CASE LookupEmbed(r)
    BY <1>5, StageSets DEF LookupEmbed, ServeMove, ServeMiss
  <1>6. CASE LookupKnn(r)
    <2>1. CASE redis /\ entry[KeyOf[r]].vector
      <3>1. CASE Complete(KeyOf[r])
        BY <1>6, <2>1, <3>1, HitKind DEF LookupKnn
      <3>2. CASE ~Complete(KeyOf[r])
        BY <1>6, <2>1, <3>2, StageSets DEF LookupKnn, ServeMove
      <3> QED
        BY <3>1, <3>2
    <2>2. CASE ~(redis /\ entry[KeyOf[r]].vector)
      BY <1>6, <2>2 DEF LookupKnn, ServeMiss
    <2> QED
      BY <2>1, <2>2
  <1>7. CASE DropCorrupt(r)
    BY <1>2, <1>7 DEF DropCorrupt, ServeMiss
  <1> QED
    BY <1>1, <1>3, <1>4, <1>5, <1>6, <1>7

LEMMA WorkKind ==
  ASSUME TypeOK, NEW r \in Requests,
         \/ ProviderReplies(r) \/ ProviderFails(r) \/ SetCooldown(r)
         \/ SaveExact(r) \/ SaveEmbed(r) \/ UpsertClaim(r) \/ UpsertFill(r)
         \/ UpsertCheck(r) \/ UpsertHeal(r)
  PROVE  ServeMove(r) \/ ServeSettle(r)
  <1> USE TypeParts
  <1>0. pc[r] \in AtWork
    BY DEF ProviderReplies, ProviderFails, SetCooldown, SaveExact, SaveEmbed, UpsertClaim,
           UpsertFill, UpsertCheck, UpsertHeal, Upsert, AtWork, StoreStages
  <1>1. ASSUME UNCHANGED flight, NEW x \in AtWork, pc' = [pc EXCEPT ![r] = x]
        PROVE  ServeMove(r)
    BY <1>0, <1>1, StageSets DEF ServeMove
  <1>2. ASSUME Done(r) PROVE ServeSettle(r)
    BY <1>0, <1>2 DEF Done, ServeSettle, LocalOK
  <1>3. CASE ProviderReplies(r)
    <2>1. PICK full \in BOOLEAN :
            LET new == [by |-> r, via |-> call[r].via, full |-> full]
            IN /\ IF Storable(r, new)
                    THEN /\ pc' = [pc EXCEPT ![r] = "saveExact"]
                         /\ UNCHANGED flight
                    ELSE Settle(r, "reply", new)
      BY <1>3 DEF ProviderReplies
    <2> DEFINE new == [by |-> r, via |-> call[r].via, full |-> full]
    <2>2. new \in Reply
      BY DEF LocalOK, Call, Reply
    <2>3. CASE Storable(r, new)
      BY <1>1, <2>1, <2>3 DEF AtWork, StoreStages
    <2>4. CASE ~Storable(r, new)
      BY <1>0, <2>1, <2>2, <2>4 DEF ServeSettle
    <2> QED
      BY <2>3, <2>4
  <1>4. CASE ProviderFails(r)
    <2>1. \/ pc' = pc /\ flight' = flight
          \/ pc' = [pc EXCEPT ![r] = "cool"] /\ flight' = flight
          \/ Settle(r, "error", None)
      BY <1>4 DEF ProviderFails, Exhausted
    <2>2. CASE pc' = pc /\ flight' = flight
      <3>1. pc' = [pc EXCEPT ![r] = pc[r]]
        BY <2>2 DEF LocalOK
      <3> QED
        BY <1>0, <1>1, <2>2, <3>1
    <2>3. CASE pc' = [pc EXCEPT ![r] = "cool"] /\ flight' = flight
      BY <1>1, <2>3 DEF AtWork
    <2>4. CASE Settle(r, "error", None)
      BY <1>0, <2>4 DEF ServeSettle
    <2> QED
      BY <2>1, <2>2, <2>3, <2>4
  <1>5. CASE SetCooldown(r)
    BY <1>0, <1>5 DEF SetCooldown, ServeSettle
  <1>6. CASE SaveExact(r) \/ SaveEmbed(r)
    <2>1. \/ Done(r)
          \/ flight' = flight /\ pc' = [pc EXCEPT ![r] = "claim"]
          \/ flight' = flight /\ pc' = [pc EXCEPT ![r] = "saveEmbed"]
      BY <1>6 DEF SaveExact, SaveEmbed
    <2> QED
      BY <1>1, <1>2, <2>1 DEF AtWork, StoreStages
  <1>7. CASE UpsertClaim(r) \/ UpsertFill(r) \/ UpsertCheck(r) \/ UpsertHeal(r)
    <2>1. \/ Done(r)
          \/ \E x \in {"fill", "check", "heal"} :
               flight' = flight /\ pc' = [pc EXCEPT ![r] = x]
      BY <1>7 DEF UpsertClaim, UpsertFill, UpsertCheck, UpsertHeal, Upsert, Claim, Fill, Check
    <2> QED
      BY <1>1, <1>2, <2>1 DEF AtWork, StoreStages
  <1> QED
    BY <1>3, <1>4, <1>5, <1>6, <1>7

LEMMA ServeKinds ==
  ASSUME TypeOK, NEW r \in Requests, Serve(r)
  PROVE  ServeMove(r) \/ ServeMiss(r) \/ ServeSettle(r)
  BY PrepareKind, LookupKind, WorkKind DEF Serve

-----------------------------------------------------------------------------
(* A trial has its owner *)

\* A request that embeds goes on, or its own step ends the trial.
LEMMA EmbeddersStay ==
  ASSUME TypeOK, NEW r \in Requests, Arrive(r) \/ Step(r),
         NEW q \in Requests \ {r}, pc[q] \in Embedding
  PROVE  pc'[q] = pc[q]
  <1> USE TypeParts
  <1>1. CASE Guard(r)
    BY <1>1, GuardKinds DEF GuardMove, LocalOK
  <1>2. CASE ServeMove(r)
    BY <1>2 DEF ServeMove, LocalOK
  <1>3. CASE ServeMiss(r)
    BY <1>3 DEF ServeMiss, Miss, LocalOK
  <1>4. CASE ServeSettle(r)
    BY <1>4, StageSets DEF ServeSettle, Settle, Sharing, Embedding
  <1> QED
    BY <1>1, <1>2, <1>3, <1>4, StepSplit, ServeKinds

LEMMA TrialStep ==
  ASSUME TypeOK, NEW r \in Requests, Arrive(r) \/ Step(r), trial'
  PROVE  \/ pc'[r] \in Embedding
         \/ trial /\ pc[r] \notin Embedding
  <1> USE TypeParts DEF LocalOK
  <1>1. CASE Guard(r)
    BY <1>1, GuardKinds, StageSets DEF GuardMove
  <1>2. CASE Prepare(r) \/ LookupExact(r) \/ LookupTextFails(r) \/ LookupKnn(r)
    BY <1>2 DEF Prepare, LookupExact, LookupTextFails, LookupKnn, memory, Embedding
  <1>3. ASSUME pc[r] \in {"text", "dropText"}, EmbedOrMiss(r)
        PROVE  pc'[r] \in Embedding \/ (trial /\ pc[r] \notin Embedding)
    BY <1>3 DEF EmbedOrMiss, Embedding
  <1>4. CASE LookupText(r) \/ DropCorrupt(r)
    BY <1>3, <1>4 DEF LookupText, DropCorrupt, Embedding
  <1>5. CASE LookupEmbed(r) \/ SaveEmbed(r)
    BY <1>5 DEF LookupEmbed, SaveEmbed, EmbedWorked, EmbedFailed
  <1>6. CASE ProviderReplies(r) \/ ProviderFails(r) \/ SetCooldown(r)
    BY <1>6 DEF ProviderReplies, ProviderFails, SetCooldown, Embedding
  <1>7. CASE SaveExact(r)
    BY <1>7 DEF SaveExact, Embedding
  <1>8. CASE UpsertClaim(r) \/ UpsertFill(r) \/ UpsertCheck(r) \/ UpsertHeal(r)
    BY <1>8 DEF UpsertClaim, UpsertFill, UpsertCheck, UpsertHeal, Upsert, Embedding
  <1> QED
    BY <1>1, <1>2, <1>4, <1>5, <1>6, <1>7, <1>8, StepSplit DEF Serve

\* TrialHasOwner is an invariant of Spec, for any number of requests at the
\* circuit, whichever of them fails, is answered by the cache or crashes.
THEOREM TrialsEnd == Spec => []TrialHasOwner
  <1>1. Init => TrialHasOwner
    BY DEF Init, TrialHasOwner
  <1>2. TypeOK /\ TrialHasOwner /\ [Next]_vars => TrialHasOwner'
    <2> SUFFICES ASSUME TypeOK, TrialHasOwner, [Next]_vars, trial'
                 PROVE  \E q \in Requests : pc'[q] \in Embedding
      BY DEF TrialHasOwner
    <2>1. ASSUME NEW r \in Requests, Arrive(r) \/ Step(r)
          PROVE  \E q \in Requests : pc'[q] \in Embedding
      <3>1. CASE pc'[r] \in Embedding
        BY <3>1
      <3>2. CASE pc'[r] \notin Embedding
        <4>1. trial /\ pc[r] \notin Embedding
          BY <2>1, <3>2, TrialStep
        <4>2. PICK q \in Requests : pc[q] \in Embedding
          BY <4>1 DEF TrialHasOwner
        <4> QED
          BY <2>1, <4>1, <4>2, EmbeddersStay
      <3> QED
        BY <3>1, <3>2
    <2>2. CASE Environment \/ UNCHANGED vars
      <3>1. ~Crash
        BY DEF Crash
      <3>2. UNCHANGED <<pc, trial>>
        BY <2>2, <3>1 DEF Environment, CircuitCools, RedisGoes, RedisReturns, SlotsExpire,
                          CooldownExpires, CacheExpires, memory, vars
      <3> QED
        BY <3>2 DEF TrialHasOwner
    <2> QED
      BY <2>1, <2>2 DEF Next
  <1> QED
    BY <1>1, <1>2, TypeCorrect, PTL DEF Spec

-----------------------------------------------------------------------------
(* What a request that stores holds in its hands *)

Good(held) == held.via = "primary" /\ held.full /\ held.by \notin Tooling

HoldsStorable == \A r \in Requests : pc[r] \in StoreStages => reply[r] # None /\ Good(reply[r])

LEMMA RepliesStay ==
  ASSUME TypeOK, NEW r \in Requests, Arrive(r) \/ Step(r), NEW q \in Requests \ {r}
  PROVE  reply'[q] = reply[q]
  <1> USE TypeParts DEF LocalOK
  <1>1. CASE Guard(r)
    BY <1>1, GuardKinds
  <1>2. ASSUME NEW a, NEW found, Settle(r, a, found) PROVE reply'[q] = reply[q]
    BY <1>2 DEF Settle
  <1>3. CASE \/ Prepare(r) \/ LookupExact(r) \/ LookupText(r) \/ LookupTextFails(r)
             \/ LookupEmbed(r) \/ LookupKnn(r) \/ DropCorrupt(r)
    BY <1>3 DEF Prepare, LookupExact, LookupText, LookupTextFails, LookupEmbed, LookupKnn,
                DropCorrupt
  <1>4. CASE ProviderReplies(r) \/ ProviderFails(r) \/ SetCooldown(r)
    BY <1>2, <1>4 DEF ProviderReplies, ProviderFails, Exhausted, SetCooldown
  <1>5. CASE SaveExact(r) \/ SaveEmbed(r)
    BY <1>2, <1>5 DEF SaveExact, SaveEmbed, Done
  <1>6. CASE UpsertClaim(r) \/ UpsertFill(r) \/ UpsertCheck(r) \/ UpsertHeal(r)
    BY <1>2, <1>6 DEF UpsertClaim, UpsertFill, UpsertCheck, UpsertHeal, Upsert, Claim, Fill,
                      Check, Done
  <1> QED
    BY <1>1, <1>3, <1>4, <1>5, <1>6, StepSplit DEF Serve

\* Only the provider's storable reply leads to the writes.
LEMMA StorerHolds ==
  ASSUME TypeOK, HoldsStorable, NEW r \in Requests, Arrive(r) \/ Step(r),
         pc'[r] \in StoreStages
  PROVE  reply'[r] # None /\ Good(reply'[r])
  <1> USE TypeParts DEF LocalOK
  <1>0. ASSUME ServeSettle(r) \/ ServeMiss(r) \/ Guard(r) PROVE FALSE
    <2>1. CASE ServeSettle(r)
      BY <2>1, StageSets DEF ServeSettle, Settle, Sharing, AfterAnswer
    <2>2. CASE ServeMiss(r)
      BY <2>2 DEF ServeMiss, Miss, StoreStages
    <2>3. CASE Guard(r)
      BY <2>3, GuardKinds, StageSets DEF GuardMove
    <2> QED
      BY <1>0, <2>1, <2>2, <2>3
  <1>1. ASSUME pc[r] \in StoreStages, reply'[r] = reply[r]
        PROVE  reply'[r] # None /\ Good(reply'[r])
    BY <1>1 DEF HoldsStorable
  <1>2. ASSUME NEW a, NEW found, Settle(r, a, found) PROVE FALSE
    BY <1>2, StageSets DEF Settle, Sharing, AfterAnswer
  <1>3. CASE \/ Prepare(r) \/ LookupExact(r) \/ LookupText(r) \/ LookupTextFails(r)
             \/ LookupEmbed(r) \/ LookupKnn(r) \/ DropCorrupt(r)
    <2>1. pc'[r] \in {"release", "end", "call", "exact", "text", "dropText", "embed", "knn",
                      "dropKnn", "joined"}
      BY <1>3 DEF Prepare, LookupExact, LookupText, LookupTextFails, LookupEmbed, LookupKnn,
                  DropCorrupt, Hit, Leave, EmbedOrMiss, Miss, AfterAnswer
    <2> QED
      BY <2>1 DEF StoreStages
  <1>4. CASE ProviderReplies(r)
    <2>1. PICK full \in BOOLEAN :
            LET new == [by |-> r, via |-> call[r].via, full |-> full]
            IN IF Storable(r, new)
                 THEN reply' = [reply EXCEPT ![r] = new]
                 ELSE Settle(r, "reply", new)
      BY <1>4 DEF ProviderReplies
    <2> DEFINE new == [by |-> r, via |-> call[r].via, full |-> full]
    <2>2. new \in Reply
      BY DEF Call, Reply
    <2>3. Storable(r, new) /\ reply'[r] = new
      BY <1>2, <2>1
    <2>4. new # None
      BY <2>2, NoneAssumption
    <2>5. new.by = r
      OBVIOUS
    <2> HIDE DEF new
    <2> QED
      BY <2>3, <2>4, <2>5, Zenon DEF Storable, Good
  <1>5. CASE ProviderFails(r) \/ SetCooldown(r)
    BY <1>2, <1>5 DEF ProviderFails, Exhausted, SetCooldown, StoreStages
  <1>6. CASE SaveExact(r) \/ SaveEmbed(r)
    BY <1>1, <1>2, <1>6 DEF SaveExact, SaveEmbed, Done, StoreStages
  <1>7. CASE UpsertClaim(r) \/ UpsertFill(r) \/ UpsertCheck(r) \/ UpsertHeal(r)
    BY <1>1, <1>2, <1>7 DEF UpsertClaim, UpsertFill, UpsertCheck, UpsertHeal, Upsert, Claim,
                            Fill, Check, Done, StoreStages
  <1> QED
    BY <1>0, <1>3, <1>4, <1>5, <1>6, <1>7, StepSplit DEF Serve

LEMMA StorersStay ==
  ASSUME TypeOK, NEW r \in Requests, Arrive(r) \/ Step(r),
         NEW q \in Requests \ {r}, pc'[q] \in StoreStages
  PROVE  pc[q] = pc'[q]
  <1> USE TypeParts DEF LocalOK
  <1>1. CASE Guard(r)
    BY <1>1, GuardKinds DEF GuardMove
  <1>2. CASE ServeMove(r)
    BY <1>2 DEF ServeMove
  <1>3. CASE ServeMiss(r)
    BY <1>3 DEF ServeMiss, Miss
  <1>4. CASE ServeSettle(r)
    BY <1>4, StageSets DEF ServeSettle, Settle, AfterAnswer
  <1> QED
    BY <1>1, <1>2, <1>3, <1>4, StepSplit, ServeKinds

LEMMA HoldStep ==
  ASSUME TypeOK, HoldsStorable, [Next]_vars
  PROVE  HoldsStorable'
  <1> SUFFICES ASSUME NEW q \in Requests, pc'[q] \in StoreStages
               PROVE  reply'[q] # None /\ Good(reply'[q])
    BY DEF HoldsStorable
  <1>1. ASSUME NEW r \in Requests, Arrive(r) \/ Step(r)
        PROVE  reply'[q] # None /\ Good(reply'[q])
    <2>1. CASE q = r
      BY <1>1, <2>1, StorerHolds
    <2>2. CASE q # r
      BY <1>1, <2>2, StorersStay, RepliesStay DEF HoldsStorable
    <2> QED
      BY <2>1, <2>2
  <1>2. CASE Environment \/ UNCHANGED vars
    <2>1. ~Crash
      BY DEF Crash, StoreStages
    <2>2. UNCHANGED <<pc, reply>>
      BY <1>2, <2>1 DEF Environment, CircuitCools, RedisGoes, RedisReturns, SlotsExpire,
                        CooldownExpires, CacheExpires, vars
    <2> QED
      BY <2>2 DEF HoldsStorable
  <1> QED
    BY <1>1, <1>2 DEF Next

\* CacheHoldsPrimaryReplies is an invariant of Spec: a reply is judged when it
\* comes and written some awaits later, by whoever wins the key.
THEOREM CachesHoldPrimaryReplies == Spec => []CacheHoldsPrimaryReplies
  <1>1. Init => HoldsStorable /\ CacheHoldsPrimaryReplies
    BY DEF Init, HoldsStorable, StoreStages, CacheHoldsPrimaryReplies, NoEntry
  <1>2. TypeOK /\ HoldsStorable /\ CacheHoldsPrimaryReplies /\ [Next]_vars
          => HoldsStorable' /\ CacheHoldsPrimaryReplies'
    <2> SUFFICES ASSUME TypeOK, HoldsStorable, CacheHoldsPrimaryReplies, [Next]_vars
                 PROVE  CacheHoldsPrimaryReplies'
      BY HoldStep
    <2> SUFFICES ASSUME NEW k \in Keys
                 PROVE  /\ exact'[k] # None => Good(exact'[k])
                        /\ entry'[k].reply # None => Good(entry'[k].reply)
      BY DEF CacheHoldsPrimaryReplies, Good
    <2>1. /\ exact[k] # None => Good(exact[k])
          /\ entry[k].reply # None => Good(entry[k].reply)
          /\ entry[k] \in Entry
      BY TypeParts DEF CacheHoldsPrimaryReplies, Good, CacheOK
    <2>2. ExactStep(k) /\ EntryStep(k)
      BY CacheSteps
    <2>3. exact'[k] # None => Good(exact'[k])
      BY <2>1, <2>2 DEF ExactStep, HoldsStorable, StoreStages
    <2>4. ASSUME entry'[k].reply # None PROVE Good(entry'[k].reply)
      <3>1. CASE entry'[k] \in {entry[k], NoEntry}
        BY <2>1, <2>4, <3>1 DEF NoEntry
      <3>2. ASSUME NEW r \in Requests, pc[r] = "claim",
                   entry'[k] = [entry[k] EXCEPT !.reply = reply[r]]
            PROVE  Good(entry'[k].reply)
        <4>1. entry'[k].reply = reply[r]
          BY <2>1, <3>2 DEF Entry
        <4> QED
          BY <3>2, <4>1 DEF HoldsStorable, StoreStages
      <3>3. CASE entry'[k] = [entry[k] EXCEPT !.vector = TRUE, !.ttl = TRUE]
        BY <2>1, <2>4, <3>3 DEF Entry
      <3> QED
        BY <2>2, <3>1, <3>2, <3>3 DEF EntryStep
    <2> QED
      BY <2>3, <2>4
  <1> QED
    BY <1>1, <1>2, TypeCorrect, PTL DEF Spec

-----------------------------------------------------------------------------
(* The single flight *)

\* A flight belongs to a request of that key that may lead it.
FlightsLed ==
  \A k \in Keys : flight[k] # None => MayCoalesce(flight[k]) /\ KeyOf[flight[k]] = k

\* The leader's promise settles: its key is free and all that joined it have left.
LEMMA SettleFlight ==
  ASSUME TypeOK, FlightsLed, SingleFlight, NEW r \in Requests, ServeSettle(r)
  PROVE  FlightsLed' /\ SingleFlight'
  <1> USE TypeParts, KeyOfType DEF LocalOK
  <1>1. PICK a \in {"reply", "error"}, found \in Reply \cup {None} : Settle(r, a, found)
    BY DEF ServeSettle
  <1>2. flight' = IF flight[KeyOf[r]] = r THEN [flight EXCEPT ![KeyOf[r]] = None] ELSE flight
    BY <1>1 DEF Settle
  <1>3. FlightsLed'
    BY <1>2 DEF FlightsLed, MayCoalesce
  <1>4. ASSUME NEW q \in Requests, MayCoalesce(q)
        PROVE  /\ pc'[q] \in AtWork <=> flight'[KeyOf[q]] = q
               /\ pc'[q] = "joined" => flight'[KeyOf[q]] # None
    <2>1. pc'[q] = IF q \in Sharing(r) THEN "end" ELSE pc[q]
      BY <1>1, <1>4 DEF Settle, AfterAnswer, MayCoalesce
    <2>2. "end" \notin AtWork /\ r # None
      BY StageSets, NoneAssumption
    <2>3. CASE flight[KeyOf[r]] = r
      <3>1. CASE KeyOf[q] = KeyOf[r]
        <4>1. flight'[KeyOf[q]] = None /\ q # None
          BY <1>2, <2>3, <3>1, NoneAssumption
        <4>2. q # r => pc[q] \notin AtWork
          BY <1>4, <2>3, <3>1 DEF SingleFlight
        <4>3. pc[q] = "joined" => q \in Sharing(r)
          BY <2>3, <3>1 DEF Sharing
        <4>4. r \in Sharing(r)
          BY DEF Sharing
        <4> QED
          BY <2>1, <2>2, <4>1, <4>2, <4>3, <4>4
      <3>2. CASE KeyOf[q] # KeyOf[r]
        <4>1. q \notin Sharing(r) /\ flight'[KeyOf[q]] = flight[KeyOf[q]]
          BY <1>2, <3>2 DEF Sharing
        <4> QED
          BY <1>4, <2>1, <4>1 DEF SingleFlight
      <3> QED
        BY <3>1, <3>2
    <2>4. CASE flight[KeyOf[r]] # r
      <3>1. ~MayCoalesce(r)
        BY <2>4 DEF SingleFlight, ServeSettle
      <3>2. q # r /\ q \notin Sharing(r) /\ flight' = flight
        BY <1>2, <1>4, <2>4, <3>1 DEF Sharing
      <3> QED
        BY <1>4, <2>1, <3>2 DEF SingleFlight
    <2> QED
      BY <2>3, <2>4
  <1> QED
    BY <1>3, <1>4 DEF SingleFlight

\* A miss joins a flight that there is, or begins the one its key has not.
LEMMA MissFlight ==
  ASSUME TypeOK, FlightsLed, SingleFlight, NEW r \in Requests, ServeMiss(r)
  PROVE  FlightsLed' /\ SingleFlight'
  <1> USE TypeParts, KeyOfType DEF LocalOK
  <1>0. /\ pc[r] \notin AtWork /\ pc[r] # "joined" /\ r # None
        /\ "call" \in AtWork /\ "joined" \notin AtWork
    BY StageSets, NoneAssumption DEF ServeMiss, AtWork, StoreStages
  <1>1. CASE MayCoalesce(r) /\ flight[KeyOf[r]] # None
    <2>1. pc' = [pc EXCEPT ![r] = "joined"] /\ flight' = flight
      BY <1>1 DEF ServeMiss, Miss
    <2> QED
      BY <1>0, <1>1, <2>1 DEF FlightsLed, SingleFlight, MayCoalesce
  <1>2. CASE MayCoalesce(r) /\ flight[KeyOf[r]] = None
    <2>1. pc' = [pc EXCEPT ![r] = "call"] /\ flight' = [flight EXCEPT ![KeyOf[r]] = r]
      BY <1>2 DEF ServeMiss, Miss
    <2>2. FlightsLed'
      BY <1>2, <2>1 DEF FlightsLed, MayCoalesce
    <2>3. ASSUME NEW q \in Requests, MayCoalesce(q)
          PROVE  /\ pc'[q] \in AtWork <=> flight'[KeyOf[q]] = q
                 /\ pc'[q] = "joined" => flight'[KeyOf[q]] # None
      <3>1. CASE q = r
        BY <1>0, <2>1, <3>1
      <3>2. CASE q # r
        <4>1. pc'[q] = pc[q] /\ q # None
          BY <2>1, <3>2, NoneAssumption
        <4>2. CASE KeyOf[q] = KeyOf[r]
          BY <1>0, <1>2, <2>1, <2>3, <3>2, <4>1, <4>2 DEF SingleFlight
        <4>3. CASE KeyOf[q] # KeyOf[r]
          BY <2>1, <2>3, <4>1, <4>3 DEF SingleFlight
        <4> QED
          BY <4>2, <4>3
      <3> QED
        BY <3>1, <3>2
    <2> QED
      BY <2>2, <2>3 DEF SingleFlight, MayCoalesce
  <1>3. CASE ~MayCoalesce(r)
    <2>1. pc' = [pc EXCEPT ![r] = "call"] /\ flight' = flight
      BY <1>3 DEF ServeMiss, Miss
    <2> QED
      BY <1>3, <2>1 DEF FlightsLed, SingleFlight, MayCoalesce
  <1> QED
    BY <1>1, <1>2, <1>3

LEMMA MoveFlight ==
  ASSUME TypeOK, FlightsLed, SingleFlight, NEW r \in Requests, ServeMove(r) \/ Guard(r)
  PROVE  FlightsLed' /\ SingleFlight'
  <1> USE TypeParts DEF LocalOK
  <1>1. /\ flight' = flight /\ pc[r] # "joined"
        /\ \E x : /\ pc' = [pc EXCEPT ![r] = x]
                  /\ x # "joined"
                  /\ MayCoalesce(r) => (pc[r] \in AtWork <=> x \in AtWork)
    <2>1. CASE ServeMove(r)
      BY <2>1 DEF ServeMove, AfterAnswer
    <2>2. CASE Guard(r)
      <3>1. GuardMove(r)
        BY <2>2, GuardKinds
      <3>2. "joined" \notin GuardStages \cup {"release", "cooldown", "end"}
        BY DEF GuardStages
      <3> QED
        BY <3>1, <3>2, StageSets DEF GuardMove
    <2> QED
      BY <2>1, <2>2
  <1>2. PICK x : /\ pc' = [pc EXCEPT ![r] = x]
                 /\ x # "joined"
                 /\ MayCoalesce(r) => (pc[r] \in AtWork <=> x \in AtWork)
    BY <1>1
  <1>3. FlightsLed'
    BY <1>1 DEF FlightsLed, MayCoalesce
  <1>4. ASSUME NEW q \in Requests, MayCoalesce(q)
        PROVE  /\ pc'[q] \in AtWork <=> flight'[KeyOf[q]] = q
               /\ pc'[q] = "joined" => flight'[KeyOf[q]] # None
    <2>1. CASE q = r
      BY <1>1, <1>2, <1>4, <2>1 DEF SingleFlight
    <2>2. CASE q # r
      BY <1>1, <1>2, <1>4, <2>2 DEF SingleFlight
    <2> QED
      BY <2>1, <2>2
  <1> QED
    BY <1>3, <1>4 DEF SingleFlight, MayCoalesce

LEMMA EnvironmentFlight ==
  ASSUME TypeOK, FlightsLed, SingleFlight, Environment \/ UNCHANGED vars
  PROVE  FlightsLed' /\ SingleFlight'
  <1>1. CASE Crash
    <2>1. flight' = [k \in Keys |-> None]
      BY <1>1 DEF Crash
    <2>2. \A q \in Requests : pc'[q] \in {"idle", "end"}
      BY <1>1 DEF Crash
    <2>3. \A q \in Requests : q # None
      BY NoneAssumption
    <2> QED
      BY <2>1, <2>2, <2>3, KeyOfType DEF FlightsLed, SingleFlight, AtWork, StoreStages
  <1>2. CASE ~Crash
    <2>1. UNCHANGED <<pc, flight>>
      BY <1>2 DEF Environment, CircuitCools, RedisGoes, RedisReturns, SlotsExpire,
                  CooldownExpires, CacheExpires, memory, vars
    <2> QED
      BY <2>1 DEF FlightsLed, SingleFlight, MayCoalesce
  <1> QED
    BY <1>1, <1>2

\* SingleFlight is an invariant of Spec, for any number of requests and keys:
\* nobody waits for a flight that is over, and no second leader calls.
THEOREM OneCallPerFlight == Spec => []SingleFlight
  <1>1. Init => FlightsLed /\ SingleFlight
    <2> SUFFICES ASSUME Init PROVE FlightsLed /\ SingleFlight
      OBVIOUS
    <2>1. \A q \in Requests : q # None
      BY NoneAssumption
    <2> QED
      BY <2>1, KeyOfType DEF Init, FlightsLed, SingleFlight, AtWork, StoreStages
  <1>2. TypeOK /\ FlightsLed /\ SingleFlight /\ [Next]_vars => FlightsLed' /\ SingleFlight'
    BY StepSplit, ServeKinds, MoveFlight, MissFlight, SettleFlight, EnvironmentFlight DEF Next
  <1> QED
    BY <1>1, <1>2, TypeCorrect, PTL DEF Spec

-----------------------------------------------------------------------------
(* The slots of concurrent streams *)

NoLoss == faults \cap {"outage", "slotsExpired"} = {}
Holding == {r \in Requests : counted[r]}
Past == {r \in Streams : pc[r] \in Serving \cup {"expire"}}

\* A stream past its INCR is counted, one that has not come to it or has paid
\* back is not, and one that was admitted found room among those counted then.
SlotOf(r) ==
  /\ pc[r] \in {"idle", "incr"} => ~counted[r]
  /\ r \in Streams /\ pc[r] \notin {"idle", "incr", "end"} => counted[r]
  /\ r \notin Streams => ~counted[r] /\ pc[r] \notin (GuardStages \ {"idle"}) \cup {"release"}
  /\ "crash" \notin faults /\ r \notin Queried /\ pc[r] = "end" => ~counted[r]

SlotsExact ==
  NoLoss =>
    /\ redis
    /\ slots = Cardinality(Holding)
    /\ Cardinality(Past) <= MaxStreams
    /\ \A r \in Requests : SlotOf(r)

LEMMA FiniteRequests == \A S \in SUBSET Requests : IsFiniteSet(S)
  BY FS_Subset, GatewayAssumption

\* What holds of the set of admitted streams holds of a smaller one.
LEMMA FewerPast ==
  ASSUME Cardinality(Past) <= MaxStreams, Past' \subseteq Past
  PROVE  Cardinality(Past') <= MaxStreams
  <1>1. IsFiniteSet(Past)
    BY FiniteRequests, GatewayAssumption DEF Past
  <1>2. IsFiniteSet(Past') /\ Cardinality(Past') <= Cardinality(Past)
    BY <1>1, FS_Subset
  <1>3. Cardinality(Past) \in Nat /\ Cardinality(Past') \in Nat
    BY <1>1, <1>2, FS_CardinalityType
  <1> QED
    BY <1>2, <1>3, GatewayAssumption

LEMMA ServeSlots ==
  ASSUME TypeOK, NEW r \in Requests, Serve(r)
  PROVE  /\ UNCHANGED <<redis, slots, counted>>
         /\ faults' \in {faults, faults \cup {"flakyRead"}}
         /\ \A q \in Requests :
              \/ pc'[q] = pc[q]
              \/ /\ pc[q] \in Serving
                 /\ pc'[q] \in (Serving \ {"release"}) \cup {AfterAnswer(q)}
  <1> USE TypeParts
  <1>1. UNCHANGED <<redis, slots, counted>>
    <2>1. CASE \/ Prepare(r) \/ LookupExact(r) \/ LookupText(r) \/ LookupTextFails(r)
               \/ LookupEmbed(r) \/ LookupKnn(r) \/ DropCorrupt(r)
      BY <2>1 DEF Prepare, LookupExact, LookupText, LookupTextFails, LookupEmbed, LookupKnn,
                  DropCorrupt, redisVars
    <2>2. CASE \/ ProviderReplies(r) \/ ProviderFails(r) \/ SetCooldown(r)
               \/ SaveExact(r) \/ SaveEmbed(r) \/ UpsertClaim(r) \/ UpsertFill(r)
               \/ UpsertCheck(r) \/ UpsertHeal(r)
      BY <2>2 DEF ProviderReplies, ProviderFails, SetCooldown, SaveExact, SaveEmbed,
                  UpsertClaim, UpsertFill, UpsertCheck, UpsertHeal, Upsert, redisVars
    <2> QED
      BY <2>1, <2>2 DEF Serve
  <1>2. faults' \in {faults, faults \cup {"flakyRead"}}
    BY DEF Serve, Prepare, LookupExact, LookupText, LookupTextFails, LookupEmbed, LookupKnn,
           DropCorrupt, ProviderReplies, ProviderFails, SetCooldown, SaveExact, SaveEmbed, UpsertClaim,
           UpsertFill, UpsertCheck, UpsertHeal, Upsert, bounds, Fault
  <1>3. ASSUME NEW q \in Requests
        PROVE  \/ pc'[q] = pc[q]
               \/ /\ pc[q] \in Serving
                  /\ pc'[q] \in (Serving \ {"release"}) \cup {AfterAnswer(q)}
    <2>0. {"joined", "call", "text", "dropText", "embed", "knn", "dropKnn"}
            \subseteq Serving \ {"release"}
      BY DEF Serving, Stages, GuardStages
    <2>1. CASE ServeMove(r)
      BY <2>1 DEF ServeMove, LocalOK
    <2>2. CASE ServeMiss(r)
      BY <2>0, <2>2 DEF ServeMiss, Miss, LocalOK
    <2>3. CASE ServeSettle(r)
      BY <2>0, <2>3, StageSets DEF ServeSettle, Settle, Sharing, LocalOK
    <2> QED
      BY <2>1, <2>2, <2>3, ServeKinds
  <1> QED
    BY <1>1, <1>2, <1>3

LEMMA ServeExact ==
  ASSUME TypeOK, SlotsExact, NEW r \in Requests, Serve(r)
  PROVE  SlotsExact'
  <1> SUFFICES ASSUME NoLoss' PROVE SlotsExact'
    BY DEF SlotsExact
  <1>1. NoLoss /\ ("crash" \notin faults' => "crash" \notin faults)
    BY ServeSlots DEF NoLoss
  <1>2. /\ redis /\ slots = Cardinality(Holding) /\ Cardinality(Past) <= MaxStreams
        /\ \A q \in Requests : SlotOf(q)
    BY <1>1 DEF SlotsExact
  <1>3. Holding' = Holding
    BY ServeSlots DEF Holding
  <1>4. Past' \subseteq Past
    BY ServeSlots, GatewayAssumption DEF Past
  <1>5. ASSUME NEW q \in Requests PROVE SlotOf(q)'
    <2>1. CASE pc'[q] = pc[q]
      BY <1>1, <1>2, <2>1, ServeSlots DEF SlotOf
    <2>2. CASE /\ pc[q] \in Serving
               /\ pc'[q] \in (Serving \ {"release"}) \cup {AfterAnswer(q)}
      BY <1>1, <1>2, <2>2, ServeSlots DEF SlotOf, Serving, GuardStages, AfterAnswer
    <2> QED
      BY <2>1, <2>2, ServeSlots
  <1> QED
    BY <1>2, <1>3, <1>4, <1>5, FewerPast, ServeSlots DEF SlotsExact

\* The steps of the guard and of the release, one by one.
LEMMA GuardExact ==
  ASSUME TypeOK, SlotsExact, NEW r \in Requests, Guard(r)
  PROVE  SlotsExact'
  <1> USE TypeParts
  <1> SUFFICES ASSUME NoLoss' PROVE SlotsExact'
    BY DEF SlotsExact
  <1>1. faults' = faults /\ redis' = redis
    BY DEF Guard, Arrive, IncrStreams, ExpireStreams, UndoIncr, ReleaseStream, bounds, redisVars
  <1>2. /\ redis /\ slots = Cardinality(Holding) /\ Cardinality(Past) <= MaxStreams
        /\ \A q \in Requests : SlotOf(q)
    BY <1>1 DEF SlotsExact, NoLoss
  <1>3. IsFiniteSet(Holding) /\ Cardinality(Holding) \in Nat
    BY FiniteRequests, FS_CardinalityType DEF Holding
  <1>4. \A q \in Requests \ {r} : pc'[q] = pc[q] /\ counted'[q] = counted[q]
    BY DEF Guard, Arrive, IncrStreams, ExpireStreams, UndoIncr, ReleaseStream, redisVars,
           LocalOK, LimitOK
  <1>5. \A q \in Requests \ {r} : SlotOf(q)'
    BY <1>1, <1>2, <1>4 DEF SlotOf
  <1>6. ASSUME slots' = Cardinality(Holding'), Past' \subseteq Past, SlotOf(r)'
        PROVE  SlotsExact'
    BY <1>1, <1>2, <1>5, <1>6, FewerPast DEF SlotsExact
  <1>7. CASE Arrive(r)
    <2>1. slots' = slots /\ Holding' = Holding /\ counted' = counted
      BY <1>7 DEF Arrive, redisVars, Holding
    <2>2. /\ pc[r] = "idle" /\ ~counted[r]
          /\ pc'[r] \in {IF r \in Streams THEN "incr" ELSE "cooldown", "end"}
      BY <1>2, <1>7 DEF Arrive, SlotOf, LocalOK
    <2>3. Past' \subseteq Past
      BY <1>4, <2>2, GatewayAssumption DEF Past, Serving, GuardStages
    <2>4. SlotOf(r)'
      BY <2>1, <2>2 DEF SlotOf, GuardStages
    <2> QED
      BY <1>2, <1>6, <2>1, <2>3, <2>4
  <1>8. CASE IncrStreams(r)
    <2>1. /\ slots' = slots + 1 /\ counted' = [counted EXCEPT ![r] = TRUE]
          /\ pc[r] = "incr" /\ pc'[r] = IF slots' <= MaxStreams THEN "expire" ELSE "expireOver"
      BY <1>2, <1>8 DEF IncrStreams, LocalOK
    <2>2. r \in Streams /\ ~counted[r]
      BY <1>2, <2>1 DEF SlotOf, GuardStages
    <2>3. Holding' = Holding \cup {r} /\ r \notin Holding
      BY <2>1, <2>2 DEF Holding, LimitOK
    <2>4. IsFiniteSet(Holding') /\ Cardinality(Holding') = Cardinality(Holding) + 1
      BY <1>3, <2>3, FS_AddElement
    <2>5. SlotOf(r)'
      BY <1>1, <2>1, <2>2 DEF SlotOf, LimitOK
    <2>6. slots' = Cardinality(Holding')
      BY <1>2, <2>1, <2>4
    <2>7. CASE slots' <= MaxStreams
      <3>1. Past' \subseteq Holding'
        <4> SUFFICES ASSUME NEW q \in Past' PROVE q \in Holding'
          OBVIOUS
        <4>1. q \in Requests /\ q \in Streams /\ pc'[q] \in Serving \cup {"expire"}
          BY GatewayAssumption DEF Past
        <4>2. SlotOf(q)'
          BY <1>5, <2>5, <4>1
        <4> QED
          BY <4>1, <4>2 DEF SlotOf, Holding, Serving, GuardStages
      <3>2. IsFiniteSet(Past') /\ Cardinality(Past') <= Cardinality(Holding')
        BY <2>4, <3>1, FS_Subset
      <3>3. Cardinality(Past') \in Nat /\ Cardinality(Holding') \in Nat
        BY <2>4, <3>2, FS_CardinalityType
      <3>4. Cardinality(Past') <= MaxStreams
        BY <2>6, <2>7, <3>2, <3>3, GatewayAssumption
      <3> QED
        BY <1>1, <1>2, <1>5, <2>5, <2>6, <3>4 DEF SlotsExact
    <2>8. CASE ~(slots' <= MaxStreams)
      <3>1. Past' \subseteq Past
        BY <1>4, <2>1, <2>8, GatewayAssumption DEF Past, Serving, GuardStages
      <3> QED
        BY <1>6, <2>5, <2>6, <3>1
    <2> QED
      BY <2>7, <2>8
  <1>9. CASE ExpireStreams(r)
    <2>1. /\ slots' = slots /\ counted' = counted /\ Holding' = Holding
          /\ pc[r] \in {"expire", "expireOver"}
          /\ pc'[r] = IF pc[r] = "expireOver" THEN "undo" ELSE "cooldown"
      BY <1>2, <1>9 DEF ExpireStreams, LocalOK, Holding
    <2>2. r \in Streams /\ counted[r]
      BY <1>2, <2>1 DEF SlotOf, GuardStages
    <2>3. Past' \subseteq Past
      BY <1>4, <2>1, GatewayAssumption DEF Past, Serving, GuardStages
    <2>4. SlotOf(r)'
      BY <2>1, <2>2 DEF SlotOf
    <2> QED
      BY <1>2, <1>6, <2>1, <2>3, <2>4
  <1>10. ASSUME slots' = slots - 1, counted' = [counted EXCEPT ![r] = FALSE], pc'[r] = "end",
                pc[r] \in {"undo", "release"}
         PROVE  SlotsExact'
    <2>1. r \in Streams /\ counted[r]
      BY <1>2, <1>10 DEF SlotOf, GuardStages
    <2>2. Holding' = Holding \ {r} /\ r \in Holding
      BY <1>10, <2>1 DEF Holding, LimitOK
    <2>3. Cardinality(Holding') = Cardinality(Holding) - 1
      BY <1>3, <2>2, FS_RemoveElement
    <2>4. Past' \subseteq Past
      BY <1>4, <1>10, GatewayAssumption DEF Past, Serving, GuardStages
    <2>5. SlotOf(r)'
      BY <1>10, <2>1 DEF SlotOf, LimitOK
    <2> QED
      BY <1>2, <1>6, <1>10, <2>3, <2>4, <2>5
  <1>11. CASE UndoIncr(r)
    BY <1>2, <1>10, <1>11 DEF UndoIncr, LocalOK
  <1>12. CASE ReleaseStream(r)
    <2>1. CASE r \in Queried
      <3>1. /\ slots' = slots /\ counted' = counted /\ Holding' = Holding
            /\ pc[r] = "release" /\ pc'[r] = "end"
        BY <1>12, <2>1 DEF ReleaseStream, LocalOK, Holding
      <3>2. Past' \subseteq Past
        BY <1>4, <3>1, GatewayAssumption DEF Past, Serving, GuardStages
      <3>3. SlotOf(r)'
        BY <1>2, <2>1, <3>1, GatewayAssumption DEF SlotOf, GuardStages
      <3> QED
        BY <1>2, <1>6, <3>1, <3>2, <3>3
    <2>2. CASE r \notin Queried
      BY <1>2, <1>10, <1>12, <2>2 DEF ReleaseStream, LocalOK
    <2> QED
      BY <2>1, <2>2
  <1> QED
    BY <1>7, <1>8, <1>9, <1>11, <1>12 DEF Guard

LEMMA EnvironmentExact ==
  ASSUME TypeOK, SlotsExact, Environment \/ UNCHANGED vars
  PROVE  SlotsExact'
  <1> SUFFICES ASSUME NoLoss' PROVE SlotsExact'
    BY DEF SlotsExact
  <1>1. faults \subseteq faults'
    BY DEF Environment, CircuitCools, RedisGoes, RedisReturns, SlotsExpire, CooldownExpires,
           CacheExpires, Crash, Fault, bounds, vars
  <1>2. /\ redis /\ slots = Cardinality(Holding) /\ Cardinality(Past) <= MaxStreams
        /\ \A q \in Requests : SlotOf(q)
    BY <1>1 DEF SlotsExact, NoLoss
  <1>3. CASE Crash
    <2>1. /\ UNCHANGED <<redis, slots, counted>> /\ "crash" \in faults'
          /\ \A q \in Requests : pc'[q] = IF pc[q] = "idle" THEN "idle" ELSE "end"
      BY <1>3 DEF Crash, Fault, redisVars
    <2>2. Holding' = Holding
      BY <2>1 DEF Holding
    <2>3. Past' \subseteq Past
      BY <2>1, GatewayAssumption DEF Past, Serving, GuardStages
    <2>4. \A q \in Requests : SlotOf(q)'
      BY <1>2, <2>1 DEF SlotOf, GuardStages
    <2> QED
      BY <1>2, <2>1, <2>2, <2>3, <2>4, FewerPast DEF SlotsExact
  <1>4. CASE ~Crash
    <2>1. ~RedisGoes /\ ~SlotsExpire
      BY DEF RedisGoes, SlotsExpire, Fault, NoLoss
    <2>2. UNCHANGED <<pc, redis, slots, counted>>
      BY <1>2, <1>4, <2>1 DEF Environment, CircuitCools, RedisReturns, CooldownExpires,
                              CacheExpires, redisVars, vars
    <2>3. Holding' = Holding /\ Past' = Past
      BY <2>2 DEF Holding, Past
    <2>4. \A q \in Requests : SlotOf(q)'
      BY <1>1, <1>2, <2>2 DEF SlotOf
    <2> QED
      BY <1>2, <2>2, <2>3, <2>4 DEF SlotsExact
  <1> QED
    BY <1>3, <1>4

\* StreamSlots is an invariant of Spec, for every limit and number of streams.
THEOREM StreamsAreCounted == Spec => []StreamSlots
  <1>1. Init => SlotsExact
    <2> SUFFICES ASSUME Init PROVE SlotsExact
      OBVIOUS
    <2>1. Holding = {}
      BY DEF Init, Holding
    <2>2. Past = {}
      BY GatewayAssumption DEF Init, Past, Serving, GuardStages
    <2>3. Cardinality(Holding) = 0 /\ Cardinality(Past) <= MaxStreams
      BY <2>1, <2>2, FS_EmptySet, GatewayAssumption
    <2>4. \A r \in Requests : SlotOf(r)
      BY DEF Init, SlotOf, GuardStages
    <2> QED
      BY <2>3, <2>4 DEF Init, SlotsExact
  <1>2. TypeOK /\ SlotsExact /\ [Next]_vars => SlotsExact'
    BY StepSplit, ServeExact, GuardExact, EnvironmentExact DEF Next
  <1>3. TypeOK /\ SlotsExact => StreamSlots
    <2> SUFFICES ASSUME TypeOK, SlotsExact, NoLoss
                 PROVE  /\ slots = Cardinality({r \in Requests : counted[r]})
                        /\ Cardinality(OpenStreams) <= MaxStreams
                        /\ "crash" \notin faults =>
                             \A r \in Requests \ Queried : pc[r] = "end" => ~counted[r]
      BY DEF StreamSlots, NoLoss
    <2>1. /\ slots = Cardinality(Holding) /\ Cardinality(Past) <= MaxStreams
          /\ \A r \in Requests : SlotOf(r)
      BY DEF SlotsExact
    <2>2. OpenStreams \subseteq Past
      BY TypeParts, GatewayAssumption DEF OpenStreams, Past, Serving, GuardStages, LocalOK
    <2>3. IsFiniteSet(Past)
      BY FiniteRequests, GatewayAssumption DEF Past
    <2>4. IsFiniteSet(OpenStreams) /\ Cardinality(OpenStreams) <= Cardinality(Past)
      BY <2>2, <2>3, FS_Subset
    <2>5. Cardinality(OpenStreams) <= MaxStreams
      BY <2>1, <2>3, <2>4, FS_CardinalityType, GatewayAssumption
    <2> QED
      BY <2>1, <2>5 DEF Holding, SlotOf
  <1> QED
    BY <1>1, <1>2, <1>3, TypeCorrect, PTL DEF Spec

-----------------------------------------------------------------------------
(* The exact cache has the reply before its client has it *)

Intact == faults \cap {"outage", "cacheExpired"} = {}

\* The write of the exact cache is behind the request.
Saved == StoreStages \ {"saveExact"}
InCache(r) == exact[KeyOf[r]] # None
SavedIsInCache == Intact => redis /\ \A r \in Requests : pc[r] \in Saved => InCache(r)

\* A reply is in the hands of those that store it or have ended: a hit and a
\* joined request are answered with a reply of someone else's.
HandStages == StoreStages \cup {"release", "end"}
EmptyHands == \A r \in Requests : pc[r] \notin HandStages => reply[r] = None

LEMMA HandSets ==
  /\ StoreStages \subseteq HandStages
  /\ {"release", "end"} \subseteq HandStages
  /\ (GuardStages \cup {"cooldown", "exact", "text", "dropText", "embed", "knn", "dropKnn",
                        "joined", "call", "cool"})
       \cap HandStages = {}
  /\ \A r : AfterAnswer(r) \in HandStages
  BY DEF HandStages, StoreStages, GuardStages, AfterAnswer

\* A step of r moves and answers nobody but r and those that joined its flight.
LEMMA OthersStay ==
  ASSUME TypeOK, NEW r \in Requests, Arrive(r) \/ Step(r), NEW q \in Requests \ {r},
         pc[q] # "joined"
  PROVE  pc'[q] = pc[q] /\ answer'[q] = answer[q]
  <1> USE TypeParts DEF LocalOK
  <1>1. ASSUME NEW a, NEW found, Settle(r, a, found)
        PROVE  pc'[q] = pc[q] /\ answer'[q] = answer[q]
    BY <1>1 DEF Settle, Sharing
  <1>2. CASE Guard(r)
    BY <1>2 DEF Guard, Arrive, IncrStreams, ExpireStreams, UndoIncr, ReleaseStream
  <1>3. CASE \/ Prepare(r) \/ LookupExact(r) \/ LookupText(r) \/ LookupTextFails(r)
             \/ LookupEmbed(r) \/ LookupKnn(r) \/ DropCorrupt(r)
    BY <1>3 DEF Prepare, LookupExact, LookupText, LookupTextFails, LookupEmbed, LookupKnn,
                DropCorrupt, Hit, Leave, EmbedOrMiss, Miss
  <1>4. CASE ProviderReplies(r)
    BY <1>1, <1>4 DEF ProviderReplies
  <1>5. CASE ProviderFails(r) \/ SetCooldown(r)
    BY <1>1, <1>5 DEF ProviderFails, Exhausted, SetCooldown
  <1>6. CASE SaveExact(r) \/ SaveEmbed(r)
    BY <1>1, <1>6 DEF SaveExact, SaveEmbed, Done
  <1>7. CASE UpsertClaim(r) \/ UpsertFill(r) \/ UpsertCheck(r) \/ UpsertHeal(r)
    BY <1>1, <1>7 DEF UpsertClaim, UpsertFill, UpsertCheck, UpsertHeal, Upsert, Claim, Fill,
                      Check, Done
  <1> QED
    BY <1>2, <1>3, <1>4, <1>5, <1>6, <1>7, StepSplit DEF Serve

\* The own step of a request fills its hands only on its way to the writes or out.
LEMMA OwnHands ==
  ASSUME TypeOK, NEW r \in Requests, Arrive(r) \/ Step(r), pc'[r] \notin HandStages
  PROVE  pc[r] \notin HandStages /\ reply'[r] = reply[r]
  <1> USE TypeParts, HandSets DEF LocalOK
  <1>1. ASSUME NEW a, NEW found, Settle(r, a, found) PROVE FALSE
    BY <1>1 DEF Settle, Sharing
  <1>2. CASE Guard(r)
    BY <1>2 DEF Guard, Arrive, IncrStreams, ExpireStreams, UndoIncr, ReleaseStream, GuardStages
  <1>3. CASE \/ Prepare(r) \/ LookupExact(r) \/ LookupText(r) \/ LookupTextFails(r)
             \/ LookupEmbed(r) \/ LookupKnn(r) \/ DropCorrupt(r)
    BY <1>3 DEF Prepare, LookupExact, LookupText, LookupTextFails, LookupEmbed, LookupKnn,
                DropCorrupt
  <1>4. CASE ProviderReplies(r)
    BY <1>1, <1>4 DEF ProviderReplies, StoreStages
  <1>5. CASE ProviderFails(r) \/ SetCooldown(r)
    BY <1>1, <1>5 DEF ProviderFails, Exhausted, SetCooldown
  <1>6. CASE SaveExact(r) \/ SaveEmbed(r)
    BY <1>1, <1>6 DEF SaveExact, SaveEmbed, Done, StoreStages
  <1>7. CASE UpsertClaim(r) \/ UpsertFill(r) \/ UpsertCheck(r) \/ UpsertHeal(r)
    BY <1>1, <1>7 DEF UpsertClaim, UpsertFill, UpsertCheck, UpsertHeal, Upsert, Claim, Fill,
                      Check, Done, StoreStages
  <1> QED
    BY <1>2, <1>3, <1>4, <1>5, <1>6, <1>7, StepSplit DEF Serve

LEMMA EnvironmentFaults ==
  ASSUME Environment \/ UNCHANGED vars
  PROVE  /\ faults \subseteq faults'
         /\ Intact' => (redis => redis') /\ UNCHANGED exact
         /\ ~Crash => UNCHANGED <<pc, reply, answer>>
  BY DEF Environment, CircuitCools, RedisGoes, RedisReturns, SlotsExpire, CooldownExpires,
         CacheExpires, Crash, Fault, Intact, bounds, redisVars, vars

LEMMA HandsStep ==
  ASSUME TypeOK, EmptyHands, [Next]_vars
  PROVE  EmptyHands'
  <1> SUFFICES ASSUME NEW q \in Requests, pc'[q] \notin HandStages
               PROVE  reply'[q] = None
    BY DEF EmptyHands
  <1>1. ASSUME NEW r \in Requests, Arrive(r) \/ Step(r) PROVE reply'[q] = None
    <2>1. CASE q = r
      BY <1>1, <2>1, OwnHands DEF EmptyHands
    <2>2. CASE q # r
      <3>1. pc[q] \notin HandStages
        BY <1>1, <2>2, OthersStay, HandSets
      <3> QED
        BY <1>1, <2>2, <3>1, RepliesStay DEF EmptyHands
    <2> QED
      BY <2>1, <2>2
  <1>2. CASE Environment \/ UNCHANGED vars
    <2>1. CASE Crash
      BY <2>1 DEF Crash
    <2>2. CASE ~Crash
      BY <1>2, <2>2, EnvironmentFaults DEF EmptyHands
    <2> QED
      BY <2>1, <2>2
  <1> QED
    BY <1>1, <1>2 DEF Next

\* What the steps of a request do to the exact cache, to Redis and to the faults.
LEMMA StepCache ==
  ASSUME TypeOK, NEW r \in Requests, Arrive(r) \/ Step(r)
  PROVE  /\ redis' = redis
         /\ Intact <=> Intact'
         /\ \A k \in Keys : exact[k] # None => exact'[k] = exact[k]
         /\ ~SaveExact(r) => exact' = exact
  <1> USE TypeParts DEF CacheOK
  <1>1. CASE Guard(r)
    BY <1>1 DEF Guard, Arrive, IncrStreams, ExpireStreams, UndoIncr, ReleaseStream, Intact,
                redisVars, bounds
  <1>2. CASE \/ Prepare(r) \/ LookupExact(r) \/ LookupText(r) \/ LookupTextFails(r)
             \/ LookupEmbed(r) \/ LookupKnn(r) \/ DropCorrupt(r)
    BY <1>2 DEF Prepare, LookupExact, LookupText, LookupTextFails, LookupEmbed, LookupKnn,
                DropCorrupt, Fault, Intact, redisVars, bounds
  <1>3. CASE ProviderReplies(r) \/ ProviderFails(r) \/ SetCooldown(r) \/ SaveEmbed(r)
    BY <1>3 DEF ProviderReplies, ProviderFails, SetCooldown, SaveEmbed, Intact, redisVars,
                bounds
  <1>4. CASE SaveExact(r)
    BY <1>4, KeyOfType DEF SaveExact, Intact, bounds
  <1>5. CASE UpsertClaim(r) \/ UpsertFill(r) \/ UpsertCheck(r) \/ UpsertHeal(r)
    BY <1>5 DEF UpsertClaim, UpsertFill, UpsertCheck, UpsertHeal, Upsert, Intact, bounds
  <1> QED
    BY <1>1, <1>2, <1>3, <1>4, <1>5, StepSplit DEF Serve

LEMMA SaveExactWrites ==
  ASSUME TypeOK, HoldsStorable, NEW r \in Requests, SaveExact(r), redis
  PROVE  InCache(r)'
  <1>1. reply[r] # None
    BY DEF SaveExact, HoldsStorable, StoreStages
  <1> QED
    BY <1>1, TypeParts, KeyOfType DEF SaveExact, CacheOK, InCache

\* A request gets behind the write by the write alone.
LEMMA SaverCame ==
  ASSUME TypeOK, NEW r \in Requests, Arrive(r) \/ Step(r), pc'[r] \in Saved
  PROVE  pc[r] \in Saved \/ SaveExact(r)
  <1> USE TypeParts DEF LocalOK
  <1>0. Saved = {"saveEmbed", "claim", "fill", "check", "heal"}
    BY DEF Saved, StoreStages
  <1>1. ASSUME NEW a, NEW found, Settle(r, a, found) PROVE FALSE
    BY <1>0, <1>1 DEF Settle, Sharing, AfterAnswer
  <1>2. CASE Guard(r)
    BY <1>0, <1>2, GuardKinds DEF GuardMove, GuardStages
  <1>3. CASE \/ Prepare(r) \/ LookupExact(r) \/ LookupText(r) \/ LookupTextFails(r)
             \/ LookupEmbed(r) \/ LookupKnn(r) \/ DropCorrupt(r)
    BY <1>0, <1>3 DEF Prepare, LookupExact, LookupText, LookupTextFails, LookupEmbed, LookupKnn,
                      DropCorrupt, Hit, Leave, EmbedOrMiss, Miss, AfterAnswer
  <1>4. CASE ProviderReplies(r)
    BY <1>0, <1>1, <1>4 DEF ProviderReplies
  <1>5. CASE ProviderFails(r) \/ SetCooldown(r)
    BY <1>0, <1>1, <1>5 DEF ProviderFails, Exhausted, SetCooldown
  <1>6. CASE SaveEmbed(r)
    BY <1>0, <1>6 DEF SaveEmbed
  <1>7. CASE UpsertClaim(r) \/ UpsertFill(r) \/ UpsertCheck(r) \/ UpsertHeal(r)
    BY <1>0, <1>7 DEF UpsertClaim, UpsertFill, UpsertCheck, UpsertHeal, Upsert
  <1> QED
    BY <1>2, <1>3, <1>4, <1>5, <1>6, <1>7, StepSplit DEF Serve

LEMMA SavedStep ==
  ASSUME TypeOK, HoldsStorable, SavedIsInCache, [Next]_vars
  PROVE  SavedIsInCache'
  <1> SUFFICES ASSUME Intact'
               PROVE  redis' /\ \A q \in Requests : pc'[q] \in Saved => InCache(q)'
    BY DEF SavedIsInCache
  <1>1. ASSUME NEW r \in Requests, Arrive(r) \/ Step(r), NEW q \in Requests
        PROVE  redis' /\ (pc'[q] \in Saved => InCache(q)')
    <2>0. Intact /\ redis' = redis
      BY <1>1, StepCache
    <2>1. redis /\ redis' /\ (pc[q] \in Saved => InCache(q))
      BY <2>0 DEF SavedIsInCache
    <2>2. InCache(q) => InCache(q)'
      BY <1>1, StepCache, KeyOfType DEF InCache
    <2>3. ASSUME pc'[q] \in Saved, q # r PROVE pc[q] \in Saved
      BY <1>1, <2>3, StorersStay DEF Saved
    <2>4. ASSUME pc'[q] \in Saved, q = r PROVE pc[q] \in Saved \/ InCache(q)'
      BY <1>1, <2>1, <2>4, SaverCame, SaveExactWrites
    <2> QED
      BY <2>1, <2>2, <2>3, <2>4
  <1>2. CASE Environment \/ UNCHANGED vars
    <2>1. redis /\ redis' /\ exact' = exact
          /\ \A q \in Requests : pc[q] \in Saved => InCache(q)
      BY <1>2, EnvironmentFaults DEF Intact, SavedIsInCache
    <2>2. \A q \in Requests : pc'[q] \in Saved => pc[q] = pc'[q]
      BY <1>2, EnvironmentFaults DEF Crash, Saved, StoreStages
    <2> QED
      BY <2>1, <2>2 DEF InCache
  <1>3. ASSUME NEW r \in Requests, Arrive(r) \/ Step(r) PROVE redis'
    <2>1. Intact /\ redis' = redis
      BY <1>3, StepCache
    <2> QED
      BY <2>1 DEF SavedIsInCache
  <1> QED
    BY <1>1, <1>2, <1>3 DEF Next

\* A JSON request answered by its own step with a storable reply has stored it.
LEMMA OwnAnswer ==
  ASSUME TypeOK, HoldsStorable, EmptyHands, SavedIsInCache, Intact,
         NEW r \in Requests, MayCoalesce(r), Arrive(r) \/ Step(r),
         answer[r] = "none", answer'[r] = "reply", reply'[r] # None,
         reply'[r].via = "primary", reply'[r].full
  PROVE  InCache(r)'
  <1> USE TypeParts DEF LocalOK
  <1>0. redis /\ (pc[r] \in Saved => InCache(r)) /\ r \notin Streams /\ r \notin Tooling
    BY DEF SavedIsInCache, MayCoalesce
  <1>1. ASSUME pc[r] \notin HandStages, reply' = reply PROVE FALSE
    BY <1>1 DEF EmptyHands
  <1>2. ASSUME NEW a, NEW found, Settle(r, a, found)
        PROVE  answer'[r] = a /\ reply'[r] = found
    BY <1>2 DEF Settle, Sharing
  <1>3. CASE Guard(r)
    BY <1>3 DEF Guard, Arrive, IncrStreams, ExpireStreams, UndoIncr, ReleaseStream
  <1>4. CASE \/ Prepare(r) \/ LookupExact(r) \/ LookupText(r) \/ LookupTextFails(r)
             \/ LookupEmbed(r) \/ LookupKnn(r) \/ DropCorrupt(r)
    BY <1>1, <1>4, HandSets DEF Prepare, LookupExact, LookupText, LookupTextFails,
                                LookupEmbed, LookupKnn, DropCorrupt
  <1>5. CASE ProviderReplies(r)
    <2>1. PICK full \in BOOLEAN :
            LET new == [by |-> r, via |-> call[r].via, full |-> full]
            IN IF Storable(r, new)
                 THEN answer' = IF r \in Streams THEN [answer EXCEPT ![r] = "reply"]
                                                 ELSE answer
                 ELSE Settle(r, "reply", new)
      BY <1>5 DEF ProviderReplies
    <2> DEFINE new == [by |-> r, via |-> call[r].via, full |-> full]
    <2>2. ~Storable(r, new) /\ reply'[r] = new
      BY <1>0, <1>2, <2>1
    <2> HIDE DEF new
    <2> QED
      BY <1>0, <2>2, Zenon DEF Storable
  <1>6. CASE ProviderFails(r) \/ SetCooldown(r)
    BY <1>2, <1>6 DEF ProviderFails, Exhausted, SetCooldown
  <1>7. CASE SaveExact(r)
    BY <1>0, <1>7, SaveExactWrites
  <1>8. CASE SaveEmbed(r)
    BY <1>0, <1>8 DEF SaveEmbed, Saved, StoreStages, InCache, redisVars
  <1>9. CASE UpsertClaim(r) \/ UpsertFill(r) \/ UpsertCheck(r) \/ UpsertHeal(r)
    BY <1>0, <1>9 DEF UpsertClaim, UpsertFill, UpsertCheck, UpsertHeal, Upsert, Saved,
                      StoreStages, InCache
  <1> QED
    BY <1>3, <1>4, <1>5, <1>6, <1>7, <1>8, <1>9, StepSplit DEF Serve

\* AnswerAfterStore holds of every behaviour of Spec: nobody answers a request
\* that stores before its write is done (chat.service.ts:340), and whoever is
\* answered from a cache or by the flight it joined has no reply of its own.
THEOREM StoredBeforeAnswered == Spec => AnswerAfterStore
  <1>1. Init => HoldsStorable /\ EmptyHands /\ SavedIsInCache
    BY DEF Init, HoldsStorable, EmptyHands, SavedIsInCache, Saved, StoreStages
  <1>2. TypeOK /\ HoldsStorable /\ EmptyHands /\ SavedIsInCache /\ [Next]_vars
          => HoldsStorable' /\ EmptyHands' /\ SavedIsInCache'
    BY HoldStep, HandsStep, SavedStep
  <1>3. ASSUME TypeOK, HoldsStorable, EmptyHands, SavedIsInCache, [Next]_vars,
               NEW q \in Requests, MayCoalesce(q), answer[q] = "none", answer'[q] = "reply",
               reply'[q] # None, reply'[q].via = "primary", reply'[q].full, Intact
        PROVE  exact'[KeyOf[q]] # None
    <2>1. ASSUME NEW r \in Requests, Arrive(r) \/ Step(r) PROVE InCache(q)'
      <3>1. CASE q = r
        BY <1>3, <2>1, <3>1, OwnAnswer
      <3>2. CASE q # r
        <4>1. pc[q] = "joined"
          BY <1>3, <2>1, <3>2, OthersStay
        <4>2. reply[q] = None
          BY <1>3, <4>1, HandSets DEF EmptyHands
        <4> QED
          BY <1>3, <2>1, <3>2, <4>2, RepliesStay
      <3> QED
        BY <3>1, <3>2
    <2>2. CASE Environment \/ UNCHANGED vars
      BY <1>3, <2>2, EnvironmentFaults, TypeParts DEF Crash, LocalOK
    <2> QED
      BY <1>3, <2>1, <2>2 DEF Next, InCache
  <1>4. TypeOK /\ HoldsStorable /\ EmptyHands /\ SavedIsInCache /\ [Next]_vars =>
          [\A r \in Requests :
             /\ MayCoalesce(r) /\ answer[r] = "none" /\ answer'[r] = "reply"
             /\ reply'[r] # None /\ reply'[r].via = "primary" /\ reply'[r].full
             /\ faults \cap {"outage", "cacheExpired"} = {}
             => exact'[KeyOf[r]] # None]_vars
    BY <1>3 DEF Intact
  <1> QED
    BY <1>1, <1>2, <1>4, TypeCorrect, PTL DEF Spec, AnswerAfterStore
-----------------------------------------------------------------------------
(* Every request comes nearer to its end *)

\* How far a stage is from the end of a request: one step at least for each
\* stage in between, and one for each attempt the provider still has.
Lookup == [idle |-> 12, incr |-> 11, expire |-> 10, expireOver |-> 10, undo |-> 9,
           cooldown |-> 8, exact |-> 7, text |-> 6, dropText |-> 5, embed |-> 4,
           knn |-> 3, dropKnn |-> 2]
Answering == [saveExact |-> 6, saveEmbed |-> 5, claim |-> 4, fill |-> 3, check |-> 3,
              heal |-> 2, cool |-> 2, joined |-> 2, release |-> 1, end |-> 0]
Tries(c) ==
  MaxAttempts - c.attempt + (IF c.via = "primary" THEN MaxAttempts ELSE 0)
Way(stage, c) ==
  IF stage \in DOMAIN Lookup THEN 6 + 2 * MaxAttempts + Lookup[stage]
  ELSE IF stage = "call" THEN 7 + Tries(c)
  ELSE Answering[stage]
Distance(r) == Way(pc[r], call[r])

LEMMA TriesLeft ==
  ASSUME NEW c \in Call
  PROVE  Tries(c) \in 0..(2 * MaxAttempts - 1)
  <1>1. c.attempt \in 1..MaxAttempts /\ MaxAttempts \in Nat \ {0}
    BY GatewayAssumption DEF Call
  <1> QED
    BY <1>1 DEF Tries

\* The distance of each stage.
LEMMA Ways ==
  ASSUME NEW c \in Call
  PROVE  /\ Way("idle", c) = 18 + 2 * MaxAttempts
         /\ Way("incr", c) = 17 + 2 * MaxAttempts
         /\ Way("expire", c) = 16 + 2 * MaxAttempts
         /\ Way("expireOver", c) = 16 + 2 * MaxAttempts
         /\ Way("undo", c) = 15 + 2 * MaxAttempts
         /\ Way("cooldown", c) = 14 + 2 * MaxAttempts
         /\ Way("exact", c) = 13 + 2 * MaxAttempts
         /\ Way("text", c) = 12 + 2 * MaxAttempts
         /\ Way("dropText", c) = 11 + 2 * MaxAttempts
         /\ Way("embed", c) = 10 + 2 * MaxAttempts
         /\ Way("knn", c) = 9 + 2 * MaxAttempts
         /\ Way("dropKnn", c) = 8 + 2 * MaxAttempts
         /\ Way("call", c) = 7 + Tries(c)
         /\ Way("saveExact", c) = 6 /\ Way("saveEmbed", c) = 5
         /\ Way("claim", c) = 4 /\ Way("fill", c) = 3 /\ Way("check", c) = 3
         /\ Way("heal", c) = 2 /\ Way("cool", c) = 2 /\ Way("joined", c) = 2
         /\ Way("release", c) = 1 /\ Way("end", c) = 0
  <1>1. DOMAIN Lookup = {"idle", "incr", "expire", "expireOver", "undo", "cooldown",
                         "exact", "text", "dropText", "embed", "knn", "dropKnn"}
    BY DEF Lookup
  <1>2. MaxAttempts \in Nat
    BY GatewayAssumption
  <1>3. /\ Way("idle", c) = 18 + 2 * MaxAttempts
        /\ Way("incr", c) = 17 + 2 * MaxAttempts
        /\ Way("expire", c) = 16 + 2 * MaxAttempts
        /\ Way("expireOver", c) = 16 + 2 * MaxAttempts
        /\ Way("undo", c) = 15 + 2 * MaxAttempts
    BY <1>1, <1>2 DEF Way, Lookup
  <1>4. /\ Way("cooldown", c) = 14 + 2 * MaxAttempts
        /\ Way("exact", c) = 13 + 2 * MaxAttempts
        /\ Way("text", c) = 12 + 2 * MaxAttempts
        /\ Way("dropText", c) = 11 + 2 * MaxAttempts
        /\ Way("embed", c) = 10 + 2 * MaxAttempts
        /\ Way("knn", c) = 9 + 2 * MaxAttempts
        /\ Way("dropKnn", c) = 8 + 2 * MaxAttempts
    BY <1>1, <1>2 DEF Way, Lookup
  <1>5. Way("call", c) = 7 + Tries(c)
    BY <1>1 DEF Way
  <1>6. /\ Way("saveExact", c) = 6 /\ Way("saveEmbed", c) = 5
        /\ Way("claim", c) = 4 /\ Way("fill", c) = 3 /\ Way("check", c) = 3
    BY <1>1 DEF Way, Answering
  <1>7. /\ Way("heal", c) = 2 /\ Way("cool", c) = 2 /\ Way("joined", c) = 2
        /\ Way("release", c) = 1 /\ Way("end", c) = 0
    BY <1>1 DEF Way, Answering
  <1> QED
    BY <1>3, <1>4, <1>5, <1>6, <1>7

\* A number of steps bounds every distance, and only the end has none left.
LEMMA WayBounds ==
  ASSUME NEW stage \in Stages, NEW c \in Call
  PROVE  /\ Way(stage, c) \in 0..(18 + 2 * MaxAttempts)
         /\ Way(stage, c) = 0 <=> stage = "end"
  <1>1. MaxAttempts \in Nat /\ Tries(c) \in 0..(2 * MaxAttempts - 1)
    BY TriesLeft, GatewayAssumption
  <1>2. stage \in {"idle", "incr", "expire", "expireOver", "undo", "cooldown", "exact",
                   "text", "dropText", "embed", "knn", "dropKnn", "joined", "call", "cool",
                   "release", "end",
                   "saveExact", "saveEmbed", "claim", "fill", "check", "heal"}
    BY DEF Stages, StoreStages
  <1> QED
    BY <1>1, <1>2, Ways

LEMMA DistanceBounds ==
  ASSUME TypeOK, TypeOK', NEW r \in Requests
  PROVE  /\ Distance(r) \in 0..(18 + 2 * MaxAttempts)
         /\ Distance(r)' \in 0..(18 + 2 * MaxAttempts)
         /\ Distance(r) = 0 <=> pc[r] = "end"
  <1>1. /\ pc[r] \in Stages /\ call[r] \in Call
        /\ pc'[r] \in Stages /\ call'[r] \in Call
    BY TypeParts DEF LocalOK
  <1> QED
    BY <1>1, WayBounds DEF Distance

\* A failed attempt leaves one try less; the hop to the fallback leaves its tries.
LEMMA TriesDrop ==
  ASSUME NEW c \in Call
  PROVE  /\ c.attempt < MaxAttempts => Tries([c EXCEPT !.attempt = @ + 1]) < Tries(c)
         /\ c.via = "primary" => \A limited \in BOOLEAN :
              Tries([via |-> "fallback", attempt |-> 1, limited |-> limited]) < Tries(c)
  <1>1. c.attempt \in 1..MaxAttempts /\ MaxAttempts \in Nat \ {0}
    BY GatewayAssumption DEF Call
  <1>2. /\ [c EXCEPT !.attempt = @ + 1].attempt = c.attempt + 1
        /\ [c EXCEPT !.attempt = @ + 1].via = c.via
    BY DEF Call
  <1>3. c.attempt < MaxAttempts => Tries([c EXCEPT !.attempt = @ + 1]) < Tries(c)
    BY <1>1, <1>2 DEF Tries
  <1>4. ASSUME c.via = "primary", NEW limited \in BOOLEAN
        PROVE  Tries([via |-> "fallback", attempt |-> 1, limited |-> limited]) < Tries(c)
    BY <1>1, <1>4 DEF Tries
  <1> QED
    BY <1>3, <1>4

\* The own step of a request brings it nearer.
LEMMA OwnWay ==
  ASSUME TypeOK, TypeOK', NEW r \in Requests, Arrive(r) \/ Step(r)
  PROVE  Distance(r)' < Distance(r)
  <1>0. LocalOK /\ LocalOK'
    BY TypeParts
  <1>1. /\ call[r] \in Call /\ call'[r] \in Call /\ MaxAttempts \in Nat \ {0}
        /\ Tries(call[r]) \in 0..(2 * MaxAttempts - 1)
        /\ Tries(call'[r]) \in 0..(2 * MaxAttempts - 1)
    BY <1>0, TriesLeft, GatewayAssumption DEF LocalOK
  <1>2. pc \in [Requests -> Stages] /\ call \in [Requests -> Call]
    BY <1>0 DEF LocalOK
  <1>3. Distance(r) = Way(pc[r], call[r]) /\ Distance(r)' = Way(pc'[r], call'[r])
    BY DEF Distance
  <1>4. AfterAnswer(r) \in {"release", "end"}
    BY DEF AfterAnswer
  <1>5. ASSUME NEW a, Leave(r, a) PROVE pc'[r] \in {"release", "end"}
    BY <1>2, <1>4, <1>5 DEF Leave
  <1>6. ASSUME NEW a, NEW found, Settle(r, a, found) PROVE pc'[r] \in {"release", "end"}
    BY <1>2, <1>4, <1>6 DEF Settle, Sharing
  <1>7. ASSUME Miss(r) PROVE pc'[r] \in {"joined", "call"}
    BY <1>2, <1>7 DEF Miss
  <1>8. CASE Arrive(r)
    <2>1. pc[r] = "idle" /\ pc'[r] \in {"incr", "cooldown", "end"}
      BY <1>2, <1>8 DEF Arrive
    <2> QED
      BY <1>1, <1>3, <2>1, Ways
  <1>9. CASE IncrStreams(r)
    <2>1. pc[r] = "incr" /\ pc'[r] \in {"expire", "expireOver", "cooldown"}
      BY <1>2, <1>9 DEF IncrStreams
    <2> QED
      BY <1>1, <1>3, <2>1, Ways
  <1>10. CASE ExpireStreams(r)
    <2>1. pc[r] \in {"expire", "expireOver"} /\ pc'[r] \in {"undo", "cooldown"}
      BY <1>2, <1>10 DEF ExpireStreams
    <2> QED
      BY <1>1, <1>3, <2>1, Ways
  <1>11. CASE UndoIncr(r)
    <2>1. pc[r] = "undo" /\ pc'[r] \in {"cooldown", "end"}
      BY <1>2, <1>11 DEF UndoIncr
    <2> QED
      BY <1>1, <1>3, <2>1, Ways
  <1>12. CASE Prepare(r)
    <2>1. pc[r] = "cooldown" /\ pc'[r] \in {"call", "exact", "release", "end"}
      BY <1>2, <1>5, <1>12 DEF Prepare
    <2> QED
      BY <1>1, <1>3, <2>1, Ways
  <1>13. CASE LookupExact(r)
    <2>1. pc[r] = "exact" /\ pc'[r] \in {"text", "release", "end"}
      BY <1>2, <1>5, <1>13 DEF LookupExact, Hit
    <2> QED
      BY <1>1, <1>3, <2>1, Ways
  <1>14. CASE LookupText(r) \/ LookupTextFails(r)
    <2>1. pc[r] = "text" /\ pc'[r] \in {"dropText", "embed", "call", "joined", "release", "end"}
      BY <1>2, <1>5, <1>7, <1>14 DEF LookupText, LookupTextFails, Hit, EmbedOrMiss
    <2> QED
      BY <1>1, <1>3, <2>1, Ways
  <1>15. CASE LookupEmbed(r)
    <2>1. pc[r] = "embed" /\ pc'[r] \in {"knn", "call", "joined"}
      BY <1>2, <1>7, <1>15 DEF LookupEmbed
    <2> QED
      BY <1>1, <1>3, <2>1, Ways
  <1>16. CASE LookupKnn(r)
    <2>1. pc[r] = "knn" /\ pc'[r] \in {"dropKnn", "call", "joined", "release", "end"}
      BY <1>2, <1>5, <1>7, <1>16 DEF LookupKnn, Hit
    <2> QED
      BY <1>1, <1>3, <2>1, Ways
  <1>26. CASE DropCorrupt(r)
    <2>1. CASE pc[r] = "dropText"
      <3>1. pc'[r] \in {"embed", "call", "joined"}
        BY <1>2, <1>7, <1>26, <2>1 DEF DropCorrupt, EmbedOrMiss
      <3> QED
        BY <1>1, <1>3, <2>1, <3>1, Ways
    <2>2. CASE pc[r] = "dropKnn"
      <3>1. pc'[r] \in {"call", "joined"}
        BY <1>2, <1>7, <1>26, <2>2 DEF DropCorrupt
      <3> QED
        BY <1>1, <1>3, <2>2, <3>1, Ways
    <2> QED
      BY <1>26, <2>1, <2>2 DEF DropCorrupt
  <1>17. CASE ProviderReplies(r)
    <2>1. pc[r] = "call" /\ pc'[r] \in {"saveExact", "release", "end"}
      BY <1>2, <1>6, <1>17 DEF ProviderReplies
    <2> QED
      BY <1>1, <1>3, <2>1, Ways
  <1>18. CASE ProviderFails(r)
    <2>0. pc[r] = "call"
      BY <1>18 DEF ProviderFails
    <2>1. \/ /\ pc' = pc /\ call[r].attempt < MaxAttempts
             /\ call' = [call EXCEPT ![r].attempt = @ + 1]
          \/ /\ pc' = pc /\ call[r].via = "primary"
             /\ \E limited \in BOOLEAN : call' = [call EXCEPT ![r] =
                  [via |-> "fallback", attempt |-> 1, limited |-> limited]]
          \/ pc'[r] \in {"cool", "release", "end"}
      BY <1>2, <1>6, <1>18 DEF ProviderFails, Exhausted, HasFallback
    <2>2. CASE pc' = pc /\ call[r].attempt < MaxAttempts
               /\ call' = [call EXCEPT ![r].attempt = @ + 1]
      <3>1. call'[r] = [call[r] EXCEPT !.attempt = @ + 1]
        BY <1>2, <2>2
      <3>2. Tries(call'[r]) < Tries(call[r])
        BY <1>1, <2>2, <3>1, TriesDrop
      <3> QED
        BY <1>1, <1>3, <2>0, <2>2, <3>2, Ways
    <2>3. CASE /\ pc' = pc /\ call[r].via = "primary"
               /\ \E limited \in BOOLEAN : call' = [call EXCEPT ![r] =
                    [via |-> "fallback", attempt |-> 1, limited |-> limited]]
      <3>1. PICK limited \in BOOLEAN :
              call'[r] = [via |-> "fallback", attempt |-> 1, limited |-> limited]
        BY <1>2, <2>3
      <3>2. Tries(call'[r]) < Tries(call[r])
        BY <1>1, <2>3, <3>1, TriesDrop
      <3> QED
        BY <1>1, <1>3, <2>0, <2>3, <3>2, Ways
    <2>4. CASE pc'[r] \in {"cool", "release", "end"}
      BY <1>1, <1>3, <2>0, <2>4, Ways
    <2> QED
      BY <2>1, <2>2, <2>3, <2>4
  <1>19. CASE SetCooldown(r)
    <2>1. pc[r] = "cool" /\ pc'[r] \in {"release", "end"}
      BY <1>6, <1>19 DEF SetCooldown
    <2> QED
      BY <1>1, <1>3, <2>1, Ways
  <1>20. CASE SaveExact(r)
    <2>1. pc[r] = "saveExact" /\ pc'[r] \in {"claim", "saveEmbed", "release", "end"}
      BY <1>2, <1>6, <1>20 DEF SaveExact, Done
    <2> QED
      BY <1>1, <1>3, <2>1, Ways
  <1>21. CASE SaveEmbed(r)
    <2>1. pc[r] = "saveEmbed" /\ pc'[r] \in {"claim", "release", "end"}
      BY <1>2, <1>6, <1>21 DEF SaveEmbed, Done
    <2> QED
      BY <1>1, <1>3, <2>1, Ways
  <1>22. CASE UpsertClaim(r)
    <2>1. pc[r] = "claim" /\ pc'[r] \in {"fill", "check", "release", "end"}
      BY <1>2, <1>6, <1>22 DEF UpsertClaim, Upsert, Claim, Done
    <2> QED
      BY <1>1, <1>3, <2>1, Ways
  <1>23. CASE UpsertFill(r) \/ UpsertHeal(r)
    <2>1. pc[r] \in {"fill", "heal"} /\ pc'[r] \in {"release", "end"}
      BY <1>6, <1>23 DEF UpsertFill, UpsertHeal, Upsert, Fill, Done
    <2> QED
      BY <1>1, <1>3, <2>1, Ways
  <1>24. CASE UpsertCheck(r)
    <2>1. pc[r] = "check" /\ pc'[r] \in {"heal", "release", "end"}
      BY <1>2, <1>6, <1>24 DEF UpsertCheck, Upsert, Check, Done
    <2> QED
      BY <1>1, <1>3, <2>1, Ways
  <1>25. CASE ReleaseStream(r)
    <2>1. pc[r] = "release" /\ pc'[r] = "end"
      BY <1>2, <1>25 DEF ReleaseStream
    <2> QED
      BY <1>1, <1>3, <2>1, Ways
  <1> QED
    BY <1>8, <1>9, <1>10, <1>11, <1>12, <1>13, <1>14, <1>15, <1>16, <1>17, <1>18, <1>19,
       <1>20, <1>21, <1>22, <1>23, <1>24, <1>25, <1>26 DEF Step

\* A step of r leaves the place of everybody else in the executor.
LEMMA OthersCall ==
  ASSUME TypeOK, NEW r \in Requests, Arrive(r) \/ Step(r), NEW q \in Requests \ {r}
  PROVE  call'[q] = call[q]
  <1> USE TypeParts DEF LocalOK
  <1>1. ASSUME NEW a, NEW found, Settle(r, a, found) PROVE call'[q] = call[q]
    BY <1>1 DEF Settle
  <1>2. CASE Guard(r)
    BY <1>2 DEF Guard, Arrive, IncrStreams, ExpireStreams, UndoIncr, ReleaseStream
  <1>3. CASE \/ Prepare(r) \/ LookupExact(r) \/ LookupText(r) \/ LookupTextFails(r)
             \/ LookupEmbed(r) \/ LookupKnn(r) \/ DropCorrupt(r)
    BY <1>3 DEF Prepare, LookupExact, LookupText, LookupTextFails, LookupEmbed, LookupKnn,
                DropCorrupt
  <1>4. CASE ProviderReplies(r)
    BY <1>1, <1>4 DEF ProviderReplies
  <1>5. CASE ProviderFails(r) \/ SetCooldown(r)
    BY <1>1, <1>5 DEF ProviderFails, Exhausted, SetCooldown
  <1>6. CASE SaveExact(r) \/ SaveEmbed(r)
    BY <1>1, <1>6 DEF SaveExact, SaveEmbed, Done
  <1>7. CASE UpsertClaim(r) \/ UpsertFill(r) \/ UpsertCheck(r) \/ UpsertHeal(r)
    BY <1>1, <1>7 DEF UpsertClaim, UpsertFill, UpsertCheck, UpsertHeal, Upsert, Claim, Fill,
                      Check, Done
  <1> QED
    BY <1>2, <1>3, <1>4, <1>5, <1>6, <1>7, StepSplit DEF Serve

\* Whoever joined a flight stays in it or is answered.
LEMMA JoinedStay ==
  ASSUME TypeOK, NEW r \in Requests, Arrive(r) \/ Step(r), NEW q \in Requests \ {r},
         pc[q] = "joined"
  PROVE  pc'[q] \in {"joined", "release", "end"}
  <1> USE TypeParts
  <1>1. CASE Guard(r)
    BY <1>1, GuardKinds DEF GuardMove, LocalOK
  <1>2. CASE ServeMove(r)
    BY <1>2 DEF ServeMove, LocalOK
  <1>3. CASE ServeMiss(r)
    BY <1>3 DEF ServeMiss, Miss, LocalOK
  <1>4. CASE ServeSettle(r)
    BY <1>4 DEF ServeSettle, Settle, AfterAnswer, LocalOK
  <1> QED
    BY <1>1, <1>2, <1>3, <1>4, StepSplit, ServeKinds

\* Nobody's step, no crash and no expiry puts another request further back.
LEMMA OthersWay ==
  ASSUME TypeOK, TypeOK', NEW q \in Requests,
         \/ \E r \in Requests \ {q} : Arrive(r) \/ Step(r)
         \/ Environment \/ UNCHANGED vars
  PROVE  Distance(q)' <= Distance(q)
  <1>0. LocalOK /\ LocalOK'
    BY TypeParts
  <1>1. /\ call[q] \in Call /\ call'[q] \in Call /\ MaxAttempts \in Nat \ {0}
        /\ Distance(q) \in 0..(18 + 2 * MaxAttempts)
        /\ Distance(q) = 0 <=> pc[q] = "end"
    BY <1>0, DistanceBounds, GatewayAssumption DEF LocalOK
  <1>2. Distance(q) = Way(pc[q], call[q]) /\ Distance(q)' = Way(pc'[q], call'[q])
    BY DEF Distance
  <1>3. ASSUME pc'[q] = pc[q], call'[q] = call[q] PROVE Distance(q)' <= Distance(q)
    BY <1>1, <1>2, <1>3
  <1>4. ASSUME NEW r \in Requests \ {q}, Arrive(r) \/ Step(r)
        PROVE  Distance(q)' <= Distance(q)
    <2>1. CASE pc[q] = "joined"
      <3>1. pc'[q] \in {"joined", "release", "end"}
        BY <1>4, <2>1, JoinedStay
      <3> QED
        BY <1>1, <1>2, <2>1, <3>1, Ways
    <2>2. CASE pc[q] # "joined"
      BY <1>3, <1>4, <2>2, OthersStay, OthersCall
    <2> QED
      BY <2>1, <2>2
  <1>5. CASE Crash
    <2>1. pc'[q] = (IF pc[q] = "idle" THEN "idle" ELSE "end")
      BY <1>5 DEF Crash
    <2>2. CASE pc[q] = "idle"
      BY <1>1, <1>2, <2>1, <2>2, Ways
    <2>3. CASE pc[q] # "idle"
      BY <1>1, <1>2, <2>1, <2>3, Ways
    <2> QED
      BY <2>2, <2>3
  <1>6. CASE (Environment /\ ~Crash) \/ UNCHANGED vars
    <2>1. UNCHANGED <<pc, call>>
      BY <1>6 DEF Environment, CircuitCools, RedisGoes, RedisReturns, SlotsExpire,
                  CooldownExpires, CacheExpires, vars
    <2> QED
      BY <1>3, <2>1
  <1> QED
    BY <1>4, <1>5, <1>6

\* A request has a bounded way to its end: each of its own steps brings it nearer,
\* and no step of another request, no crash and nothing that expires puts it
\* back, however the retries and the fallback go (llm-executor.service.ts).  The
\* safety half of RequestsEnd: only fair steps are missing, and one who has none
\* of its own, having joined a flight, has a leader at work (OneCallPerFlight).
Nearing ==
  \A r \in Requests :
    /\ Distance(r) \in 0..(18 + 2 * MaxAttempts)
    /\ Distance(r) = 0 <=> pc[r] = "end"
    /\ Distance(r)' <= Distance(r)
    /\ Arrive(r) \/ Step(r) => Distance(r)' < Distance(r)

THEOREM RequestsComeNearer == Spec => [][Nearing]_vars
  <1>1. ASSUME TypeOK, TypeOK', Next PROVE Nearing
    <2> SUFFICES ASSUME NEW r \in Requests
                 PROVE  /\ Distance(r) \in 0..(18 + 2 * MaxAttempts)
                        /\ Distance(r) = 0 <=> pc[r] = "end"
                        /\ Distance(r)' <= Distance(r)
                        /\ Arrive(r) \/ Step(r) => Distance(r)' < Distance(r)
      BY DEF Nearing
    <2>1. /\ Distance(r) \in 0..(18 + 2 * MaxAttempts)
          /\ Distance(r)' \in 0..(18 + 2 * MaxAttempts)
          /\ Distance(r) = 0 <=> pc[r] = "end"
      BY <1>1, DistanceBounds
    <2>3. Arrive(r) \/ Step(r) => Distance(r)' < Distance(r)
      BY <1>1, OwnWay
    <2>4. MaxAttempts \in Nat
      BY GatewayAssumption
    <2>5. CASE Arrive(r) \/ Step(r)
      BY <2>1, <2>3, <2>4, <2>5
    <2>6. CASE ~(Arrive(r) \/ Step(r))
      <3>1. \/ \E q \in Requests \ {r} : Arrive(q) \/ Step(q)
            \/ Environment
        BY <1>1, <2>6 DEF Next
      <3> QED
        BY <1>1, <2>1, <2>6, <3>1, OthersWay
    <2> QED
      BY <2>5, <2>6
  <1>2. TypeOK /\ TypeOK' /\ [Next]_vars => [Nearing]_vars
    BY <1>1
  <1> QED
    BY <1>2, TypeCorrect, PTL DEF Spec
=============================================================================
