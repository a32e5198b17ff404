----------------------- MODULE GuestAdmissionProofs -----------------------
(***************************************************************************)
(* Theorems about GuestAdmission, for any number of guests, types,         *)
(* requests and days, every cap, and any number of crashes and failures.   *)
(*                                                                         *)
(* The cap is not inductive alone: an increment is judged by the counter,  *)
(* so the invariant weighs the counter against the starts it stands for.   *)
(***************************************************************************)
EXTENDS GuestAdmission, FiniteSetTheorems, TLAPS

-----------------------------------------------------------------------------
(* The inductive invariant *)

\* No date is in the future, and before the release a request uses the key of
\* its day of admission.
Dates ==
  \A q \in Requests : request[q] # Null =>
    /\ request[q].day <= day
    /\ request[q].key <= day
    /\ request[q].pc \in {"count", "incr", "expire", "undo"}
         => request[q].key = request[q].day

\* Nothing has touched the counter of a day that has not begun.
Blank == \A d \in Days : d > day => counter[d] = 0 /\ stray[d] = 0

\* Today's counter, its stray decrements put back, covers the starts admitted
\* today and the increments about to be taken back, exactly if nothing failed.
Balance ==
  /\ Cardinality(Held(day)) + Cardinality(Owing(day)) <= counter[day] + stray[day]
  /\ spent = [crashes |-> 0, faults |-> 0] =>
       Cardinality(Held(day)) + Cardinality(Owing(day)) = counter[day] + stray[day]

\* A run belongs to a request that has started it.
RunStarted == \A q \in Requests : run[q] # "none" => At(q, "started")

Inv ==
  TypeOK /\ Dates /\ Blank /\ Balance /\ DailyCap /\ RunStarted /\ DeletedOwnsNothing

-----------------------------------------------------------------------------
(* Counting requests *)

\* Only q moves, and the day lasts.
Moves(q) == day' = day /\ \A p \in Requests \ {q} : request'[p] = request[p]

LEMMA Finite ==
  ASSUME NEW S \in SUBSET Requests
  PROVE  IsFiniteSet(S) /\ Cardinality(S) \in Nat
  BY AdmissionAssumption, FS_Subset, FS_CardinalityType

LEMMA Apart ==
  ASSUME NEW S \in SUBSET Requests, NEW q
  PROVE  Cardinality(S) = Cardinality(S \ {q}) + (IF q \in S THEN 1 ELSE 0)
  BY Finite, FS_RemoveElement

\* The step of one request changes the two counts by what it does to itself.
LEMMA Weigh ==
  ASSUME NEW q \in Requests, Moves(q)
  PROVE  \E h, o \in Nat :
           /\ Cardinality(Held(day)) = h + (IF q \in Held(day) THEN 1 ELSE 0)
           /\ Cardinality(Held(day)') = h + (IF q \in Held(day)' THEN 1 ELSE 0)
           /\ Cardinality(Owing(day)) = o + (IF q \in Owing(day) THEN 1 ELSE 0)
           /\ Cardinality(Owing(day)') = o + (IF q \in Owing(day)' THEN 1 ELSE 0)
  <1>1. Held(day)' \ {q} = Held(day) \ {q}
    BY DEF Held, Moves
  <1>2. Owing(day)' \ {q} = Owing(day) \ {q}
    BY DEF Owing, Moves
  <1>3. /\ Held(day) \in SUBSET Requests /\ Held(day)' \in SUBSET Requests
        /\ Owing(day) \in SUBSET Requests /\ Owing(day)' \in SUBSET Requests
    BY DEF Held, Owing
  <1>4. Cardinality(Held(day) \ {q}) \in Nat /\ Cardinality(Owing(day) \ {q}) \in Nat
    BY <1>3, Finite
  <1>5. /\ Cardinality(Held(day)) = Cardinality(Held(day) \ {q})
             + (IF q \in Held(day) THEN 1 ELSE 0)
        /\ Cardinality(Owing(day)) = Cardinality(Owing(day) \ {q})
             + (IF q \in Owing(day) THEN 1 ELSE 0)
    BY <1>3, Apart
  <1>6. /\ Cardinality(Held(day)') = Cardinality(Held(day)' \ {q})
             + (IF q \in Held(day)' THEN 1 ELSE 0)
        /\ Cardinality(Owing(day)') = Cardinality(Owing(day)' \ {q})
             + (IF q \in Owing(day)' THEN 1 ELSE 0)
    BY <1>3, Apart
  <1> QED
    BY <1>1, <1>2, <1>4, <1>5, <1>6

\* The counts of a day are natural numbers.
LEMMA Counts ==
  /\ Cardinality(Held(day)) \in Nat
  /\ Cardinality(Owing(day)) \in Nat
  <1>1. Held(day) \in SUBSET Requests /\ Owing(day) \in SUBSET Requests
    BY DEF Held, Owing
  <1> QED
    BY <1>1, Finite

-----------------------------------------------------------------------------
(* Types and dates *)

\* A request goes to another stage and keeps its dates.
LEMMA GotoType ==
  ASSUME TypeOK, NEW q \in Requests, request[q] # Null, NEW pc \in Stages, Goto(q, pc)
  PROVE  /\ request' \in [Requests -> Request \cup {Null}]
         /\ request'[q] # Null
         /\ request'[q].pc = pc
         /\ request'[q].day = request[q].day
         /\ request'[q].key = request[q].key
         /\ request'[q].guest = request[q].guest
         /\ \A p \in Requests \ {q} : request'[p] = request[p]
  <1> DEFINE new == [request[q] EXCEPT !.pc = pc]
  <1>1. request[q] \in Request
    BY DEF TypeOK
  <1>2. /\ new \in Request /\ new.pc = pc /\ new.day = request[q].day
        /\ new.key = request[q].key /\ new.guest = request[q].guest
    BY <1>1 DEF Request
  <1>3. request' = [request EXCEPT ![q] = new]
    BY DEF Goto
  <1> HIDE DEF new
  <1> QED
    BY <1>2, <1>3, NullAssumption DEF TypeOK

\* A request takes the value new.
LEMMA RedateType ==
  ASSUME TypeOK, NEW q \in Requests, NEW new \in Request,
         request' = [request EXCEPT ![q] = new]
  PROVE  /\ request' \in [Requests -> Request \cup {Null}]
         /\ request'[q] # Null
         /\ request'[q] = new
         /\ \A p \in Requests \ {q} : request'[p] = request[p]
  BY NullAssumption DEF TypeOK

LEMMA SpentType ==
  ASSUME TypeOK
  PROVE  /\ Fault => /\ spent' \in [crashes : 0..MaxCrashes, faults : 0..MaxFaults]
                     /\ spent' # [crashes |-> 0, faults |-> 0]
         /\ Crash => /\ spent' \in [crashes : 0..MaxCrashes, faults : 0..MaxFaults]
                     /\ spent' # [crashes |-> 0, faults |-> 0]
  BY AdmissionAssumption DEF TypeOK, Fault, Crash

LEMMA FaultCounts == TypeOK /\ Fault => spent' # spent
  BY AdmissionAssumption DEF TypeOK, Fault

LEMMA DecrType ==
  ASSUME TypeOK, NEW q \in Requests, request[q] # Null, NEW own \in BOOLEAN, Decr(q, own)
  PROVE  /\ counter' \in [Days -> Int]
         /\ stray' \in [Days -> Nat]
  BY DEF TypeOK, Decr, Request

-----------------------------------------------------------------------------
(* The steps of one request, in the form the invariant needs *)

\* What is left to show when request q has moved and the row of no guest has.
LEMMA Assemble ==
  ASSUME Inv, NEW q \in Requests, Moves(q), request'[q] # Null, TypeOK',
         users' = users, run' = run, run[q] = "none",
         request'[q].day <= day, request'[q].key <= day,
         request'[q].pc \in {"count", "incr", "expire", "undo"}
           => request'[q].key = request'[q].day,
         \A d \in Days : d > day => counter'[d] = counter[d] /\ stray'[d] = stray[d],
         Balance', DailyCap'
  PROVE  Inv'
  <1>1. Dates'
    BY DEF Inv, Dates, Moves
  <1>2. Blank'
    BY DEF Inv, Blank, Moves
  <1>3. RunStarted'
    BY DEF Inv, RunStarted, Moves, At
  <1>4. DeletedOwnsNothing'
    BY DEF Inv, DeletedOwnsNothing, Moves
  <1> QED
    BY <1>1, <1>2, <1>3, <1>4 DEF Inv

\* What request q weighs in the two counts of today.
Weight(q) == (IF q \in Held(day) THEN 1 ELSE 0) + (IF q \in Owing(day) THEN 1 ELSE 0)

\* The balance holds if the counter, stray decrements put back, moves at least
\* as far as the weight of q, and just as far in a step that is no failure.
LEMMA KeepsBalance ==
  ASSUME Inv, NEW q \in Requests, Moves(q), TypeOK',
         counter'[day] + stray'[day] - (counter[day] + stray[day])
           >= Weight(q)' - Weight(q),
         spent' = spent =>
           counter'[day] + stray'[day] - (counter[day] + stray[day])
             = Weight(q)' - Weight(q),
         spent' = spent \/ spent' # [crashes |-> 0, faults |-> 0]
  PROVE  Balance'
  <1>1. day' = day /\ day \in Days
    BY DEF Moves, Inv, TypeOK
  <1>2. /\ counter[day] \in Int /\ counter'[day] \in Int
        /\ stray[day] \in Int /\ stray'[day] \in Int
    BY <1>1 DEF Inv, TypeOK
  <1>3. PICK h, o \in Nat :
           /\ Cardinality(Held(day)) = h + (IF q \in Held(day) THEN 1 ELSE 0)
           /\ Cardinality(Held(day)') = h + (IF q \in Held(day)' THEN 1 ELSE 0)
           /\ Cardinality(Owing(day)) = o + (IF q \in Owing(day) THEN 1 ELSE 0)
           /\ Cardinality(Owing(day)') = o + (IF q \in Owing(day)' THEN 1 ELSE 0)
    BY Weigh
  <1>4. /\ Cardinality(Held(day)) + Cardinality(Owing(day)) = h + o + Weight(q)
        /\ Cardinality(Held(day)') + Cardinality(Owing(day)') = h + o + Weight(q)'
        /\ Weight(q) \in Int /\ Weight(q)' \in Int
    BY <1>3 DEF Weight
  <1>5. Balance
    BY DEF Inv
  <1>6. Cardinality(Held(day)') + Cardinality(Owing(day)') <= counter'[day] + stray'[day]
    BY <1>2, <1>4, <1>5 DEF Balance
  <1>7. spent' = [crashes |-> 0, faults |-> 0] =>
          Cardinality(Held(day)') + Cardinality(Owing(day)') = counter'[day] + stray'[day]
    BY <1>2, <1>4, <1>5 DEF Balance
  <1> QED
    BY <1>1, <1>6, <1>7 DEF Balance

\* The cap is safe with every request that is not newly admitted.
LEMMA KeepsCap ==
  ASSUME Inv, NEW q \in Requests, Moves(q), TypeOK',
         q \in Held(day)' => q \in Held(day),
         stray'[day] >= stray[day]
  PROVE  DailyCap'
  <1>1. day' = day /\ day \in Days /\ Cap \in Nat
    BY AdmissionAssumption DEF Moves, Inv, TypeOK
  <1>2. stray[day] \in Int /\ stray'[day] \in Int
    BY <1>1 DEF Inv, TypeOK
  <1>3. PICK h, o \in Nat :
           /\ Cardinality(Held(day)) = h + (IF q \in Held(day) THEN 1 ELSE 0)
           /\ Cardinality(Held(day)') = h + (IF q \in Held(day)' THEN 1 ELSE 0)
           /\ Cardinality(Owing(day)) = o + (IF q \in Owing(day) THEN 1 ELSE 0)
           /\ Cardinality(Owing(day)') = o + (IF q \in Owing(day)' THEN 1 ELSE 0)
    BY Weigh
  <1>4. Cardinality(Held(day)') <= Cap + stray'[day]
    BY <1>1, <1>2, <1>3 DEF Inv, DailyCap
  <1> QED
    BY <1>1, <1>4 DEF DailyCap

LEMMA StartStep ==
  ASSUME Inv, NEW q \in Requests, NEW g \in Guests, NEW t \in Types, Start(q, g, t)
  PROVE  Inv'
  <1> DEFINE new == [pc |-> "count", guest |-> g, type |-> t, day |-> day, key |-> day]
  <1>1. /\ request'[q] = new /\ request'[q] \in Request /\ request'[q] # Null
        /\ Moves(q) /\ TypeOK'
    BY NullAssumption DEF Inv, Start, TypeOK, Request, Stages, Moves
  <1>2. run[q] = "none" /\ request[q] = Null
    BY DEF Inv, RunStarted, At, Start
  <1>3. day \in Int /\ request'[q].day = day /\ request'[q].key = day
        /\ request'[q].pc = "count"
    BY <1>1 DEF Inv, TypeOK, Days
  <1>4. q \notin Held(day) /\ q \notin Held(day)' /\ q \notin Owing(day)
        /\ q \notin Owing(day)'
    BY <1>2, <1>3 DEF Held, Owing
  <1>5. counter' = counter /\ stray' = stray /\ spent' = spent /\ users' = users
        /\ run' = run
    BY DEF Start
  <1>6. counter[day] \in Int /\ stray[day] \in Int
    BY DEF Inv, TypeOK
  <1>7. Weight(q) = 0 /\ Weight(q)' = 0
    BY <1>4 DEF Weight
  <1>8. Balance'
    BY <1>1, <1>5, <1>6, <1>7, KeepsBalance
  <1>9. DailyCap'
    BY <1>1, <1>4, <1>5, <1>6, KeepsCap
  <1> QED
    BY <1>1, <1>2, <1>3, <1>5, <1>8, <1>9, Assemble

\* A request in flight has started no run.
LEMMA InFlight ==
  ASSUME Inv, NEW q \in Requests, NEW pc, At(q, pc), pc # "started"
  PROVE  /\ run[q] = "none"
         /\ request[q] # Null
         /\ request[q] \in Request
         /\ request[q].day \in Days /\ request[q].key \in Days
         /\ request[q].day <= day /\ request[q].key <= day
         /\ day \in Days /\ day \in Int
  BY DEF Inv, RunStarted, At, Dates, TypeOK, Request, Days

LEMMA CountStep ==
  ASSUME Inv, NEW q \in Requests, Count(q)
  PROVE  Inv'
  <1>1. /\ At(q, "count")
        /\ counter' = counter /\ stray' = stray /\ spent' = spent
        /\ users' = users /\ run' = run /\ day' = day
        /\ UNCHANGED <<ttl, deletion>>
    BY DEF Count
  <1>2. /\ run[q] = "none" /\ request[q] # Null /\ request[q] \in Request
        /\ request[q].day \in Days /\ request[q].key \in Days
        /\ request[q].day <= day /\ request[q].key <= day
        /\ day \in Days /\ day \in Int
    BY <1>1, InFlight
  <1>3. /\ request' \in [Requests -> Request \cup {Null}]
        /\ request'[q] # Null
        /\ \A p \in Requests \ {q} : request'[p] = request[p]
        /\ request'[q].day <= day /\ request'[q].key <= day
        /\ request'[q].pc \in {"incr", "refused"}
        /\ request'[q].pc = "incr" => request'[q].key = request'[q].day
    <2>1. CASE Goto(q, "refused")
      <3>1. "refused" \in Stages
        BY DEF Stages
      <3> QED
        BY <2>1, <3>1, <1>2, GotoType DEF Inv
    <2>2. ASSUME NEW new, new = [request[q] EXCEPT !.pc = "incr", !.day = day, !.key = day],
                 request' = [request EXCEPT ![q] = new]
          PROVE  <1>3!:
      <3>1. new \in Request /\ new.pc = "incr" /\ new.day = day /\ new.key = day
        BY <2>2, <1>2 DEF Request, Stages
      <3>2. /\ request' \in [Requests -> Request \cup {Null}]
            /\ request'[q] # Null /\ request'[q] = new
            /\ \A p \in Requests \ {q} : request'[p] = request[p]
        BY <2>2, <3>1, RedateType DEF Inv
      <3> QED
        BY <3>1, <3>2, <1>2
    <2> QED
      BY <2>1, <2>2 DEF Count
  <1>4. Moves(q) /\ TypeOK'
    BY <1>1, <1>3 DEF Moves, Inv, TypeOK
  <1>5. q \notin Held(day) /\ q \notin Held(day)' /\ q \notin Owing(day)
        /\ q \notin Owing(day)'
    BY <1>1, <1>3 DEF Held, Owing, At
  <1>6. counter[day] \in Int /\ stray[day] \in Int /\ Weight(q) = 0 /\ Weight(q)' = 0
    BY <1>2, <1>5 DEF Inv, TypeOK, Weight
  <1>7. Balance'
    BY <1>1, <1>4, <1>6, KeepsBalance
  <1>8. DailyCap'
    BY <1>1, <1>4, <1>5, <1>6, KeepsCap
  <1> QED
    BY <1>1, <1>2, <1>3, <1>4, <1>7, <1>8, Assemble
\* INCR: the verdict admits q only if the counter, its increment included, is
\* within the cap, and what today's other starts weigh is in the counter too.
LEMMA IncrStep ==
  ASSUME Inv, NEW q \in Requests, Incr(q)
  PROVE  Inv'
  <1> DEFINE value == counter[request[q].key] + 1
  <1>1. /\ At(q, "incr") /\ Goto(q, Verdict(value))
        /\ counter' = [counter EXCEPT ![request[q].key] = @ + 1]
        /\ stray' = stray /\ spent' = spent
        /\ users' = users /\ run' = run /\ day' = day
        /\ UNCHANGED <<ttl, deletion>>
    BY DEF Incr
  <1>2. /\ run[q] = "none" /\ request[q] # Null /\ request[q] \in Request
        /\ request[q].day \in Days /\ request[q].key \in Days
        /\ request[q].day <= day /\ request[q].key <= day
        /\ day \in Days /\ day \in Int
    BY <1>1, InFlight
  <1>3. /\ counter \in [Days -> Int] /\ stray \in [Days -> Nat] /\ Cap \in Nat
        /\ counter[day] \in Int /\ stray[day] \in Int /\ value \in Int
    <2>1. counter \in [Days -> Int] /\ stray \in [Days -> Nat]
      BY DEF Inv, TypeOK
    <2>2. counter[request[q].key] \in Int
      BY <2>1, <1>2
    <2>3. counter[day] \in Int /\ stray[day] \in Int
      BY <2>1, <1>2
    <2> QED
      BY <2>1, <2>2, <2>3, AdmissionAssumption
  <1>4. /\ Verdict(value) \in {"expire", "undo", "create"}
        /\ Verdict(value) \in Stages
        /\ Verdict(value) # "undo" => value <= Cap
    BY <1>3, AdmissionAssumption DEF Verdict, Stages
  <1>5. /\ request' \in [Requests -> Request \cup {Null}] /\ request'[q] # Null
        /\ request'[q].pc = Verdict(value)
        /\ request'[q].day = request[q].day /\ request'[q].key = request[q].key
        /\ \A p \in Requests \ {q} : request'[p] = request[p]
    BY <1>1, <1>2, <1>4, GotoType DEF Inv
  <1>6. Moves(q) /\ TypeOK'
    BY <1>1, <1>2, <1>3, <1>5 DEF Moves, Inv, TypeOK
  <1>7. request[q].pc = "incr" /\ request[q].key = request[q].day
    BY <1>1, <1>2 DEF At, Inv, Dates
  <1>8. q \notin Held(day) /\ q \notin Owing(day)
    BY <1>7 DEF Held, Owing
  <1>9. \A d \in Days : d > day => counter'[d] = counter[d] /\ stray'[d] = stray[d]
    BY <1>1, <1>2, <1>3
  <1>10. CASE request[q].day = day
    <2>1. counter'[day] = value /\ value = counter[day] + 1
      BY <1>1, <1>2, <1>3, <1>7, <1>10
    <2>2. /\ q \in Held(day)' <=> Verdict(value) # "undo"
          /\ q \in Owing(day)' <=> Verdict(value) = "undo"
      BY <1>1, <1>4, <1>5, <1>7, <1>10 DEF Held, Owing
    <2>3. Weight(q) = 0 /\ Weight(q)' = 1
      BY <1>8, <2>2 DEF Weight
    <2>4. Balance'
      BY <1>1, <1>3, <1>6, <2>1, <2>3, KeepsBalance
    <2>5. DailyCap'
      <3>1. CASE Verdict(value) = "undo"
        BY <1>1, <1>3, <1>6, <2>2, <3>1, KeepsCap
      <3>2. CASE Verdict(value) # "undo"
        <4>1. PICK h, o \in Nat :
                 /\ Cardinality(Held(day)') = h + (IF q \in Held(day)' THEN 1 ELSE 0)
                 /\ Cardinality(Held(day)) = h + (IF q \in Held(day) THEN 1 ELSE 0)
          BY <1>6, Weigh
        <4>2. Cardinality(Held(day)') = Cardinality(Held(day)) + 1
          BY <1>8, <2>2, <3>2, <4>1
        <4>3. /\ Cardinality(Held(day)) + Cardinality(Owing(day)) <= counter[day] + stray[day]
              /\ Cardinality(Held(day)) \in Nat /\ Cardinality(Owing(day)) \in Nat
          BY Counts DEF Inv, Balance
        <4>4. Cardinality(Held(day)') <= Cap + stray[day]
          BY <1>3, <1>4, <2>1, <3>2, <4>2, <4>3
        <4> QED
          BY <1>1, <4>4 DEF DailyCap
      <3> QED
        BY <3>1, <3>2
    <2> QED
      BY <1>1, <1>2, <1>4, <1>5, <1>6, <1>7, <1>9, <2>4, <2>5, Assemble
  <1>11. CASE request[q].day # day
    <2>1. counter'[day] = counter[day]
      BY <1>1, <1>2, <1>3, <1>7, <1>11
    <2>2. q \notin Held(day)' /\ q \notin Owing(day)'
      BY <1>1, <1>5, <1>11 DEF Held, Owing
    <2>3. Weight(q) = 0 /\ Weight(q)' = 0
      BY <1>8, <2>2 DEF Weight
    <2>4. Balance'
      BY <1>1, <1>3, <1>6, <2>1, <2>3, KeepsBalance
    <2>5. DailyCap'
      BY <1>1, <1>3, <1>6, <2>2, KeepsCap
    <2> QED
      BY <1>1, <1>2, <1>4, <1>5, <1>6, <1>7, <1>9, <2>4, <2>5, Assemble
  <1> QED
    BY <1>10, <1>11

LEMMA ExpireStep ==
  ASSUME Inv, NEW q \in Requests, Expire(q)
  PROVE  Inv'
  <1>1. /\ At(q, "expire") /\ Goto(q, "create") /\ ttl' = ttl \cup {request[q].key}
        /\ counter' = counter /\ stray' = stray /\ spent' = spent
        /\ users' = users /\ run' = run /\ day' = day /\ deletion' = deletion
    BY DEF Expire
  <1>2. /\ run[q] = "none" /\ request[q] # Null /\ request[q] \in Request
        /\ request[q].day \in Days /\ request[q].key \in Days
        /\ request[q].day <= day /\ request[q].key <= day
        /\ day \in Days /\ day \in Int
    BY <1>1, InFlight
  <1>3. /\ request'[q].pc = "create"
        /\ request' \in [Requests -> Request \cup {Null}] /\ request'[q] # Null
        /\ request'[q].day = request[q].day /\ request'[q].key = request[q].key
        /\ \A p \in Requests \ {q} : request'[p] = request[p]
    <2>1. "create" \in Stages
      BY DEF Stages
    <2> QED
      BY <1>1, <1>2, <2>1, GotoType DEF Inv
  <1>4. Moves(q) /\ TypeOK'
    BY <1>1, <1>2, <1>3 DEF Moves, Inv, TypeOK
  <1>5. /\ q \in Held(day)' <=> q \in Held(day)
        /\ q \notin Owing(day) /\ q \notin Owing(day)'
    BY <1>1, <1>2, <1>3 DEF Held, Owing, At
  <1>6. /\ counter[day] \in Int /\ stray[day] \in Int
        /\ Weight(q) \in Int /\ Weight(q)' = Weight(q)
    BY <1>2, <1>5 DEF Inv, TypeOK, Weight
  <1>7. Balance'
    BY <1>1, <1>4, <1>6, KeepsBalance
  <1>8. DailyCap'
    BY <1>1, <1>4, <1>5, <1>6, KeepsCap
  <1> QED
    BY <1>1, <1>2, <1>3, <1>4, <1>7, <1>8, Assemble
LEMMA UndoStep ==
  ASSUME Inv, NEW q \in Requests, Undo(q)
  PROVE  Inv'
  <1>1. /\ At(q, "undo") /\ Goto(q, "refused") /\ Decr(q, TRUE) /\ ttl' = ttl
        /\ counter' = [counter EXCEPT ![request[q].key] = @ - 1]
        /\ stray' = [stray EXCEPT ![request[q].key] = @]
        /\ spent' = spent /\ users' = users /\ run' = run /\ day' = day
        /\ deletion' = deletion
    BY DEF Undo, Decr
  <1>2. /\ run[q] = "none" /\ request[q] # Null /\ request[q] \in Request
        /\ request[q].day \in Days /\ request[q].key \in Days
        /\ request[q].day <= day /\ request[q].key <= day
        /\ day \in Days /\ day \in Int
    BY <1>1, InFlight
  <1>3. /\ counter \in [Days -> Int] /\ stray \in [Days -> Nat]
        /\ counter[day] \in Int /\ stray[day] \in Int /\ stray' = stray
    BY <1>1, <1>2 DEF Inv, TypeOK
  <1>4. /\ request'[q].pc = "refused"
        /\ request' \in [Requests -> Request \cup {Null}] /\ request'[q] # Null
        /\ request'[q].day = request[q].day /\ request'[q].key = request[q].key
        /\ \A p \in Requests \ {q} : request'[p] = request[p]
    <2>1. "refused" \in Stages
      BY DEF Stages
    <2> QED
      BY <1>1, <1>2, <2>1, GotoType DEF Inv
  <1>5. counter' \in [Days -> Int] /\ stray' \in [Days -> Nat]
    BY <1>1, <1>2, DecrType DEF Inv
  <1>6. Moves(q) /\ TypeOK'
    BY <1>1, <1>2, <1>4, <1>5 DEF Moves, Inv, TypeOK
  <1>7. request[q].pc = "undo" /\ request[q].key = request[q].day
    BY <1>1, <1>2 DEF At, Inv, Dates
  <1>8. /\ q \notin Held(day) /\ q \notin Held(day)' /\ q \notin Owing(day)'
        /\ q \in Owing(day) <=> request[q].key = day
    BY <1>2, <1>4, <1>7 DEF Held, Owing
  <1>9. counter'[day] = counter[day] - (IF request[q].key = day THEN 1 ELSE 0)
    BY <1>1, <1>2, <1>3
  <1>10. Weight(q) = (IF request[q].key = day THEN 1 ELSE 0) /\ Weight(q)' = 0
    BY <1>8 DEF Weight
  <1>11. Balance'
    BY <1>1, <1>3, <1>6, <1>9, <1>10, KeepsBalance
  <1>12. DailyCap'
    BY <1>3, <1>6, <1>8, KeepsCap
  <1>13. \A d \in Days : d > day => counter'[d] = counter[d] /\ stray'[d] = stray[d]
    BY <1>1, <1>2, <1>3
  <1> QED
    BY <1>1, <1>2, <1>4, <1>6, <1>11, <1>12, <1>13, Assemble

\* The release pays back today's counter, whatever day the start was admitted on.
LEMMA ReleaseStep ==
  ASSUME Inv, NEW q \in Requests, Release(q)
  PROVE  Inv'
  <1> DEFINE own == request[q].key = request[q].day
  <1>1. /\ At(q, "release") /\ Goto(q, "refused") /\ Decr(q, own) /\ ttl' = ttl
        /\ counter' = [counter EXCEPT ![request[q].key] = @ - 1]
        /\ stray' = [stray EXCEPT ![request[q].key] = IF own THEN @ ELSE @ + 1]
        /\ spent' = spent /\ users' = users /\ run' = run /\ day' = day
        /\ deletion' = deletion
    BY DEF Release, Decr
  <1>2. /\ run[q] = "none" /\ request[q] # Null /\ request[q] \in Request
        /\ request[q].day \in Days /\ request[q].key \in Days
        /\ request[q].day <= day /\ request[q].key <= day
        /\ day \in Days /\ day \in Int
    BY <1>1, InFlight
  <1>3. /\ counter \in [Days -> Int] /\ stray \in [Days -> Nat]
        /\ counter[day] \in Int /\ stray[day] \in Int
    BY <1>2 DEF Inv, TypeOK
  <1>4. /\ request'[q].pc = "refused"
        /\ request' \in [Requests -> Request \cup {Null}] /\ request'[q] # Null
        /\ request'[q].day = request[q].day /\ request'[q].key = request[q].key
        /\ \A p \in Requests \ {q} : request'[p] = request[p]
    <2>1. "refused" \in Stages
      BY DEF Stages
    <2> QED
      BY <1>1, <1>2, <2>1, GotoType DEF Inv
  <1>5. counter' \in [Days -> Int] /\ stray' \in [Days -> Nat]
    <2>1. own \in BOOLEAN
      OBVIOUS
    <2> HIDE DEF own
    <2> QED
      BY <1>1, <1>2, <2>1, DecrType DEF Inv
  <1>6. Moves(q) /\ TypeOK'
    BY <1>1, <1>2, <1>4, <1>5 DEF Moves, Inv, TypeOK
  <1>7. /\ q \notin Held(day) /\ q \notin Held(day)' /\ q \notin Owing(day)'
        /\ q \in Owing(day) <=> own /\ request[q].key = day
    BY <1>1, <1>2, <1>4 DEF Held, Owing, At
  <1>8. /\ counter'[day] = counter[day] - (IF request[q].key = day THEN 1 ELSE 0)
        /\ stray'[day] = stray[day] + (IF ~own /\ request[q].key = day THEN 1 ELSE 0)
    BY <1>1, <1>2, <1>3
  <1>9. /\ Weight(q) = (IF own /\ request[q].key = day THEN 1 ELSE 0)
        /\ Weight(q)' = 0
    BY <1>7 DEF Weight
  <1>10. Balance'
    BY <1>1, <1>3, <1>6, <1>8, <1>9, KeepsBalance
  <1>11. DailyCap'
    BY <1>3, <1>6, <1>7, <1>8, KeepsCap
  <1>12. \A d \in Days : d > day => counter'[d] = counter[d] /\ stray'[d] = stray[d]
    BY <1>1, <1>2, <1>3
  <1> QED
    BY <1>1, <1>2, <1>4, <1>6, <1>10, <1>11, <1>12, Assemble

LEMMA CreateFailsStep ==
  ASSUME Inv, NEW q \in Requests, CreateFails(q)
  PROVE  Inv'
  <1>1. /\ At(q, "create")
        /\ spent' = spent \/ Fault
        /\ counter' = counter /\ stray' = stray /\ users' = users /\ run' = run
        /\ day' = day /\ ttl' = ttl /\ deletion' = deletion
    BY DEF CreateFails
  <1>2. /\ run[q] = "none" /\ request[q] # Null /\ request[q] \in Request
        /\ request[q].day \in Days /\ request[q].key \in Days
        /\ request[q].day <= day /\ request[q].key <= day
        /\ day \in Days /\ day \in Int
    BY <1>1, InFlight
  <1>3. /\ counter \in [Days -> Int] /\ stray \in [Days -> Nat]
        /\ counter[day] \in Int /\ stray[day] \in Int
    BY <1>2 DEF Inv, TypeOK
  <1>4. /\ request' \in [Requests -> Request \cup {Null}] /\ request'[q] # Null
        /\ request'[q].pc = "release"
        /\ request'[q].day = request[q].day /\ request'[q].key = day
        /\ \A p \in Requests \ {q} : request'[p] = request[p]
    <2>1. ASSUME NEW new, new = [request[q] EXCEPT !.pc = "release", !.key = day],
                 request' = [request EXCEPT ![q] = new]
          PROVE  <1>4!:
      <3>1. /\ new \in Request /\ new.pc = "release" /\ new.day = request[q].day
            /\ new.key = day
        BY <2>1, <1>2 DEF Request, Stages
      <3>2. /\ request' \in [Requests -> Request \cup {Null}]
            /\ request'[q] # Null /\ request'[q] = new
            /\ \A p \in Requests \ {q} : request'[p] = request[p]
        BY <2>1, <3>1, RedateType DEF Inv
      <3> QED
        BY <3>1, <3>2
    <2> QED
      BY <2>1 DEF CreateFails
  <1>5. /\ spent' \in [crashes : 0..MaxCrashes, faults : 0..MaxFaults]
        /\ spent' = spent \/ spent' # [crashes |-> 0, faults |-> 0]
    BY <1>1, SpentType DEF Inv, TypeOK
  <1>6. Moves(q) /\ TypeOK'
    BY <1>1, <1>2, <1>4, <1>5 DEF Moves, Inv, TypeOK
  <1>7. /\ q \in Held(day) <=> request[q].day = day
        /\ q \notin Owing(day) /\ q \notin Held(day)'
        /\ q \in Owing(day)' <=> request[q].day = day
    BY <1>1, <1>2, <1>4 DEF Held, Owing, At
  <1>8. Weight(q) \in Int /\ Weight(q)' = Weight(q)
    BY <1>7 DEF Weight
  <1>9. Balance'
    BY <1>1, <1>3, <1>5, <1>6, <1>8, KeepsBalance
  <1>10. DailyCap'
    BY <1>1, <1>3, <1>6, <1>7, KeepsCap
  <1> QED
    BY <1>1, <1>2, <1>4, <1>6, <1>9, <1>10, Assemble

\* A command that throws leaves the counter too high at worst.
LEMMA ThrowStep ==
  ASSUME Inv, NEW q \in Requests, Throw(q)
  PROVE  Inv'
  <1>1. PICK pc \in {"count", "incr", "expire", "undo", "release"} : At(q, pc)
    BY DEF Throw
  <1>2. /\ Goto(q, "refused") /\ Fault
        /\ counter' = counter /\ stray' = stray /\ users' = users /\ run' = run
        /\ day' = day /\ ttl' = ttl /\ deletion' = deletion
    BY DEF Throw
  <1>3. /\ run[q] = "none" /\ request[q] # Null /\ request[q] \in Request
        /\ request[q].day \in Days /\ request[q].key \in Days
        /\ request[q].day <= day /\ request[q].key <= day
        /\ day \in Days /\ day \in Int
    BY <1>1, InFlight
  <1>4. /\ counter \in [Days -> Int] /\ stray \in [Days -> Nat]
        /\ counter[day] \in Int /\ stray[day] \in Int
    BY <1>3 DEF Inv, TypeOK
  <1>5. /\ request'[q].pc = "refused"
        /\ request' \in [Requests -> Request \cup {Null}] /\ request'[q] # Null
        /\ request'[q].day = request[q].day /\ request'[q].key = request[q].key
        /\ \A p \in Requests \ {q} : request'[p] = request[p]
    <2>1. "refused" \in Stages
      BY DEF Stages
    <2> QED
      BY <1>2, <1>3, <2>1, GotoType DEF Inv
  <1>6. /\ spent' \in [crashes : 0..MaxCrashes, faults : 0..MaxFaults]
        /\ spent' # [crashes |-> 0, faults |-> 0] /\ spent' # spent
    <2>1. TypeOK
      BY DEF Inv
    <2> QED
      BY <1>2, <2>1, SpentType, FaultCounts
  <1>7. Moves(q) /\ TypeOK'
    BY <1>2, <1>3, <1>5, <1>6 DEF Moves, Inv, TypeOK
  <1>8. q \notin Held(day)' /\ q \notin Owing(day)'
    BY <1>5 DEF Held, Owing
  <1>9. Weight(q) \in Nat /\ Weight(q)' = 0
    BY <1>8 DEF Weight
  <1>10. Balance'
    BY <1>2, <1>4, <1>6, <1>7, <1>9, KeepsBalance
  <1>11. DailyCap'
    BY <1>2, <1>4, <1>7, <1>8, KeepsCap
  <1> QED
    BY <1>2, <1>3, <1>5, <1>7, <1>10, <1>11, Assemble

\* A command sent twice: an increment raises the counter for nobody, and a
\* decrement is stray.
LEMMA ResendStep ==
  ASSUME Inv, NEW q \in Requests, Resend(q)
  PROVE  Inv'
  <1> DEFINE k == request[q].key
  <1>1. /\ Fault /\ users' = users /\ run' = run /\ day' = day /\ ttl' = ttl
        /\ request' = request /\ deletion' = deletion
    BY DEF Resend
  <1>2. PICK pc \in {"incr", "undo", "release"} : At(q, pc)
    BY DEF Resend
  <1>3. /\ run[q] = "none" /\ request[q] # Null /\ request[q] \in Request
        /\ request[q].day \in Days /\ request[q].key \in Days
        /\ request[q].day <= day /\ request[q].key <= day
        /\ day \in Days /\ day \in Int
    BY <1>2, InFlight
  <1>4. /\ counter \in [Days -> Int] /\ stray \in [Days -> Nat]
        /\ counter[day] \in Int /\ stray[day] \in Int
    BY <1>3 DEF Inv, TypeOK
  <1>5. \/ counter' = [counter EXCEPT ![k] = @ + 1] /\ stray' = stray
        \/ /\ counter' = [counter EXCEPT ![k] = @ - 1]
           /\ stray' = [stray EXCEPT ![k] = @ + 1]
    BY DEF Resend, Decr
  <1>6. /\ counter' \in [Days -> Int] /\ stray' \in [Days -> Nat]
        /\ counter'[day] + stray'[day] >= counter[day] + stray[day]
        /\ counter'[day] \in Int /\ stray'[day] \in Int /\ stray'[day] >= stray[day]
        /\ \A d \in Days : d > day => counter'[d] = counter[d] /\ stray'[d] = stray[d]
    <2>1. k \in Days /\ k <= day
      BY <1>3
    <2> HIDE DEF k
    <2>2. counter' \in [Days -> Int] /\ stray' \in [Days -> Nat]
      BY <2>1, <1>4, <1>5
    <2>3. /\ counter'[day] + stray'[day] >= counter[day] + stray[day]
          /\ stray'[day] >= stray[day]
      BY <2>1, <1>3, <1>4, <1>5
    <2>4. \A d \in Days : d > day => counter'[d] = counter[d] /\ stray'[d] = stray[d]
      BY <2>1, <1>3, <1>4, <1>5
    <2> QED
      BY <2>2, <2>3, <2>4, <1>3
  <1>7. /\ spent' \in [crashes : 0..MaxCrashes, faults : 0..MaxFaults]
        /\ spent' # [crashes |-> 0, faults |-> 0] /\ spent' # spent
    <2>1. TypeOK
      BY DEF Inv
    <2> QED
      BY <1>1, <2>1, SpentType, FaultCounts
  <1>8. Moves(q) /\ TypeOK'
    BY <1>1, <1>3, <1>6, <1>7 DEF Moves, Inv, TypeOK
  <1>9. /\ q \in Held(day)' <=> q \in Held(day)
        /\ q \in Owing(day)' <=> q \in Owing(day)
    BY <1>1 DEF Held, Owing
  <1>10. Weight(q) \in Int /\ Weight(q)' = Weight(q)
    BY <1>9 DEF Weight
  <1>11. Balance'
    BY <1>4, <1>6, <1>7, <1>8, <1>10, KeepsBalance
  <1>12. DailyCap'
    BY <1>6, <1>8, <1>9, KeepsCap
  <1>13. request[q].pc \in {"count", "incr", "expire", "undo"}
           => request[q].key = request[q].day
    BY <1>3 DEF Inv, Dates
  <1> QED
    BY <1>1, <1>3, <1>6, <1>8, <1>11, <1>12, <1>13, Assemble

LEMMA CreateStep ==
  ASSUME Inv, NEW q \in Requests, Create(q)
  PROVE  Inv'
  <1>1. /\ At(q, "create") /\ Goto(q, "started") /\ request[q].guest \in users
        /\ run' = [run EXCEPT ![q] = "live"]
        /\ counter' = counter /\ stray' = stray /\ spent' = spent /\ users' = users
        /\ day' = day /\ ttl' = ttl /\ deletion' = deletion
    BY DEF Create
  <1>2. /\ run[q] = "none" /\ request[q] # Null /\ request[q] \in Request
        /\ request[q].day \in Days /\ request[q].key \in Days
        /\ request[q].day <= day /\ request[q].key <= day
        /\ day \in Days /\ day \in Int
    BY <1>1, InFlight
  <1>3. /\ counter \in [Days -> Int] /\ stray \in [Days -> Nat]
        /\ counter[day] \in Int /\ stray[day] \in Int
    BY <1>2 DEF Inv, TypeOK
  <1>4. /\ request'[q].pc = "started" /\ request'[q].guest = request[q].guest
        /\ request' \in [Requests -> Request \cup {Null}] /\ request'[q] # Null
        /\ request'[q].day = request[q].day /\ request'[q].key = request[q].key
        /\ \A p \in Requests \ {q} : request'[p] = request[p]
    <2>1. "started" \in Stages
      BY DEF Stages
    <2> QED
      BY <1>1, <1>2, <2>1, GotoType DEF Inv
  <1>5. Moves(q) /\ TypeOK'
    BY <1>1, <1>2, <1>4 DEF Moves, Inv, TypeOK
  <1>6. /\ q \in Held(day)' <=> q \in Held(day)
        /\ q \notin Owing(day) /\ q \notin Owing(day)'
    BY <1>1, <1>2, <1>4 DEF Held, Owing, At
  <1>7. Weight(q) \in Int /\ Weight(q)' = Weight(q)
    BY <1>6 DEF Weight
  <1>8. Balance'
    BY <1>1, <1>3, <1>5, <1>7, KeepsBalance
  <1>9. DailyCap'
    BY <1>1, <1>3, <1>5, <1>6, KeepsCap
  <1>10. Dates' /\ Blank'
    BY <1>1, <1>2, <1>4 DEF Inv, Dates, Blank
  <1>11. run \in [Requests -> {"none", "live", "ended"}]
    BY DEF Inv, TypeOK
  <1>12. RunStarted' /\ DeletedOwnsNothing'
    BY <1>1, <1>4, <1>11 DEF Inv, RunStarted, DeletedOwnsNothing, At
  <1> QED
    BY <1>5, <1>8, <1>9, <1>10, <1>12 DEF Inv

-----------------------------------------------------------------------------
(* The other steps *)

\* Nothing the counts depend on has changed.
LEMMA SameCounts ==
  ASSUME Inv, request' = request, day' = day, stray' = stray,
         counter'[day] = counter[day],
         spent' = spent \/ spent' # [crashes |-> 0, faults |-> 0]
  PROVE  Balance' /\ DailyCap'
  <1>1. Held(day)' = Held(day) /\ Owing(day)' = Owing(day)
    BY DEF Held, Owing
  <1> QED
    BY <1>1 DEF Inv, Balance, DailyCap

LEMMA KeyExpiresStep ==
  ASSUME Inv, NEW d \in Days, KeyExpires(d)
  PROVE  Inv'
  <1>1. /\ d < day /\ counter' = [counter EXCEPT ![d] = 0] /\ ttl' = ttl \ {d}
        /\ UNCHANGED <<day, users, request, run, deletion, stray, spent>>
    BY DEF KeyExpires
  <1>2. day \in Int /\ day \in Days /\ d \in Int /\ counter \in [Days -> Int]
    BY DEF Inv, TypeOK, Days
  <1>3. TypeOK'
    BY <1>1 DEF Inv, TypeOK
  <1>4. counter'[day] = counter[day] /\ \A e \in Days : e > day => counter'[e] = counter[e]
    BY <1>1, <1>2 DEF Days
  <1>5. Balance' /\ DailyCap'
    BY <1>1, <1>4, SameCounts
  <1>6. Dates' /\ Blank' /\ RunStarted' /\ DeletedOwnsNothing'
    BY <1>1, <1>4 DEF Inv, Dates, Blank, RunStarted, DeletedOwnsNothing, At
  <1> QED
    BY <1>3, <1>5, <1>6 DEF Inv

LEMMA RunEndsStep ==
  ASSUME Inv, NEW q \in Requests, RunEnds(q)
  PROVE  Inv'
  <1>1. /\ run[q] = "live" /\ run' = [run EXCEPT ![q] = "ended"]
        /\ UNCHANGED <<day, counter, ttl, users, request, deletion, stray, spent>>
    BY DEF RunEnds
  <1>2. TypeOK'
    BY <1>1 DEF Inv, TypeOK
  <1>3. Balance' /\ DailyCap'
    BY <1>1, SameCounts
  <1>4. \A p \in Requests : run'[p] # "none" => run[p] # "none"
    BY <1>1 DEF Inv, TypeOK
  <1>5. Dates' /\ Blank' /\ RunStarted' /\ DeletedOwnsNothing'
    BY <1>1, <1>4 DEF Inv, Dates, Blank, RunStarted, DeletedOwnsNothing, At
  <1> QED
    BY <1>2, <1>3, <1>5 DEF Inv

\* A new day starts with no starts and an untouched counter.
LEMMA MidnightStep ==
  ASSUME Inv, Midnight
  PROVE  Inv'
  <1>1. /\ day < MaxDay /\ day' = day + 1
        /\ UNCHANGED <<counter, ttl, users, request, run, deletion, stray, spent>>
    BY DEF Midnight
  <1>2. day \in 0..MaxDay /\ day' \in Days /\ day' > day
    BY <1>1, AdmissionAssumption DEF Inv, TypeOK, Days
  <1>3. TypeOK'
    BY <1>1, <1>2 DEF Inv, TypeOK
  <1>4. \A q \in Requests : request[q] # Null =>
          /\ request[q].day \in Int /\ request[q].day <= day
          /\ request[q].key \in Int /\ request[q].key <= day
    BY DEF Inv, Dates, TypeOK, Request, Days
  <1>5. Held(day)' = {} /\ Owing(day)' = {}
    BY <1>1, <1>2, <1>4 DEF Held, Owing
  <1>6. counter'[day'] = 0 /\ stray'[day'] = 0
    BY <1>1, <1>2 DEF Inv, Blank
  <1>7. Balance' /\ DailyCap'
    BY <1>5, <1>6, AdmissionAssumption, FS_EmptySet DEF Balance, DailyCap
  <1>8. Dates'
    BY <1>1, <1>2, <1>4 DEF Inv, Dates
  <1>9. Blank'
    BY <1>1, <1>2 DEF Inv, Blank, Days
  <1>10. RunStarted' /\ DeletedOwnsNothing'
    BY <1>1 DEF Inv, RunStarted, DeletedOwnsNothing, At
  <1> QED
    BY <1>3, <1>7, <1>8, <1>9, <1>10 DEF Inv

\* A crash forgets what was in flight; the counter keeps its increments.
LEMMA CrashStep ==
  ASSUME Inv, Crash
  PROVE  Inv'
  <1>1. /\ request' = [q \in Requests |->
                         IF request[q] = Null \/ At(q, "started") THEN request[q]
                         ELSE [request[q] EXCEPT !.pc = "refused"]]
        /\ deletion' = [g \in Guests |-> Null]
        /\ UNCHANGED <<day, counter, ttl, users, run, stray>>
    BY DEF Crash
  <1>2. \A q \in Requests : request[q] # Null =>
          /\ request[q] \in Request
          /\ [request[q] EXCEPT !.pc = "refused"] \in Request
    BY DEF Inv, TypeOK, Request, Stages
  <1>3. \A q \in Requests :
          /\ request'[q] \in Request \cup {Null}
          /\ request'[q] # Null =>
               /\ request[q] # Null
               /\ request'[q].day = request[q].day
               /\ request'[q].key = request[q].key
               /\ \/ request'[q].pc = "started" /\ request'[q] = request[q]
                  \/ request'[q].pc = "refused"
    BY <1>1, <1>2 DEF At, Request
  <1>4. /\ spent' \in [crashes : 0..MaxCrashes, faults : 0..MaxFaults]
        /\ spent' # [crashes |-> 0, faults |-> 0]
    BY SpentType DEF Inv
  <1>5. TypeOK'
    <2>1. request' \in [Requests -> Request \cup {Null}]
      BY <1>1, <1>3
    <2> QED
      BY <1>1, <1>4, <2>1 DEF Inv, TypeOK
  <1>6. Held(day)' \subseteq Held(day) /\ Owing(day)' = {}
    BY <1>1, <1>3 DEF Held, Owing
  <1>7. /\ Cardinality(Held(day)') \in Nat /\ Cardinality(Held(day)) \in Nat
        /\ Cardinality(Held(day)') <= Cardinality(Held(day))
        /\ Cardinality(Owing(day)') = 0 /\ Cardinality(Owing(day)) \in Nat
    <2>1. Held(day) \in SUBSET Requests /\ Held(day)' \in SUBSET Held(day)
      BY <1>6 DEF Held
    <2>2. IsFiniteSet(Held(day)) /\ Cardinality(Held(day)') <= Cardinality(Held(day))
      BY <2>1, Finite, FS_Subset
    <2>3. Held(day)' \in SUBSET Requests
      BY <2>1
    <2> QED
      BY <1>6, <2>2, <2>3, Finite, Counts, FS_EmptySet
  <1>8. counter[day] \in Int /\ stray[day] \in Int /\ Cap \in Int
    BY AdmissionAssumption DEF Inv, TypeOK
  <1>9. Balance' /\ DailyCap'
    <2>1. Cardinality(Held(day)') + Cardinality(Owing(day)') <= counter[day] + stray[day]
      BY <1>7, <1>8 DEF Inv, Balance
    <2>2. Cardinality(Held(day)') <= Cap + stray[day]
      BY <1>7, <1>8 DEF Inv, DailyCap
    <2> QED
      BY <1>1, <1>4, <2>1, <2>2 DEF Balance, DailyCap
  <1>10. Dates' /\ Blank'
    BY <1>1, <1>3 DEF Inv, Dates, Blank
  <1>11. RunStarted' /\ DeletedOwnsNothing'
    <2>1. \A q \in Requests : run[q] # "none" => request'[q] = request[q]
      BY <1>1 DEF Inv, RunStarted
    <2> QED
      BY <1>1, <2>1 DEF Inv, RunStarted, DeletedOwnsNothing, At
  <1> QED
    BY <1>5, <1>9, <1>10, <1>11 DEF Inv

LEMMA DeleteCheckStep ==
  ASSUME Inv, NEW g \in Guests, NEW purge \in BOOLEAN, DeleteCheck(g, purge)
  PROVE  Inv'
  <1>1. /\ deletion' = [deletion EXCEPT ![g] = [purge |-> purge]]
        /\ UNCHANGED <<day, counter, ttl, users, request, run, stray, spent>>
    BY DEF DeleteCheck
  <1>2. TypeOK'
    BY <1>1 DEF Inv, TypeOK
  <1>3. Balance' /\ DailyCap'
    BY <1>1, SameCounts
  <1>4. Dates' /\ Blank' /\ RunStarted' /\ DeletedOwnsNothing'
    BY <1>1 DEF Inv, Dates, Blank, RunStarted, DeletedOwnsNothing, At
  <1> QED
    BY <1>2, <1>3, <1>4 DEF Inv

\* The transaction takes the runs with the guest; those on their way have no row.
LEMMA DeleteTxStep ==
  ASSUME Inv, NEW g \in Guests, DeleteTx(g)
  PROVE  Inv'
  <1>1. /\ run' = [q \in Requests |-> IF q \in RunsOf(g) THEN "none" ELSE run[q]]
        /\ users' = users \ {g} /\ deletion' = [deletion EXCEPT ![g] = Null]
        /\ UNCHANGED <<day, counter, ttl, request, stray, spent>>
    BY DEF DeleteTx
  <1>2. TypeOK'
    BY <1>1 DEF Inv, TypeOK
  <1>3. Balance' /\ DailyCap'
    BY <1>1, SameCounts
  <1>4. \A q \in Requests : run'[q] # "none" => run[q] # "none" /\ request[q].guest # g
    BY <1>1 DEF RunsOf
  <1>5. Dates' /\ Blank' /\ RunStarted' /\ DeletedOwnsNothing'
    BY <1>1, <1>4 DEF Inv, Dates, Blank, RunStarted, DeletedOwnsNothing, At
  <1> QED
    BY <1>2, <1>3, <1>5 DEF Inv

LEMMA DeleteThrowStep ==
  ASSUME Inv, NEW g \in Guests, DeleteThrow(g)
  PROVE  Inv'
  <1>1. /\ Fault /\ deletion' = [deletion EXCEPT ![g] = Null]
        /\ UNCHANGED <<day, counter, ttl, users, request, run, stray>>
    BY DEF DeleteThrow
  <1>2. /\ spent' \in [crashes : 0..MaxCrashes, faults : 0..MaxFaults]
        /\ spent' # [crashes |-> 0, faults |-> 0]
    BY <1>1, SpentType DEF Inv
  <1>3. TypeOK'
    BY <1>1, <1>2 DEF Inv, TypeOK
  <1>4. Balance' /\ DailyCap'
    BY <1>1, <1>2, SameCounts
  <1>5. Dates' /\ Blank' /\ RunStarted' /\ DeletedOwnsNothing'
    BY <1>1 DEF Inv, Dates, Blank, RunStarted, DeletedOwnsNothing, At
  <1> QED
    BY <1>3, <1>4, <1>5 DEF Inv

-----------------------------------------------------------------------------
(* The theorems *)

LEMMA InitInv == Init => Inv
  <1> SUFFICES ASSUME Init PROVE Inv
    OBVIOUS
  <1>1. TypeOK
    BY AdmissionAssumption DEF Init, TypeOK, Days
  <1>2. Held(day) = {} /\ Owing(day) = {}
    BY DEF Init, Held, Owing
  <1>3. counter[day] = 0 /\ stray[day] = 0
    BY <1>1 DEF Init, TypeOK
  <1>4. Balance /\ DailyCap
    BY <1>2, <1>3, AdmissionAssumption, FS_EmptySet DEF Balance, DailyCap
  <1>5. Dates /\ Blank /\ RunStarted /\ DeletedOwnsNothing
    BY DEF Init, Dates, Blank, RunStarted, DeletedOwnsNothing
  <1> QED
    BY <1>1, <1>4, <1>5 DEF Inv

LEMMA StutterInv == Inv /\ UNCHANGED vars => Inv'
  <1> SUFFICES ASSUME Inv, UNCHANGED vars PROVE Inv'
    OBVIOUS
  <1>1. Balance' /\ DailyCap'
    BY SameCounts DEF vars
  <1>2. TypeOK'
    BY DEF Inv, TypeOK, vars
  <1>3. Dates' /\ Blank' /\ RunStarted' /\ DeletedOwnsNothing'
    BY DEF Inv, Dates, Blank, RunStarted, DeletedOwnsNothing, At, vars
  <1> QED
    BY <1>1, <1>2, <1>3 DEF Inv

LEMMA InductiveInv == Inv /\ [Next]_vars => Inv'
  <1> SUFFICES ASSUME Inv, [Next]_vars PROVE Inv'
    OBVIOUS
  <1>1. CASE Midnight
    BY <1>1, MidnightStep
  <1>2. CASE Crash
    BY <1>2, CrashStep
  <1>3. ASSUME NEW d \in Days, KeyExpires(d) PROVE Inv'
    BY <1>3, KeyExpiresStep
  <1>4. ASSUME NEW q \in Requests, RequestStep(q) PROVE Inv'
    <2>1. CASE \E g \in Guests, t \in Types : Start(q, g, t)
      BY <2>1, StartStep
    <2>2. CASE Count(q) \/ Incr(q) \/ Expire(q) \/ Undo(q)
      BY <2>2, CountStep, IncrStep, ExpireStep, UndoStep
    <2>3. CASE Create(q) \/ CreateFails(q) \/ Release(q)
      BY <2>3, CreateStep, CreateFailsStep, ReleaseStep
    <2>4. CASE Throw(q) \/ Resend(q)
      BY <2>4, ThrowStep, ResendStep
    <2> QED
      BY <1>4, <2>1, <2>2, <2>3, <2>4 DEF RequestStep
  <1>5. ASSUME NEW q \in Requests, RunEnds(q) PROVE Inv'
    BY <1>5, RunEndsStep
  <1>6. ASSUME NEW g \in Guests, DeleteStep(g) PROVE Inv'
    BY <1>6, DeleteCheckStep, DeleteTxStep, DeleteThrowStep DEF DeleteStep
  <1>7. CASE UNCHANGED vars
    BY <1>7, StutterInv
  <1> QED
    BY <1>1, <1>2, <1>3, <1>4, <1>5, <1>6, <1>7 DEF Next

LEMMA AlwaysInv == Spec => []Inv
  BY InitInv, InductiveInv, PTL DEF Spec

\* The state keeps its type.
THEOREM AdmissionTypeCorrect == Spec => []TypeOK
  <1>1. Inv => TypeOK
    BY DEF Inv
  <1> QED
    BY <1>1, AlwaysInv, PTL

\* tryAdmitDailyRun and releaseDailyRun: while a day lasts no more starts are
\* admitted on it than the cap and one for each stray decrement of its key.
THEOREM DailyCapKept == Spec => []DailyCap
  <1>1. Inv => DailyCap
    BY DEF Inv
  <1> QED
    BY <1>1, AlwaysInv, PTL

\* Without crashes and failures today's counter is exactly what it stands for.
THEOREM SlotsAreNotLost == Spec => []NoSlotLost
  <1>1. Inv => NoSlotLost
    <2> SUFFICES ASSUME Inv PROVE NoSlotLost
      OBVIOUS
    <2>1. counter[day] \in Int /\ stray[day] \in Int
      BY DEF Inv, TypeOK
    <2> QED
      BY <2>1, Counts DEF Inv, Balance, NoSlotLost
  <1> QED
    BY <1>1, AlwaysInv, PTL

\* No run of a deleted guest remains, and none of those on their way appears.
THEOREM DeletedGuestsOwnNothing == Spec => []DeletedOwnsNothing
  <1>1. Inv => DeletedOwnsNothing
    BY DEF Inv
  <1> QED
    BY <1>1, AlwaysInv, PTL
=============================================================================
