------------------------- MODULE ReviewWindowProofs ------------------------
(***************************************************************************)
(* Theorems about ReviewWindow, for every set of runs, any number of       *)
(* requests and sweeps in flight, and any window.                          *)
(*                                                                         *)
(* LockInWindow is not inductive: a lock is dated by what a request or a   *)
(* sweep learned earlier, so the invariant adds what they know of the row  *)
(* they are about to write.                                                *)
(***************************************************************************)
EXTENDS ReviewWindow, TLAPS

-----------------------------------------------------------------------------
(* The inductive invariant *)

\* A request in flight was let in inside the window of its run.
RequestInv ==
  \A q \in Requests : request[q] # Null =>
    /\ review[request[q].run].finished # Null
    /\ review[request[q].run].finished <= request[q].at
    /\ request[q].at < Expiry(request[q].run)
    /\ request[q].at <= now

\* A sweep holds only runs whose window has passed.
SweepInv ==
  \A s \in Sweeps : \A r \in sweep[s].todo :
    review[r].finished # Null /\ Expiry(r) <= now

\* No pipeline has finished in the future.
ClockInv ==
  \A r \in Runs : review[r].finished # Null => review[r].finished <= now

Inv == TypeOK /\ LockInWindow /\ RequestInv /\ SweepInv /\ ClockInv

-----------------------------------------------------------------------------
(* Type correctness *)

\* A column may be overwritten, and the others keep their value.
LEMMA RowFields ==
  ASSUME NEW row \in ReviewRow
  PROVE  /\ \A t \in Time : [row EXCEPT !.finished = t] \in ReviewRow
         /\ \A t \in Nat : [row EXCEPT !.locked = t] \in ReviewRow
         /\ \A n \in (1..MaxStars) \cup {Null} : [row EXCEPT !.rating = n] \in ReviewRow
         /\ \A q \in Requests : [row EXCEPT !.output = q] \in ReviewRow
  BY DEF ReviewRow

\* What an update makes of a row is a row with the same anchor; only finalize
\* locks it, with the date it read.
LEMMA WrittenRow ==
  ASSUME NEW q \in Requests, request[q] \in Request, NEW row \in ReviewRow,
         NEW new \in Written(q, row)
  PROVE  /\ new \in ReviewRow
         /\ new.finished = row.finished
         /\ \/ new.locked = row.locked
            \/ /\ new.locked = request[q].at
               /\ new.rating = row.rating
               /\ new.output = row.output
  <1>1. request[q].at \in Nat
    BY ReviewAssumption DEF Request, Time
  <1>2. CASE request[q].kind = "rate"
    <2>1. PICK n \in (1..MaxStars) \cup {Null} : new = [row EXCEPT !.rating = n]
      BY <1>2 DEF Written, Rateable
    <2> QED
      BY <2>1, RowFields DEF ReviewRow
  <1>3. CASE request[q].kind = "edit"
    <2>1. new = [row EXCEPT !.output = q]
      BY <1>3 DEF Written
    <2> QED
      BY <2>1, RowFields DEF ReviewRow
  <1>4. CASE request[q].kind = "finalize"
    <2>1. new = [row EXCEPT !.locked = request[q].at]
      BY <1>4 DEF Written
    <2> QED
      BY <2>1, <1>1, RowFields DEF ReviewRow
  <1> QED
    BY <1>2, <1>3, <1>4 DEF Request

\* What a crash and a throw leave behind has its type.
LEMMA DownType ==
  ASSUME TypeOK, Down
  PROVE  /\ up' \in BOOLEAN
         /\ request' \in [Requests -> Request \cup {Null}]
         /\ sweep' \in [Sweeps -> Sweep]
  BY DEF Down, NoSweep, Sweep

LEMMA SpentType ==
  ASSUME TypeOK
  PROVE  /\ Fault => spent' \in [crashes : 0..MaxCrashes, faults : 0..MaxFaults]
         /\ Crash => spent' \in [crashes : 0..MaxCrashes, faults : 0..MaxFaults]
  BY ReviewAssumption DEF TypeOK, Fault, Crash

\* A sweep dates its lock from an anchor that is there, hence SweepInv.
LEMMA TypeStep == TypeOK /\ SweepInv /\ [Next]_vars => TypeOK'
  <1> SUFFICES ASSUME TypeOK, SweepInv, [Next]_vars PROVE TypeOK'
    OBVIOUS
  <1>1. CASE Tick
    BY <1>1, ReviewAssumption DEF Tick, TypeOK, Time
  <1>2. CASE Crash
    BY <1>2, DownType, SpentType DEF Crash, TypeOK
  <1>3. ASSUME NEW r \in Runs, Finish(r) PROVE TypeOK'
    <2>1. [review[r] EXCEPT !.finished = now] \in ReviewRow
      BY RowFields DEF TypeOK
    <2>2. review' = [review EXCEPT ![r] = [@ EXCEPT !.finished = now]]
      BY <1>3 DEF Finish
    <2> QED
      BY <1>3, <2>1, <2>2 DEF Finish, TypeOK
  <1>4. ASSUME NEW q \in Requests, NEW r \in Runs,
               NEW kind \in {"rate", "edit", "finalize"}, Check(q, r, kind)
        PROVE  TypeOK'
    <2>1. request'[q] \in Request /\ request' \in [Requests -> Request \cup {Null}]
      BY <1>4 DEF Check, TypeOK, Request
    <2> QED
      BY <1>4, <2>1 DEF Check, TypeOK
  <1>5. ASSUME NEW q \in Requests, Plan(q) PROVE TypeOK'
    <2>1. [request[q] EXCEPT !.pc = "write"] \in Request
      BY <1>5 DEF Plan, TypeOK, Request
    <2>2. request' = [request EXCEPT ![q] = [@ EXCEPT !.pc = "write"]]
      BY <1>5 DEF Plan
    <2> QED
      BY <1>5, <2>1, <2>2 DEF Plan, TypeOK
  <1>6. ASSUME NEW q \in Requests, Refuse(q) PROVE TypeOK'
    BY <1>6 DEF Refuse, TypeOK
  <1>7. ASSUME NEW q \in Requests, Write(q) PROVE TypeOK'
    <2> DEFINE r == request[q].run
    <2>1. request[q] \in Request /\ r \in Runs /\ review[r] \in ReviewRow
      BY <1>7 DEF Write, TypeOK, Request
    <2>2. review' \in [Runs -> ReviewRow]
      <3>1. CASE UNCHANGED review
        BY <3>1 DEF TypeOK
      <3>2. ASSUME NEW row \in Written(q, review[r]),
                   review' = [review EXCEPT ![r] = row]
            PROVE  review' \in [Runs -> ReviewRow]
        BY <3>2, <2>1, WrittenRow DEF TypeOK
      <3> QED
        BY <1>7, <3>1, <3>2 DEF Write
    <2> QED
      BY <1>7, <2>2 DEF Write, TypeOK
  <1>8. ASSUME NEW q \in Requests, RequestThrow(q) PROVE TypeOK'
    BY <1>8, ReviewAssumption DEF RequestThrow, Fault, TypeOK
  <1>9. ASSUME NEW s \in Sweeps, SweepFind(s) PROVE TypeOK'
    BY <1>9 DEF SweepFind, Expired, TypeOK, Sweep
  <1>10. ASSUME NEW s \in Sweeps, NEW r \in Runs, SweepLock(s, r) PROVE TypeOK'
    <2> DEFINE date == IF review[r].locked = Null THEN Expiry(r) ELSE review[r].locked
    <2>1. review[r] \in ReviewRow /\ sweep[s] \in Sweep
      BY DEF TypeOK
    <2>2. date \in Nat
      <3>1. r \in sweep[s].todo
        BY <1>10 DEF SweepLock
      <3>2. review[r].finished # Null
        BY <3>1 DEF SweepInv
      <3> QED
        BY <2>1, <3>2, ReviewAssumption DEF ReviewRow, Expiry, Time
    <2>3. [review[r] EXCEPT !.locked = date] \in ReviewRow
      BY <2>1, <2>2, RowFields
    <2>4. review' \in [Runs -> ReviewRow]
      BY <1>10, <2>3 DEF SweepLock, TypeOK
    <2>5. [sweep[s] EXCEPT !.todo = @ \ {r}] \in Sweep
      BY <2>1 DEF Sweep
    <2>6. sweep' \in [Sweeps -> Sweep]
      BY <1>10, <2>5 DEF SweepLock, TypeOK
    <2> QED
      BY <1>10, <2>4, <2>6 DEF SweepLock, TypeOK
  <1>11. ASSUME NEW s \in Sweeps, SweepEnd(s) PROVE TypeOK'
    BY <1>11 DEF SweepEnd, TypeOK, Sweep
  <1>12. ASSUME NEW s \in Sweeps, SweepThrow(s) PROVE TypeOK'
    <2>1. spent' \in [crashes : 0..MaxCrashes, faults : 0..MaxFaults]
      BY <1>12, SpentType DEF SweepThrow
    <2>2. CASE Down
      BY <1>12, <2>1, <2>2, DownType DEF SweepThrow, TypeOK
    <2>3. CASE up /\ sweep' = [sweep EXCEPT ![s] = [pc |-> "idle", todo |-> {}]]
               /\ UNCHANGED <<up, request>>
      BY <1>12, <2>1, <2>3 DEF SweepThrow, TypeOK, Sweep
    <2> QED
      BY <1>12, <2>2, <2>3 DEF SweepThrow
  <1>13. CASE UNCHANGED vars
    BY <1>13 DEF vars, TypeOK
  <1> QED
    BY <1>1, <1>2, <1>3, <1>4, <1>5, <1>6, <1>7, <1>8, <1>9, <1>10, <1>11,
       <1>12, <1>13 DEF Next, RequestStep, SweepStep

-----------------------------------------------------------------------------
(* The rest of the invariant *)

\* What a step may do to a row: nothing, set its anchor to the present, revise
\* it while it is open, or lock it inside its window.
Opens(r) == review[r].finished = Null /\ review'[r] = [review[r] EXCEPT !.finished = now]

Revises(r) ==
  /\ review[r].finished # Null
  /\ review[r].locked = Null
  /\ review'[r].finished = review[r].finished
  /\ review'[r].locked = Null

Locks(r) ==
  /\ review[r].finished # Null
  /\ review[r].locked = Null
  /\ \E t \in review[r].finished .. Expiry(r) :
       t <= now /\ review'[r] = [review[r] EXCEPT !.locked = t]

\* A request that writes revises or locks the row of its run, or leaves it.
LEMMA WriteEffect ==
  ASSUME Inv, NEW q \in Requests, Write(q), NEW r \in Runs
  PROVE  review'[r] = review[r] \/ Revises(r) \/ Locks(r)
  <1> DEFINE w == request[q].run
  <1>1. request[q] \in Request /\ review[r] \in ReviewRow
    BY DEF Write, Inv, TypeOK
  <1>2. CASE w # r \/ UNCHANGED review
    BY <1>2 DEF Write, Inv, TypeOK
  <1>3. ASSUME w = r, review[w].locked = Null,
               NEW row \in Written(q, review[w]),
               review' = [review EXCEPT ![w] = row]
        PROVE  Revises(r) \/ Locks(r)
    <2>1. review'[r] = row /\ row \in Written(q, review[r])
      BY <1>3 DEF Inv, TypeOK
    <2>2. /\ review[r].finished # Null
          /\ review[r].finished <= request[q].at
          /\ request[q].at < Expiry(r)
          /\ request[q].at <= now
      BY <1>3 DEF Inv, RequestInv, Write
    <2>3. row.finished = review[r].finished
      BY <1>1, <2>1, WrittenRow
    <2>4. CASE row.locked = review[r].locked
      BY <1>3, <2>1, <2>2, <2>3, <2>4 DEF Revises
    <2>5. CASE row.locked # review[r].locked
      <3>1. request[q].kind = "finalize"
        <4>1. request[q].kind = "rate" => row.locked = review[r].locked
          BY <2>1, <1>1 DEF Written, Rateable, ReviewRow
        <4>2. request[q].kind = "edit" => row.locked = review[r].locked
          BY <2>1, <1>1 DEF Written, ReviewRow
        <4> QED
          BY <4>1, <4>2, <2>5, <1>1 DEF Request
      <3>2. row = [review[r] EXCEPT !.locked = request[q].at]
        BY <2>1, <3>1 DEF Written
      <3>3. request[q].at \in review[r].finished .. Expiry(r)
        BY <1>1, <2>2, ReviewAssumption DEF Request, ReviewRow, Time, Expiry
      <3> QED
        BY <1>3, <2>1, <2>2, <3>2, <3>3 DEF Locks
    <2> QED
      BY <2>4, <2>5
  <1> QED
    BY <1>2, <1>3 DEF Write

\* A sweep locks a row it found at the end of its window, or leaves it.
LEMMA SweepEffect ==
  ASSUME Inv, NEW s \in Sweeps, NEW w \in Runs, SweepLock(s, w), NEW r \in Runs
  PROVE  review'[r] = review[r] \/ Locks(r)
  <1>1. review[r] \in ReviewRow /\ now \in Nat
    BY ReviewAssumption DEF Inv, TypeOK, Time
  <1>2. CASE w # r
    BY <1>2 DEF SweepLock, Inv, TypeOK
  <1>3. CASE w = r /\ review[r].locked # Null
    <2>1. review'[r] = [review[r] EXCEPT !.locked = review[r].locked]
      BY <1>3 DEF SweepLock, Inv, TypeOK
    <2> QED
      BY <2>1, <1>1 DEF ReviewRow
  <1>4. CASE w = r /\ review[r].locked = Null
    <2>1. review'[r] = [review[r] EXCEPT !.locked = Expiry(r)]
      BY <1>4 DEF SweepLock, Inv, TypeOK
    <2>2. review[r].finished # Null /\ Expiry(r) <= now
      BY <1>4 DEF SweepLock, Inv, SweepInv
    <2>3. Expiry(r) \in review[r].finished .. Expiry(r)
      BY <1>1, <2>2, ReviewAssumption DEF ReviewRow, Time, Expiry
    <2> QED
      BY <1>4, <2>1, <2>2, <2>3 DEF Locks
  <1> QED
    BY <1>2, <1>3, <1>4

Only(r) == \A x \in Runs \ {r} : review'[x] = review[x]

\* A step touches at most one row, in one of the three ways.
LEMMA RowStep ==
  ASSUME Inv, [Next]_vars
  PROVE  \/ \A x \in Runs : review'[x] = review[x]
         \/ \E r \in Runs : Only(r) /\ (Opens(r) \/ Revises(r) \/ Locks(r))
  <1>1. ASSUME NEW r \in Runs, Finish(r)
        PROVE  Only(r) /\ Opens(r)
    BY <1>1 DEF Finish, Only, Opens, Inv, TypeOK
  <1>2. ASSUME NEW q \in Requests, Write(q)
        PROVE  \/ \A x \in Runs : review'[x] = review[x]
               \/ \E r \in Runs : Only(r) /\ (Revises(r) \/ Locks(r))
    <2> DEFINE w == request[q].run
    <2>1. w \in Runs
      BY <1>2 DEF Write, Inv, TypeOK, Request
    <2>2. Only(w)
      BY <1>2 DEF Write, Only, Inv, TypeOK
    <2>3. review'[w] = review[w] \/ Revises(w) \/ Locks(w)
      BY <1>2, <2>1, WriteEffect
    <2> QED
      BY <2>1, <2>2, <2>3 DEF Only
  <1>3. ASSUME NEW s \in Sweeps, NEW w \in Runs, SweepLock(s, w)
        PROVE  (\A x \in Runs : review'[x] = review[x]) \/ (Only(w) /\ Locks(w))
    <2>1. Only(w)
      BY <1>3 DEF SweepLock, Only, Inv, TypeOK
    <2>2. review'[w] = review[w] \/ Locks(w)
      BY <1>3, SweepEffect
    <2> QED
      BY <2>1, <2>2 DEF Only
  <1>4. CASE UNCHANGED review
    BY <1>4
  <1> QED
    BY <1>1, <1>2, <1>3, <1>4 DEF Next, RequestStep, SweepStep, vars, Tick, Crash,
       Check, Plan, Refuse, RequestThrow, SweepFind, SweepEnd, SweepThrow

LEMMA ClockStep == TypeOK /\ [Next]_vars => now' \in Nat /\ now' >= now
  BY ReviewAssumption DEF TypeOK, Time, Next, RequestStep, SweepStep, vars, Tick,
     Crash, Finish, Check, Plan, Refuse, Write, RequestThrow, SweepFind, SweepLock,
     SweepEnd, SweepThrow

\* An anchor, once set, stays; and a row is dated and locked as it should be.
LEMMA RowInv ==
  ASSUME Inv, [Next]_vars, NEW r \in Runs
  PROVE  /\ review[r].finished # Null => review'[r].finished = review[r].finished
         /\ review'[r].finished # Null => review'[r].finished <= now'
         /\ review'[r].locked # Null =>
              /\ review'[r].finished # Null
              /\ review'[r].finished <= review'[r].locked
              /\ review'[r].locked <= review'[r].finished + Ttl
              /\ review'[r].locked <= now'
  <1>1. now \in Nat /\ now' \in Nat /\ now' >= now
    BY ClockStep, ReviewAssumption DEF Inv, TypeOK, Time
  <1>2. review[r] \in ReviewRow
    BY DEF Inv, TypeOK
  <1>3. /\ review[r].finished # Null => review[r].finished <= now
        /\ review[r].locked # Null =>
             /\ review[r].finished # Null
             /\ review[r].finished <= review[r].locked
             /\ review[r].locked <= review[r].finished + Ttl
             /\ review[r].locked <= now
    BY DEF Inv, ClockInv, LockInWindow, Expiry
  <1>4. CASE review'[r] = review[r]
    BY <1>1, <1>2, <1>3, <1>4, ReviewAssumption DEF ReviewRow, Time
  <1>5. CASE Opens(r)
    <2>1. review'[r].finished = now /\ review'[r].locked = review[r].locked
      BY <1>2, <1>5 DEF Opens, ReviewRow
    <2>2. review[r].locked = Null
      BY <1>3, <1>5 DEF Opens
    <2> QED
      BY <1>1, <1>5, <2>1, <2>2 DEF Opens
  <1>6. CASE Revises(r)
    BY <1>1, <1>2, <1>3, <1>6, ReviewAssumption DEF Revises, ReviewRow, Time
  <1>7. CASE Locks(r)
    <2>1. PICK t \in review[r].finished .. Expiry(r) :
            t <= now /\ review'[r] = [review[r] EXCEPT !.locked = t]
      BY <1>7 DEF Locks
    <2>2. review'[r].locked = t /\ review'[r].finished = review[r].finished
      BY <1>2, <2>1 DEF ReviewRow
    <2>3. review[r].finished \in Nat
      BY <1>2, <1>7, ReviewAssumption DEF Locks, ReviewRow, Time
    <2> QED
      BY <1>1, <1>3, <1>7, <2>1, <2>2, <2>3, ReviewAssumption DEF Locks, Expiry
  <1> QED
    BY <1>4, <1>5, <1>6, <1>7, RowStep DEF Only

\* What a request learned is still true when it writes.
LEMMA RequestStepInv ==
  ASSUME Inv, TypeOK', [Next]_vars
  PROVE  RequestInv'
  <1> SUFFICES ASSUME NEW q \in Requests, request'[q] # Null
               PROVE  /\ review'[request'[q].run].finished # Null
                      /\ review'[request'[q].run].finished <= request'[q].at
                      /\ request'[q].at < review'[request'[q].run].finished + Ttl
                      /\ request'[q].at <= now'
    BY DEF RequestInv, Expiry
  <1>1. now \in Nat /\ now' \in Nat /\ now' >= now
    BY ClockStep, ReviewAssumption DEF Inv, TypeOK, Time
  <1>2. CASE /\ request[q] # Null
             /\ request'[q].run = request[q].run
             /\ request'[q].at = request[q].at
    <2>1. request[q].run \in Runs /\ request[q].at \in Nat
      BY <1>2, ReviewAssumption DEF Inv, TypeOK, Request, Time
    <2>2. review'[request[q].run].finished = review[request[q].run].finished
      BY <1>2, <2>1, RowInv DEF Inv, RequestInv
    <2> QED
      BY <1>1, <1>2, <2>1, <2>2 DEF Inv, RequestInv, Expiry
  <1>3. ASSUME NEW r \in Runs, NEW kind \in {"rate", "edit", "finalize"}, Check(q, r, kind)
        PROVE  /\ review'[request'[q].run].finished # Null
               /\ review'[request'[q].run].finished <= request'[q].at
               /\ request'[q].at < review'[request'[q].run].finished + Ttl
               /\ request'[q].at <= now'
    <2>1. request'[q].run = r /\ request'[q].at = now /\ review' = review /\ now' = now
      BY <1>3 DEF Check, Inv, TypeOK
    <2>2. review[r].finished # Null /\ now < Expiry(r)
      BY <1>3 DEF Check, Open
    <2> QED
      BY <1>1, <2>1, <2>2 DEF Inv, ClockInv, Expiry
  <1>4. ASSUME Plan(q)
        PROVE  request[q] # Null /\ request'[q].run = request[q].run
                                /\ request'[q].at = request[q].at
    <2>1. request'[q] = [request[q] EXCEPT !.pc = "write"] /\ request[q] \in Request
      BY <1>4 DEF Plan, Inv, TypeOK
    <2> QED
      BY <1>4, <2>1 DEF Plan, Request
  <1>5. CASE request'[q] = request[q]
    BY <1>2, <1>5
  <1>6. CASE \E p \in Requests : RequestStep(p)
    <2>1. PICK p \in Requests : RequestStep(p)
      BY <1>6
    <2>2. CASE p # q
      <3>1. request'[q] = request[q]
        BY <2>1, <2>2 DEF RequestStep, Check, Plan, Refuse, Write, RequestThrow, Inv, TypeOK
      <3> QED
        BY <3>1, <1>5
    <2>3. CASE p = q
      <3>1. ~Refuse(q) /\ ~Write(q) /\ ~RequestThrow(q)
        BY DEF Refuse, Write, RequestThrow, Inv, TypeOK
      <3> QED
        BY <2>1, <2>3, <3>1, <1>2, <1>3, <1>4 DEF RequestStep
    <2> QED
      BY <2>2, <2>3
  <1>7. CASE Down
    BY <1>7 DEF Down
  <1>8. CASE Tick \/ (\E r \in Runs : Finish(r)) \/ (\E s \in Sweeps : SweepStep(s))
             \/ UNCHANGED vars
    BY <1>5, <1>8 DEF Tick, Finish, SweepStep, SweepFind, SweepLock, SweepEnd, vars
  <1> QED
    BY <1>5, <1>6, <1>7, <1>8 DEF Next, Crash, SweepThrow

LEMMA SweepStepInv ==
  ASSUME Inv, TypeOK', [Next]_vars
  PROVE  SweepInv'
  <1> SUFFICES ASSUME NEW s \in Sweeps, NEW r \in sweep'[s].todo
               PROVE  review'[r].finished # Null /\ review'[r].finished + Ttl <= now'
    BY DEF SweepInv, Expiry
  <1>1. now \in Nat /\ now' \in Nat /\ now' >= now /\ r \in Runs
    BY ClockStep, ReviewAssumption DEF Inv, TypeOK, Time, Sweep
  <1>2. review[r] \in ReviewRow
    BY <1>1 DEF Inv, TypeOK
  <1>3. CASE review[r].finished # Null /\ Expiry(r) <= now
    <2>1. review'[r].finished = review[r].finished
      BY <1>1, <1>3, RowInv
    <2> QED
      BY <1>1, <1>2, <1>3, <2>1, ReviewAssumption DEF Expiry, ReviewRow, Time
  <1>4. CASE r \in sweep[s].todo
    BY <1>3, <1>4 DEF Inv, SweepInv
  <1>5. CASE r \in Expired
    BY <1>1, <1>2, <1>3, <1>5, ReviewAssumption DEF Expired, Expiry, ReviewRow, Time
  <1>6. r \in sweep[s].todo \/ r \in Expired
    <2>1. ASSUME NEW t \in Sweeps, SweepStep(t) \/ SweepThrow(t)
          PROVE  r \in sweep[s].todo \/ r \in Expired
      <3>1. CASE SweepFind(t)
        BY <3>1 DEF SweepFind, Inv, TypeOK
      <3>2. ASSUME NEW w \in Runs, SweepLock(t, w)
            PROVE  r \in sweep[s].todo
        <4>1. CASE t # s
          BY <3>2, <4>1 DEF SweepLock, Inv, TypeOK
        <4>2. CASE t = s
          <5>1. sweep[s] \in Sweep
            BY DEF Inv, TypeOK
          <5>2. sweep'[s] = [sweep[s] EXCEPT !.todo = sweep[s].todo \ {w}]
            BY <3>2, <4>2 DEF SweepLock, Inv, TypeOK
          <5>3. sweep'[s].todo = sweep[s].todo \ {w}
            BY <5>1, <5>2 DEF Sweep
          <5> QED
            BY <5>3
        <4> QED
          BY <4>1, <4>2
      <3>3. CASE SweepEnd(t)
        <4>1. sweep' = [sweep EXCEPT ![t] = [@ EXCEPT !.pc = "idle"]]
          BY <3>3 DEF SweepEnd
        <4>2. sweep'[s].todo = sweep[s].todo
          BY <4>1 DEF Inv, TypeOK, Sweep
        <4> QED
          BY <4>2
      <3>4. CASE SweepThrow(t)
        BY <3>4 DEF SweepThrow, Down, NoSweep, Inv, TypeOK
      <3> QED
        BY <2>1, <3>1, <3>2, <3>3, <3>4 DEF SweepStep
    <2>2. CASE Crash
      BY <2>2 DEF Crash, Down, NoSweep
    <2>3. CASE UNCHANGED sweep
      BY <2>3
    <2> QED
      BY <2>1, <2>2, <2>3 DEF Next, RequestStep, Tick, Finish, Check, Plan, Refuse,
         Write, RequestThrow, vars
  <1> QED
    BY <1>4, <1>5, <1>6

LEMMA InitInv == Init => Inv
  <1> SUFFICES ASSUME Init PROVE Inv
    OBVIOUS
  <1>1. TypeOK
    <2>1. review \in [Runs -> ReviewRow]
      BY DEF Init, ReviewRow
    <2>2. now \in Time /\ spent \in [crashes : 0..MaxCrashes, faults : 0..MaxFaults]
      BY ReviewAssumption DEF Init, Time
    <2>3. sweep \in [Sweeps -> Sweep]
      BY DEF Init, NoSweep, Sweep
    <2> QED
      BY <2>1, <2>2, <2>3 DEF Init, TypeOK
  <1> QED
    BY <1>1 DEF Init, Inv, LockInWindow, RequestInv, SweepInv, ClockInv, NoSweep

LEMMA InductiveInv == Inv /\ [Next]_vars => Inv'
  <1> SUFFICES ASSUME Inv, [Next]_vars PROVE Inv'
    OBVIOUS
  <1>1. TypeOK'
    BY TypeStep DEF Inv
  <1>2. LockInWindow' /\ ClockInv'
    BY RowInv DEF LockInWindow, ClockInv, Expiry
  <1> QED
    BY <1>1, <1>2, RequestStepInv, SweepStepInv DEF Inv

LEMMA Invariance == Spec => []Inv
  BY InitInv, InductiveInv, PTL DEF Spec

\* The columns of a row after each of the three changes.
LEMMA RowChange ==
  ASSUME Inv, NEW r \in Runs
  PROVE  /\ Opens(r) => /\ Phase(r) = "none"
                         /\ Phase(r)' = "open"
                         /\ Content(r)' = Content(r)
         /\ Revises(r) => Phase(r) = "open" /\ Phase(r)' = "open"
         /\ Locks(r) => /\ Phase(r) = "open"
                        /\ Phase(r)' = "locked"
                        /\ Content(r)' = Content(r)
  <1>1. review[r] \in ReviewRow /\ now \in Nat
    BY ReviewAssumption DEF Inv, TypeOK, Time
  <1>2. ASSUME Opens(r)
        PROVE  Phase(r) = "none" /\ Phase(r)' = "open" /\ Content(r)' = Content(r)
    <2>1. review[r].locked = Null
      BY <1>2 DEF Opens, Inv, LockInWindow
    <2>2. /\ review'[r].finished = now
          /\ review'[r].locked = review[r].locked
          /\ review'[r].rating = review[r].rating
          /\ review'[r].output = review[r].output
      BY <1>1, <1>2 DEF Opens, ReviewRow
    <2>3. now # Null
      BY <1>1, ReviewAssumption
    <2> QED
      BY <1>2, <2>1, <2>2, <2>3 DEF Opens, Phase, Content
  <1>3. ASSUME Revises(r)
        PROVE  Phase(r) = "open" /\ Phase(r)' = "open"
    BY <1>3 DEF Revises, Phase
  <1>4. ASSUME Locks(r)
        PROVE  Phase(r) = "open" /\ Phase(r)' = "locked" /\ Content(r)' = Content(r)
    <2>1. PICK t \in review[r].finished .. Expiry(r) :
            review'[r] = [review[r] EXCEPT !.locked = t]
      BY <1>4 DEF Locks
    <2>2. /\ review'[r].finished = review[r].finished
          /\ review'[r].locked = t
          /\ review'[r].rating = review[r].rating
          /\ review'[r].output = review[r].output
      BY <1>1, <2>1 DEF ReviewRow
    <2>3. t # Null
      BY ReviewAssumption
    <2> QED
      BY <1>4, <2>2, <2>3 DEF Locks, Phase, Content
  <1> QED
    BY <1>2, <1>3, <1>4

\* Initial states map to initial states, and every step to a step or a stutter.
LEMMA RefineInit == Init => Abstract!Init
  <1> SUFFICES ASSUME Init PROVE Abstract!Init
    OBVIOUS
  <1>1. ASSUME NEW r \in Runs
        PROVE  Phase(r) = "none" /\ Content(r) = <<Null, "pipeline">>
    BY DEF Init, Phase, Content
  <1> QED
    BY <1>1 DEF Abstract!Init

LEMMA RefineStep == Inv /\ TypeOK' /\ [Next]_vars => [Abstract!Next]_Abstract!vars
  <1> SUFFICES ASSUME Inv, TypeOK', [Next]_vars PROVE [Abstract!Next]_Abstract!vars
    OBVIOUS
  <1>1. CASE \A x \in Runs : review'[x] = review[x]
    <2>1. \A x \in Runs : Phase(x)' = Phase(x) /\ Content(x)' = Content(x)
      BY <1>1 DEF Phase, Content
    <2> QED
      BY <2>1 DEF Abstract!vars
  <1>2. ASSUME NEW r \in Runs, Only(r), Opens(r) \/ Revises(r) \/ Locks(r)
        PROVE  Abstract!Next
    <2>1. \A x \in Runs \ {r} : Phase(x)' = Phase(x) /\ Content(x)' = Content(x)
      BY <1>2 DEF Only, Phase, Content
    <2>2. CASE Opens(r)
      <3>1. Abstract!Open(r)
        BY <2>1, <2>2, RowChange DEF Abstract!Open
      <3> QED
        BY <3>1 DEF Abstract!Next
    <2>3. CASE Revises(r)
      <3>1. Content(r)' \in ((1..MaxStars) \cup {Null}) \X (Requests \cup {"pipeline"})
        BY DEF TypeOK, ReviewRow, Content
      <3>2. Abstract!Revise(r)
        BY <2>1, <2>3, <3>1, RowChange DEF Abstract!Revise
      <3> QED
        BY <3>2 DEF Abstract!Next
    <2>4. CASE Locks(r)
      <3>1. Abstract!Lock(r)
        BY <2>1, <2>4, RowChange DEF Abstract!Lock
      <3> QED
        BY <3>1 DEF Abstract!Next
    <2> QED
      BY <1>2, <2>2, <2>3, <2>4
  <1> QED
    BY <1>1, <1>2, RowStep

\* The rating or the output of a review changes only by the write of a request,
\* which was let in inside the window.
LEMMA LateStep ==
  ASSUME Inv, [Next]_vars, NEW r \in Runs, Content(r)' # Content(r)
  PROVE  \E q \in Requests : /\ request[q] # Null
                            /\ request[q].run = r
                            /\ request[q].at < Expiry(r)
  <1>1. PICK q \in Requests : Write(q) /\ request[q].run = r
    <2>1. ~ UNCHANGED review
      BY DEF Content
    <2>2. ASSUME NEW x \in Runs, Finish(x) PROVE FALSE
      <3>1. Only(x) /\ Opens(x)
        BY <2>2 DEF Finish, Only, Opens, Inv, TypeOK
      <3> QED
        BY <3>1, RowChange DEF Only, Content
    <2>3. ASSUME NEW s \in Sweeps, NEW x \in Runs, SweepLock(s, x) PROVE FALSE
      BY <2>3, SweepEffect, RowChange DEF Content
    <2>4. PICK q \in Requests : Write(q)
      BY <2>1, <2>2, <2>3 DEF Next, RequestStep, SweepStep, vars, Tick, Crash, Check,
         Plan, Refuse, RequestThrow, SweepFind, SweepEnd, SweepThrow
    <2>5. request[q].run = r
      BY <2>4 DEF Write, Content, Inv, TypeOK
    <2> QED
      BY <2>4, <2>5
  <1> QED
    BY <1>1 DEF Write, Inv, RequestInv

-----------------------------------------------------------------------------
(* Theorems *)

\* TypeOK holds in every reachable state, for every value of the constants.
THEOREM ReviewTypeCorrect == Spec => []TypeOK
  <1>1. Inv => TypeOK
    BY DEF Inv
  <1> QED
    BY <1>1, Invariance, PTL

\* R-10.5, R-10.9: every lock is dated inside its window and not in the future
\* (saveFinalizedAt, finalizeExpiredReviews).
THEOREM LocksAreInWindow == Spec => []LockInWindow
  <1>1. Inv => LockInWindow
    BY DEF Inv
  <1> QED
    BY <1>1, Invariance, PTL

\* R-10.8: past its window a review is changed only by a request that was let in
\* before (assertRunReviewable, saveRating, PrismaOutputEditedAdapter.commit).
THEOREM LateChangesWereInTime == Spec => LateChangeWasInTime
  <1>1. Inv /\ [Next]_vars =>
          [\A r \in Runs :
             /\ review[r].finished # Null
             /\ now >= Expiry(r)
             /\ Content(r)' # Content(r)
             => \E q \in Requests : /\ request[q] # Null
                                    /\ request[q].run = r
                                    /\ request[q].at < Expiry(r)]_vars
    BY LateStep
  <1> QED
    BY <1>1, Invariance, PTL DEF Spec, LateChangeWasInTime

\* R-10.7: ReviewWindow implements Review. A review opens once, is revised only
\* while open, and what is locked stays, for every interleaving of requests,
\* sweeps and crashes.
THEOREM ImplementsReview == Spec => FollowsReview
  <1>1. Inv /\ Inv' /\ [Next]_vars => [Abstract!Next]_Abstract!vars
    BY RefineStep DEF Inv
  <1> QED
    BY <1>1, RefineInit, Invariance, PTL DEF Spec, FollowsReview, Abstract!Spec
=============================================================================
