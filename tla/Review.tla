------------------------------ MODULE Review -------------------------------
(***************************************************************************)
(* What the review of a run promises its author (spec/SPEC-RUNY.md, R-10): *)
(* it opens when the pipeline has finished, what it holds may be revised   *)
(* while it is open, and once locked it stays as it is.  ReviewWindow is   *)
(* the detailed specification.                                             *)
(***************************************************************************)
CONSTANTS
  Runs,
  Contents, \* what a review may hold
  Fresh     \* what it holds when it opens

VARIABLES phase, content

vars == <<phase, content>>

Init ==
  /\ phase = [r \in Runs |-> "none"]
  /\ content = [r \in Runs |-> Fresh]

Open(r) ==
  /\ phase[r] = "none"
  /\ phase' = [phase EXCEPT ![r] = "open"]
  /\ UNCHANGED content

Revise(r) ==
  /\ phase[r] = "open"
  /\ \E c \in Contents : content' = [content EXCEPT ![r] = c]
  /\ UNCHANGED phase

Lock(r) ==
  /\ phase[r] = "open"
  /\ phase' = [phase EXCEPT ![r] = "locked"]
  /\ UNCHANGED content

Next == \E r \in Runs : Open(r) \/ Revise(r) \/ Lock(r)

Spec == Init /\ [][Next]_vars
=============================================================================
