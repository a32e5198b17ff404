-------------------------- MODULE RunStatusGraph ---------------------------
(***************************************************************************)
(* What the runs component promises about the status of a run, seen from   *)
(* outside: a run is created queued and from then on only ever moves along *)
(* an edge of the status graph of spec/SPEC-RUNY.md, "Statusy (norma)".    *)
(* RunEngine is the detailed specification.                                *)
(***************************************************************************)
EXTENDS RunStatus

CONSTANT Runs

VARIABLE status

Init == status = [r \in Runs |-> "absent"]

\* POST /runs: the only way a run comes into being.
Start(r) ==
  /\ status[r] = "absent"
  /\ status' = [status EXCEPT ![r] = "queued"]

\* Any other change of status follows an allowed edge.
Move(r) ==
  \E to \in RunStatuses :
    /\ CanTransition(status[r], to)
    /\ status' = [status EXCEPT ![r] = to]

Next == \E r \in Runs : Start(r) \/ Move(r)

Spec == Init /\ [][Next]_status
=============================================================================
