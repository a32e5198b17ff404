-------------------------- MODULE MCGuestAdmission --------------------------
(***************************************************************************)
(* The module TLC checks.  Only safety is checked, and requests, guests    *)
(* and types are interchangeable, so any of them may be permuted.          *)
(***************************************************************************)
EXTENDS GuestAdmission, TLC

Symmetry == Permutations(Requests) \cup Permutations(Guests)
=============================================================================
