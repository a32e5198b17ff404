--------------------------- MODULE MCReviewWindow --------------------------
(***************************************************************************)
(* The module TLC checks.  Liveness is among the properties, so no         *)
(* symmetry is declared.                                                   *)
(***************************************************************************)
EXTENDS ReviewWindow
=============================================================================
