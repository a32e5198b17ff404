---------------------------- MODULE MCRunEngine ----------------------------
(***************************************************************************)
(* The module TLC checks.  The runs differ in what may happen to them      *)
(* (TwoStage, Cancellable), so no symmetry is declared.                    *)
(***************************************************************************)
EXTENDS RunEngineProps
=============================================================================
