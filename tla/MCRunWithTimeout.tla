-------------------------- MODULE MCRunWithTimeout --------------------------
(***************************************************************************)
(* Instances of RunWithTimeout for TLC.                                    *)
(***************************************************************************)
EXTENDS RunWithTimeout
=============================================================================
