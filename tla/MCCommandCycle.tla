--------------------------- MODULE MCCommandCycle ---------------------------
(***************************************************************************)
(* Instances of CommandCycle for TLC.                                      *)
(***************************************************************************)
EXTENDS CommandCycle, TLC

\* Workers do the same; no property names one of them.
WorkerSymmetry == Permutations(Workers)
=============================================================================
