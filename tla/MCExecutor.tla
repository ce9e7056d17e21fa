----------------------------- MODULE MCExecutor -----------------------------
(***************************************************************************)
(* Instances of Executor for TLC: floats with a mantissa of two bits, and  *)
(* waiting times around 0, 1 ms, 1/16 s and an hour.                       *)
(***************************************************************************)
EXTENDS Executor

MCDecimals == 4..7
MCFloat == [d \in MCDecimals |-> CASE d = 5 -> 4 [] d = 7 -> 8 [] OTHER -> d]
MCSeconds == {-15, 0, 9, 10, 15, 20, 625, 1250, 5000, 35999999, 36000000, 36000001}
=============================================================================
