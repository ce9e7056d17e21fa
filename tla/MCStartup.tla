----------------------------- MODULE MCStartup -----------------------------
(***************************************************************************)
(* Instances of Startup for TLC.                                           *)
(***************************************************************************)
EXTENDS Startup

MCTools == <<"systemctl", "docker", "curl">>
=============================================================================
