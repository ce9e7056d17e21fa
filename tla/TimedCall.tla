------------------------------ MODULE TimedCall ------------------------------
(***************************************************************************)
(* What a caller may rely on when it runs a command with a timeout.  There *)
(* are no pipes here, no polls and no signals, only the command, the       *)
(* timeout and the one reply.  RunWithTimeout implements this              *)
(* specification.                                                          *)
(***************************************************************************)
VARIABLES
    ignored,  \* the kernel keeps no status of a command that ended
    command,  \* what has become of the command
    expired,  \* whether the timeout has passed
    reply     \* what the caller is told

vars == <<ignored, command, expired, reply>>

Init ==
    /\ ignored \in BOOLEAN
    /\ command = "none"
    /\ expired \in BOOLEAN
    /\ reply = "none"

Start ==
    /\ command = "none"
    /\ command' = "running"
    /\ UNCHANGED <<ignored, expired, reply>>

\* The command ends by itself.
End ==
    /\ command = "running"
    /\ command' = "ended"
    /\ UNCHANGED <<ignored, expired, reply>>

\* Only a command that has outrun the timeout is killed.
Kill ==
    /\ command = "running"
    /\ expired
    /\ command' = "killed"
    /\ UNCHANGED <<ignored, expired, reply>>

Expire ==
    /\ ~expired
    /\ expired' = TRUE
    /\ UNCHANGED <<ignored, command, reply>>

\* The replies that may be given: there was no command, its status, or that it
\* took too long.  A command that ended near the timeout may be taken for one
\* that did not; one that runs is never answered for.
Answers ==
    CASE command = "none"    -> {"spawn"}
      [] command = "running" -> {}
      [] command = "ended"   -> {IF ignored THEN "spawn" ELSE "ok"}
                                \cup (IF expired THEN {"timeout"} ELSE {})
      [] command = "killed"  -> {"timeout"}

Answer ==
    /\ reply' \in Answers
    /\ UNCHANGED <<ignored, command, expired>>

\* Nothing happens after the reply.
Next ==
    /\ reply = "none"
    /\ Start \/ End \/ Kill \/ Expire \/ Answer

Spec == Init /\ [][Next]_vars
=============================================================================
