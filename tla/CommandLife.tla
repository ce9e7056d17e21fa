----------------------------- MODULE CommandLife -----------------------------
(***************************************************************************)
(* What the agent promises about a command: it runs only after the server  *)
(* has dispatched it, and what the server is told of it is the outcome of  *)
(* one of its runs.  CommandCycle implements this specification.           *)
(***************************************************************************)
CONSTANTS Commands, Outcomes

VARIABLES
    dispatched,  \* the commands the server has for the agent
    ran,         \* the outcomes each command's runs have had
    reported     \* the outcomes the server knows of

vars == <<dispatched, ran, reported>>

Init ==
    /\ dispatched = {}
    /\ ran = [c \in Commands |-> {}]
    /\ reported = [c \in Commands |-> {}]

Dispatch(c) ==
    /\ dispatched' = dispatched \cup {c}
    /\ UNCHANGED <<ran, reported>>

Run(c, o) ==
    /\ c \in dispatched
    /\ ran' = [ran EXCEPT ![c] = @ \cup {o}]
    /\ UNCHANGED <<dispatched, reported>>

Report(c, o) ==
    /\ o \in ran[c]
    /\ reported' = [reported EXCEPT ![c] = @ \cup {o}]
    /\ UNCHANGED <<dispatched, ran>>

Next ==
    \E c \in Commands :
        \/ Dispatch(c)
        \/ \E o \in Outcomes : Run(c, o) \/ Report(c, o)

Spec == Init /\ [][Next]_vars
=============================================================================
