---------------------------- MODULE DurableToken ----------------------------
(***************************************************************************)
(* What a token store with a persist path promises, without its mutex, its *)
(* temporary file or its system calls: one in-memory token, one whole      *)
(* token on disk, and at most one update at a time.  An update installs    *)
(* its token in memory, may then publish it on disk, and ends.  A restart  *)
(* takes memory from the disk.  TokenStore implements this specification.  *)
(***************************************************************************)
CONSTANTS
    Tokens,       \* the well-formed tokens
    ConfigToken,  \* the token the process is configured with
    None          \* no file on disk

VARIABLES
    mem,   \* the token requests are authenticated with
    disk,  \* the token in the persisted file, or None
    kept,  \* what the file may hold after a power loss
    busy   \* an update is between its installation and its end

vars == <<mem, disk, kept, busy>>

\* The token a process starts with when it finds d on disk.
Loaded(d) == IF d = None THEN ConfigToken ELSE d

Init ==
    /\ disk \in Tokens \cup {None}
    /\ kept = {disk}
    /\ mem = Loaded(disk)
    /\ busy = FALSE

Install(t) ==
    /\ ~busy
    /\ mem' = t
    /\ busy' = TRUE
    /\ UNCHANGED <<disk, kept>>

Publish ==
    /\ busy
    /\ disk' = mem
    /\ kept' = kept \cup {mem}
    /\ UNCHANGED <<mem, busy>>

Release ==
    /\ busy
    /\ busy' = FALSE
    /\ UNCHANGED <<mem, disk, kept>>

\* The process dies and starts again; the file system survives.
Restart ==
    /\ mem' = Loaded(disk)
    /\ busy' = FALSE
    /\ UNCHANGED <<disk, kept>>

\* The host loses power: the file is one of those the device may hold.
HostRestart ==
    /\ disk' \in kept
    /\ kept' = {disk'}
    /\ mem' = Loaded(disk')
    /\ busy' = FALSE

Next ==
    \/ \E t \in Tokens : Install(t)
    \/ Publish
    \/ Release
    \/ Restart
    \/ HostRestart

Spec == Init /\ [][Next]_vars
=============================================================================
