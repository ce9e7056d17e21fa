----------------------------- MODULE TokenStore -----------------------------
(***************************************************************************)
(* The agent's bearer token, shared by every holder of a TokenStore        *)
(* (src/src/security.rs).  A client that gets a rotated token from the     *)
(* server calls maybe_rotate: it compares the token with current() in one  *)
(* critical section, checks its format, and installs it in a second        *)
(* critical section that also writes the token file (temporary file, sync, *)
(* rename).  Any file system call may fail; the process may die and the    *)
(* host may lose power between any two steps.                              *)
(***************************************************************************)
EXTENDS Integers

CONSTANTS
    Clients,      \* threads and tasks that hold the store
    Tokens,       \* tokens validate_token_format accepts
    BadTokens,    \* tokens it rejects
    ConfigToken,  \* the token the process is configured with, never checked
    Persists,     \* the store has a persist_path
    None,         \* no token offered, no file, lock free
    Torn          \* a file that is not the whole of one token

ASSUME TokenStoreAssumption ==
    /\ ConfigToken \in Tokens \cup BadTokens
    /\ Persists \in BOOLEAN
    /\ Tokens \cap BadTokens = {}
    /\ None \notin Tokens \cup BadTokens \cup Clients
    /\ Torn \notin Tokens \cup BadTokens \cup {None}

VARIABLES
    token,      \* TokenState.token
    lock,       \* the client that holds the mutex, or None
    pc,         \* where each client is in maybe_rotate
    offer,      \* the token each client was called with
    result,     \* what each client's last call returned
    tmp,        \* content of path.tmp
    tmpSynced,  \* path.tmp has been fsynced
    file,       \* content of path, as the running system reads it
    survivors   \* the contents path may have after a power loss

vars == <<token, lock, pc, offer, result, tmp, tmpSynced, file, survivors>>
disk == <<tmp, tmpSynced, file, survivors>>

Offers == Tokens \cup BadTokens \cup {None}
Results == {"none", "noop", "rotated", "invalid", "io"}
Writing == {"create", "write", "sync", "rename"}
Critical == Writing \cup {"unlock"}
Places == {"idle", "compare", "validate", "acquire"} \cup Critical

TypeOK ==
    /\ token \in Tokens \cup {ConfigToken}
    /\ lock \in Clients \cup {None}
    /\ pc \in [Clients -> Places]
    /\ offer \in [Clients -> Offers]
    /\ result \in [Clients -> Results]
    /\ tmp \in Tokens \cup {None, Torn}
    /\ tmpSynced \in BOOLEAN
    /\ file \in Tokens \cup {None, Torn}
    /\ survivors \subseteq Tokens \cup {None, Torn}

\* The token a holder builds its store with: load_persisted_token when the
\* file is there, else the configured token.
Loaded(f) == IF f = None THEN ConfigToken ELSE f

\* A file may be left from an earlier life of the agent.
Init ==
    /\ file \in IF Persists THEN Tokens \cup {None} ELSE {None}
    /\ survivors = {file}
    /\ token = Loaded(file)
    /\ lock = None
    /\ pc = [c \in Clients |-> "idle"]
    /\ offer = [c \in Clients |-> None]
    /\ result = [c \in Clients |-> "none"]
    /\ tmp = None
    /\ tmpSynced = FALSE

-----------------------------------------------------------------------------
(* The steps of a call.                                                    *)

GoTo(c, place) == pc' = [pc EXCEPT ![c] = place]

\* The call returns r; a guard still held is dropped by the caller.
Return(c, r) ==
    /\ GoTo(c, "idle")
    /\ offer' = [offer EXCEPT ![c] = None]
    /\ result' = [result EXCEPT ![c] = r]

\* maybe_rotate(Some(t)), or maybe_rotate(None) and Some(""), which return
\* Ok(false) at once.
CallMaybeRotate(c, t) ==
    /\ pc[c] = "idle"
    /\ \/ /\ t = None
          /\ Return(c, "noop")
       \/ /\ t # None
          /\ GoTo(c, "compare")
          /\ offer' = [offer EXCEPT ![c] = t]
          /\ result' = [result EXCEPT ![c] = "none"]
    /\ UNCHANGED <<token, lock, disk>>

\* t == self.current(): a critical section of its own.
CompareCurrent(c) ==
    /\ pc[c] = "compare"
    /\ lock = None
    /\ \/ /\ offer[c] = token
          /\ Return(c, "noop")
       \/ /\ offer[c] # token
          /\ GoTo(c, "validate")
          /\ UNCHANGED <<offer, result>>
    /\ UNCHANGED <<token, lock, disk>>

\* Mutant: the format check accepts everything.
ValidateNothing(c) ==
    /\ pc[c] = "validate"
    /\ GoTo(c, "acquire")
    /\ UNCHANGED <<token, lock, offer, result, disk>>

ValidateTokenFormat(c) ==
    /\ pc[c] = "validate"
    /\ \/ /\ offer[c] \in Tokens
          /\ GoTo(c, "acquire")
          /\ UNCHANGED <<offer, result>>
       \/ /\ offer[c] \notin Tokens
          /\ Return(c, "invalid")
    /\ UNCHANGED <<token, lock, disk>>

\* Mutant: the mutex guards the assignment only, not the write of the file.
InstallUnguarded(c) ==
    /\ pc[c] = "acquire"
    /\ lock = None
    /\ token' = offer[c]
    /\ GoTo(c, IF Persists THEN "create" ELSE "unlock")
    /\ UNCHANGED <<lock, offer, result, disk>>

\* rotate takes the mutex and updates memory before the disk.
Install(c) ==
    /\ pc[c] = "acquire"
    /\ lock = None
    /\ lock' = c
    /\ token' = offer[c]
    /\ GoTo(c, IF Persists THEN "create" ELSE "unlock")
    /\ UNCHANGED <<offer, result, disk>>

\* create_dir_all, then File::create, which truncates what is there.
CreateTmp(c) ==
    /\ pc[c] = "create"
    /\ tmp' = Torn
    /\ tmpSynced' = FALSE
    /\ GoTo(c, "write")
    /\ UNCHANGED <<token, lock, offer, result, file, survivors>>

WriteTmp(c) ==
    /\ pc[c] = "write"
    /\ tmp' = offer[c]
    /\ GoTo(c, "sync")
    /\ UNCHANGED <<token, lock, offer, result, tmpSynced, file, survivors>>

\* Mutant: no sync_all before the rename.
SyncSkipped(c) ==
    /\ pc[c] = "sync"
    /\ GoTo(c, "rename")
    /\ UNCHANGED <<token, lock, offer, result, disk>>

SyncTmp(c) ==
    /\ pc[c] = "sync"
    /\ tmpSynced' = TRUE
    /\ GoTo(c, "rename")
    /\ UNCHANGED <<token, lock, offer, result, tmp, file, survivors>>

\* The rename replaces path at once for the running system.  The directory
\* is not synced: after a power loss path is the old file or the new one,
\* and the new one is whole only if its data had been synced.
RenameTmp(c) ==
    /\ pc[c] = "rename"
    /\ file' = tmp
    /\ survivors' = survivors \cup {tmp} \cup (IF tmpSynced THEN {} ELSE {Torn})
    /\ tmp' = None
    /\ tmpSynced' = FALSE
    /\ GoTo(c, "unlock")
    /\ UNCHANGED <<token, lock, offer, result>>

\* Mutant: an error of the file system is logged and swallowed.
FsErrorSwallowed(c) ==
    /\ pc[c] \in Writing
    /\ lock' = None
    /\ Return(c, "rotated")
    /\ UNCHANGED <<token, disk>>

\* A file system call fails: `?` returns Err(Io), and the guard is dropped.
\* A failed write leaves path.tmp as File::create made it.
FsError(c) ==
    /\ pc[c] \in Writing
    /\ lock' = None
    /\ Return(c, "io")
    /\ UNCHANGED <<token, disk>>

\* Mutant: current() is called once more, for a log line, before the guard is
\* dropped: the mutex is not reentrant.
CurrentBeforeUnlock(c) ==
    /\ pc[c] = "unlock"
    /\ lock = None
    /\ Return(c, "rotated")
    /\ UNCHANGED <<token, lock, disk>>

ReturnRotated(c) ==
    /\ pc[c] = "unlock"
    /\ lock' = None
    /\ Return(c, "rotated")
    /\ UNCHANGED <<token, disk>>

-----------------------------------------------------------------------------
(* Failures of the process and of the host, and the start that follows.    *)

\* The state of a process that has just built its store.
Start ==
    /\ token' = Loaded(file')
    /\ lock' = None
    /\ pc' = [c \in Clients |-> "idle"]
    /\ offer' = [c \in Clients |-> None]
    /\ result' = [c \in Clients |-> "none"]

\* The page cache outlives the process.
CrashRestart ==
    /\ UNCHANGED disk
    /\ Start

PowerLoss ==
    /\ file' \in survivors
    /\ survivors' = {file'}
    /\ tmp' \in {None, Torn, tmp}
    /\ tmpSynced' = FALSE
    /\ Start

-----------------------------------------------------------------------------

Step(c) ==
    \/ CompareCurrent(c)
    \/ ValidateTokenFormat(c)
    \/ Install(c)
    \/ CreateTmp(c)
    \/ WriteTmp(c)
    \/ SyncTmp(c)
    \/ RenameTmp(c)
    \/ FsError(c)
    \/ ReturnRotated(c)

Next ==
    \/ \E c \in Clients : \E t \in Offers : CallMaybeRotate(c, t)
    \/ \E c \in Clients : Step(c)
    \/ CrashRestart
    \/ PowerLoss

Spec == Init /\ [][Next]_vars

\* A thread that can take a step of its call takes one.
FairSpec == Spec /\ \A c \in Clients : WF_vars(Step(c))

\* The server sends the token it knows to be in use again and again,
\* and a file system call that is retried for ever succeeds in the end.
RedeliverySpec ==
    /\ FairSpec
    /\ \A c \in Clients : SF_vars(CallMaybeRotate(c, token))
    /\ \A c \in Clients : SF_vars(CreateTmp(c) \/ WriteTmp(c) \/ SyncTmp(c))
    /\ \A c \in Clients : SF_vars(RenameTmp(c))

-----------------------------------------------------------------------------
(* Properties.                                                             *)

\* Whatever fails and whenever the process dies or the host loses power, the
\* token file is absent or the whole of one token: write_token_atomically
\* publishes only a file it has written, synced and shared with no one.
PersistedTokenIsWhole == Torn \notin survivors \cup {file}

\* Why it holds.  The mutex admits one client between Install and its return;
\* from there on memory holds that client's token, the temporary file is its
\* own until the rename, and the file is its token after it.
MutualExclusion == \A c \in Clients : pc[c] \in Critical <=> lock = c

HolderInv(c) ==
    /\ pc[c] \in Critical \cup {"acquire"} => offer[c] \in Tokens
    /\ pc[c] \in Critical => token = offer[c]
    /\ pc[c] \in Writing => Persists
    /\ pc[c] \in {"sync", "rename"} => tmp = offer[c]
    /\ pc[c] = "rename" => tmpSynced
    /\ pc[c] = "unlock" /\ Persists => file = offer[c]

IInv ==
    /\ TypeOK
    /\ MutualExclusion
    /\ \A c \in Clients : HolderInv(c)
    /\ PersistedTokenIsWhole

\* The file changes only to the token that is in memory: the mutex spans the
\* write, so a slower writer never puts an older token over a newer one.
DiskFollowsMemory == [][file' # file => Loaded(file') = token']_vars

\* When a call returns Ok(true), its token is the current one and a restart
\* of the process at that moment starts with it.
AckedRotationIsDurable ==
    [][\A c \in Clients :
          result[c] # "rotated" /\ result'[c] = "rotated"
             => token' = offer[c] /\ Loaded(file') = offer[c]]_vars

\* The store is a durable token register: with the steps of a write, the
\* temporary file and the clients hidden, every step is one of DurableToken.
Register == INSTANCE DurableToken WITH
    mem <- token, disk <- file, kept <- survivors, busy <- (lock # None)

ImplementsDurableToken == Register!Spec

\* The mutex is released, whatever happens between its acquisition and the end
\* of the write: neither rotate nor what it calls waits for the mutex, which is
\* not reentrant, and no error of the file system keeps rotate from its return.
LockIsReleased == (lock # None) ~> (lock = None)

\* Why it holds.  The holder is in the critical section (MutualExclusion); each
\* step either brings it nearer to the release, leaves it where it is, or ends
\* the process.  Nobody else touches what the mutex guards meanwhile.
StepsToRelease(c) ==
    CASE pc[c] = "create" -> 5
      [] pc[c] = "write"  -> 4
      [] pc[c] = "sync"   -> 3
      [] pc[c] = "rename" -> 2
      [] pc[c] = "unlock" -> 1
      [] OTHER            -> 0

CriticalSectionIsBounded ==
    [][\A c \in Clients :
          lock = c /\ lock' = c
             => \/ StepsToRelease(c)' < StepsToRelease(c)
                \/ UNCHANGED <<pc[c], offer[c], token, disk>>]_vars

\* A token rejected for its format is not the one in use, though the format is
\* checked after the comparison with the current token and outside the mutex.
InvalidTokenIsNotInUse ==
    [][\A c \in Clients :
          result[c] # "invalid" /\ result'[c] = "invalid" => token' # offer[c]]_vars

\* Why it holds: only tokens of the right format are installed.
ComparedInv ==
    \A c \in Clients :
        pc[c] = "validate" /\ offer[c] \notin Tokens => offer[c] # token

\* A rotation that is reported as rejected left the current token in use
\* (heartbeat.rs: "so we stay on the previous one").
RejectedRotationKeepsToken ==
    [][\A c \in Clients :
          result[c] = "none" /\ result'[c] \in {"invalid", "io"}
             => token' # offer[c]]_vars

\* maybe_rotate installs no token that is already the current one
\* (security.rs: "Skip no-op rotations").
NoopRotationsAreSkipped ==
    [][\A c \in Clients : lock # c /\ lock' = c => token # offer[c]]_vars

\* Why a single holder keeps to it: nobody rotates between its comparison and
\* its installation.
UnequalInv ==
    \A c \in Clients : pc[c] \in {"validate", "acquire"} => offer[c] # token

\* A token that the server keeps sending and that is in use is, sooner or
\* later, the one a restart would load.
CurrentTokenReachesDisk == []<>(Loaded(file) = token)
=============================================================================
