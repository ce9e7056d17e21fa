--------------------------- MODULE RunWithTimeout ---------------------------
(***************************************************************************)
(* One call of run_with_timeout (src/src/security.rs): the calling thread, *)
(* the child process, the two pipes between them and a process the child   *)
(* may have left behind, which still holds the pipes open for writing.     *)
(*                                                                         *)
(* Time passes beside their steps, also between two calls of the caller    *)
(* and while it waits in wait and in a read: see Tick.                     *)
(***************************************************************************)
EXTENDS Integers

CONSTANTS
    PipeCap,       \* blocks of output a pipe holds
    MaxOutput,     \* most blocks a command writes to one stream
    MaxTimeout,    \* bound: the longest timeout
    PollInterval,  \* how long the caller sleeps
    MaxLag,        \* bound: how long the caller is kept from going on
    KillTime       \* the longest time SIGKILL takes to take effect

ASSUME RunAssumption ==
    /\ PipeCap \in Nat \ {0}
    /\ MaxOutput \in Nat
    /\ MaxTimeout \in Nat
    /\ PollInterval \in Nat \ {0}
    /\ MaxLag \in Nat
    /\ KillTime \in Nat

\* Bound of the clock.
Horizon == MaxTimeout + PollInterval + MaxLag + KillTime

Streams == {"stdout", "stderr"}

\* What is run.  need: the blocks it writes.  text: that output is UTF-8.
\* pace: it may take any time to finish ("slow"), never finishes ("hangs"), or
\* loses no time while it can run ("fast").  holder: the process it leaves
\* behind.  killable: the agent may send it a signal.  ignored: the agent
\* inherited SIGCHLD ignored, so that the kernel reaps its children.
Jobs == [need     : [Streams -> 0..MaxOutput],
         text     : [Streams -> BOOLEAN],
         pace     : {"slow", "fast", "hangs"},
         holder   : {"none", "brief", "lasting"},
         killable : BOOLEAN,
         ignored  : BOOLEAN,
         timeout  : 0..MaxTimeout]

VARIABLES
    job,      \* the command and its timeout, fixed by the call
    pc,       \* where the caller is
    child,    \* the child process
    ended,    \* when the child exited by itself, or Never
    holder,   \* the process that was left behind
    sent,     \* blocks the child has written to each stream
    pipe,     \* blocks in each pipe
    got,      \* blocks in the caller's string for each stream
    elapsed,  \* start.elapsed()
    wake,     \* when the caller's last sleep is over
    lag,      \* how long the caller could have gone on and did not
    dying,    \* how long ago the child was killed
    result    \* what the call returned

io == <<sent, pipe, got>>
clock == <<elapsed, lag, dying>>
vars == <<job, pc, child, ended, holder, io, clock, wake, result>>

Never == -1
Places == {"spawn", "poll", "check", "sleep", "kill", "wait", "stdout", "stderr", "done"}

TypeOK ==
    /\ job \in Jobs
    /\ pc \in Places
    /\ child \in {"none", "running", "dying", "zombie", "reaped"}
    /\ ended \in 0..Horizon \cup {Never}
    /\ holder \in {"none", "brief", "lasting"}
    /\ sent \in [Streams -> 0..MaxOutput]
    /\ pipe \in [Streams -> 0..PipeCap]
    /\ got \in [Streams -> 0..MaxOutput]
    /\ elapsed \in 0..Horizon
    /\ wake \in 0..Horizon
    /\ lag \in 0..MaxLag
    /\ dying \in 0..KillTime
    /\ result \in {"none", "ok", "timeout", "spawn"}

Init ==
    /\ job \in Jobs
    /\ pc = "spawn"
    /\ child = "none"
    /\ ended = Never
    /\ holder = "none"
    /\ sent = [s \in Streams |-> 0]
    /\ pipe = [s \in Streams |-> 0]
    /\ got = [s \in Streams |-> 0]
    /\ elapsed = 0
    /\ wake = 0
    /\ lag = 0
    /\ dying = 0
    /\ result = "none"

-----------------------------------------------------------------------------
(* The child and the process it leaves behind.                             *)

\* A dead child is a zombie until someone waits for it.
Corpse == IF job.ignored THEN "reaped" ELSE "zombie"

CanWrite(s) == sent[s] < job.need[s] /\ pipe[s] < PipeCap
HasWritten == \A s \in Streams : sent[s] = job.need[s]

\* The child blocks while its pipe is full.
ChildWrite(s) ==
    /\ child = "running"
    /\ CanWrite(s)
    /\ sent' = [sent EXCEPT ![s] = @ + 1]
    /\ pipe' = [pipe EXCEPT ![s] = @ + 1]
    /\ UNCHANGED <<job, pc, child, ended, holder, got, clock, wake, result>>

ChildExit ==
    /\ child = "running"
    /\ HasWritten
    /\ job.pace # "hangs"
    /\ child' = Corpse
    /\ ended' = elapsed
    /\ UNCHANGED <<job, pc, holder, io, clock, wake, result>>

\* SIGKILL takes effect.
ChildDies ==
    /\ child = "dying"
    /\ child' = Corpse
    /\ UNCHANGED <<job, pc, ended, holder, io, clock, wake, result>>

HolderExit ==
    /\ holder = "brief"
    /\ holder' = "none"
    /\ UNCHANGED <<job, pc, child, ended, io, clock, wake, result>>

ChildStep == (\E s \in Streams : ChildWrite(s)) \/ ChildExit

ChildCanStep ==
    /\ child = "running"
    /\ (\E s \in Streams : CanWrite(s)) \/ (HasWritten /\ job.pace # "hangs")

\* Some process can still write to the pipes.
WriterLeft == child \in {"running", "dying"} \/ holder # "none"

-----------------------------------------------------------------------------
(* The caller.                                                             *)

Return(r) == pc' = "done" /\ result' = r

Spawn ==
    /\ pc = "spawn"
    /\ \/ /\ child' = "running"
          /\ holder' = job.holder
          /\ pc' = "poll"
          /\ UNCHANGED result
       \/ /\ Return("spawn")
          /\ UNCHANGED <<child, holder>>
    /\ UNCHANGED <<job, ended, io, clock, wake>>

\* try_wait is Ok(Some(status)): the child is reaped.
PollExited ==
    /\ pc = "poll"
    /\ child = "zombie"
    /\ child' = "reaped"
    /\ pc' = "stdout"
    /\ UNCHANGED <<job, ended, holder, io, clock, wake, result>>

\* Mutant: the deadline is looked at before the child.
DeadlineFirst ==
    /\ pc = "poll"
    /\ child = "running" \/ (child = "zombie" /\ elapsed >= job.timeout)
    /\ pc' = "check"
    /\ UNCHANGED <<job, child, ended, holder, io, clock, wake, result>>

\* try_wait is Ok(None).
PollRunning ==
    /\ pc = "poll"
    /\ child = "running"
    /\ pc' = "check"
    /\ UNCHANGED <<job, child, ended, holder, io, clock, wake, result>>

\* try_wait is Err: there is no such child any more.
PollError ==
    /\ pc = "poll"
    /\ child = "reaped"
    /\ Return("spawn")
    /\ UNCHANGED <<job, child, ended, holder, io, clock, wake>>

\* Kill the child, or sleep.
Decide(late) ==
    /\ pc = "check"
    /\ \/ /\ late
          /\ pc' = "kill"
          /\ UNCHANGED wake
       \/ /\ ~late
          /\ pc' = "sleep"
          /\ wake' = elapsed + PollInterval
    /\ UNCHANGED <<job, child, ended, holder, io, clock, result>>

\* Mutants: the comparison with the timeout is off by one, or the wrong way
\* round.
DeadlineExceeded == Decide(elapsed > job.timeout)
DeadlineSwapped == Decide(elapsed <= job.timeout)

\* start.elapsed() >= timeout: the child may have exited since the poll.
CheckDeadline == Decide(elapsed >= job.timeout)

\* The sleep is over.
WakeUp ==
    /\ pc = "sleep"
    /\ elapsed >= wake
    /\ pc' = "poll"
    /\ UNCHANGED <<job, child, ended, holder, io, clock, wake, result>>

\* Mutant: the signal is not sent.
KillNothing ==
    /\ pc = "kill"
    /\ pc' = "wait"
    /\ UNCHANGED <<job, child, ended, holder, io, clock, wake, result>>

\* The child may have exited since the poll, or the agent may not be allowed to
\* send it a signal.  The error of kill is ignored.
Kill ==
    /\ pc = "kill"
    /\ child' = IF child = "running" /\ job.killable THEN "dying" ELSE child
    /\ pc' = "wait"
    /\ UNCHANGED <<job, ended, holder, io, clock, wake, result>>

\* Mutant: the child is killed and not waited for.
WaitSkipped ==
    /\ pc = "wait"
    /\ Return("timeout")
    /\ UNCHANGED <<job, child, ended, holder, io, clock, wake>>

\* wait blocks until the child is dead.
Wait ==
    /\ pc = "wait"
    /\ child \in {"zombie", "reaped"}
    /\ child' = "reaped"
    /\ Return("timeout")
    /\ UNCHANGED <<job, ended, holder, io, clock, wake>>

\* Mutant: the data that was read is read again.
ReadAgain(s) ==
    /\ pc = s
    /\ pipe[s] > 0
    /\ got' = [got EXCEPT ![s] = @ + pipe[s]]
    /\ UNCHANGED <<job, pc, child, ended, holder, sent, pipe, clock, wake, result>>

\* read_to_string on stream s, standard output first.  It blocks while the pipe
\* is empty and a writer is left.
Read(s) ==
    /\ pc = s
    /\ pipe[s] > 0
    /\ got' = [got EXCEPT ![s] = @ + pipe[s]]
    /\ pipe' = [pipe EXCEPT ![s] = 0]
    /\ UNCHANGED <<job, pc, child, ended, holder, sent, clock, wake, result>>

Eof(s, kept) ==
    /\ pc = s
    /\ pipe[s] = 0
    /\ ~WriterLeft
    /\ got' = kept
    /\ \/ /\ s = "stdout"
          /\ pc' = "stderr"
          /\ UNCHANGED result
       \/ /\ s = "stderr"
          /\ Return("ok")
    /\ UNCHANGED <<job, child, ended, holder, sent, pipe, clock, wake>>

\* Mutant: output that is not UTF-8 spoils that of the other stream, too.
EofDropsBoth(s) ==
    Eof(s, IF job.text[s] THEN got ELSE [t \in Streams |-> 0])

\* End of file: nothing is left in the pipe and no process can write to it.
\* Output that is not UTF-8 is an error, which is ignored with the output.
ReadEof(s) == Eof(s, IF job.text[s] THEN got ELSE [got EXCEPT ![s] = 0])

Caller ==
    \/ Spawn
    \/ PollExited
    \/ PollRunning
    \/ PollError
    \/ CheckDeadline
    \/ WakeUp
    \/ Kill
    \/ Wait
    \/ \E s \in Streams : Read(s) \/ ReadEof(s)

-----------------------------------------------------------------------------
(* Time.                                                                   *)

\* The caller waits: for its alarm, the death of the child, or the end of a
\* file.
CallerWaits ==
    \/ pc = "sleep" /\ elapsed < wake
    \/ pc = "wait" /\ child \in {"running", "dying"}
    \/ \E s \in Streams : pc = s /\ pipe[s] = 0 /\ WriterLeft

\* A moment passes.  A fast child loses none while it can run; a signal takes
\* no longer than KillTime; the caller loses no more than MaxLag.
Tick ==
    /\ pc # "done"
    /\ elapsed < Horizon
    /\ job.pace = "fast" => ~ChildCanStep
    /\ elapsed' = elapsed + 1
    /\ \/ /\ CallerWaits
          /\ UNCHANGED lag
       \/ /\ ~CallerWaits
          /\ lag < MaxLag
          /\ lag' = lag + 1
    /\ \/ /\ child = "dying"
          /\ dying < KillTime
          /\ dying' = dying + 1
       \/ /\ child # "dying"
          /\ UNCHANGED dying
    /\ UNCHANGED <<job, pc, child, ended, holder, io, wake, result>>

Next == Caller \/ ChildStep \/ ChildDies \/ HolderExit \/ Tick

Spec == Init /\ [][Next]_vars

\* The caller runs, time passes, a signal takes effect, a brief process ends,
\* and a fast child does not stop by itself.  Nothing else is assumed of the
\* child.
FairSpec ==
    /\ Spec
    /\ WF_vars(Caller)
    /\ WF_vars(Tick)
    /\ WF_vars(ChildDies)
    /\ WF_vars(HolderExit)
    /\ WF_vars(job.pace = "fast" /\ ChildStep)

-----------------------------------------------------------------------------
(* Properties.                                                             *)

\* What has become of the command.  It runs until the signal has taken effect;
\* the reaping is left aside.
Fate ==
    CASE child \in {"running", "dying"} -> "running"
      [] child = "none"                 -> "none"
      [] child \in {"zombie", "reaped"} -> IF ended = Never THEN "killed" ELSE "ended"

\* A bound on the steps that are left: the time that is counted, three steps of
\* the caller for each further sleep, its way from its place to the return,
\* that of the child to its reaping, the holder, and each block twice, when it
\* is written and when it is read.
PlaceRank ==
    CASE pc = "spawn"              -> 7
      [] pc = "sleep"              -> 6
      [] pc = "poll"               -> 5
      [] pc = "check"              -> 4
      [] pc \in {"kill", "stdout"} -> 2
      [] pc \in {"wait", "stderr"} -> 1
      [] pc = "done"               -> 0

ChildRank ==
    CASE child = "none"    -> 4
      [] child = "running" -> 3
      [] child = "dying"   -> 2
      [] child = "zombie"  -> 1
      [] child = "reaped"  -> 0

Unread(s) == 2 * (job.need[s] - sent[s]) + pipe[s]

StepsLeft ==
    (Horizon - elapsed) + 3 * (Horizon - wake) + PlaceRank + ChildRank
        + (IF holder = "none" THEN 0 ELSE 1)
        + Unread("stdout") + Unread("stderr")

\* When the call returns there is no child: none was started, or it is dead
\* and reaped, on every path, whichever of kill and exit came first.
NoChildIsLeft == pc = "done" => child \in {"none", "reaped"}

\* Ok carries the output of a command that ended by itself, each stream whole
\* or, if it is not text, not at all, although the pipes are read only after
\* the command's end and one after the other.
OutputIsComplete ==
    result = "ok" =>
        /\ ended # Never
        /\ \A s \in Streams : got[s] = IF job.text[s] THEN job.need[s] ELSE 0

\* A command that ended by itself is reported as timed out only if it ended
\* after the timeout, or so shortly before that the caller, which had found it
\* running, was kept from looking at its clock until the timeout had passed.
FinishedInTimeIsNotTimedOut ==
    result = "timeout" /\ ended # Never => ended + lag >= job.timeout

\* Unless a process is left that holds the pipes, or the child cannot be
\* killed, the call does not last beyond its timeout by a poll interval, the
\* time a signal takes and the time the caller was kept from going on.
ReturnsSoonAfterTimeout ==
    pc # "done" /\ job.holder = "none" /\ job.killable =>
        elapsed < job.timeout + PollInterval + KillTime + lag

\* A command that loses no time and whose output fits in the pipes is never
\* killed, if the caller does not lose the time of the timeout.
Fits == job.pace = "fast" /\ \A s \in Streams : job.need[s] <= PipeCap

FastCommandCompletes == Fits /\ lag < job.timeout => result # "timeout"

\* The call returns, whatever the child does, if it can be killed and no process
\* holds the pipes for ever.
RunReturns == job.holder # "lasting" /\ job.killable => <>(pc = "done")

\* The call behaves as one command with one timeout and one true reply: the
\* command ends by itself or is killed, and killed only after the timeout; the
\* reply comes when it does not run any more and fits its fate, and nothing
\* happens after it.
Promise ==
    INSTANCE TimedCall WITH
        ignored <- job.ignored,
        command <- Fate,
        expired <- elapsed >= job.timeout,
        reply <- result

ImplementsTimedCall == Promise!Spec

\* Every step of the caller and of the processes uses up some of what is left
\* to do, so that a call takes a bounded number of steps in the time that is
\* counted: no two of them wait in turn for each other.
EveryStepCounts == [][0 <= StepsLeft' /\ StepsLeft' < StepsLeft]_vars

\* The caller waits for nothing but the death of a child it has killed, has
\* tried to kill in vain, or that has exited, and, when it reads, for a process
\* that was left behind.
WaitsForNobodyElse ==
    /\ pc = "wait" /\ child = "running" => ~job.killable
    /\ pc \in Streams /\ WriterLeft => holder # "none" /\ job.holder # "none"

\* Tests (test_fast_command_completes_before_timeout): a command that loses no
\* time completes before the timeout.
EveryFastCommandCompletes ==
    job.pace = "fast" /\ lag < job.timeout => result # "timeout"

\* SecurityPolicy::run: "enforcing the configured wall-clock timeout".
TimeoutIsEnforced == job.killable => <>(pc = "done")

-----------------------------------------------------------------------------
(* Why they hold.                                                          *)

\* No block is lost or made up between the child and the caller's strings,
\* save the output that is dropped because it is not text.
BlocksAreConserved ==
    \A s \in Streams :
        /\ sent[s] <= job.need[s]
        /\ got[s] + pipe[s] <= sent[s]
        /\ job.text[s] => got[s] + pipe[s] = sent[s]

\* The caller's place tells what has become of the child.
ChildInv ==
    /\ child \in {"none", "running", "dying"} => ended = Never
    /\ pc = "spawn" => child = "none" /\ wake = 0
    /\ child = "none" => pc = "spawn" \/ result = "spawn"
    /\ pc \in {"poll", "check", "sleep", "kill"} /\ child # "running" => ended # Never
    /\ child = "dying" => pc = "wait"
    /\ pc \notin {"wait", "done"} \/ child = "running" \/ ended # Never => dying = 0
    /\ ended # Never => HasWritten
    /\ pc = "wait" /\ child = "running" => ~job.killable
    /\ pc = "done" <=> result # "none"

ReadInv ==
    /\ pc \in Streams \/ result = "ok" => child = "reaped" /\ ended # Never
    /\ pc = "stderr" \/ result = "ok" => pipe["stdout"] = 0
    /\ result = "ok" => pipe["stderr"] = 0
    /\ pc = "stderr" \/ result = "ok" => job.text["stdout"] \/ got["stdout"] = 0
    /\ result = "ok" => job.text["stderr"] \/ got["stderr"] = 0

\* The clock and the deadline.  A sleep begins before the timeout.
ClockInv ==
    /\ holder # "none" => job.holder # "none"
    /\ ended <= elapsed
    /\ wake = 0 \/ wake < job.timeout + PollInterval
    /\ pc # "sleep" => wake <= elapsed
    /\ pc \notin Streams \cup {"wait", "done"} => elapsed < job.timeout + PollInterval + lag
    /\ pc = "sleep" => elapsed <= wake + lag
    /\ pc \in {"kill", "wait"} \/ result = "timeout" => elapsed >= job.timeout

\* What the caller has not noticed yet happened while it was kept from going on.
LateInv ==
    /\ pc = "check" /\ ended # Never => elapsed <= ended + lag
    /\ ended # Never /\ (pc \in {"kill", "wait"} \/ result = "timeout") =>
          ended + lag >= job.timeout
    /\ pc \in {"wait"} \cup Streams /\ job.killable /\ job.holder = "none" =>
          elapsed < job.timeout + PollInterval + lag + dying

\* A fast command whose output fits in the pipes can always take a step, so no
\* time but the caller's lag passes before it ends.
FastInv ==
    Fits =>
        /\ child = "running" \/ pc \in {"spawn", "check"} => elapsed <= lag
        /\ pc \in {"kill", "wait"} \/ result = "timeout" => lag >= job.timeout

\* There is a status to be polled exactly if the kernel keeps it.
StatusInv ==
    /\ child = "zombie" \/ pc \in Streams \/ result = "ok" => ~job.ignored
    /\ pc \in {"poll", "check", "sleep", "kill"} /\ child = "reaped" => job.ignored

IInv ==
    /\ TypeOK
    /\ BlocksAreConserved
    /\ ChildInv
    /\ ReadInv
    /\ StatusInv
    /\ ClockInv
    /\ LateInv
    /\ NoChildIsLeft
    /\ FastInv
=============================================================================
