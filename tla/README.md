# A TLA+ model of sigops-agent

The agent is a small Rust program that runs on a server, reports to a control
plane over HTTP and holds a bearer token the control plane rotates. This
directory models the parts of it whose steps can interleave, fail or stop half
way, checks them with TLC on small instances, and proves the safety properties
that matter most for every instance with TLAPS.

## The system

| Part | Source | State | Operations | Hard part |
|---|---|---|---|---|
| `TokenStore` | `security.rs` 326-458 | the token behind a mutex, `persist_path`, the token file | `current`, `rotate`, `maybe_rotate`, `write_token_atomically`, `load_persisted_token` | concurrent holders, I/O errors between memory and disk, crash, power loss |
| `run_with_timeout` | `security.rs` 216-323 | a child process, two pipes, the clock | spawn, poll, sleep, kill, wait, read | child and caller race, full pipes, pipes held by others |
| `SecurityPolicy` | `security.rs` 81-265 | lists of commands and paths, the timeout | `with_*`, `run`, `validate`, `check_arg`, `arg_matches_denied` | the order of the checks, `$HOME` read at the check |
| `HeartbeatClient` | `heartbeat.rs` | HTTP client, server URL, a `TokenStore` | `send_heartbeat`, `send_heartbeat_with_retry`, `fetch_next_command`, `report_result` | token read before an await, lost answers, retries |
| Agent process | `main.rs` | the shutdown flag, two tasks | start, heartbeat loop, signal, join | tasks that do not see the flag, requests without a timeout |
| Health endpoint | `health.rs` | a listener | bind, accept with a timeout, respond | must see the flag whatever clients do |
| Executor | `executor.rs` | none | `execute_task` and five tools | subprocesses that hang, fail or are killed, parsing of curl's output, rounding |
| Configuration | `config.rs` | none | parse, `agent_id` | options as documented, a new id at each start |
| Discovery | `discovery.rs` | none | `discover_tools`, `collect_host_info` | a host that changes meanwhile, version commands without a timeout |

How they interact: `main` starts the health task and the heartbeat task, which
share only the shutdown flag. The heartbeat task owns a `HeartbeatClient`; the
answer to a heartbeat may carry a rotated token, which the client gives to its
`TokenStore` with `maybe_rotate`. A store is an `Arc`: any number of clones may
read and rotate it from other threads. The library offers `with_token_store` and
`with_persist_path` for that; the binary uses neither: it starts with the
configured token, always. It never calls `fetch_next_command`, `execute_task` or
`SecurityPolicy` either: only the integration test drives that cycle, once. What
these functions promise is modelled as the library offers it, and where the
binary differs the text below says so.

What makes each part correct:

- `TokenStore`: the file is always whole, never older than what a finished
  writer put there, holds the token of every acknowledged rotation, and no error
  keeps the mutex locked.
- `run_with_timeout`: returns soon after the timeout at the latest, with no child
  left and with all the output of a command that ended, and calls a command late
  only if it ended after the timeout or while the caller was kept from its clock.
- Agent process: heartbeats go on for ever but do not hammer the server; after a
  signal the health task ends and `main` returns in bounded time.
- `HeartbeatClient`: while the agent lives, its token never goes back and is one
  the server accepts; the server is told of a command only what happened to it,
  and no failure runs a command again.
- Executor: a result says what the program did, and every tool that can be
  bounded ends.
- `SecurityPolicy`: what is executed has a listed name, and no argument of it,
  wherever it stands and whatever `$HOME` is, is one the comments say is denied.
- Start: the tools that are there are listed, and nothing but a version command
  that hangs keeps the agent from its work.

## Modules

| Module | Models | Role |
|---|---|---|
| `DurableToken` | what a persistent store promises | abstract specification |
| `TokenStore` | `TokenStore` and its file | implements `DurableToken` (`ImplementsDurableToken`) |
| `TokenStoreProofs` | | theorems about `TokenStore` |
| `TimedCall` | what a caller of `run_with_timeout` relies on | abstract specification |
| `RunWithTimeout` | one call of `run_with_timeout` | implements `TimedCall` (`ImplementsTimedCall`) |
| `RunWithTimeoutProofs` | | theorems about `RunWithTimeout` |
| `Startup` | configuration, discovery, `main` up to its signal handlers | what precedes `Agent` |
| `StartupProofs` | | theorems about `Startup` |
| `Agent` | `main`, the heartbeat loop with its retries, the health task | |
| `AgentProofs` | | theorems about `Agent` |
| `CommandLife` | what the agent promises about a command | abstract specification |
| `CommandCycle` | the requests of `HeartbeatClient`, the network, a server, restarts | implements `CommandLife` (`ImplementsCommandLife`) |
| `CommandCycleProofs` | | theorems about `CommandCycle` |
| `Executor` | `execute_task`, the five tools and the programs they run | |
| `ExecutorProofs` | | theorems about `Executor` |
| `Policy` | `SecurityPolicy`: its construction and one `run` | followed by `RunWithTimeout` |
| `PolicyProofs` | | theorems about `Policy` |
| `MC*` | | the modules the configurations instantiate |

Operators that stand directly before a definition and are marked `Mutant:` are
that definition with a plausible mistake in it. No specification uses them; they
record which mistake each property would catch.

### TokenStore

`token` and `lock` are `TokenState` and its mutex. `pc[c]`, `offer[c]` and
`result[c]` are the place, argument and return value of client `c`'s call of
`maybe_rotate`. `tmp`, `tmpSynced`, `file` and `survivors` are the file system:
the temporary file, whether it was fsynced, the token file as running processes
see it, and the contents it may have after a power loss. Tokens are model
values; `BadTokens` are those `validate_token_format` rejects. The configured
token is not validated by the code, so it may be one of them, and in the runs it
is.

One action per step that another thread, an error or a crash can separate:

| Action | Code |
|---|---|
| `CallMaybeRotate` | entry of `maybe_rotate`; `None` and `""` return at once |
| `CompareCurrent` | `t == self.current()`, a critical section of its own |
| `ValidateTokenFormat` | `validate_token_format`, outside the mutex |
| `Install` | lock, assignment of `guard.token` |
| `CreateTmp`, `WriteTmp`, `SyncTmp`, `RenameTmp` | `File::create`, `write_all`, `sync_all`, `rename`, under the mutex |
| `FsError` | any of these fails: `?`, the guard is dropped |
| `ReturnRotated` | `Ok(true)`, the guard is dropped |
| `CrashRestart`, `PowerLoss` | the environment, then a start |

`create_dir_all` is part of `CreateTmp`: it changes nothing the store reads. The
rename is not followed by a sync of the directory, so after it a power loss may
leave either file: `survivors` grows and a power loss picks from it. A start
builds the store the way the API is meant to be used: `load_persisted_token` if
the file is there, else the configured token, given to `with_persist_path`. A
panic inside the critical section (a poisoned mutex) does not occur: nothing
there panics. Two stores on one path are not modelled; nothing in the code makes
them.

### RunWithTimeout

`pc` follows the function: `spawn`, `poll`, `check`, `sleep`, `kill`, `wait`,
`stdout`, `stderr`, `done`. `job` is the command, fixed by the call: how many
blocks it writes to each stream, whether they are UTF-8, whether it is slow,
hangs or is fast, what kind of process it leaves behind, its timeout, whether
the agent may send it a signal (`killable`; the error of `kill` is ignored by
the code), and whether the agent inherited `SIGCHLD` ignored (then the kernel
reaps children, and `try_wait` fails once the child has ended: `PollError`).
`child`, `holder`, `sent`, `pipe` are the child, the process it left, the blocks
it has written and those in each pipe; `got` is the caller's string for each
stream. `ended` is when the child exited by itself, `wake` when the caller's
sleep is over.

`PollRunning` (`try_wait`) and `CheckDeadline` (`start.elapsed() >= timeout`) are
two steps: the child may exit, and time may pass, between them and before `kill`
and `wait`. Time passes with `Tick`, between any two steps. While the caller
waits (for its sleep, for the death of the child in `wait`, for the end of a
file) it just passes; while the caller could go on it is counted in `lag`, which
is how long the system has kept the caller from running. A killed child dies
within `KillTime` (`dying`). A `fast` child loses no time while it can take a
step, which leaves only the caller to blame if such a command is killed; of the
others nothing is assumed.

A process left behind does not write; it only holds the pipes. The text of the
output, the exit code and `duration_ms` are left out.

`TimedCall` has four variables (what has become of the command, whether the
timeout has passed, the reply, and whether the kernel keeps the status of a
command that ended). It knows no pipes, polls or signals: a command ends by
itself or is killed, and killed only after the timeout; a command that runs is
never answered for; one that was killed is reported as timed out; one that ended
is reported with its status or, if the timeout has passed, possibly as timed out,
since the code may see the end of a command and the deadline in either order.
How much later than the timeout that can be is `FinishedInTimeIsNotTimedOut`'s
matter. After the reply nothing happens any more. The refinement maps the
command to `Fate`, which tells a child that was killed from one that exited by
`ended`.

### Agent

`main`, `hb` and `health` are the places of the three; `mainTimer`, `hbTimer`
and `healthTimer` what is left of the timeout or sleep each is in. `attempt` is
the loop variable of `send_heartbeat_with_retry`. `sinceAnswer` and `sinceStop`
count seconds since the last answer and since the flag was set; both stop at
`Horizon`. `backoff_delay_secs` is the code's formula for the attempts that
occur. A request in flight may be answered, fail, or stay unanswered for ever.
`Tick` advances all timers by a second when nothing is ready to run: bounds
stated in seconds are therefore bounds on waiting, not on a loaded machine.
Returning from `main` drops the runtime and with it the tasks (`Alive`), each at
its next await. A name lookup of the HTTP client blocks a thread, which the
runtime waits for: the process may outlast `main` by it, and the model ends with
`main`.

### Startup

`flags`, `environment` and `wellFormed` are the command line and environment as
far as clap tells them apart; `config` maps each option to where its value comes
from: a flag goes before a variable, a variable before the default. `probe` is
the index in `WELL_KNOWN_TOOLS`, and `Which` and `Version` are the two commands
`probe_tool` runs, between which `HostChanges` may install or remove tools. A
version is the first line of stdout, of stderr, or none. `always` and `ever` are
history: the tools that were there all the time and at some time. `Signal` is a
signal that arrives before `select!` has installed the handlers: the process
ends at once. `SpawnTasks` is where `Agent` begins.

### CommandCycle

The tasks in `Senders` send heartbeats, those in `Workers` fetch, execute and
report in the order in which the integration test calls the client. They share
one client, hence `token`. `net` is the set of requests the server has not
handled, each with the token that was current when it was built; `answer[t]` is
the answer on its way to `t`. A call may fail at any moment (`RequestFails`):
its request is then lost, or stays in `net` as a late one nobody awaits
(`from = None`), and an answer is dropped. A worker makes one pass, as the test
does; the binary has none, and `Workers` may be empty. `Restart` is the
binary's: everything in memory is lost, the token is the configured one again
(`main.rs` 53), and without a configured id the agent has a new one. How a store
with a file writes it, and what a start from that file finds, is `TokenStore`'s
matter.

The server is not in the repository. The model takes the weakest one the client
can work with, which gives *one token of grace*: it issues a new token only in
answer to a heartbeat that carries the newest, repeats it until it is used, and
accepts the one before it until then. A server that rotates without this grace
locks the agent out whenever an answer is lost; nothing in the client can
prevent that. A command in `Repeated` is handed out until it has a result, any
other one once.

`CommandLife` has three variables (dispatched, ran, reported) and says that a
command runs only after its dispatch and that the server is told only outcomes
it had. The refinement maps `dispatched` to the commands with an owner and
`reported` to `results`.

### Executor

`cmd` is the task: of each field only whether it is there and what the checks
tell apart. `pc` goes from `start` to `done`, through `running` and `exited` for
the tools that run a program and `sleeping` for the wait. Text is a sequence of
pieces: line ends, spaces, runs of digits that are codes, bytes that are not
UTF-8, other text. curl's output grows as it receives; `-w` appends the code at
the end (`WriteOut`), unless it is killed, in which case some prefix of what it
wrote is left. `HttpOutput` is `trim_end`, `rsplit_once`, `trim` and `parse` on
such sequences. A restart runs whatever program its `method` names (`Methods`).
Numbers are integers that stand for decimals; `Float` is any
rounding that does not change the order, which is what `f64::from_str` does.
Seconds of a wait are counted in tenths of a millisecond; the product with
`1000.0` may fall just below a whole millisecond (`Milliseconds`).

### Policy

The builder methods may be called in any order and number, then `run` once.
`next` is the argument the loop looks at; each argument takes one step. Strings
are sequences of fragments (separators, `~`, `..`, metacharacters, names), and
`contains` and `strip_prefix` work on them as on characters, as long as no
fragment is part of another. `$HOME` is set or not; a `config_dir` that is not
UTF-8 is passed over (`NotText`). `Execute` is the call of `run_with_timeout`, at
which `RunWithTimeout` begins.

Two things a reader of the comments might not expect hold of the code and of the
model. A command is matched by its file name only, so that a program of a listed
name runs from any directory (`security.rs` 161-163 can be read otherwise), and
a rule is matched anywhere in an argument, one with `~` also by what follows the
`~`, with and without `$HOME` (228-230 say a prefix, and `$HOME` when it is set).
The code denies more than the comments say, never less. `NothingDeniedRuns` is
stated with operators of its own (`DocumentedMatch`, `Names`), which do not use
the code's matching.

## Runs

Every passing run's configuration is small but has the case each property is
about.

| Run | Checks | What it shows |
|---|---|---|
| `token_shared` | `TypeOK`, `PersistedTokenIsWhole`, `DiskFollowsMemory`, `AckedRotationIsDurable`, `ImplementsDurableToken`, `LockIsReleased` | two holders, two good tokens and a bad configured one, every interleaving with I/O errors, crashes and power losses (about 21 000 states). Two clients suffice for every race on one mutex: at most one is inside, and only what one other does before and after matters; the proofs cover any number. |
| `exec_all` | `TypeOK`, `NoChildIsLeft`, `OutputIsComplete`, `FinishedInTimeIsNotTimedOut`, `ReturnsSoonAfterTimeout`, `FastCommandCompletes`, `ImplementsTimedCall`, `EveryStepCounts`, `RunReturns` | pipes of one block, output of none to two (below, at and above the capacity), a sleep of two units, timeouts of zero to three (none, shorter than a sleep, a whole one, one and a half), a caller that loses up to one unit, a signal that takes up to one (about 730 000 states). The clock stops at `Horizon`, the sum of all these, which is beyond every bound the properties state. |
| `agent_life` | `TypeOK`, `HealthStopsInTime`, `ProcessStopsInTime`, `RequestsAreSpaced`, `RequestsAreTimely`, `HeartbeatsContinue`, `ShutdownCompletes` | interval 3, five attempts with the real delays, so that a whole cycle of failures and the next one occur; the horizon of 40 is above the longest delay; the server answers, refuses or never answers (about 5 000 states). |
| `cycle_once` | `TypeOK`, `NeverLockedOut`, `RunsOnce`, `TokenNeverGoesBack`, `ImplementsCommandLife` | one sender, two workers that are interchangeable, a command handed out once and one handed out until it has a result, two rotations, a restart, one late request (about 980 000 states). Two workers suffice for a command to have two holders, two rotations for an answer to be overtaken by another. |
| `executor_tools` | `TypeOK`, `HttpReportsResponse`, `SlackOkMeansAccepted`, `ComparisonsNeverReverse`, `WaitIsHonoured`, `ToolsEnd` | bodies of up to two pieces: a blank line, a line that looks like a code, bytes that are not text (about 51 000 states; `HttpResult` is proved for bodies of any length); a `Float` that makes two decimals equal; waits around zero, the maximum and a whole millisecond. |
| `policy_calls` | `TypeOK`, `NothingDeniedRuns` | rules that begin with `/`, with `~`, with neither, and `~` alone, four deny lists, two white lists, calls with up to two arguments, so that an argument can come before and after an offending one (about 126 000 states) |
| `startup_discovery` | `TypeOK`, `StableToolsAreListed`, `StartupCompletes` | three tools, one of which hangs, and two changes of the host: a tool may go and come back (about 93 000 states) |

The other runs show where the code and what the repository says about it differ:

| Run | Property | The difference |
|---|---|---|
| `token_redelivery` | `CurrentTokenReachesDisk` | after a failed write the token is already in memory, so sending it again never writes it (`security.rs` 331: "so the new token survives restarts") |
| `exec_fullpipe` | `EveryFastCommandCompletes` | the pipes are read only after the exit: a fast command with more output than a pipe holds is killed (`security.rs` 588) |
| `exec_holder` | `TimeoutIsEnforced` | the final reads wait for every process that holds the pipes, without looking at the timeout (`security.rs` 217) |
| `cycle_restart` | `RotationSurvivesRestart` | the binary's store has no path and nobody loads the file, so a restart goes back to the configured token (`heartbeat.rs` 36: "swaps its in-memory + on-disk token", `security.rs` 9-11: "persist it to the on-disk agent config") |
| `policy_documented` | `OnlyDocumentedDenials` | every rule is a substring match: `/root` denies `srv/root` (`security.rs` 228: "absolute prefix match") |

`token_redelivery` assumes `RedeliverySpec`: the server sends the current token
again and again, and each file system call that is retried for ever succeeds in
the end. The counterexample needs one failed write and none after it.

Further configurations, each with one property that TLC finds violated. Run one
with `tlc -config X.cfg MCModule.tla`, where `MCModule` is `MC` and the part of
the file's name before the underscore.

| Configuration | Property | The difference |
|---|---|---|
| `TokenStore_rejected.cfg` | `RejectedRotationKeepsToken` | a failed write is logged as "rejected rotated token", but the new token stays in use (`heartbeat.rs` 108: "so we stay on the previous one") |
| `TokenStore_noop.cfg` | `NoopRotationsAreSkipped` | the comparison and the rotation are two critical sections: two holders sent the same token both rotate (`security.rs` 400: "Skip no-op rotations") |
| `TokenStore_binary.cfg` | `AckedRotationIsDurable` | `HeartbeatClient::new` builds a store without a path (`heartbeat.rs` 36: "in-memory + on-disk token") |
| `Agent_tasks.cfg` | `TasksFinish` | with the default interval of 30 s the heartbeat task cannot end in the 5 s it is given (`main.rs` 102: "Give tasks time to finish") |
| `Agent_late.cfg` | `NoHeartbeatAfterShutdown` | the retry loop does not see the flag (`main.rs` 98: "Signal all tasks to stop") |
| `CommandCycle_shared.cfg` | `TokenNeverGoesBack` | two heartbeat tasks on one store apply two rotations in the other order (`heartbeat.rs` 57: "using a shared `TokenStore`") |
| `Executor_hanging.cfg` | `EveryTaskEnds` | a restart that hangs is waited for without a timeout (`README.md` 35: "Execution timeout") |
| `Executor_killed.cfg` | `LastLineIsStatus` | curl's exit status is not looked at: if it is killed, a line of the body is taken for the code (`executor.rs` 154) |
| `Executor_service.cfg` | `RestartFallsBack` | no second method is tried (`README.md` 71: "falls back to `service`") |
| `Policy_basename.cfg` | `OnlyListedCommandsRun` | a listed name is accepted in any directory (`security.rs` 161-163: one cannot "sneak `/opt/hacker/echo` past the whitelist") |
| `Startup_flags.cfg` | `DocumentedFlagsStart` | the flag is `--api-token` (`README.md` 95: `--api-key`) |
| `Startup_variables.cfg` | `DocumentedVariablesAreRead` | the variable is `API_TOKEN` (`README.md` 105: `SIGOPS_API_KEY`) |

Deadlock is checked for `TokenStore`, which never stops, and for `CommandCycle`,
whose sender can always send. It is not checked where a call, a check, a start
or a process ends.

That no worker of the binary fetches commands (`README.md` 12: "executes commands
dispatched by the SigOps control plane") needs no run: `main.rs` has no such
task. For the same reason no liveness of commands is stated.

### Fairness

- `TokenStore!FairSpec`: weak fairness of each client's next step inside a call.
  A thread inside `maybe_rotate` is scheduled, and the system calls return. No
  call is assumed to be made, no failure to occur or not to occur.
- `RunWithTimeout!FairSpec`: the calling thread is scheduled; time passes; a
  `SIGKILL` that was sent takes effect; a process called brief ends; a fast
  child does not stop by itself. Nothing is assumed of a slow or hanging child:
  `RunReturns` holds because of the timeout. Its hypothesis excludes a process
  that holds the pipes for ever, which is what `exec_holder` is about, and a
  child the agent may not kill, for which `wait` blocks as long as it runs.
- `Agent!FairSpec`: a task that is ready is polled, and time advances (strong
  fairness of `Tick`: clients of the health endpoint may postpone it within one
  instant, not for ever). Signals, connections and answers are not assumed. The
  HTTP client sets no timeout: `HeartbeatsContinue` therefore says that the task
  always comes to send again, and not that it never waits for an answer for ever.
- `CommandCycle` assumes none: nothing there is a liveness property.
- `Executor!FairSpec`: the thread goes on, and curl looks at its clock
  (`--max-time`). Nothing is assumed of a peer, or of the program of a restart.
- `Startup!FairSpec`: `main` goes on; a version command in `Hanging` never ends.

## Proofs

All from the assumptions on the constants in the modules, and no other, except
that `AckedRotation` assumes a persist path, `OneHolderSkipsNoops` a single
client, and the theorems about the token of `CommandCycle` a single sender.

**TokenStore.** The inductive invariant `IInv` is: the types; `MutualExclusion`
(a client is in the critical section exactly when it holds the mutex);
`HolderInv` for every client (inside the critical section memory holds its
token, from the write to the rename the temporary file does too, at the rename
it is synced, after it the file holds the token); and `PersistedTokenIsWhole`.
None of the properties is inductive alone: that the file stays whole needs that
the file renamed is synced, this needs that no other client truncated it, and
this is mutual exclusion. One lemma per action proves that it is preserved. From
it: `TypeCorrect`, `TokenFileIsWhole`, `FileFollowsMemory`, `AckedRotation`,
`OneHolder` and `BoundedHolding`: a locked mutex has a holder in the critical
section, whose every step brings it nearer to the release. `InvalidIsNotInUse`
adds `ComparedInv`: although the format is checked outside the mutex, a token of
the wrong format never becomes the current one meanwhile, since only tokens of
the right format are installed. `OneHolderSkipsNoops` assumes a single client
and needs `UnequalInv`; with two it is false (`TokenStore_noop.cfg`). Last,
`Refinement`: every step of the store is a step of `DurableToken` or leaves its
variables alone (`Install` is `Install`, `RenameTmp` is `Publish`, a return that
drops the mutex is `Release`, the two failures are `Restart` and `HostRestart`).

**RunWithTimeout.** `IInv` adds to the types: `BlocksAreConserved` (for each
stream, blocks in the pipe plus blocks in the string are those written, save
dropped non-text output), `ChildInv` (what the caller's place says of the
child), `ReadInv` (the caller reads only after the exit; a stream it has left is
empty), `StatusInv` (there is a status to poll exactly if the kernel keeps it),
`ClockInv` (a sleep begins before the timeout, so it ends less than a poll
interval after it, and what is later is the caller's delay), `LateInv` (an exit
the caller has not noticed after its poll lies no further back than its delay;
once the child is killed, no more than the delay and the time of the signal is
added) and `FastInv` (a fast child whose output fits can always take a step, so
no time but the caller's delay passes before it ends). From it, for any
capacity, output, timeout (zero included), poll interval, delay and time of the
signal: `TypeCorrect`, `ChildIsReaped`, `WholeOutput`, `InTime`, `Deadline`,
`FastCommand`. `Refinement` takes each step to one of `TimedCall` or to none:
`Spawn` is `Start` or the answer that there is no command, `ChildExit` is `End`,
`ChildDies` is `Kill`, a `Tick` may be `Expire`, the returns are `Answer`.
`EveryStep` shows that the natural number `StepsLeft` decreases with every step,
each further round of the poll loop being paid for by its sleep, and
`WaitsAreShort` that the caller waits for nothing but a child that is dead, dying
or cannot be killed, or a process left behind: together they are what
`RunReturns` rests on, short of fairness.

**Agent.** `TypeCorrect` rests on a lemma about `backoff_delay_secs`: for the
attempts the loop makes it is a power of two and below the cap. `Spacing` needs
`SpacedInv`: during a sleep, what is left of it and the seconds since the last
answer make at least the whole delay (or `Horizon`, where the count stops).
`Timely` is its counterpart, with `TimelyInv`: the two add up to no more than the
longest wait, so that the task does not fall silent either.
`HealthTaskStops` needs `HealthInv`: after the flag is set, the seconds that
have passed and those the current accept may still take add up to at most one
timeout, because a new accept starts only after the flag was seen unset.
`ProcessStops` needs `StopInv`, the same sum for the wait of `main`: one timeout
covers both joins, so `main` returns within five seconds of the signal whichever
task still awaits something.

**CommandCycle.** `IInv` is the types, `WireInv` (a request somebody awaits is
the only one of its task and has no answer yet; a report carries an outcome of
its command) and `TaskInv` (a task's command was dispatched, its outcome
occurred). It gives `TypeCorrect` and `Refinement`. Two theorems about the token
assume one sender. `TokensAdvance` proves `TokenNeverGoesBack` in every life of
the agent; it needs `OrderInv`: what is on its way to the store is no older than
what the store has, and is one of the server's. `TokenIsAccepted` proves
`NeverLockedOut`, which is about the first life, since a restart brings back a
token the server may have dropped; it needs `GraceInv`: the server is at most
one token ahead of the store, accepts both, and no request carries a token the
store has not had. With two senders tokens do go back
(`CommandCycle_shared.cfg`). `CommandRunsOnce` needs `OnceInv`: a command that is
handed out once has at most one holder, which is a worker or the answer on its
way to one.

**Executor.** `ProgramInv` relates what curl has written to what it has
received. `HttpResult` rests on `HttpSplit`: for every body, the split of the
body, a line end and a code gives the code and the body back, because the code
is the last visible piece and the line end in front of it the last one. It holds
for bodies of any length. `ConditionResult` needs of `Float` only that it keeps
the order; `WaitResult` is integer arithmetic. `SlackResult` needs that `-o
/dev/null` keeps the body out of curl's output. `BoundedTasks` shows that every
step of a task lowers the natural number `StepsLeft`; it needs `BodyInv`, the
bound on the body.

**Policy.** `CheckedInv`: a command that got past its check is allowed, the
arguments before `next` are unobjectionable, and the policy does not change after
`run` is called. `DeniedStaysOut` proves `NothingDeniedRuns` from it: what the
comments deny, stated without the code's matching, is among what the code
rejects, for any policy and number of arguments.

**Startup.** `ProbedInv`: of the tools before the one that is probed, those that
have been there all the time are listed, and nothing is that was never there.
`ListedOnce` adds `ListedInv`: what is listed is one of the tools probed so far.
`BoundedStart` shows that every step of `main` lowers `StepsLeft`, whatever is
installed or removed meanwhile.

Every invariant and action property of a passing run is proved. Only
model-checked are the liveness properties (`LockIsReleased`, `RunReturns`,
`HeartbeatsContinue`, `ShutdownCompletes`, `ToolsEnd`, `StartupCompletes`), which
TLAPS cannot prove under fairness. What they rest on,
short of fairness, is proved in part: that the steps to the end are bounded
(`BoundedHolding`, `EveryStep` and `WaitsAreShort`, `BoundedTasks`,
`BoundedStart`), that the pauses are bounded (`Timely`) and that `main` returns
in time (`ProcessStops`).

Some theorems state a property that none of the runs above lists:
`CriticalSectionIsBounded`, `InvalidTokenIsNotInUse`, `WaitsForNobodyElse`,
`TasksAreBounded`, `ToolsAreListedOnce` and `StartIsBounded`. TLC found them true
before they were proved, of the instances of the runs; a line in the run's .cfg
checks them again.

## Not modelled

- JSON, TLS and the layout of requests and results; stderr, durations, paths and
  the text of versions; logging. No property depends on them.
- The server, apart from what `CommandCycle` assumes of it.
- `--no-health` of the project's README (line 38): no code reads it.
- What the process still waits for after `main` has returned.
- `lib.rs`, which declares modules, and the build and release pipelines.
- The composition of `Policy` with `Executor`: the code has none, no tool is
  checked by the policy before it runs.

## Plan

All modules of the first plan are written: `TokenStore`, `RunWithTimeout`,
`Agent`, `CommandCycle`, `Executor`, `Policy` and `Startup`, each with its
proofs; the backoff became a lemma of `AgentProofs`. What is left is to prove
more:

1. `CommandCycle`: what is left of `TokensAdvance` with several senders when
   rotations are applied by one of them only.
2. `Agent` and `Executor`: an abstract specification of each (a periodic task; a
   program with a result) and that the module implements it.
