------------------------------- MODULE Agent -------------------------------
(***************************************************************************)
(* The agent process (src/src/main.rs): the heartbeat task with its retry  *)
(* loop (src/src/heartbeat.rs), the health task (src/src/health.rs), and   *)
(* main, which waits for a signal, sets the shutdown flag and gives the    *)
(* tasks five seconds.                                                     *)
(*                                                                         *)
(* Time advances by whole seconds.  A task that is not waiting acts before *)
(* time does; a request may be answered at any time, or never: the HTTP    *)
(* client sets no timeout.                                                 *)
(***************************************************************************)
EXTENDS Integers

CONSTANTS
    Interval,  \* config.heartbeat_interval, in seconds
    Horizon    \* bound: seconds since an event are counted up to this

MAX_CONSECUTIVE_FAILURES == 5
AcceptTimeout == 1
ShutdownTimeout == 5

ASSUME AgentAssumption ==
    /\ Interval \in Nat
    /\ Horizon \in Nat
    /\ Horizon > ShutdownTimeout

VARIABLES
    shutdown,     \* the shared flag
    main,         \* where main is
    mainTimer,    \* what is left of main's timeout
    hb,           \* where the heartbeat task is
    attempt,      \* the attempt in send_heartbeat_with_retry
    hbTimer,      \* what is left of the heartbeat task's sleep
    health,       \* where the health task is
    healthTimer,  \* what is left of the accept's timeout
    sinceAnswer,  \* seconds since the server last answered a heartbeat
    sinceStop     \* seconds since the flag was set

mainVars == <<shutdown, main, mainTimer>>
hbVars == <<hb, attempt, hbTimer>>
healthVars == <<health, healthTimer>>
clocks == <<sinceAnswer, sinceStop>>
vars == <<mainVars, hbVars, healthVars, clocks>>

Lesser(a, b) == IF a < b THEN a ELSE b

\* 2u64.saturating_pow(attempt + 1), at most a minute.
backoff_delay_secs(a) == Lesser(2 ^ (a + 1), 60)

TypeOK ==
    /\ shutdown \in BOOLEAN
    /\ main \in {"wait", "join_hb", "join_health", "exited"}
    /\ mainTimer \in 0..ShutdownTimeout
    /\ hb \in {"check", "sent", "backoff", "interval", "stopped"}
    /\ attempt \in 0..(MAX_CONSECUTIVE_FAILURES - 1)
    /\ hbTimer \in Nat
    /\ health \in {"bind", "check", "accept", "write", "stopped"}
    /\ healthTimer \in 0..AcceptTimeout
    /\ sinceAnswer \in 0..Horizon
    /\ sinceStop \in 0..Horizon

\* main has spawned both tasks.
Init ==
    /\ shutdown = FALSE
    /\ main = "wait"
    /\ mainTimer = 0
    /\ hb = "check"
    /\ attempt = 0
    /\ hbTimer = 0
    /\ health = "bind"
    /\ healthTimer = 0
    /\ sinceAnswer = Horizon
    /\ sinceStop = 0

\* When main returns, the runtime is dropped and the tasks with it, at their
\* next await; a name lookup that blocks a thread may outlast main and is not
\* modelled.
Alive == main # "exited"

-----------------------------------------------------------------------------
(* The heartbeat task.                                                     *)

\* `while !hb_shutdown.load(..)`, then the first attempt of a cycle.
CheckFlag ==
    /\ Alive
    /\ hb = "check"
    /\ hb' = IF shutdown THEN "stopped" ELSE "sent"
    /\ attempt' = 0
    /\ UNCHANGED <<hbTimer, mainVars, healthVars, clocks>>

SleepInterval ==
    /\ hb' = "interval"
    /\ attempt' = 0
    /\ hbTimer' = Interval

\* 2xx with a body that parses.
HeartbeatOk ==
    /\ Alive
    /\ hb = "sent"
    /\ SleepInterval
    /\ sinceAnswer' = 0
    /\ UNCHANGED <<mainVars, healthVars, sinceStop>>

FailsWithDelay(delay) ==
    /\ Alive
    /\ hb = "sent"
    /\ hb' = "backoff"
    /\ hbTimer' = delay
    /\ sinceAnswer' = 0
    /\ UNCHANGED <<attempt, mainVars, healthVars, sinceStop>>

\* Mutant: a failed attempt is repeated at once.
RetryAtOnce == FailsWithDelay(0)

\* Mutant: the attempts are counted from one.
LateRetry == FailsWithDelay(backoff_delay_secs(attempt + 1))

\* A network error, another status or a body that does not parse.
HeartbeatFails == FailsWithDelay(backoff_delay_secs(attempt))

NextAttempt ==
    /\ hb' = "sent"
    /\ attempt' = attempt + 1
    /\ UNCHANGED hbTimer

\* After the delay of the last of `max` attempts the cycle is over.
BackoffOverOf(max) ==
    /\ Alive
    /\ hb = "backoff"
    /\ hbTimer = 0
    /\ \/ attempt + 1 < max /\ NextAttempt
       \/ attempt + 1 >= max /\ SleepInterval
    /\ UNCHANGED <<mainVars, healthVars, clocks>>

\* Mutant: one attempt too many.
OneRetryMore == BackoffOverOf(MAX_CONSECUTIVE_FAILURES + 1)

\* Mutant: the last failure ends the task.
GiveUp ==
    IF attempt + 1 < MAX_CONSECUTIVE_FAILURES
    THEN BackoffOverOf(MAX_CONSECUTIVE_FAILURES)
    ELSE /\ Alive
         /\ hb = "backoff"
         /\ hb' = "stopped"
         /\ UNCHANGED <<attempt, hbTimer, mainVars, healthVars, clocks>>

\* The delay also follows the last attempt.
BackoffOver == BackoffOverOf(MAX_CONSECUTIVE_FAILURES)

IntervalOver ==
    /\ Alive
    /\ hb = "interval"
    /\ hbTimer = 0
    /\ hb' = "check"
    /\ UNCHANGED <<attempt, hbTimer, mainVars, healthVars, clocks>>

-----------------------------------------------------------------------------
(* The health task.                                                        *)

HealthGoTo(place) ==
    /\ health' = place
    /\ healthTimer' = IF place = "accept" THEN AcceptTimeout ELSE 0
    /\ UNCHANGED <<mainVars, hbVars, clocks>>

\* The port may be taken: then there is no health endpoint.
Bind ==
    /\ Alive
    /\ health = "bind"
    /\ HealthGoTo("check") \/ HealthGoTo("stopped")

HealthCheckFlag ==
    /\ Alive
    /\ health = "check"
    /\ HealthGoTo(IF shutdown THEN "stopped" ELSE "accept")

\* A connection, an accept error, or the timeout.
Accept ==
    /\ Alive
    /\ health = "accept"
    /\ \/ HealthGoTo("write")
       \/ HealthGoTo("check")
       \/ healthTimer = 0 /\ HealthGoTo("check")

\* Mutant: the flag is looked at only when no client connects.
ServeNext ==
    /\ Alive
    /\ health = "write"
    /\ HealthGoTo("accept")

\* The response fits in the socket's buffer; an error is ignored.
WriteResponse ==
    /\ Alive
    /\ health = "write"
    /\ HealthGoTo("check")

-----------------------------------------------------------------------------
(* main.                                                                   *)

StopWithin(limit) ==
    /\ main = "wait"
    /\ main' = "join_hb"
    /\ shutdown' = TRUE
    /\ mainTimer' = limit
    /\ UNCHANGED <<hbVars, healthVars, clocks>>

\* Mutant: each task is given the whole timeout.
TimeoutPerTask == StopWithin(2 * ShutdownTimeout)

\* SIGINT or SIGTERM.
Signal == StopWithin(ShutdownTimeout)

JoinHeartbeat ==
    /\ main = "join_hb"
    /\ hb = "stopped"
    /\ main' = "join_health"
    /\ UNCHANGED <<shutdown, mainTimer, hbVars, healthVars, clocks>>

JoinHealth ==
    /\ main = "join_health"
    /\ health = "stopped"
    /\ main' = "exited"
    /\ UNCHANGED <<shutdown, mainTimer, hbVars, healthVars, clocks>>

TimeoutIn(joins) ==
    /\ main \in joins
    /\ mainTimer = 0
    /\ main' = "exited"
    /\ UNCHANGED <<shutdown, mainTimer, hbVars, healthVars, clocks>>

\* Mutant: the timeout covers the second of the two joins only.
TimeoutOnHealthOnly == TimeoutIn({"join_health"})

JoinTimeout == TimeoutIn({"join_hb", "join_health"})

-----------------------------------------------------------------------------
(* Time.                                                                   *)

\* Some task or main has something to do before time advances.
Urgent ==
    \/ hb = "check"
    \/ hb \in {"backoff", "interval"} /\ hbTimer = 0
    \/ health \in {"bind", "check", "write"}
    \/ health = "accept" /\ healthTimer = 0
    \/ main = "join_hb" /\ hb = "stopped"
    \/ main = "join_health" /\ health = "stopped"
    \/ main \in {"join_hb", "join_health"} /\ mainTimer = 0

Less(t) == IF t = 0 THEN 0 ELSE t - 1

Tick ==
    /\ Alive
    /\ ~Urgent
    /\ mainTimer' = Less(mainTimer)
    /\ hbTimer' = Less(hbTimer)
    /\ healthTimer' = Less(healthTimer)
    /\ sinceAnswer' = Lesser(sinceAnswer + 1, Horizon)
    /\ sinceStop' = IF shutdown THEN Lesser(sinceStop + 1, Horizon) ELSE 0
    /\ UNCHANGED <<shutdown, main, hb, attempt, health>>

Answer == HeartbeatOk \/ HeartbeatFails
Heartbeat == CheckFlag \/ BackoffOver \/ IntervalOver
Health == Bind \/ HealthCheckFlag \/ Accept \/ WriteResponse
HealthReady == health # "accept" \/ healthTimer = 0
Main == JoinHeartbeat \/ JoinHealth \/ JoinTimeout

Next == Answer \/ Heartbeat \/ Health \/ Main \/ Signal \/ Tick

Spec == Init /\ [][Next]_vars

\* The runtime polls every task that is ready, and time advances: clients of
\* the health endpoint do not keep it busy within one instant for ever.
FairSpec ==
    /\ Spec
    /\ WF_vars(Heartbeat)
    /\ WF_vars(HealthReady /\ Health)
    /\ WF_vars(Main)
    /\ SF_vars(Tick)

-----------------------------------------------------------------------------
(* Properties.                                                             *)

\* The agent does not hammer the server: a retry comes after the delay of the
\* attempt that failed, the first attempt of a cycle after the interval.
RequestsAreSpaced ==
    [][hb # "sent" /\ hb' = "sent" =>
          sinceAnswer >= Lesser(Horizon,
              IF attempt' = 0 THEN Interval ELSE 2 ^ attempt')]_vars

\* Nor does it fall silent: after an answer or an error the next request waits
\* for no more than its delay, and at the end of a cycle that has failed for no
\* more than the last delay and the interval.
Longest == backoff_delay_secs(MAX_CONSECUTIVE_FAILURES - 1)

RequestsAreTimely ==
    /\ hb = "backoff" => sinceAnswer <= backoff_delay_secs(attempt)
    /\ hb = "interval" => sinceAnswer <= Longest + Interval

\* Whatever its clients do, the health task has ended when the timeout of one
\* accept has passed since the flag was set.
HealthStopsInTime ==
    health # "stopped" /\ Alive => sinceStop <= AcceptTimeout

\* Once a signal arrives main returns, even if the server never answers the
\* heartbeat the heartbeat task is waiting for.
ShutdownCompletes == shutdown ~> ~Alive

\* main has returned when the timeout of the joins has passed since the flag was
\* set, whichever task still awaits something.
ProcessStopsInTime == Alive => sinceStop <= ShutdownTimeout

\* However many requests have failed, the task comes to send another one, until
\* the shutdown; it waits for ever only for an answer.
HeartbeatsContinue == []<>(hb = "sent" \/ shutdown)

\* main: "Give tasks time to finish".
TasksFinish == main = "exited" => hb = "stopped" /\ health = "stopped"

\* main: "Signal all tasks to stop".
NoHeartbeatAfterShutdown == [][shutdown /\ hb # "sent" => hb' # "sent"]_vars

-----------------------------------------------------------------------------
(* Why the health task stops in time: after the flag is set, the seconds   *)
(* that have passed and those the accept may still take make at most one   *)
(* timeout.                                                                *)
HealthInv ==
    /\ sinceStop \in Nat
    /\ healthTimer \in 0..AcceptTimeout
    /\ ~shutdown => sinceStop = 0
    /\ main = "wait" <=> ~shutdown
    /\ health # "stopped" /\ Alive => sinceStop + healthTimer <= AcceptTimeout
    /\ health \notin {"accept", "stopped"} => healthTimer = 0

\* Why main stops in time: the seconds that have passed and those main
\* may still wait make at most one timeout.
StopInv ==
    /\ main = "wait" <=> ~shutdown
    /\ ~shutdown => sinceStop = 0
    /\ main \in {"join_hb", "join_health"} =>
          sinceStop + mainTimer <= ShutdownTimeout

\* Why requests are spaced: what is left of a sleep and the seconds since the
\* last answer make the whole delay.
SpacedInv ==
    /\ hb = "backoff" =>
          sinceAnswer + hbTimer >= Lesser(Horizon, backoff_delay_secs(attempt))
    /\ hb = "interval" => sinceAnswer + hbTimer >= Lesser(Horizon, Interval)
    /\ hb = "check" => sinceAnswer >= Lesser(Horizon, Interval)

\* Why they come in time: nor do the two make more than it.
TimelyInv ==
    /\ hb = "backoff" => sinceAnswer + hbTimer <= backoff_delay_secs(attempt)
    /\ hb = "interval" => sinceAnswer + hbTimer <= Longest + Interval
=============================================================================
