---------------------------- MODULE AgentProofs ----------------------------
(***************************************************************************)
(* For any interval of the heartbeats: the types, the distance between two *)
(* requests, and the end of the health task and of the process after a     *)
(* signal.                                                                 *)
(***************************************************************************)
EXTENDS Agent, TLAPS

USE AgentAssumption DEF AcceptTimeout, ShutdownTimeout

-----------------------------------------------------------------------------
(* The delay of every attempt the loop makes is a power of two below the   *)
(* cap: neither the addition nor the power can overflow.                   *)
LEMMA Delay ==
    ASSUME NEW a \in 0..(MAX_CONSECUTIVE_FAILURES - 1)
    PROVE  backoff_delay_secs(a) \in Nat /\ backoff_delay_secs(a) = 2 ^ (a + 1)
<1>1. a = 0 \/ a = 1 \/ a = 2 \/ a = 3 \/ a = 4
    BY DEF MAX_CONSECUTIVE_FAILURES
<1>2. 2 ^ 1 = 2 /\ 2 ^ 2 = 4 /\ 2 ^ 3 = 8 /\ 2 ^ 4 = 16 /\ 2 ^ 5 = 32
    BY SMT
<1>3. a + 1 = 1 \/ a + 1 = 2 \/ a + 1 = 3 \/ a + 1 = 4 \/ a + 1 = 5
    BY <1>1
<1>4. 2 ^ (a + 1) \in {2, 4, 8, 16, 32}
    BY <1>2, <1>3, Zenon
<1> QED
    BY <1>4 DEF backoff_delay_secs, Lesser

LEMMA HeartbeatType ==
    ASSUME TypeOK, Answer \/ Heartbeat
    PROVE  TypeOK'
<1> USE DEF TypeOK, mainVars, healthVars, clocks
<1>1. CASE CheckFlag \/ IntervalOver
    BY <1>1 DEF CheckFlag, IntervalOver, MAX_CONSECUTIVE_FAILURES
<1>2. CASE HeartbeatOk
    BY <1>2 DEF HeartbeatOk, SleepInterval, MAX_CONSECUTIVE_FAILURES
<1>3. CASE HeartbeatFails
    BY <1>3, Delay DEF HeartbeatFails, FailsWithDelay
<1>4. CASE BackoffOver
    BY <1>4 DEF BackoffOver, BackoffOverOf, NextAttempt, SleepInterval,
       MAX_CONSECUTIVE_FAILURES
<1> QED
    BY <1>1, <1>2, <1>3, <1>4 DEF Answer, Heartbeat

LEMMA OthersType ==
    ASSUME TypeOK, Health \/ Main \/ Signal \/ Tick
    PROVE  TypeOK'
<1> USE DEF TypeOK, mainVars, hbVars, healthVars, clocks
<1>1. CASE Health
    BY <1>1 DEF Health, Bind, HealthCheckFlag, Accept, WriteResponse, HealthGoTo
<1>2. CASE Main
    BY <1>2 DEF Main, JoinHeartbeat, JoinHealth, JoinTimeout, TimeoutIn
<1>3. CASE Signal
    BY <1>3 DEF Signal, StopWithin
<1>4. CASE Tick
    BY <1>4 DEF Tick, Less, Lesser
<1> QED
    BY <1>1, <1>2, <1>3, <1>4

\* TypeOK: in particular the loop never reaches an attempt at which the
\* addition in backoff_delay_secs could overflow.
THEOREM TypeCorrect == Spec => []TypeOK
<1>1. ASSUME Init
      PROVE  TypeOK
  <2>1. Horizon \in 0..Horizon /\ 0 \in 0..Horizon /\ 0 \in 0..5 /\ 0 \in 0..1
        /\ 0 \in 0..(MAX_CONSECUTIVE_FAILURES - 1) /\ 0 \in Nat
    BY DEF MAX_CONSECUTIVE_FAILURES
  <2> QED
    BY <1>1, <2>1 DEF Init, TypeOK
<1>2. TypeOK /\ [Next]_vars => TypeOK'
    BY HeartbeatType, OthersType
       DEF Next, TypeOK, vars, mainVars, hbVars, healthVars, clocks
<1> QED
    BY <1>1, <1>2, PTL DEF Spec

-----------------------------------------------------------------------------
(* Requests are spaced.                                                    *)

LEMMA InitSpaced == Init => SpacedInv
BY DEF Init, SpacedInv, Lesser

\* Each sleep starts with its whole delay, and a request is sent only when a
\* sleep, or the start of the agent, has left nothing to wait for.
LEMMA HeartbeatKeepsSpaced ==
    ASSUME TypeOK, SpacedInv, Answer \/ Heartbeat
    PROVE  SpacedInv'
<1> USE DEF TypeOK, SpacedInv, clocks
<1>1. CASE CheckFlag \/ IntervalOver
    BY <1>1 DEF CheckFlag, IntervalOver
<1>2. CASE HeartbeatOk
    BY <1>2 DEF HeartbeatOk, SleepInterval, Lesser
<1>3. CASE HeartbeatFails
  <2>1. backoff_delay_secs(attempt) \in Nat
    BY Delay
  <2>2. attempt' = attempt /\ hb' = "backoff" /\ sinceAnswer' = 0
        /\ hbTimer' = backoff_delay_secs(attempt)
    BY <1>3 DEF HeartbeatFails, FailsWithDelay
  <2> QED
    BY <2>1, <2>2 DEF Lesser
<1>4. CASE BackoffOver
    BY <1>4 DEF BackoffOver, BackoffOverOf, NextAttempt, SleepInterval, Lesser
<1> QED
    BY <1>1, <1>2, <1>3, <1>4 DEF Answer, Heartbeat

\* A second that passes moves from what is left to what is counted.
LEMMA TickKeepsSpaced ==
    ASSUME TypeOK, SpacedInv, Tick
    PROVE  SpacedInv'
<1>1. hb # "check" /\ (hb \in {"backoff", "interval"} => hbTimer > 0)
    BY DEF Tick, Urgent, TypeOK
<1>2. backoff_delay_secs(attempt) \in Nat
    BY Delay DEF TypeOK
<1> QED
    BY <1>1, <1>2 DEF Tick, TypeOK, SpacedInv, Less, Lesser

LEMMA SpacedInductive ==
    ASSUME TypeOK, SpacedInv, [Next]_vars
    PROVE  SpacedInv'
<1>1. CASE Answer \/ Heartbeat
    BY <1>1, HeartbeatKeepsSpaced
<1>2. CASE Health
    BY <1>2 DEF Health, Bind, HealthCheckFlag, Accept, WriteResponse,
       HealthGoTo, SpacedInv, hbVars, clocks
<1>3. CASE Main \/ Signal
    BY <1>3 DEF Main, Signal, StopWithin, JoinHeartbeat, JoinHealth,
       JoinTimeout, TimeoutIn, SpacedInv, hbVars, clocks
<1>4. CASE Tick
    BY <1>4, TickKeepsSpaced
<1>5. CASE UNCHANGED vars
    BY <1>5 DEF vars, hbVars, clocks, SpacedInv
<1> QED
    BY <1>1, <1>2, <1>3, <1>4, <1>5 DEF Next

\* RequestsAreSpaced: however many requests fail, a retry waits for the delay
\* of the attempt that failed and a new cycle for the interval.
THEOREM Spacing == Spec => RequestsAreSpaced
<1> DEFINE Spaced == hb # "sent" /\ hb' = "sent" =>
                        sinceAnswer >= Lesser(Horizon,
                            IF attempt' = 0 THEN Interval ELSE 2 ^ attempt')
<1>1. ASSUME TypeOK, SpacedInv, [Next]_vars
      PROVE  [Spaced]_vars
  <2>1. SUFFICES ASSUME hb # "sent", hb' = "sent"
                 PROVE  Spaced
    OBVIOUS
  <2>2. CheckFlag \/ BackoffOver
    BY <1>1, <2>1 DEF Next, vars, mainVars, hbVars, healthVars, clocks, Answer,
       Heartbeat, Health, Main, HeartbeatOk, HeartbeatFails, FailsWithDelay,
       SleepInterval, IntervalOver, Bind, HealthCheckFlag, Accept,
       WriteResponse, HealthGoTo, Signal, StopWithin, JoinHeartbeat, JoinHealth,
       JoinTimeout, TimeoutIn, Tick
  <2>3. CASE CheckFlag
    BY <1>1, <2>3 DEF CheckFlag, SpacedInv
  <2>4. CASE BackoffOver
    <3>1. hbTimer = 0 /\ hb = "backoff" /\ attempt' = attempt + 1
      BY <2>1, <2>4 DEF BackoffOver, BackoffOverOf, NextAttempt, SleepInterval
    <3>2. backoff_delay_secs(attempt) = 2 ^ (attempt + 1)
      BY <1>1, Delay DEF TypeOK
    <3> QED
      BY <1>1, <3>1, <3>2 DEF SpacedInv, TypeOK
  <2> QED
    BY <2>2, <2>3, <2>4
<1>2. TypeOK /\ SpacedInv /\ [Next]_vars => SpacedInv'
    BY SpacedInductive
<1> QED
    BY <1>1, <1>2, InitSpaced, TypeCorrect, PTL DEF Spec, RequestsAreSpaced

-----------------------------------------------------------------------------
(* Requests come in time.                                                  *)

LEMMA InitTimely == Init => TimelyInv
BY DEF Init, TimelyInv

\* A cycle that fails sleeps its last delay before the interval.
LEMMA HeartbeatKeepsTimely ==
    ASSUME TypeOK, TimelyInv, Answer \/ Heartbeat
    PROVE  TimelyInv'
<1> USE DEF TypeOK, TimelyInv, clocks
<1>1. Longest \in Nat
    BY Delay DEF Longest, MAX_CONSECUTIVE_FAILURES
<1>2. CASE CheckFlag \/ IntervalOver
    BY <1>2 DEF CheckFlag, IntervalOver
<1>3. CASE HeartbeatOk
    BY <1>1, <1>3 DEF HeartbeatOk, SleepInterval
<1>4. CASE HeartbeatFails
  <2>1. backoff_delay_secs(attempt) \in Nat
    BY Delay
  <2>2. attempt' = attempt /\ hb' = "backoff" /\ sinceAnswer' = 0
        /\ hbTimer' = backoff_delay_secs(attempt)
    BY <1>4 DEF HeartbeatFails, FailsWithDelay
  <2> QED
    BY <2>1, <2>2
<1>5. CASE BackoffOver
  <2>1. CASE NextAttempt
    BY <1>5, <2>1 DEF BackoffOver, BackoffOverOf, NextAttempt
  <2>2. CASE attempt + 1 >= MAX_CONSECUTIVE_FAILURES /\ SleepInterval
    <3>1. attempt = MAX_CONSECUTIVE_FAILURES - 1 /\ sinceAnswer <= Longest
      BY <1>5, <2>2 DEF BackoffOver, BackoffOverOf, Longest,
         MAX_CONSECUTIVE_FAILURES
    <3> QED
      BY <1>1, <1>5, <2>2, <3>1 DEF BackoffOver, BackoffOverOf, SleepInterval
  <2> QED
    BY <1>5, <2>1, <2>2 DEF BackoffOver, BackoffOverOf
<1> QED
    BY <1>2, <1>3, <1>4, <1>5 DEF Answer, Heartbeat

LEMMA TimelyInductive ==
    ASSUME TypeOK, TimelyInv, [Next]_vars
    PROVE  TimelyInv'
<1>1. CASE Answer \/ Heartbeat
    BY <1>1, HeartbeatKeepsTimely
<1>2. CASE Health
    BY <1>2 DEF Health, Bind, HealthCheckFlag, Accept, WriteResponse,
       HealthGoTo, TimelyInv, hbVars, clocks
<1>3. CASE Main \/ Signal
    BY <1>3 DEF Main, Signal, StopWithin, JoinHeartbeat, JoinHealth,
       JoinTimeout, TimeoutIn, TimelyInv, hbVars, clocks
<1>4. CASE Tick
  <2>1. hb \in {"backoff", "interval"} => hbTimer > 0
    BY <1>4 DEF Tick, Urgent, TypeOK
  <2>2. backoff_delay_secs(attempt) \in Nat /\ Longest \in Nat
    BY Delay DEF TypeOK, Longest, MAX_CONSECUTIVE_FAILURES
  <2> QED
    BY <1>4, <2>1, <2>2 DEF Tick, TypeOK, TimelyInv, Less, Lesser
<1>5. CASE UNCHANGED vars
    BY <1>5 DEF vars, hbVars, clocks, TimelyInv
<1> QED
    BY <1>1, <1>2, <1>3, <1>4, <1>5 DEF Next

\* RequestsAreTimely: no sequence of failures and no interval makes the task
\* pause for longer than the last delay and the interval.
THEOREM Timely == Spec => []RequestsAreTimely
<1>1. TypeOK /\ TimelyInv => RequestsAreTimely
  <2> SUFFICES ASSUME TypeOK, TimelyInv
               PROVE  RequestsAreTimely
    OBVIOUS
  <2>1. backoff_delay_secs(attempt) \in Nat /\ Longest \in Nat
    BY Delay DEF TypeOK, Longest, MAX_CONSECUTIVE_FAILURES
  <2> QED
    BY <2>1 DEF TypeOK, TimelyInv, RequestsAreTimely
<1>2. TypeOK /\ TimelyInv /\ [Next]_vars => TimelyInv'
    BY TimelyInductive
<1> QED
    BY <1>1, <1>2, InitTimely, TypeCorrect, PTL DEF Spec

-----------------------------------------------------------------------------
(* The health task.                                                        *)

LEMMA InitHealth == Init => HealthInv
BY DEF Init, HealthInv, Alive

\* The heartbeat task shares nothing with the health task but the flag, which
\* it only reads.
LEMMA HeartbeatKeepsHealth ==
    ASSUME HealthInv, Answer \/ Heartbeat
    PROVE  HealthInv'
BY DEF HealthInv, Answer, Heartbeat, HeartbeatOk, HeartbeatFails, CheckFlag,
   BackoffOver, BackoffOverOf, NextAttempt, SleepInterval,
   FailsWithDelay, IntervalOver, Alive, mainVars, healthVars, clocks

\* The task starts a new accept only when it has seen the flag unset, at which
\* no time has passed since the flag was set.
LEMMA HealthKeepsHealth ==
    ASSUME HealthInv, Health
    PROVE  HealthInv'
<1> USE DEF HealthInv, HealthGoTo, Alive, mainVars, clocks
<1>1. CASE Bind
    BY <1>1 DEF Bind
<1>2. CASE HealthCheckFlag
    BY <1>2 DEF HealthCheckFlag
<1>3. CASE Accept
    BY <1>3 DEF Accept
<1>4. CASE WriteResponse
    BY <1>4 DEF WriteResponse
<1> QED
    BY <1>1, <1>2, <1>3, <1>4 DEF Health

\* The flag is set at second 0 of the count.
LEMMA MainKeepsHealth ==
    ASSUME HealthInv, Main \/ Signal
    PROVE  HealthInv'
BY DEF HealthInv, Main, Signal, StopWithin, JoinHeartbeat, JoinHealth,
   JoinTimeout, TimeoutIn, Alive, healthVars, clocks

\* Time passes only while the task waits in an accept, or has stopped.
LEMMA TickKeepsHealth ==
    ASSUME HealthInv, health \in {"bind", "check", "accept", "write", "stopped"},
           Tick
    PROVE  HealthInv'
<1>1. health = "stopped" \/ (health = "accept" /\ healthTimer > 0)
    BY DEF HealthInv, Tick, Urgent
<1> QED
    BY <1>1 DEF HealthInv, Tick, Less, Lesser, Alive

\* Whatever its clients do, the health task ends within one accept's timeout
\* of the flag.
THEOREM HealthTaskStops == Spec => []HealthStopsInTime
<1>1. Init => HealthInv
    BY InitHealth
<1>2. ASSUME TypeOK, HealthInv, [Next]_vars
      PROVE  HealthInv'
  <2>1. CASE Answer \/ Heartbeat
    BY <1>2, <2>1, HeartbeatKeepsHealth
  <2>2. CASE Health
    BY <1>2, <2>2, HealthKeepsHealth
  <2>3. CASE Main \/ Signal
    BY <1>2, <2>3, MainKeepsHealth
  <2>4. CASE Tick
    BY <1>2, <2>4, TickKeepsHealth DEF TypeOK
  <2>5. CASE UNCHANGED vars
    BY <1>2, <2>5 DEF HealthInv, Alive, vars, mainVars, healthVars, clocks
  <2> QED
    BY <1>2, <2>1, <2>2, <2>3, <2>4, <2>5 DEF Next
<1>3. HealthInv => HealthStopsInTime
    BY DEF HealthInv, HealthStopsInTime
<1> QED
    BY <1>1, <1>2, <1>3, TypeCorrect, PTL DEF Spec

-----------------------------------------------------------------------------
(* The process.                                                            *)

LEMMA StopInductive ==
    ASSUME TypeOK, StopInv, [Next]_vars
    PROVE  StopInv'
<1>1. CASE Answer \/ Heartbeat
    BY <1>1 DEF Answer, Heartbeat, HeartbeatOk, HeartbeatFails, FailsWithDelay,
       CheckFlag, BackoffOver, BackoffOverOf, IntervalOver, StopInv, mainVars,
       clocks
<1>2. CASE Health
    BY <1>2 DEF Health, Bind, HealthCheckFlag, Accept, WriteResponse,
       HealthGoTo, StopInv, mainVars, clocks
<1>3. CASE Main
    BY <1>3 DEF Main, JoinHeartbeat, JoinHealth, JoinTimeout, TimeoutIn,
       StopInv, clocks
<1>4. CASE Signal
    BY <1>4 DEF Signal, StopWithin, StopInv, clocks
<1>5. CASE Tick
  <2>1. main \in {"join_hb", "join_health"} => mainTimer > 0
    BY <1>5 DEF Tick, Urgent, TypeOK
  <2> QED
    BY <1>5, <2>1 DEF Tick, StopInv, TypeOK, Less, Lesser
<1>6. CASE UNCHANGED vars
    BY <1>6 DEF vars, mainVars, clocks, StopInv
<1> QED
    BY <1>1, <1>2, <1>3, <1>4, <1>5, <1>6 DEF Next

\* ProcessStopsInTime: main has returned five seconds after the signal, whatever
\* the server and the clients of the health endpoint do.
THEOREM ProcessStops == Spec => []ProcessStopsInTime
<1>1. Init => StopInv
    BY DEF Init, StopInv
<1>2. TypeOK /\ StopInv /\ [Next]_vars => StopInv'
    BY StopInductive
<1>3. TypeOK /\ StopInv => ProcessStopsInTime
    BY DEF TypeOK, StopInv, ProcessStopsInTime, Alive
<1> QED
    BY <1>1, <1>2, <1>3, TypeCorrect, PTL DEF Spec
=============================================================================
