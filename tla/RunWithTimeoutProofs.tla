------------------------ MODULE RunWithTimeoutProofs ------------------------
(***************************************************************************)
(* What holds of run_with_timeout for any capacity of the pipes, length of *)
(* the output, timeout, poll interval, delay of the caller and time that a *)
(* signal takes.  The safety properties follow from the inductive          *)
(* invariant IInv of RunWithTimeout; under it every step maps to one of    *)
(* TimedCall, and every step uses up some of StepsLeft.                    *)
(***************************************************************************)
EXTENDS RunWithTimeout, TLAPS

USE RunAssumption DEF Streams, Horizon, Never

\* The call starts with nothing run, read or counted.
LEMMA InitInvariant == Init => IInv
<1> SUFFICES ASSUME Init PROVE IInv
    OBVIOUS
<1> USE DEF Init
<1>0. /\ job.timeout \in 0..MaxTimeout
      /\ \A s \in Streams : job.need[s] \in 0..MaxOutput
    BY DEF Jobs
<1>1. TypeOK
    BY DEF TypeOK, Places
<1>2. BlocksAreConserved
    BY <1>0 DEF BlocksAreConserved
<1>3. ChildInv
    BY DEF ChildInv, HasWritten
<1>4. ReadInv
    BY DEF ReadInv
<1>5. StatusInv
    BY DEF StatusInv
<1>6. ClockInv
    BY <1>0 DEF ClockInv
<1>7. LateInv
    BY DEF LateInv
<1>8. NoChildIsLeft
    BY DEF NoChildIsLeft
<1>9. FastInv
    BY DEF FastInv, Fits
<1> QED
    BY <1>1, <1>2, <1>3, <1>4, <1>5, <1>6, <1>7, <1>8, <1>9 DEF IInv

\* A write moves one block into a pipe that has room.
LEMMA WriteInvariant ==
    ASSUME IInv, NEW s \in Streams, ChildWrite(s)
    PROVE  IInv'
<1> USE DEF IInv, ChildWrite, CanWrite, io, clock
<1>0. /\ job.holder \in {"none", "brief", "lasting"}
      /\ job.timeout \in 0..MaxTimeout
      /\ \A t \in Streams : job.need[t] \in 0..MaxOutput
    BY DEF TypeOK, Jobs
<1>1. TypeOK'
    BY <1>0 DEF TypeOK
<1>2. BlocksAreConserved'
    BY <1>0 DEF BlocksAreConserved, TypeOK
<1>3. ChildInv'
    BY DEF ChildInv, HasWritten
<1>4. ReadInv'
    BY DEF ReadInv
<1>5. StatusInv'
    BY DEF StatusInv, ChildInv
<1>6. ClockInv'
    BY DEF ClockInv
<1>7. LateInv'
    BY DEF LateInv
<1>8. NoChildIsLeft'
    BY DEF NoChildIsLeft
<1>9. FastInv'
    BY DEF FastInv, Fits
<1> QED
    BY <1>1, <1>2, <1>3, <1>4, <1>5, <1>6, <1>7, <1>8, <1>9

\* A child that exits has written everything.
LEMMA ExitInvariant ==
    ASSUME IInv, ChildExit
    PROVE  IInv'
<1> USE DEF IInv, ChildExit, Corpse, HasWritten, io, clock
<1>0. /\ job.holder \in {"none", "brief", "lasting"}
      /\ job.timeout \in 0..MaxTimeout
      /\ \A t \in Streams : job.need[t] \in 0..MaxOutput
    BY DEF TypeOK, Jobs
<1>1. TypeOK'
    BY DEF TypeOK
<1>2. BlocksAreConserved'
    BY DEF BlocksAreConserved
<1>3. ChildInv'
    BY DEF ChildInv, TypeOK
<1>4. ReadInv'
    BY DEF ReadInv
<1>5. StatusInv'
    BY DEF StatusInv, ChildInv
<1>6. ClockInv'
    BY DEF ClockInv, TypeOK
<1>7. LateInv'
    BY <1>0 DEF LateInv, ClockInv, ChildInv, TypeOK
<1>8. NoChildIsLeft'
    BY DEF NoChildIsLeft
<1>9. FastInv'
    BY DEF FastInv, Fits
<1> QED
    BY <1>1, <1>2, <1>3, <1>4, <1>5, <1>6, <1>7, <1>8, <1>9

\* A killed child dies while the caller waits for it.
LEMMA DiesInvariant ==
    ASSUME IInv, ChildDies
    PROVE  IInv'
<1> USE DEF IInv, ChildDies, Corpse, io, clock
<1>1. TypeOK'
    BY DEF TypeOK
<1>2. BlocksAreConserved'
    BY DEF BlocksAreConserved
<1>3. ChildInv'
    BY DEF ChildInv, HasWritten
<1>4. ReadInv'
    BY DEF ReadInv
<1>5. StatusInv'
    BY DEF StatusInv, ChildInv
<1>6. ClockInv'
    BY DEF ClockInv
<1>7. LateInv'
    BY DEF LateInv
<1>8. NoChildIsLeft'
    BY DEF NoChildIsLeft
<1>9. FastInv'
    BY DEF FastInv, Fits
<1> QED
    BY <1>1, <1>2, <1>3, <1>4, <1>5, <1>6, <1>7, <1>8, <1>9

\* A process that lets go of the pipes disturbs nobody.
LEMMA HolderInvariant ==
    ASSUME IInv, HolderExit
    PROVE  IInv'
<1> USE DEF IInv, HolderExit, io, clock
<1>1. TypeOK'
    BY DEF TypeOK
<1>2. BlocksAreConserved'
    BY DEF BlocksAreConserved
<1>3. ChildInv'
    BY DEF ChildInv, HasWritten
<1>4. ReadInv'
    BY DEF ReadInv
<1>5. StatusInv'
    BY DEF StatusInv
<1>6. ClockInv'
    BY DEF ClockInv
<1>7. LateInv'
    BY DEF LateInv
<1>8. NoChildIsLeft'
    BY DEF NoChildIsLeft
<1>9. FastInv'
    BY DEF FastInv, Fits
<1> QED
    BY <1>1, <1>2, <1>3, <1>4, <1>5, <1>6, <1>7, <1>8, <1>9

\* The child starts with both pipes empty.
LEMMA SpawnInvariant ==
    ASSUME IInv, Spawn
    PROVE  IInv'
<1> USE DEF IInv, Spawn, Return, io, clock
<1>0. /\ job.holder \in {"none", "brief", "lasting"}
      /\ job.timeout \in 0..MaxTimeout
      /\ \A t \in Streams : job.need[t] \in 0..MaxOutput
    BY DEF TypeOK, Jobs
<1>1. TypeOK'
    BY <1>0 DEF TypeOK, Places
<1>2. BlocksAreConserved'
    BY DEF BlocksAreConserved
<1>3. ChildInv'
    BY DEF ChildInv, HasWritten
<1>4. ReadInv'
    BY DEF ReadInv, ChildInv
<1>5. StatusInv'
    BY DEF StatusInv, ChildInv
<1>6. ClockInv'
    BY DEF ClockInv
<1>7. LateInv'
    BY DEF LateInv, ChildInv
<1>8. NoChildIsLeft'
    BY DEF NoChildIsLeft, ChildInv
<1>9. FastInv'
    BY DEF FastInv, ChildInv, Fits
<1> QED
    BY <1>1, <1>2, <1>3, <1>4, <1>5, <1>6, <1>7, <1>8, <1>9

\* Only a child that exited by itself is found here.
LEMMA PollExitedInvariant ==
    ASSUME IInv, PollExited
    PROVE  IInv'
<1> USE DEF IInv, PollExited, io, clock
<1>0. /\ job.holder \in {"none", "brief", "lasting"}
      /\ job.timeout \in 0..MaxTimeout
      /\ \A t \in Streams : job.need[t] \in 0..MaxOutput
    BY DEF TypeOK, Jobs
<1>1. TypeOK'
    BY DEF TypeOK, Places
<1>2. BlocksAreConserved'
    BY DEF BlocksAreConserved
<1>3. ChildInv'
    BY DEF ChildInv, HasWritten
<1>4. ReadInv'
    BY DEF ReadInv, ChildInv
<1>5. StatusInv'
    BY DEF StatusInv, ChildInv
<1>6. ClockInv'
    BY DEF ClockInv
<1>7. LateInv'
    BY <1>0 DEF LateInv, TypeOK, ClockInv
<1>8. NoChildIsLeft'
    BY DEF NoChildIsLeft
<1>9. FastInv'
    BY DEF FastInv, ChildInv, Fits
<1> QED
    BY <1>1, <1>2, <1>3, <1>4, <1>5, <1>6, <1>7, <1>8, <1>9

\* A child that is found running has not ended yet.
LEMMA PollRunningInvariant ==
    ASSUME IInv, PollRunning
    PROVE  IInv'
<1> USE DEF IInv, PollRunning, io, clock
<1>1. TypeOK'
    BY DEF TypeOK, Places
<1>2. BlocksAreConserved'
    BY DEF BlocksAreConserved
<1>3. ChildInv'
    BY DEF ChildInv, HasWritten
<1>4. ReadInv'
    BY DEF ReadInv
<1>5. StatusInv'
    BY DEF StatusInv
<1>6. ClockInv'
    BY DEF ClockInv
<1>7. LateInv'
    BY DEF LateInv, ChildInv
<1>8. NoChildIsLeft'
    BY DEF NoChildIsLeft
<1>9. FastInv'
    BY DEF FastInv, Fits
<1> QED
    BY <1>1, <1>2, <1>3, <1>4, <1>5, <1>6, <1>7, <1>8, <1>9

\* An error of try_wait means that there is no child any more.
LEMMA PollErrorInvariant ==
    ASSUME IInv, PollError
    PROVE  IInv'
<1> USE DEF IInv, PollError, Return, io, clock
<1>1. TypeOK'
    BY DEF TypeOK, Places
<1>2. BlocksAreConserved'
    BY DEF BlocksAreConserved
<1>3. ChildInv'
    BY DEF ChildInv, HasWritten
<1>4. ReadInv'
    BY DEF ReadInv
<1>5. StatusInv'
    BY DEF StatusInv
<1>6. ClockInv'
    BY DEF ClockInv
<1>7. LateInv'
    BY DEF LateInv
<1>8. NoChildIsLeft'
    BY DEF NoChildIsLeft
<1>9. FastInv'
    BY DEF FastInv, Fits
<1> QED
    BY <1>1, <1>2, <1>3, <1>4, <1>5, <1>6, <1>7, <1>8, <1>9

\* The caller sleeps only before the timeout, and kills only after it.
LEMMA CheckInvariant ==
    ASSUME IInv, CheckDeadline
    PROVE  IInv'
<1> USE DEF IInv, CheckDeadline, Decide, io, clock
<1>0. /\ job.holder \in {"none", "brief", "lasting"}
      /\ job.timeout \in 0..MaxTimeout
      /\ \A t \in Streams : job.need[t] \in 0..MaxOutput
    BY DEF TypeOK, Jobs
<1>1. TypeOK'
    BY <1>0 DEF TypeOK, Places
<1>2. BlocksAreConserved'
    BY DEF BlocksAreConserved
<1>3. ChildInv'
    BY DEF ChildInv, HasWritten
<1>4. ReadInv'
    BY DEF ReadInv
<1>5. StatusInv'
    BY DEF StatusInv
<1>6. ClockInv'
    BY <1>0 DEF ClockInv, TypeOK
<1>7. LateInv'
    BY <1>0 DEF LateInv, TypeOK
<1>8. NoChildIsLeft'
    BY DEF NoChildIsLeft
<1>9. FastInv'
    BY <1>0 DEF FastInv, TypeOK, Fits
<1> QED
    BY <1>1, <1>2, <1>3, <1>4, <1>5, <1>6, <1>7, <1>8, <1>9

\* A caller that wakes up has slept its poll interval.
LEMMA WakeInvariant ==
    ASSUME IInv, WakeUp
    PROVE  IInv'
<1> USE DEF IInv, WakeUp, io, clock
<1>0. /\ job.holder \in {"none", "brief", "lasting"}
      /\ job.timeout \in 0..MaxTimeout
      /\ \A t \in Streams : job.need[t] \in 0..MaxOutput
    BY DEF TypeOK, Jobs
<1>1. TypeOK'
    BY DEF TypeOK, Places
<1>2. BlocksAreConserved'
    BY DEF BlocksAreConserved
<1>3. ChildInv'
    BY DEF ChildInv, HasWritten
<1>4. ReadInv'
    BY DEF ReadInv
<1>5. StatusInv'
    BY DEF StatusInv
<1>6. ClockInv'
    BY <1>0 DEF ClockInv, TypeOK
<1>7. LateInv'
    BY DEF LateInv
<1>8. NoChildIsLeft'
    BY DEF NoChildIsLeft
<1>9. FastInv'
    BY DEF FastInv, Fits
<1> QED
    BY <1>1, <1>2, <1>3, <1>4, <1>5, <1>6, <1>7, <1>8, <1>9

\* kill does nothing to a child that has just exited.
LEMMA KillInvariant ==
    ASSUME IInv, Kill
    PROVE  IInv'
<1> USE DEF IInv, Kill, io, clock
<1>0. /\ job.holder \in {"none", "brief", "lasting"}
      /\ job.timeout \in 0..MaxTimeout
      /\ \A t \in Streams : job.need[t] \in 0..MaxOutput
    BY DEF TypeOK, Jobs
<1>1. TypeOK'
    BY DEF TypeOK, Places
<1>2. BlocksAreConserved'
    BY DEF BlocksAreConserved
<1>3. ChildInv'
    BY DEF ChildInv, HasWritten
<1>4. ReadInv'
    BY DEF ReadInv
<1>5. StatusInv'
    BY DEF StatusInv, ChildInv
<1>6. ClockInv'
    BY DEF ClockInv
<1>7. LateInv'
    BY <1>0 DEF LateInv, TypeOK, ClockInv
<1>8. NoChildIsLeft'
    BY DEF NoChildIsLeft
<1>9. FastInv'
    BY DEF FastInv, Fits
<1> QED
    BY <1>1, <1>2, <1>3, <1>4, <1>5, <1>6, <1>7, <1>8, <1>9

\* wait reaps the child.
LEMMA WaitInvariant ==
    ASSUME IInv, Wait
    PROVE  IInv'
<1> USE DEF IInv, Wait, Return, io, clock
<1>1. TypeOK'
    BY DEF TypeOK, Places
<1>2. BlocksAreConserved'
    BY DEF BlocksAreConserved
<1>3. ChildInv'
    BY DEF ChildInv, HasWritten
<1>4. ReadInv'
    BY DEF ReadInv
<1>5. StatusInv'
    BY DEF StatusInv, ChildInv
<1>6. ClockInv'
    BY DEF ClockInv
<1>7. LateInv'
    BY DEF LateInv
<1>8. NoChildIsLeft'
    BY DEF NoChildIsLeft
<1>9. FastInv'
    BY DEF FastInv, Fits
<1> QED
    BY <1>1, <1>2, <1>3, <1>4, <1>5, <1>6, <1>7, <1>8, <1>9

\* A read moves what is in the pipe to the string.
LEMMA ReadInvariant ==
    ASSUME IInv, NEW s \in Streams, Read(s)
    PROVE  IInv'
<1> USE DEF IInv, Read, io, clock
<1>0. /\ job.holder \in {"none", "brief", "lasting"}
      /\ job.timeout \in 0..MaxTimeout
      /\ \A t \in Streams : job.need[t] \in 0..MaxOutput
    BY DEF TypeOK, Jobs
<1>1. TypeOK'
    BY <1>0 DEF TypeOK, BlocksAreConserved
<1>2. BlocksAreConserved'
    BY DEF BlocksAreConserved, TypeOK
<1>3. ChildInv'
    BY DEF ChildInv, HasWritten
<1>4. ReadInv'
    BY DEF ReadInv
<1>5. StatusInv'
    BY DEF StatusInv
<1>6. ClockInv'
    BY DEF ClockInv
<1>7. LateInv'
    BY DEF LateInv
<1>8. NoChildIsLeft'
    BY DEF NoChildIsLeft
<1>9. FastInv'
    BY DEF FastInv, Fits
<1> QED
    BY <1>1, <1>2, <1>3, <1>4, <1>5, <1>6, <1>7, <1>8, <1>9

\* At the end of file nothing is left in the pipe.
LEMMA EofInvariant ==
    ASSUME IInv, NEW s \in Streams, ReadEof(s)
    PROVE  IInv'
<1> USE DEF IInv, ReadEof, Eof, Return, BlocksAreConserved, io, clock
<1>0. /\ job.holder \in {"none", "brief", "lasting"}
      /\ job.timeout \in 0..MaxTimeout
      /\ \A t \in Streams : job.need[t] \in 0..MaxOutput
    BY DEF TypeOK, Jobs
<1>1. TypeOK'
    BY DEF TypeOK, Places
<1>2. BlocksAreConserved'
    BY DEF BlocksAreConserved, TypeOK
<1>3. ChildInv'
    BY DEF ChildInv, HasWritten
<1>4. ReadInv'
    BY DEF ReadInv, TypeOK
<1>5. StatusInv'
    BY DEF StatusInv, ChildInv
<1>6. ClockInv'
    BY DEF ClockInv
<1>7. LateInv'
    BY <1>0 DEF LateInv, TypeOK
<1>8. NoChildIsLeft'
    BY DEF NoChildIsLeft, ReadInv
<1>9. FastInv'
    BY DEF FastInv, ChildInv, ReadInv, Fits
<1> QED
    BY <1>1, <1>2, <1>3, <1>4, <1>5, <1>6, <1>7, <1>8, <1>9

\* Time passes only while the caller waits, or is kept from going on.
LEMMA TickInvariant ==
    ASSUME IInv, Tick
    PROVE  IInv'
<1> USE DEF IInv, Tick, CallerWaits, io, clock
<1>0. /\ job.holder \in {"none", "brief", "lasting"}
      /\ job.timeout \in 0..MaxTimeout
      /\ \A t \in Streams : job.need[t] \in 0..MaxOutput
    BY DEF TypeOK, Jobs
<1>10. Fits => child # "running"
    BY <1>0 DEF Fits, TypeOK, ChildCanStep, CanWrite, HasWritten, BlocksAreConserved
<1>1. TypeOK'
    BY DEF TypeOK
<1>2. BlocksAreConserved'
    BY DEF BlocksAreConserved
<1>3. ChildInv'
    BY <1>0 DEF ChildInv, HasWritten, TypeOK
<1>4. ReadInv'
    BY DEF ReadInv
<1>5. StatusInv'
    BY DEF StatusInv
<1>6. ClockInv'
    BY <1>0 DEF ClockInv, TypeOK
<1>7. LateInv'
    BY <1>0 DEF LateInv, TypeOK, ChildInv, ReadInv, ClockInv, WriterLeft
<1>8. NoChildIsLeft'
    BY DEF NoChildIsLeft
<1>9. FastInv'
    BY <1>0, <1>10 DEF FastInv, TypeOK, Fits
<1> QED
    BY <1>1, <1>2, <1>3, <1>4, <1>5, <1>6, <1>7, <1>8, <1>9

LEMMA StutterInvariant ==
    ASSUME IInv, UNCHANGED vars
    PROVE  IInv'
BY DEF IInv, vars, io, clock, TypeOK, BlocksAreConserved, ChildInv, ReadInv, StatusInv,
   ClockInv, LateInv, NoChildIsLeft, FastInv, Fits, HasWritten

\* Every behaviour of a call satisfies the inductive invariant.
THEOREM Invariant == Spec => []IInv
<1>1. ASSUME IInv, [Next]_vars
      PROVE  IInv'
  <2>1. CASE Caller
    BY <1>1, <2>1, SpawnInvariant, PollExitedInvariant, PollRunningInvariant,
       PollErrorInvariant, CheckInvariant, WakeInvariant, KillInvariant,
       WaitInvariant, ReadInvariant, EofInvariant DEF Caller
  <2>2. CASE ChildStep
    BY <1>1, <2>2, WriteInvariant, ExitInvariant DEF ChildStep
  <2>3. CASE ChildDies \/ HolderExit \/ Tick
    BY <1>1, <2>3, DiesInvariant, HolderInvariant, TickInvariant
  <2>4. CASE UNCHANGED vars
    BY <1>1, <2>4, StutterInvariant
  <2> QED
    BY <1>1, <2>1, <2>2, <2>3, <2>4 DEF Next
<1> QED
    BY InitInvariant, <1>1, PTL DEF Spec

\* Every variable of the call stays in its type.
THEOREM TypeCorrect == Spec => []TypeOK
<1>1. IInv => TypeOK
    BY DEF IInv
<1> QED
    BY Invariant, <1>1, PTL

\* A call that has returned has left no child, running or dead, on any path.
THEOREM ChildIsReaped == Spec => []NoChildIsLeft
<1>1. IInv => NoChildIsLeft
    BY DEF IInv
<1> QED
    BY Invariant, <1>1, PTL

\* Ok carries the output of a command that ended by itself, each stream whole
\* or, if it is not text, empty.
THEOREM WholeOutput == Spec => []OutputIsComplete
<1>1. IInv => OutputIsComplete
  <2> SUFFICES ASSUME IInv, result = "ok"
               PROVE  /\ ended # Never
                      /\ \A s \in Streams :
                            got[s] = IF job.text[s] THEN job.need[s] ELSE 0
    BY DEF OutputIsComplete
  <2>1. ended # Never
    BY DEF IInv, ReadInv
  <2>2. \A s \in Streams : pipe[s] = 0 /\ sent[s] = job.need[s]
    BY <2>1 DEF IInv, ReadInv, ChildInv, HasWritten
  <2>3. ASSUME NEW s \in Streams, job.text[s]
        PROVE  got[s] = job.need[s]
    <3>1. got[s] \in Int /\ got[s] + pipe[s] = sent[s]
      BY <2>3 DEF IInv, BlocksAreConserved, TypeOK
    <3> QED
      BY <2>2, <3>1
  <2>4. ASSUME NEW s \in Streams, ~job.text[s]
        PROVE  got[s] = 0
    BY <2>4 DEF IInv, ReadInv
  <2> QED
    BY <2>1, <2>3, <2>4
<1> QED
    BY Invariant, <1>1, PTL

\* A command that ended before the timeout is reported as timed out only if the
\* caller was kept from looking at its clock until the timeout had passed.
THEOREM InTime == Spec => []FinishedInTimeIsNotTimedOut
<1>1. IInv => FinishedInTimeIsNotTimedOut
    BY DEF IInv, LateInv, FinishedInTimeIsNotTimedOut
<1> QED
    BY Invariant, <1>1, PTL

\* No call lasts beyond its timeout by more than a poll interval, the time a
\* signal takes and the delay of its caller, unless a process holds the pipes
\* or the child cannot be killed.
THEOREM Deadline == Spec => []ReturnsSoonAfterTimeout
<1>1. IInv => ReturnsSoonAfterTimeout
  <2> SUFFICES ASSUME IInv, pc # "done", job.holder = "none", job.killable
               PROVE  elapsed < job.timeout + PollInterval + KillTime + lag
    BY DEF ReturnsSoonAfterTimeout
  <2>1. job.timeout \in Nat /\ dying \in 0..KillTime /\ elapsed \in Nat /\ lag \in Nat
    BY DEF IInv, TypeOK, Jobs
  <2>2. CASE pc \in Streams \cup {"wait"}
    BY <2>1, <2>2 DEF IInv, LateInv
  <2>3. CASE pc \notin Streams \cup {"wait"}
    BY <2>1, <2>3 DEF IInv, ClockInv
  <2> QED
    BY <2>2, <2>3
<1> QED
    BY Invariant, <1>1, PTL

\* A command that loses no time is not killed if its output fits the pipes.
THEOREM FastCommand == Spec => []FastCommandCompletes
<1>1. IInv => FastCommandCompletes
  <2> SUFFICES ASSUME IInv, Fits, lag < job.timeout, result = "timeout"
               PROVE  FALSE
    BY DEF FastCommandCompletes
  <2>1. lag >= job.timeout
    BY DEF IInv, FastInv
  <2>2. lag \in Int /\ job.timeout \in Int
    BY DEF IInv, TypeOK, Jobs
  <2> QED
    BY <2>1, <2>2
<1> QED
    BY Invariant, <1>1, PTL

\* The caller waits only for a child that was killed or has exited, for one that
\* it cannot kill, and for a process left behind, so that with every step
\* counted (EveryStep) a call can fail to end only by those.
THEOREM WaitsAreShort == Spec => []WaitsForNobodyElse
<1>1. IInv => WaitsForNobodyElse
    BY DEF IInv, WaitsForNobodyElse, TypeOK, ChildInv, ReadInv, ClockInv,
           WriterLeft
<1> QED
    BY Invariant, <1>1, PTL

-----------------------------------------------------------------------------
(* The promise of TimedCall.                                               *)

\* A call that starts is one of TimedCall that starts.
LEMMA InitIsPromised == Init => Promise!Init
BY DEF Init, Promise!Init, Fate, Jobs

\* A step is one of TimedCall, or is invisible there: a write, a read, a poll
\* that finds the command running, a look at the clock, a signal that is on its
\* way, the reaping.
LEMMA StepIsPromised ==
    ASSUME IInv, [Next]_vars
    PROVE  [Promise!Next]_(Promise!vars)
<1> USE DEF IInv, TypeOK, ChildInv, Fate, Promise!Next, Promise!vars
<1>1. CASE Spawn
    BY <1>1 DEF Spawn, Return, io, clock, Promise!Start, Promise!Answer, Promise!Answers
<1>2. CASE PollExited \/ PollRunning
    BY <1>2 DEF PollExited, PollRunning, clock
<1>3. CASE PollError
    BY <1>3 DEF PollError, Return, clock, StatusInv, Promise!Answer, Promise!Answers
<1>4. CASE CheckDeadline \/ WakeUp
    BY <1>4 DEF CheckDeadline, Decide, WakeUp, clock
<1>5. CASE Kill
    BY <1>5 DEF Kill, clock
<1>6. CASE Wait
    BY <1>6 DEF Wait, Return, clock, ClockInv, Promise!Answer, Promise!Answers
<1>7. ASSUME NEW s \in Streams, Read(s)
      PROVE  [Promise!Next]_(Promise!vars)
    BY <1>7 DEF Read, clock
<1>8. ASSUME NEW s \in Streams, ReadEof(s)
      PROVE  [Promise!Next]_(Promise!vars)
    BY <1>8 DEF ReadEof, Eof, clock, ReadInv, StatusInv, Return, Promise!Answer,
                Promise!Answers
<1>9. ASSUME NEW s \in Streams, ChildWrite(s)
      PROVE  [Promise!Next]_(Promise!vars)
    BY <1>9 DEF ChildWrite, clock
<1>10. CASE ChildExit
    BY <1>10 DEF ChildExit, Corpse, clock, NoChildIsLeft, Promise!End
<1>11. CASE ChildDies
    BY <1>11 DEF ChildDies, Corpse, clock, ClockInv, Promise!Kill
<1>12. CASE HolderExit
    BY <1>12 DEF HolderExit, clock
<1>13. CASE Tick
    BY <1>13 DEF Tick, Jobs, Promise!Expire
<1>14. CASE UNCHANGED vars
    BY <1>14 DEF vars, clock
<1> QED
    BY <1>1, <1>2, <1>3, <1>4, <1>5, <1>6, <1>7, <1>8, <1>9, <1>10, <1>11, <1>12,
       <1>13, <1>14
    DEF Next, Caller, ChildStep

\* A call is one command with one timeout and one true reply, whatever goes on
\* in the pipes and however signal, exit, poll and clock cross.
THEOREM Refinement == Spec => ImplementsTimedCall
<1>1. IInv /\ [Next]_vars => [Promise!Next]_(Promise!vars)
    BY StepIsPromised
<1> QED
    BY InitIsPromised, Invariant, <1>1, PTL
    DEF Spec, ImplementsTimedCall, Promise!Spec

-----------------------------------------------------------------------------
(* The number of steps of a call.                                          *)

\* The parts of StepsLeft are natural numbers.
LEMMA RanksAreNatural ==
    ASSUME TypeOK, BlocksAreConserved
    PROVE  /\ PlaceRank \in 0..7
           /\ ChildRank \in 0..4
           /\ \A s \in Streams : Unread(s) \in Nat
           /\ Horizon - elapsed \in Nat
           /\ Horizon - wake \in Nat
<1>1. PlaceRank \in 0..7
    BY DEF TypeOK, Places, PlaceRank
<1>2. ChildRank \in 0..4
    BY DEF TypeOK, ChildRank
<1>3. \A s \in Streams : Unread(s) \in Nat
    BY DEF TypeOK, Jobs, BlocksAreConserved, Unread
<1>4. Horizon - elapsed \in Nat /\ Horizon - wake \in Nat
    BY DEF TypeOK
<1> QED
    BY <1>1, <1>2, <1>3, <1>4

\* A write turns two steps, one to write and one to read, into one.
LEMMA WriteCounts ==
    ASSUME IInv, NEW s \in Streams, ChildWrite(s)
    PROVE  StepsLeft' < StepsLeft
<1>1. /\ Unread(s)' = Unread(s) - 1
      /\ \A t \in Streams \ {s} : Unread(t)' = Unread(t)
    BY DEF IInv, TypeOK, Jobs, ChildWrite, Unread
<1>2. /\ PlaceRank' = PlaceRank
      /\ ChildRank' = ChildRank
    BY DEF ChildWrite, PlaceRank, ChildRank
<1> QED
    BY <1>1, <1>2, RanksAreNatural DEF IInv, TypeOK, ChildWrite, clock, StepsLeft

\* A read takes at least one block.
LEMMA ReadCounts ==
    ASSUME IInv, NEW s \in Streams, Read(s)
    PROVE  StepsLeft' < StepsLeft
<1>1. /\ Unread(s)' < Unread(s)
      /\ \A t \in Streams \ {s} : Unread(t)' = Unread(t)
    BY DEF IInv, TypeOK, Jobs, Read, Unread
<1>2. /\ PlaceRank' = PlaceRank
      /\ ChildRank' = ChildRank
    BY DEF Read, PlaceRank, ChildRank
<1>3. \A t \in Streams : Unread(t)' \in Int
    BY DEF IInv, TypeOK, Jobs, Read, Unread
<1> QED
    BY <1>1, <1>2, <1>3, RanksAreNatural DEF IInv, TypeOK, Read, clock, StepsLeft

\* The other steps leave the output alone, and bring the caller, the child or
\* the holder nearer to its end, or use up time.
LEMMA OthersCount ==
    ASSUME IInv, Next, UNCHANGED <<sent, pipe>>
    PROVE  StepsLeft' < StepsLeft
<1> USE DEF IInv, TypeOK, StepsLeft, PlaceRank, ChildRank, clock
<1>0. /\ job' = job
      /\ \A s \in Streams : Unread(s)' = Unread(s) /\ Unread(s) \in Int
  <2>1. job' = job
    BY DEF Next, Caller, Spawn, PollExited, PollRunning, PollError, CheckDeadline,
           Decide, WakeUp, Kill, Wait, Read, ReadEof, Eof, ChildStep, ChildWrite,
           ChildExit, ChildDies, HolderExit, Tick
  <2> QED
    BY <2>1, RanksAreNatural DEF Unread
<1>1. CASE Spawn
    BY <1>0, <1>1 DEF Spawn, Return, io, ChildInv
<1>2. CASE PollExited \/ PollError
    BY <1>0, <1>2 DEF PollExited, PollError, Return
<1>3. CASE PollRunning \/ WakeUp
    BY <1>0, <1>3 DEF PollRunning, WakeUp
<1>4. CASE CheckDeadline
    BY <1>0, <1>4 DEF CheckDeadline, Decide, ClockInv
<1>5. CASE Kill
    BY <1>0, <1>5 DEF Kill
<1>6. CASE Wait
    BY <1>0, <1>6 DEF Wait, Return
<1>7. ASSUME NEW s \in Streams, ReadEof(s)
      PROVE  StepsLeft' < StepsLeft
    BY <1>0, <1>7 DEF ReadEof, Eof, Return
<1>8. CASE ChildExit \/ ChildDies
  <2>1. ChildRank' < ChildRank /\ ChildRank' \in Int
    BY <1>8 DEF ChildExit, ChildDies, Corpse
  <2>2. PlaceRank' = PlaceRank
    BY <1>8 DEF ChildExit, ChildDies
  <2> HIDE DEF PlaceRank, ChildRank
  <2> QED
    BY <1>0, <1>8, <2>1, <2>2, RanksAreNatural DEF ChildExit, ChildDies
<1>9. CASE HolderExit
  <2>1. PlaceRank' = PlaceRank /\ ChildRank' = ChildRank
    BY <1>9 DEF HolderExit
  <2> HIDE DEF PlaceRank, ChildRank
  <2> QED
    BY <1>0, <1>9, <2>1, RanksAreNatural DEF HolderExit
<1>10. CASE Tick
  <2>1. PlaceRank' = PlaceRank /\ ChildRank' = ChildRank
    BY <1>10 DEF Tick
  <2> HIDE DEF PlaceRank, ChildRank
  <2> QED
    BY <1>0, <1>10, <2>1, RanksAreNatural DEF Tick
<1>11. ASSUME NEW s \in Streams, Read(s) \/ ChildWrite(s)
      PROVE  FALSE
    BY <1>11 DEF Read, ChildWrite
<1> QED
    BY <1>1, <1>2, <1>3, <1>4, <1>5, <1>6, <1>7, <1>8, <1>9, <1>10, <1>11
    DEF Next, Caller, ChildStep

\* Every step uses up some of what is left to do, and there is never less than
\* nothing left: a call takes at most as many steps as StepsLeft says of its
\* first state.
THEOREM EveryStep == Spec => EveryStepCounts
<1>1. IInv => StepsLeft \in Nat
    BY RanksAreNatural DEF IInv, TypeOK, StepsLeft
<1>2. (IInv => StepsLeft \in Nat)'
    BY <1>1, PTL
<1>3. ASSUME IInv, IInv', [Next]_vars
      PROVE  [0 <= StepsLeft' /\ StepsLeft' < StepsLeft]_vars
  <2> SUFFICES ASSUME Next
               PROVE  StepsLeft' < StepsLeft
    BY <1>2, <1>3
  <2>1. (\E s \in Streams : ChildWrite(s) \/ Read(s)) \/ UNCHANGED <<sent, pipe>>
    BY DEF Next, Caller, Spawn, PollExited, PollRunning, PollError, CheckDeadline,
           Decide, WakeUp, Kill, Wait, ReadEof, Eof, ChildStep, ChildExit, ChildDies,
           HolderExit, Tick, io
  <2> QED
    BY <1>3, <2>1, WriteCounts, ReadCounts, OthersCount
<1> QED
    BY Invariant, <1>3, PTL DEF Spec, EveryStepCounts
=============================================================================
