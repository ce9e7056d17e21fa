--------------------------- MODULE ExecutorProofs ---------------------------
(***************************************************************************)
(* Theorems about Executor: for every response, expression and waiting     *)
(* time, any rounding that keeps the order and any end of a program.       *)
(***************************************************************************)
EXTENDS Executor, WellFoundedInduction, TLAPS

-----------------------------------------------------------------------------
(* The parsing of curl's output.                                           *)

\* What LastIn's CHOOSE looks for is unique.
LEMMA LastInIs ==
    ASSUME NEW T, NEW s \in Seq(T), NEW S, NEW n \in 0..Len(s),
           n > 0 => s[n] \in S,
           \A i \in (n + 1)..Len(s) : s[i] \notin S
    PROVE  LastIn(s, S) = n
<1> DEFINE P(m) == /\ m > 0 => s[m] \in S
                   /\ \A i \in (m + 1)..Len(s) : s[i] \notin S
<1>1. Len(s) \in Nat
    OBVIOUS
<1>2. \A m \in 0..Len(s) : P(m) => m = n
    <2> SUFFICES ASSUME NEW m \in 0..Len(s), P(m) PROVE m = n
        OBVIOUS
    <2>1. ~(m < n)
        <3> SUFFICES ASSUME m < n PROVE FALSE
            OBVIOUS
        <3>1. n \in (m + 1)..Len(s) /\ n > 0
            BY <1>1
        <3> QED BY <3>1
    <2>2. ~(n < m)
        <3> SUFFICES ASSUME n < m PROVE FALSE
            OBVIOUS
        <3>1. m \in (n + 1)..Len(s) /\ m > 0
            BY <1>1
        <3> QED BY <3>1
    <2> QED BY <2>1, <2>2, <1>1
<1>3. P(n)
    OBVIOUS
<1>4. LastIn(s, S) = CHOOSE m \in 0..Len(s) : P(m)
    BY DEF LastIn
<1> HIDE DEF P
<1>5. (CHOOSE m \in 0..Len(s) : P(m)) = n
    BY <1>2, <1>3
<1> QED BY <1>4, <1>5

LEMMA StatusCodeIs ==
    ASSUME NEW c \in Codes
    PROVE  StatusCode(<<c>>) = c
<1>1. \A n : IsNumber(<<c>>, n) <=> n = c
    BY DEF IsNumber
<1> HIDE DEF IsNumber
<1> QED BY <1>1 DEF StatusCode

LEMMA LossyType ==
    ASSUME ExecutorAssumption, NEW s \in Seq(Sent)
    PROVE  /\ from_utf8_lossy(s) \in Seq(Seen)
           /\ Len(from_utf8_lossy(s)) = Len(s)
BY DEF from_utf8_lossy, Sent, Seen

LEMMA StatusCodeType ==
    ASSUME ExecutorAssumption, NEW s
    PROVE  StatusCode(s) \in Codes
BY DEF StatusCode, ExecutorAssumption

\* A set of natural numbers that is not empty has a least member.
LEMMA Least ==
    ASSUME NEW T, T \subseteq Nat, T # {}
    PROVE  \E x \in T : \A y \in T : x <= y
<1>1. PICK x \in T : ~ \E y \in T : <<y, x>> \in OpToRel(<, Nat)
    BY WFMin, NatLessThanWellFounded
<1>2. \A y \in T : ~(y < x)
    BY <1>1 DEF OpToRel
<1>3. \A y \in T : x <= y
    BY <1>2
<1> QED BY <1>3

\* There is always a position of the kind LastIn looks for.
LEMMA LastInType ==
    ASSUME NEW T, NEW s \in Seq(T), NEW S
    PROVE  LastIn(s, S) \in 0..Len(s)
<1> DEFINE At(m) == m > 0 => s[m] \in S
           P(m) == At(m) /\ \A i \in (m + 1)..Len(s) : s[i] \notin S
           D == {d \in Nat : \E m \in 0..Len(s) : At(m) /\ d = Len(s) - m}
<1>1. Len(s) \in Nat
    OBVIOUS
<1>2. Len(s) \in D
    BY <1>1
<1>3. PICK d \in D : \A e \in D : d <= e
    BY <1>2, Least
<1>4. PICK m \in 0..Len(s) : At(m) /\ d = Len(s) - m
    BY <1>3
<1>5. P(m)
    <2> SUFFICES ASSUME NEW i \in (m + 1)..Len(s), s[i] \in S PROVE FALSE
        BY <1>4
    <2>1. i \in 0..Len(s) /\ At(i) /\ Len(s) - i \in Nat
        BY <1>1
    <2>2. Len(s) - i \in D
        BY <2>1
    <2>3. d <= Len(s) - i
        BY <1>3, <2>2
    <2> QED BY <2>3, <1>4, <1>1
<1>6. LastIn(s, S) = CHOOSE k \in 0..Len(s) : P(k)
    BY DEF LastIn
<1> HIDE DEF P
<1> QED BY <1>5, <1>6

LEMMA PieceType ==
    ASSUME NEW T, NEW s \in Seq(T), NEW m \in Int, m <= Len(s)
    PROVE  SubSeq(s, 1, m) \in Seq(T)
OBVIOUS

\* Whatever curl has written, the output is a record of its type.
LEMMA HttpOutputType ==
    ASSUME ExecutorAssumption, NEW raw \in Seq(Seen)
    PROVE  HttpOutput(raw) \in [status : Codes, body : Seq(Seen), ok : BOOLEAN]
<1>1. trim_end(raw) \in Seq(Seen)
    BY LastInType, PieceType DEF trim_end
<1>2. Before(trim_end(raw)) \in Seq(Seen)
    BY <1>1, LastInType, PieceType DEF Before
<1>3. StatusCode(LastLine(trim_end(raw))) \in Codes
    BY StatusCodeType
<1> QED BY <1>2, <1>3 DEF HttpOutput

\* curl's own last line is found, whatever the body is.
LEMMA HttpSplit ==
    ASSUME ExecutorAssumption, NEW b \in Seq(Seen), NEW c \in Codes
    PROVE  /\ HttpOutput(b \o <<Newline, c>>).status = c
           /\ HttpOutput(b \o <<Newline, c>>).body = b
<1> DEFINE raw == b \o <<Newline, c>>
           n == Len(b)
<1>1. /\ Newline \in Seen
      /\ c \in Seen \ Blank
      /\ c # Newline
    BY DEF ExecutorAssumption, Seen, Blank
<1>2. /\ raw \in Seq(Seen)
      /\ n \in Nat
      /\ Len(raw) = n + 2
      /\ raw[n + 1] = Newline
      /\ raw[n + 2] = c
      /\ \A i \in 1..n : raw[i] = b[i]
    BY <1>1
<1> HIDE DEF raw
<1>3. LastIn(raw, Seen \ Blank) = n + 2
    <2>1. n + 2 \in 0..Len(raw) /\ raw[n + 2] \in Seen \ Blank
        BY <1>1, <1>2
    <2>2. \A i \in (n + 2 + 1)..Len(raw) : raw[i] \notin Seen \ Blank
        BY <1>2
    <2> QED BY <1>2, <2>1, <2>2, LastInIs
<1>4. trim_end(raw) = raw
    BY <1>2, <1>3 DEF trim_end
<1>5. LastIn(raw, {Newline}) = n + 1
    <2>1. n + 1 \in 0..Len(raw) /\ raw[n + 1] \in {Newline}
        BY <1>1, <1>2
    <2>2. \A i \in (n + 1 + 1)..Len(raw) : raw[i] \notin {Newline}
        BY <1>1, <1>2
    <2> QED BY <1>2, <2>1, <2>2, LastInIs
<1>6. Before(raw) = b
    <2>1. Before(raw) = SubSeq(raw, 1, n)
        <3>1. (n + 1) - 1 = n
            BY <1>2
        <3> QED BY <1>5, <3>1 DEF Before
    <2>2. Len(SubSeq(raw, 1, n)) = n /\ SubSeq(raw, 1, n) \in Seq(Seen)
        BY <1>2
    <2>3. \A i \in 1..n : SubSeq(raw, 1, n)[i] = b[i]
        BY <1>2
    <2> QED BY <2>1, <2>2, <2>3
<1>7. LastLine(raw) = <<c>>
    <2>1. LastLine(raw) = SubSeq(raw, n + 2, n + 2)
        <3>1. (n + 1) + 1 = n + 2
            BY <1>2
        <3> QED BY <1>2, <1>5, <3>1 DEF LastLine
    <2>2. Len(SubSeq(raw, n + 2, n + 2)) = 1 /\ SubSeq(raw, n + 2, n + 2)[1] = c
        BY <1>2
    <2>3. SubSeq(raw, n + 2, n + 2) \in Seq(Seen)
        BY <1>2
    <2>4. <<c>> \in Seq(Seen) /\ Len(<<c>>) = 1 /\ <<c>>[1] = c
        BY <1>1
    <2>5. \A s, t \in Seq(Seen) : Len(s) = 1 /\ Len(t) = 1 /\ s[1] = t[1] => s = t
        OBVIOUS
    <2> QED BY <2>1, <2>2, <2>3, <2>4, <2>5
<1>8. HttpOutput(raw).status = c /\ HttpOutput(raw).body = b
    <2>1. LastIn(raw, {Newline}) # 0
        BY <1>2, <1>5
    <2> QED BY <1>4, <1>6, <1>7, <2>1, StatusCodeIs DEF HttpOutput
<1> QED BY <1>8 DEF raw

LEMMA LossySplit ==
    ASSUME ExecutorAssumption, NEW b \in Seq(Sent), NEW c \in Codes
    PROVE  from_utf8_lossy(b \o <<Newline, c>>) = from_utf8_lossy(b) \o <<Newline, c>>
<1>1. Newline \in Sent /\ Newline # Garbled /\ c \in Sent /\ c # Garbled
    BY DEF ExecutorAssumption, Sent, Blank
<1> QED BY <1>1, LossyType DEF from_utf8_lossy

-----------------------------------------------------------------------------
(* The invariant.                                                          *)

USE ExecutorAssumption

LEMMA InitInvariant == Init => IInv
<1> SUFFICES ASSUME Init PROVE IInv
    OBVIOUS
<1>1. TypeOK
    BY DEF Init, TypeOK
<1>2. ProgramInv
    BY DEF Init, ProgramInv
<1>3. ResultInv
    BY DEF Init, ResultInv, Succeeded, HttpReportsResponse, SlackOkMeansAccepted,
           ComparisonsNeverReverse, WaitIsHonoured
<1> QED BY <1>1, <1>2, <1>3 DEF IInv

\* While execute_task has not returned there is no result to be wrong.
LEMMA NotDone ==
    ASSUME pc' # "done"
    PROVE  ResultInv'
BY DEF ResultInv, Succeeded, HttpReportsResponse, SlackOkMeansAccepted,
       ComparisonsNeverReverse, WaitIsHonoured

\* When it returns, no program runs.
LEMMA Done ==
    ASSUME TypeOK, NEW r \in TaskResults, Finish(r)
    PROVE  TypeOK' /\ ProgramInv'
BY DEF TypeOK, ProgramInv, Finish, curl

\* A failed task has no output to be wrong.
LEMMA FailedTask ==
    ASSUME TypeOK, NEW e \in Errors, Err(e)
    PROVE  IInv'
<1>1. [status |-> "FAILED", error |-> e] \in TaskResults
    BY DEF TaskResults
<1>2. TypeOK' /\ ProgramInv'
    BY <1>1, Done DEF Err
<1>3. ResultInv'
    BY DEF Err, Finish, ResultInv, Succeeded, HttpReportsResponse, SlackOkMeansAccepted,
           ComparisonsNeverReverse, WaitIsHonoured
<1> QED BY <1>2, <1>3 DEF IInv

\* Only the property about its tool says anything of a result.
LEMMA SuccessfulTask ==
    ASSUME TypeOK, NEW o \in Outputs, Ok(o),
           cmd.tool = "sigops.http" => HttpReportsResponse',
           cmd.tool = "sigops.notify_slack" => SlackOkMeansAccepted',
           cmd.tool = "sigops.condition" => ComparisonsNeverReverse',
           cmd.tool = "sigops.wait" => WaitIsHonoured'
    PROVE  IInv'
<1>1. [status |-> "SUCCESS", output |-> o] \in TaskResults
    BY DEF TaskResults
<1>2. TypeOK' /\ ProgramInv'
    BY <1>1, Done DEF Ok
<1>3. cmd' = cmd
    BY DEF Ok, Finish
<1>4. ResultInv'
    BY <1>3 DEF ResultInv, Succeeded, HttpReportsResponse, SlackOkMeansAccepted,
           ComparisonsNeverReverse, WaitIsHonoured
<1> QED BY <1>2, <1>4 DEF IInv

LEMMA Comparison ==
    ASSUME NEW op \in Operators, NEW x \in Int, NEW y \in Int, NEW u \in Int, NEW v \in Int,
           x <= y => u <= v, y <= x => v <= u
    PROVE  /\ Holds(op, u, v) \in BOOLEAN
           /\ op \in {">", "<", "!="} => (Holds(op, u, v) => Holds(op, x, y))
           /\ op \notin {">", "<", "!="} => (Holds(op, x, y) => Holds(op, u, v))
<1> USE DEF Holds
<1>1. CASE op = "=="
    BY <1>1, SMT
<1>2. CASE op = "!="
    BY <1>2, SMT
<1>3. CASE op = ">"
    BY <1>3, SMT
<1>4. CASE op = "<"
    BY <1>4, SMT
<1>5. CASE op = ">="
    BY <1>5, SMT
<1>6. CASE op = "<="
    BY <1>6, SMT
<1> HIDE DEF Holds
<1> QED BY <1>1, <1>2, <1>3, <1>4, <1>5, <1>6 DEF Operators

\* Rounding keeps the order of the operands.
LEMMA ConditionStep ==
    ASSUME IInv, execute_condition
    PROVE  IInv'
<1> DEFINE o == [result |-> Compare(cmd)]
<1>1. /\ TypeOK
      /\ cmd \in ConditionTask
      /\ cmd.op \in Operators
    BY DEF IInv, TypeOK, execute_condition, Accepted, Valid, Commands, HttpTask, SlackTask,
           RestartTask, ConditionTask, WaitTask, OtherTask
<1>2. ASSUME Numbers(cmd)
      PROVE  /\ Compare(cmd) \in BOOLEAN
             /\ LET exact == Holds(cmd.op, cmd.lhs.value, cmd.rhs.value)
                IN  IF cmd.op \in {">", "<", "!="} THEN Compare(cmd) => exact ELSE exact => Compare(cmd)
    <2> DEFINE x == cmd.lhs.value
               y == cmd.rhs.value
    <2>1. x \in Decimals /\ y \in Decimals
        BY <1>1, <1>2 DEF ConditionTask, Operands, Numbers
    <2>2. /\ x \in Int /\ y \in Int /\ Float[x] \in Int /\ Float[y] \in Int
          /\ x <= y => Float[x] <= Float[y]
          /\ y <= x => Float[y] <= Float[x]
        BY <2>1 DEF ExecutorAssumption
    <2>3. Compare(cmd) = Holds(cmd.op, Float[x], Float[y])
        BY <1>2 DEF Compare
    <2> HIDE DEF x, y
    <2>4. /\ Compare(cmd) \in BOOLEAN
          /\ IF cmd.op \in {">", "<", "!="} THEN Compare(cmd) => Holds(cmd.op, x, y)
                                           ELSE Holds(cmd.op, x, y) => Compare(cmd)
        BY <1>1, <2>2, <2>3, Comparison
    <2> QED BY <2>4 DEF x, y
<1>3. Compare(cmd) \in BOOLEAN
    BY <1>2 DEF Compare
<1>4. Ok(o)
    BY DEF execute_condition
<1>5. o \in Outputs
    <2>1. o \in [result : BOOLEAN]
        BY <1>3
    <2> QED BY <2>1 DEF Outputs
<1>6. ComparisonsNeverReverse'
    <2>1. cmd' = cmd /\ result' = [status |-> "SUCCESS", output |-> o]
        BY <1>4 DEF Ok, Finish
    <2>2. result'.output.result = Compare(cmd)
        BY <2>1
    <2>3. Numbers(cmd)' = Numbers(cmd)
        BY <2>1 DEF Numbers
    <2> QED BY <1>2, <2>1, <2>2, <2>3 DEF ComparisonsNeverReverse
<1>7. cmd.tool = "sigops.condition"
    BY DEF execute_condition, Accepted
<1> HIDE DEF o
<1> QED BY <1>1, <1>4, <1>5, <1>6, <1>7, SuccessfulTask

\* The cast truncates, and the hour was checked before.
LEMMA WaitStep ==
    ASSUME IInv, WakeUp
    PROVE  IInv'
<1>1. /\ TypeOK
      /\ cmd.tool = "sigops.wait"
      /\ cmd.seconds <= MaxSeconds
    BY DEF IInv, ProgramInv, WakeUp
<1>2. cmd.seconds \in Int
    BY <1>1 DEF TypeOK, Commands, HttpTask, SlackTask, RestartTask, ConditionTask, WaitTask,
                OtherTask, ExecutorAssumption
<1>3. PICK ms \in Milliseconds(cmd.seconds) : Ok([waitedMs |-> ms])
    BY DEF WakeUp
<1> DEFINE asked == IF cmd.seconds < 0 THEN 0 ELSE cmd.seconds
<1>4. /\ ms \in Nat
      /\ ms <= 3600000
      /\ ms * 10 <= asked
      /\ asked < ms * 10 + 20
    BY <1>1, <1>2, <1>3 DEF Milliseconds, MaxSeconds
<1>5. [waitedMs |-> ms] \in Outputs
    BY <1>4 DEF Outputs
<1>6. WaitIsHonoured'
    <2>1. cmd' = cmd /\ result'.output.waitedMs = ms
        BY <1>3 DEF Ok, Finish
    <2> QED BY <2>1, <1>4 DEF WaitIsHonoured
<1> QED BY <1>1, <1>3, <1>5, <1>6, SuccessfulTask

LEMMA CollectStep ==
    ASSUME IInv, Collect
    PROVE  IInv'
<1> DEFINE text == from_utf8_lossy(stdout)
<1>1. /\ TypeOK
      /\ ProgramInv
      /\ pc = "exited"
      /\ stdout \in Seq(Sent)
      /\ received \in Seq(Sent)
      /\ UNCHANGED <<cmd, code, received, ending>>
    BY DEF IInv, TypeOK, Collect, Ok, Finish, curl
<1>2. text \in Seq(Seen)
    BY <1>1, LossyType
<1>3. Status \in Codes
    BY <1>1 DEF Status, TypeOK, ExecutorAssumption
<1>4. CASE cmd.tool = "sigops.http"
    <2> DEFINE o == HttpOutput(text)
    <2>1. Ok(o)
        BY <1>4 DEF Collect
    <2>2. o \in Outputs
        BY <1>2, HttpOutputType DEF Outputs
    <2>3. HttpReportsResponse'
        <3>1. result'.output = o
            BY <2>1 DEF Ok, Finish
        <3>2. ASSUME ending # "killed"
              PROVE  o.status = Status /\ o.body = from_utf8_lossy(received)
            <4>1. text = from_utf8_lossy(received) \o <<Newline, Status>>
                BY <1>1, <1>3, <1>4, <3>2, LossySplit DEF ProgramInv
            <4> QED BY <4>1, <1>1, <1>3, LossyType, HttpSplit
        <3> HIDE DEF o
        <3>3. Status' = Status
            BY <1>1 DEF Status
        <3> QED BY <1>1, <3>1, <3>2, <3>3 DEF HttpReportsResponse
    <2> HIDE DEF o
    <2> QED BY <1>1, <1>4, <2>1, <2>2, <2>3, SuccessfulTask
<1>5. CASE cmd.tool = "sigops.notify_slack"
    <2> DEFINE o == SlackOutput(text)
    <2>1. Ok(o)
        BY <1>5 DEF Collect
    <2>2. o \in Outputs
        BY StatusCodeType DEF Outputs, SlackOutput
    <2>3. o.ok => code \in Successes
        <3>1. CASE stdout = <<>>
            <4>1. text = <<>>
                BY <3>1 DEF from_utf8_lossy
            <4>2. StatusCode(<<>>) = Zero
                BY DEF StatusCode, IsNumber
            <4> QED BY <4>1, <4>2 DEF SlackOutput, ExecutorAssumption
        <3>2. CASE stdout = <<Status>>
            <4>1. text = <<Status>>
                BY <3>2, <1>3 DEF from_utf8_lossy, ExecutorAssumption
            <4>2. StatusCode(text) = Status
                BY <4>1, <1>3, StatusCodeIs
            <4> QED BY <4>2 DEF SlackOutput, Status, ExecutorAssumption
        <3> QED BY <1>1, <1>5, <3>1, <3>2 DEF ProgramInv
    <2>4. SlackOkMeansAccepted'
        <3>1. result'.output = o
            BY <2>1 DEF Ok, Finish
        <3> HIDE DEF o
        <3> QED BY <1>1, <2>3, <3>1 DEF SlackOkMeansAccepted
    <2> HIDE DEF o
    <2> QED BY <1>1, <1>5, <2>1, <2>2, <2>4, SuccessfulTask
<1>6. CASE cmd.tool = "sigops.restart"
    <2> DEFINE o == [ok |-> ending = "exit", method |-> method(cmd)]
    <2>1. Ok(o)
        BY <1>6 DEF Collect
    <2>2. method(cmd) \in Methods
        BY <1>1, <1>6 DEF method, Methods, TypeOK, Commands, HttpTask, SlackTask, RestartTask,
                          ConditionTask, WaitTask, OtherTask
    <2>3. o \in Outputs
        BY <2>2 DEF Outputs
    <2> HIDE DEF o
    <2> QED BY <1>1, <1>6, <2>1, <2>3, SuccessfulTask
<1> QED BY <1>4, <1>5, <1>6 DEF Collect

LEMMA RunStep ==
    ASSUME IInv, NEW program, Run(program), pc = "start",
           cmd.tool \in {"sigops.http", "sigops.notify_slack", "sigops.restart"}
    PROVE  IInv'
<1>1. CASE program \notin installed
    <2>1. Err("failed to execute") /\ "failed to execute" \in Errors
        BY <1>1 DEF Run, Errors
    <2> QED BY <2>1, FailedTask DEF IInv
<1>2. CASE program \in installed
    <2>1. pc' = "running" /\ UNCHANGED <<cmd, installed, curl, result>>
        BY <1>2 DEF Run, curl
    <2>2. TypeOK'
        BY <2>1 DEF IInv, TypeOK, curl
    <2>3. ProgramInv'
        BY <2>1 DEF IInv, ProgramInv, curl
    <2> QED BY <2>1, <2>2, <2>3, NotDone DEF IInv
<1> QED BY <1>1, <1>2

LEMMA StepInvariant == IInv /\ [Next]_vars => IInv'
<1> SUFFICES ASSUME IInv, [Next]_vars PROVE IInv'
    OBVIOUS
<1> USE DEF IInv
<1>1. CASE Reject
    <2>1. Err("invalid input") /\ "invalid input" \in Errors
        BY <1>1 DEF Reject, Errors
    <2> QED BY <2>1, FailedTask
<1>2. CASE execute_restart
    BY <1>2, RunStep DEF execute_restart, Accepted
<1>3. CASE execute_http_sync
    BY <1>3, RunStep DEF execute_http_sync, Accepted
<1>4. CASE execute_notify_slack
    BY <1>4, RunStep DEF execute_notify_slack, Accepted
<1>5. CASE execute_condition
    BY <1>5, ConditionStep
<1>6. CASE execute_wait
    <2>1. /\ cmd.seconds <= MaxSeconds
          /\ cmd.tool = "sigops.wait"
          /\ ending = "none"
        BY <1>6 DEF execute_wait, Accepted, Valid, ProgramInv
    <2>2. TypeOK' /\ ProgramInv' /\ pc' # "done"
        BY <1>6, <2>1 DEF execute_wait, Accepted, TypeOK, ProgramInv, curl
    <2> QED BY <2>2, NotDone
<1>7. CASE WakeUp
    BY <1>7, WaitStep
<1>8. CASE Collect
    BY <1>8, CollectStep
<1>9. CASE ReceiveHeader
    <2>1. TypeOK' /\ pc' # "done"
        BY <1>9 DEF ReceiveHeader, Curl, TypeOK
    <2>2. ProgramInv'
        BY <1>9 DEF ReceiveHeader, Curl, ProgramInv
    <2> QED BY <2>1, <2>2, NotDone
<1>10. CASE ReceiveBody
    <2>1. TypeOK' /\ pc' # "done"
        BY <1>10 DEF ReceiveBody, Receive, Curl, TypeOK
    <2>2. ProgramInv'
        BY <1>10 DEF ReceiveBody, Receive, Curl, ProgramInv
    <2> QED BY <2>1, <2>2, NotDone
<1>11. ASSUME NEW how \in {"exit", "failure"}, WriteOut(how) PROVE IInv'
    <2>1. /\ pc = "running"
          /\ pc' = "exited"
          /\ ending' = how
          /\ UNCHANGED <<cmd, installed, code, received, result>>
          /\ Status' = Status
          /\ Status \in Codes
          /\ Newline \in Sent /\ Status \in Sent
        BY <1>11 DEF WriteOut, Curl, Status, TypeOK, ExecutorAssumption, Sent, Blank
    <2>2. CASE cmd.tool = "sigops.http"
        <3>1. stdout' = received \o <<Newline, Status>>
            BY <1>11, <2>1, <2>2 DEF WriteOut, ProgramInv
        <3>2. TypeOK' /\ ProgramInv'
            BY <2>1, <2>2, <3>1 DEF TypeOK, ProgramInv
        <3> QED BY <2>1, <3>2, NotDone
    <2>3. CASE cmd.tool = "sigops.notify_slack"
        <3>1. stdout' = <<Status>>
            BY <1>11, <2>1, <2>3 DEF WriteOut, ProgramInv
        <3>2. TypeOK' /\ ProgramInv'
            BY <2>1, <2>3, <3>1 DEF TypeOK, ProgramInv
        <3> QED BY <2>1, <3>2, NotDone
    <2> QED BY <1>11, <2>2, <2>3 DEF WriteOut, Curl
<1>12. CASE CurlEnds
    BY <1>11, <1>12 DEF CurlEnds
<1>13. CASE MaxTime
    BY <1>11, <1>13 DEF MaxTime
<1>14. CASE RestartEnds
    <2>1. TypeOK' /\ ProgramInv' /\ pc' # "done"
        BY <1>14 DEF RestartEnds, TypeOK, ProgramInv
    <2> QED BY <2>1, NotDone
<1>15. CASE Killed
    <2>1. PICK n \in 0..Len(stdout) : stdout' = SubSeq(stdout, 1, n)
        BY <1>15 DEF Killed
    <2>2. stdout' \in Seq(Sent) /\ (stdout = <<>> => stdout' = <<>>)
        BY <2>1 DEF TypeOK
    <2>3. TypeOK' /\ pc' # "done"
        BY <1>15, <2>2 DEF Killed, TypeOK
    <2>4. ProgramInv'
        BY <1>15, <2>2 DEF Killed, ProgramInv
    <2> QED BY <2>3, <2>4, NotDone
<1>16. CASE UNCHANGED vars
    <2> USE <1>16 DEF vars, curl
    <2>1. TypeOK'
        BY DEF TypeOK
    <2>2. ProgramInv'
        BY DEF ProgramInv, Status
    <2>3. ResultInv'
        <3> USE DEF ResultInv, Succeeded
        <3>1. HttpReportsResponse'
            BY DEF HttpReportsResponse, Status
        <3>2. SlackOkMeansAccepted'
            BY DEF SlackOkMeansAccepted
        <3>3. ComparisonsNeverReverse'
            BY DEF ComparisonsNeverReverse, Numbers
        <3>4. WaitIsHonoured'
            BY DEF WaitIsHonoured
        <3> QED BY <3>1, <3>2, <3>3, <3>4
    <2> QED BY <2>1, <2>2, <2>3
<1> QED BY <1>1, <1>2, <1>3, <1>4, <1>5, <1>6, <1>7, <1>8, <1>9, <1>10, <1>12, <1>13,
           <1>14, <1>15, <1>16 DEF Next, Tool

LEMMA Invariant == Spec => []IInv
BY InitInvariant, StepInvariant, PTL DEF Spec

-----------------------------------------------------------------------------
(* The theorems.                                                           *)

\* Every output has the shape its tool promises, whatever a program writes.
THEOREM TypeCorrect == Spec => []TypeOK
BY Invariant, PTL DEF IInv

\* sigops.http reports the code and the body curl received, for every body.
THEOREM HttpResult == Spec => []HttpReportsResponse
<1>1. IInv => HttpReportsResponse
    BY DEF IInv, ResultInv
<1> QED BY Invariant, <1>1, PTL

\* sigops.notify_slack is ok only after a 2xx, however curl ends.
THEOREM SlackResult == Spec => []SlackOkMeansAccepted
<1>1. IInv => SlackOkMeansAccepted
    BY DEF IInv, ResultInv
<1> QED BY Invariant, <1>1, PTL

\* No comparison is turned round, for every rounding that keeps the order.
THEOREM ConditionResult == Spec => []ComparisonsNeverReverse
<1>1. IInv => ComparisonsNeverReverse
    BY DEF IInv, ResultInv
<1> QED BY Invariant, <1>1, PTL

\* A wait lasts as long as asked for up to two milliseconds, at most an hour.
THEOREM WaitResult == Spec => []WaitIsHonoured
<1>1. IInv => WaitIsHonoured
    BY DEF IInv, ResultInv
<1> QED BY Invariant, <1>1, PTL

\* A task takes a bounded number of steps, for bodies of any bounded length.
THEOREM BoundedTasks == Spec => TasksAreBounded
<1>1. Init => BodyInv
    BY DEF Init, BodyInv, ExecutorAssumption
<1>2. ASSUME IInv, BodyInv, Next
      PROVE  BodyInv' /\ 0 <= StepsLeft' /\ StepsLeft' < StepsLeft
    <2>0. /\ Len(received) \in Nat /\ Len(received) <= MaxBody
          /\ MaxBody \in Nat
        BY <1>2 DEF IInv, TypeOK, BodyInv, ExecutorAssumption
    <2>1. PlaceRank \in 0..3 /\ (pc = "start" => PlaceRank = 3)
          /\ (pc \in {"running", "sleeping"} => PlaceRank = 2)
          /\ (pc = "exited" => PlaceRank = 1)
        BY <1>2 DEF IInv, TypeOK, PlaceRank
    <2>2. CASE Tool \/ CurlEnds \/ MaxTime \/ RestartEnds \/ Killed
        <3>1. UNCHANGED <<code, received>>
            BY <2>2 DEF Tool, Reject, execute_restart, execute_http_sync,
               execute_notify_slack, execute_condition, execute_wait, WakeUp, Collect,
               Run, Ok, Err, Finish, curl, CurlEnds, MaxTime, WriteOut, RestartEnds, Killed
        <3>2. \/ pc = "start" /\ pc' \in {"running", "sleeping", "done"}
              \/ pc = "running" /\ pc' = "exited"
              \/ pc \in {"sleeping", "exited"} /\ pc' = "done"
            BY <2>2 DEF Tool, Reject, execute_restart, execute_http_sync,
               execute_notify_slack, execute_condition, execute_wait, WakeUp, Collect,
               Run, Ok, Err, Finish, Accepted, CurlEnds, MaxTime, WriteOut, Curl,
               RestartEnds, Killed
        <3>3. PlaceRank' \in 0..3 /\ PlaceRank' < PlaceRank
            BY <3>2 DEF PlaceRank
        <3> HIDE DEF PlaceRank
        <3> QED BY <2>0, <2>1, <3>1, <3>3 DEF StepsLeft, BodyInv
    <2>3. CASE ReceiveHeader
        <3>1. code = None /\ code' # None /\ UNCHANGED <<pc, received>>
            BY <2>3 DEF ReceiveHeader, ExecutorAssumption, Sent
        <3>2. PlaceRank' = PlaceRank
            BY <3>1 DEF PlaceRank
        <3> QED BY <2>0, <2>1, <3>1, <3>2 DEF StepsLeft, BodyInv
    <2>4. CASE ReceiveBody
        <3>1. /\ Len(received) < MaxBody
              /\ \E p \in Sent : received' = Append(received, p)
              /\ UNCHANGED <<pc, code>>
            BY <2>4 DEF ReceiveBody, Receive
        <3>2. Len(received') = Len(received) + 1
            BY <1>2, <3>1 DEF IInv, TypeOK
        <3>3. PlaceRank' = PlaceRank
            BY <3>1 DEF PlaceRank
        <3> QED BY <2>0, <2>1, <3>1, <3>2, <3>3 DEF StepsLeft, BodyInv
    <2> QED BY <1>2, <2>2, <2>3, <2>4 DEF Next
<1>3. BodyInv /\ UNCHANGED vars => BodyInv'
    BY DEF BodyInv, vars, curl
<1>4. IInv /\ BodyInv /\ [Next]_vars => BodyInv' /\ [0 <= StepsLeft' /\ StepsLeft' < StepsLeft]_vars
    BY <1>2, <1>3
<1> QED BY Invariant, <1>1, <1>4, PTL DEF Spec, TasksAreBounded
=============================================================================
