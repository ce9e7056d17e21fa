------------------------------ MODULE Executor ------------------------------
(***************************************************************************)
(* execute_task (src/src/executor.rs): one TaskCommand, from its dispatch  *)
(* by tool name to its TaskResult.  The tools that run a program start it, *)
(* wait for its end and read what it wrote; curl receives a response piece *)
(* by piece, and may be killed by somebody else at any point.              *)
(*                                                                         *)
(* Text is a sequence of pieces: line ends, spaces, status codes, bytes    *)
(* that are not UTF-8, and other text.  f64::from_str is the constant      *)
(* Float: all that matters of it is that it rounds without changing the    *)
(* order.                                                                  *)
(***************************************************************************)
EXTENDS Integers, Sequences

CONSTANTS
    Codes,      \* runs of digits that parse as a u16
    Zero,       \* the one that stands for 0
    Successes,  \* those in 200..299
    Text,       \* other visible text
    Newline, Space,
    Garbled,    \* bytes that are not UTF-8
    Replaced,   \* what from_utf8_lossy makes of them
    MaxBody,    \* bound: pieces of a response's body
    Decimals,   \* numbers an expression may name
    Float,      \* the f64 each of them is read as
    Seconds,    \* waiting times, in tenths of a millisecond
    None

Blank == {Newline, Space}
Sent == Codes \cup Text \cup Blank \cup {Garbled}
Seen == Codes \cup Text \cup Blank \cup {Replaced}

\* A restart runs the program its method names, whichever that is.
Methods == {"systemctl", "service", "other program"}
Programs == Methods \cup {"curl"}

ASSUME ExecutorAssumption ==
    /\ Zero \in Codes
    /\ Successes \subseteq Codes \ {Zero}
    /\ Codes \cap (Text \cup Blank \cup {Garbled, Replaced}) = {}
    /\ Text \cap (Blank \cup {Garbled, Replaced}) = {}
    /\ Blank \cap {Garbled, Replaced} = {}
    /\ Newline # Space
    /\ None \notin Sent \cup Seen \cup Methods
    /\ MaxBody \in Nat
    /\ Decimals \subseteq Int
    /\ Float \in [Decimals -> Int]
    /\ \A i, j \in Decimals : i <= j => Float[i] <= Float[j]
    /\ Seconds \subseteq Int

-----------------------------------------------------------------------------
(* The command.  Only what the tools look at: which fields are there, and  *)
(* of a URL or a name only what the checks tell apart.                     *)

HttpTask == [tool : {"sigops.http"}, fields : SUBSET {"url"},
             url : SUBSET {"scheme", "control"}]
SlackTask == [tool   : {"sigops.notify_slack"},
              fields : SUBSET {"channel", "message", "webhookUrl"}]
RestartTask == [tool : {"sigops.restart"}, fields : SUBSET {"service"},
                wellFormed : BOOLEAN, method : Methods \cup {None}]
Operators == {"==", "!=", ">", "<", ">=", "<="}
Operands == [kind : {"number"}, value : Decimals] \cup [kind : {"NaN", "word"}]
ConditionTask == [tool : {"sigops.condition"}, fields : SUBSET {"expression"},
                  words : {2, 3}, lhs : Operands, op : Operators \cup {"="}, rhs : Operands]
WaitTask == [tool : {"sigops.wait"}, fields : SUBSET {"seconds"}, seconds : Seconds]
OtherTask == [tool : {"other"}, fields : {{}}]
Commands == HttpTask \cup SlackTask \cup RestartTask \cup ConditionTask \cup WaitTask \cup OtherTask

Required(tool) ==
    CASE tool = "sigops.http" -> {"url"}
      [] tool = "sigops.notify_slack" -> {"channel", "message", "webhookUrl"}
      [] tool = "sigops.restart" -> {"service"}
      [] tool = "sigops.condition" -> {"expression"}
      [] tool = "sigops.wait" -> {"seconds"}
      [] tool = "other" -> {}

VARIABLES
    cmd,        \* the TaskCommand
    installed,  \* the programs of the host
    pc,         \* where execute_task is
    code,       \* the status code curl has received, or None
    received,   \* the part of the body it has received
    stdout,     \* what the program has written
    ending,     \* how it ended: by itself, killed, or not yet
    result      \* the TaskResult

curl == <<code, received, stdout, ending>>
vars == <<cmd, installed, pc, curl, result>>

Outputs == [status : Codes, body : Seq(Seen), ok : BOOLEAN]
           \cup [status : Codes, ok : BOOLEAN]
           \cup [ok : BOOLEAN, method : Methods]
           \cup [result : BOOLEAN]
           \cup [waitedMs : Nat]

Errors == {"invalid input", "failed to execute"}
TaskResults == [status : {"SUCCESS"}, output : Outputs] \cup [status : {"FAILED"}, error : Errors]

TypeOK ==
    /\ cmd \in Commands
    /\ installed \subseteq Programs
    /\ pc \in {"start", "running", "sleeping", "exited", "done"}
    /\ code \in Codes \cup {None}
    /\ received \in Seq(Sent)
    /\ stdout \in Seq(Sent)
    /\ ending \in {"none", "exit", "failure", "killed"}
    /\ \/ pc # "done" /\ result = None
       \/ pc = "done" /\ result \in TaskResults

Init ==
    /\ cmd \in Commands
    /\ installed \in SUBSET Programs
    /\ pc = "start"
    /\ code = None
    /\ received = <<>>
    /\ stdout = <<>>
    /\ ending = "none"
    /\ result = None

-----------------------------------------------------------------------------
(* Dispatch and the checks of the input.                                   *)

validate_url(url) == "scheme" \in url /\ "control" \notin url

Finish(r) ==
    /\ pc' = "done"
    /\ result' = r
    /\ UNCHANGED <<cmd, installed, curl>>

Ok(output) == Finish([status |-> "SUCCESS", output |-> output])
Err(error) == Finish([status |-> "FAILED", error |-> error])

Numeric(operand) == operand.kind \in {"number", "NaN"}

MaxSeconds == 36000000

Valid(c) ==
    CASE c.tool = "sigops.http" -> validate_url(c.url)
      [] c.tool = "sigops.restart" -> c.wellFormed
      [] c.tool = "sigops.condition" ->
           c.words = 3 /\ Numeric(c.lhs) /\ Numeric(c.rhs) /\ c.op \in Operators
      [] c.tool = "sigops.wait" -> c.seconds <= MaxSeconds
      [] c.tool = "sigops.notify_slack" -> TRUE
      [] c.tool = "other" -> FALSE

Accepted(tool) ==
    /\ pc = "start"
    /\ cmd.tool = tool
    /\ Required(tool) \subseteq cmd.fields
    /\ Valid(cmd)

Reject ==
    /\ pc = "start"
    /\ ~(Required(cmd.tool) \subseteq cmd.fields /\ Valid(cmd))
    /\ Err("invalid input")

-----------------------------------------------------------------------------
(* What the tools make of text.                                            *)

\* Mutant: bytes are taken for text.
Unchanged(s) == s

from_utf8_lossy(s) == [i \in DOMAIN s |-> IF s[i] = Garbled THEN Replaced ELSE s[i]]

\* Mutant: the first position is taken for the last.
FirstIn(s, S) ==
    CHOOSE n \in 0..Len(s) :
        /\ n > 0 => s[n] \in S
        /\ IF n = 0 THEN \A i \in 1..Len(s) : s[i] \notin S
                    ELSE \A i \in 1..(n - 1) : s[i] \notin S

\* The last position of s that holds a member of S; 0 if there is none.
LastIn(s, S) ==
    CHOOSE n \in 0..Len(s) :
        /\ n > 0 => s[n] \in S
        /\ \A i \in (n + 1)..Len(s) : s[i] \notin S

trim_end(s) == SubSeq(s, 1, LastIn(s, Seen \ Blank))

\* rsplit_once('\n'): the last line, and what is before it.
Before(s) == SubSeq(s, 1, LastIn(s, {Newline}) - 1)
LastLine(s) == SubSeq(s, LastIn(s, {Newline}) + 1, Len(s))

IsNumber(s, n) == \E i \in DOMAIN s : s[i] = n /\ \A j \in DOMAIN s \ {i} : s[j] \in Blank

\* trim().parse::<u16>().unwrap_or(0).
StatusCode(s) ==
    IF \E n \in Codes : IsNumber(s, n) THEN CHOOSE n \in Codes : IsNumber(s, n) ELSE Zero

\* Without a line end, nothing is trimmed in front of the code.
HttpOutput(raw) ==
    LET trimmed == trim_end(raw)
        alone == LastIn(trimmed, {Newline}) = 0
        status == IF alone /\ Len(trimmed) # 1 THEN Zero ELSE StatusCode(LastLine(trimmed))
    IN  [status |-> status, body |-> Before(trimmed), ok |-> status \in Successes]

SlackOutput(raw) == [status |-> StatusCode(raw), ok |-> StatusCode(raw) \in Successes]

\* Mutant: >= and <= exclude equality.
HoldsStrictly(op, x, y) ==
    CASE op = "==" -> x = y
      [] op = "!=" -> x # y
      [] op \in {">", ">="} -> x > y
      [] op \in {"<", "<="} -> x < y

Holds(op, x, y) ==
    CASE op = "==" -> x = y
      [] op = "!=" -> x # y
      [] op = ">" -> x > y
      [] op = "<" -> x < y
      [] op = ">=" -> x >= y
      [] op = "<=" -> x <= y

Numbers(c) == c.lhs.kind = "number" /\ c.rhs.kind = "number"

\* A comparison with NaN is false, unless it is !=.
Compare(c) ==
    IF Numbers(c) THEN Holds(c.op, Float[c.lhs.value], Float[c.rhs.value]) ELSE c.op = "!="

\* Mutant: a fraction of a millisecond is rounded up.
MillisecondsUp(s) == {IF s < 0 THEN 0 ELSE (s + 9) \div 10}

\* (seconds * 1000.0) as u64.  The f64 nearest to a whole number of
\* milliseconds may be below it, unless it is a multiple of 1/16 s.
Milliseconds(s) ==
    IF s < 0 THEN {0}
    ELSE IF s % 10 = 0 /\ s % 625 # 0 THEN {s \div 10 - 1, s \div 10} ELSE {s \div 10}

-----------------------------------------------------------------------------
(* The tools.                                                              *)

execute_condition ==
    /\ Accepted("sigops.condition")
    /\ Ok([result |-> Compare(cmd)])

execute_wait ==
    /\ Accepted("sigops.wait")
    /\ pc' = "sleeping"
    /\ UNCHANGED <<cmd, installed, curl, result>>

WakeUp ==
    /\ pc = "sleeping"
    /\ \E ms \in Milliseconds(cmd.seconds) : Ok([waitedMs |-> ms])

method(c) == IF c.method = None THEN "systemctl" ELSE c.method

\* SysCommand::new(program): it runs, or the task fails.
Run(program) ==
    \/ /\ program \in installed
       /\ pc' = "running"
       /\ UNCHANGED <<cmd, installed, curl, result>>
    \/ /\ program \notin installed
       /\ Err("failed to execute")

execute_restart == Accepted("sigops.restart") /\ Run(method(cmd))
execute_http_sync == Accepted("sigops.http") /\ Run("curl")
execute_notify_slack == Accepted("sigops.notify_slack") /\ Run("curl")

\* output() returns: the program has ended.
Collect ==
    /\ pc = "exited"
    /\ \/ /\ cmd.tool = "sigops.http"
          /\ Ok(HttpOutput(from_utf8_lossy(stdout)))
       \/ /\ cmd.tool = "sigops.notify_slack"
          /\ Ok(SlackOutput(from_utf8_lossy(stdout)))
       \/ /\ cmd.tool = "sigops.restart"
          /\ Ok([ok |-> ending = "exit", method |-> method(cmd)])

-----------------------------------------------------------------------------
(* The programs.                                                           *)

Curl == pc = "running" /\ cmd.tool \in {"sigops.http", "sigops.notify_slack"}

ReceiveHeader ==
    /\ Curl
    /\ code = None
    /\ code' \in Codes \ {Zero}
    /\ UNCHANGED <<cmd, installed, pc, received, stdout, ending, result>>

Receive(keeps) ==
    /\ Curl
    /\ code # None
    /\ Len(received) < MaxBody
    /\ \E p \in Sent :
          /\ received' = Append(received, p)
          /\ stdout' = IF keeps THEN Append(stdout, p) ELSE stdout
    /\ UNCHANGED <<cmd, installed, pc, code, ending, result>>

\* Mutant: notify_slack without -o /dev/null.
KeepBody == Receive(TRUE)

\* execute_notify_slack has -o /dev/null.
ReceiveBody == Receive(cmd.tool = "sigops.http")

\* %{http_code}: 000 without a response.
Status == IF code = None THEN Zero ELSE code

\* -w: "\n%{http_code}", or "%{http_code}" for notify_slack.
WriteOut(how) ==
    /\ Curl
    /\ pc' = "exited"
    /\ ending' = how
    /\ stdout' = stdout \o (IF cmd.tool = "sigops.http" THEN <<Newline, Status>> ELSE <<Status>>)
    /\ UNCHANGED <<cmd, installed, code, received, result>>

\* The response is complete, or there is none, or it breaks off.
CurlEnds == (code # None /\ WriteOut("exit")) \/ WriteOut("failure")

\* Mutant: notify_slack without --max-time.
MaxTimeOfHttp == cmd.tool = "sigops.http" /\ WriteOut("failure")

\* --max-time.
MaxTime == WriteOut("failure")

RestartEnds ==
    /\ pc = "running"
    /\ cmd.tool = "sigops.restart"
    /\ pc' = "exited"
    /\ ending' \in {"exit", "failure"}
    /\ UNCHANGED <<cmd, installed, code, received, stdout, result>>

\* Somebody kills the program; what it had buffered is lost.
Killed ==
    /\ pc = "running"
    /\ pc' = "exited"
    /\ ending' = "killed"
    /\ \E n \in 0..Len(stdout) : stdout' = SubSeq(stdout, 1, n)
    /\ UNCHANGED <<cmd, installed, code, received, result>>

-----------------------------------------------------------------------------

Tool ==
    \/ Reject
    \/ execute_restart
    \/ execute_http_sync
    \/ execute_notify_slack
    \/ execute_condition
    \/ execute_wait
    \/ WakeUp
    \/ Collect

Next ==
    \/ Tool
    \/ ReceiveHeader
    \/ ReceiveBody
    \/ CurlEnds
    \/ MaxTime
    \/ RestartEnds
    \/ Killed

Spec == Init /\ [][Next]_vars

\* The thread goes on, and curl looks at its clock.  Nobody makes the program
\* of a restart end.
FairSpec == Spec /\ WF_vars(Tool) /\ WF_vars(MaxTime)

-----------------------------------------------------------------------------
(* Properties.                                                             *)

Succeeded(tool) == pc = "done" /\ cmd.tool = tool /\ result.status = "SUCCESS"

\* The code and the body sigops.http reports are those curl received, blank
\* lines at the end of the body and lines that look like codes included,
\* whether the response was complete or not, unless curl is killed.
HttpReportsResponse ==
    Succeeded("sigops.http") /\ ending # "killed" =>
        /\ result.output.status = Status
        /\ result.output.body = from_utf8_lossy(received)

\* "The last line is the HTTP status code" (executor.rs): however curl ended.
LastLineIsStatus ==
    Succeeded("sigops.http") => result.output.status \in {Zero, code}

\* sigops.notify_slack is ok only if the webhook answered 2xx, however curl
\* ended.
SlackOkMeansAccepted ==
    Succeeded("sigops.notify_slack") /\ result.output.ok => code \in Successes

\* Reading decimals as f64 may make different numbers equal, and never turns
\* their order round.
ComparisonsNeverReverse ==
    Succeeded("sigops.condition") /\ Numbers(cmd) =>
        LET exact == Holds(cmd.op, cmd.lhs.value, cmd.rhs.value)
        IN  IF cmd.op \in {">", "<", "!="} THEN result.output.result => exact
                                           ELSE exact => result.output.result

\* A wait is never longer than asked for or than an hour, and less than two
\* milliseconds shorter.
WaitIsHonoured ==
    Succeeded("sigops.wait") =>
        LET asked == IF cmd.seconds < 0 THEN 0 ELSE cmd.seconds
        IN  /\ result.output.waitedMs * 10 <= asked
            /\ asked < result.output.waitedMs * 10 + 20
            /\ result.output.waitedMs <= 3600000

\* Every tool but restart ends, even if the other side says nothing.
ToolsEnd == cmd.tool # "sigops.restart" ~> pc = "done"

\* README.md: "Execution timeout: hard kill (SIGKILL) after a configurable
\* limit": every task ends.
EveryTaskEnds == <>(pc = "done")

\* A bound on the steps a task has left: its own, and what curl may receive.
PlaceRank ==
    CASE pc = "start"                   -> 3
      [] pc \in {"running", "sleeping"} -> 2
      [] pc = "exited"                  -> 1
      [] pc = "done"                    -> 0

StepsLeft == PlaceRank + (IF code = None THEN 1 ELSE 0) + (MaxBody - Len(received))

\* Every step of a task or of its program uses one of them up: nothing is tried
\* again, so a task that does not end waits for its program.
TasksAreBounded == [][0 <= StepsLeft' /\ StepsLeft' < StepsLeft]_vars

\* README.md: "falls back to `service` on older distros".
RestartFallsBack ==
    Succeeded("sigops.restart") \/
    ~(pc = "done" /\ cmd.tool = "sigops.restart" /\ "service" \in cmd.fields
      /\ cmd.wellFormed /\ cmd.method = None /\ "service" \in installed)

-----------------------------------------------------------------------------
(* Why they hold.                                                          *)

\* Which tool is where, and what its program has written.
ProgramInv ==
    /\ pc = "sleeping" => cmd.tool = "sigops.wait" /\ cmd.seconds <= MaxSeconds
    /\ pc \in {"running", "exited"} =>
          cmd.tool \in {"sigops.http", "sigops.notify_slack", "sigops.restart"}
    /\ pc \in {"start", "running", "sleeping"} => ending = "none"
    /\ pc = "start" => received = <<>> /\ stdout = <<>>
    /\ cmd.tool = "sigops.http" =>
          /\ pc = "running" => stdout = received
          /\ pc = "exited" /\ ending # "killed" => stdout = received \o <<Newline, Status>>
    /\ cmd.tool = "sigops.notify_slack" =>
          /\ pc = "running" => stdout = <<>>
          /\ pc = "exited" => stdout \in {<<>>, <<Status>>}

\* No more is received than is counted.
BodyInv == Len(received) <= MaxBody

ResultInv ==
    /\ HttpReportsResponse
    /\ SlackOkMeansAccepted
    /\ ComparisonsNeverReverse
    /\ WaitIsHonoured

IInv == TypeOK /\ ProgramInv /\ ResultInv
=============================================================================
