---------------------------- MODULE CommandCycle ----------------------------
(***************************************************************************)
(* The requests of HeartbeatClient (src/src/heartbeat.rs) and what its      *)
(* callers do with them: main sends heartbeats for ever, the integration   *)
(* test fetches, executes and reports one command.  Tasks share one        *)
(* client, hence one token; each awaits one request at a time.             *)
(* A request carries the token that was current when it was built.  The    *)
(* network may lose a request or its answer, or deliver a request after    *)
(* its sender has seen it fail; the agent may die at any time.             *)
(*                                                                         *)
(* The server is not in the repository.  It is taken to be the weakest one *)
(* the client can work with: it issues tokens 0, 1, 2, ..., the next only  *)
(* in answer to a heartbeat that carries the newest, repeats that token    *)
(* until it is used, and accepts the one before it until then.             *)
(***************************************************************************)
EXTENDS Integers, FiniteSets

CONSTANTS
    Senders,     \* tasks that send heartbeats
    Workers,     \* tasks that fetch, execute and report one command
    Commands,    \* what the server may ask for
    Repeated,    \* those it hands out until it has a result
    Configured,  \* the agent has a configured id
    MaxToken,    \* bound: tokens the server issues
    MaxStarts,   \* bound: starts of the agent
    MaxLate,     \* bound: requests in flight that nobody awaits
    None

Tasks == Senders \cup Workers
Outcomes == {"SUCCESS", "FAILED"}
Ops == {"heartbeat", "fetch", "report"}
Tokens == 0..MaxToken
Ids == 0..MaxStarts
Answers == [ok : BOOLEAN, body : Tokens \cup Commands \cup {None}]

ASSUME CycleAssumption ==
    /\ Repeated \subseteq Commands
    /\ MaxToken \in Nat
    /\ MaxStarts \in Nat
    /\ MaxLate \in Nat
    /\ Configured \in BOOLEAN
    /\ None \notin Tasks \cup Commands \cup Outcomes \cup Int \cup Answers

VARIABLES
    token,     \* the store's token; 0 is the configured one
    agent,     \* the agent's id
    starts,    \* starts of the agent, the first not counted
    pc,        \* the request each task awaits, or what it does
    cmd,       \* the command each worker has fetched
    outcome,   \* its TaskResult
    net,       \* requests the server has not handled
    answer,    \* the answer on its way to each task
    issued,    \* the newest token of the server
    accepted,  \* the tokens it accepts
    known,     \* the agents it has seen
    owner,     \* the agent each command is dispatched to
    fetched,   \* the commands that have been handed out
    results,   \* the outcomes reported to it
    ran,       \* history: the outcomes of each command's runs
    again      \* history: the commands that have run more than once

agentVars == <<token, agent, starts>>
taskVars == <<pc, cmd, outcome>>
wire == <<net, answer>>
tokenVars == <<issued, accepted>>
commandVars == <<known, owner, fetched, results>>
history == <<ran, again>>
vars == <<agentVars, taskVars, wire, tokenVars, commandVars, history>>

Requests == [from    : Tasks \cup {None},
             op      : Ops,
             auth    : Tokens,
             agent   : Ids,
             cmd     : Commands \cup {None},
             outcome : Outcomes \cup {None}]

Rejection == [ok |-> FALSE, body |-> None]
Success(b) == [ok |-> TRUE, body |-> b]

TypeOK ==
    /\ token \in Tokens
    /\ agent \in Ids
    /\ starts \in Ids
    /\ pc \in [Tasks -> Ops \cup {"idle", "execute", "executed", "done"}]
    /\ cmd \in [Tasks -> Commands \cup {None}]
    /\ outcome \in [Tasks -> Outcomes \cup {None}]
    /\ net \subseteq Requests
    /\ answer \in [Tasks -> Answers \cup {None}]
    /\ issued \in Tokens
    /\ accepted \subseteq Tokens
    /\ known \subseteq Ids
    /\ owner \in [Commands -> Ids \cup {None}]
    /\ fetched \subseteq Commands
    /\ results \in [Commands -> SUBSET Outcomes]
    /\ ran \in [Commands -> SUBSET Outcomes]
    /\ again \subseteq Commands
    /\ \A t \in Tasks :
          /\ cmd[t] # None <=> pc[t] \in {"execute", "executed", "report"}
          /\ outcome[t] # None <=> pc[t] \in {"executed", "report"}

Init ==
    /\ token = 0
    /\ agent = 0
    /\ starts = 0
    /\ pc = [t \in Tasks |-> "idle"]
    /\ cmd = [t \in Tasks |-> None]
    /\ outcome = [t \in Tasks |-> None]
    /\ net = {}
    /\ answer = [t \in Tasks |-> None]
    /\ issued = 0
    /\ accepted = {0}
    /\ known = {}
    /\ owner = [c \in Commands |-> None]
    /\ fetched = {}
    /\ results = [c \in Commands |-> {}]
    /\ ran = [c \in Commands |-> {}]
    /\ again = {}

-----------------------------------------------------------------------------
(* The client sends.                                                       *)

\* bearer_auth(self.tokens.current()), then send().await.
Send(t, op) ==
    /\ pc' = [pc EXCEPT ![t] = op]
    /\ net' = net \cup {[from |-> t, op |-> op, auth |-> token, agent |-> agent,
                         cmd |-> cmd[t], outcome |-> outcome[t]]}
    /\ UNCHANGED <<cmd, outcome, answer, agentVars, tokenVars, commandVars, history>>

SendHeartbeat(t) ==
    /\ t \in Senders
    /\ pc[t] = "idle"
    /\ Send(t, "heartbeat")

FetchNextCommand(t) ==
    /\ t \in Workers
    /\ pc[t] = "idle"
    /\ Send(t, "fetch")

\* Mutant: the result is sent while the tool still runs.
ReportAtOnce(t) ==
    /\ pc[t] = "execute"
    /\ Send(t, "report")

ReportResult(t) ==
    /\ pc[t] = "executed"
    /\ Send(t, "report")

-----------------------------------------------------------------------------
(* The server.                                                             *)

\* r is answered with a, unless nobody awaits it any more.
Reply(r, a) ==
    /\ net' = net \ {r}
    /\ answer' = [t \in Tasks |-> IF t = r.from THEN a ELSE answer[t]]
    /\ UNCHANGED <<agentVars, taskVars, history>>

\* Once the newest token is used, the one before it is not accepted.
Accept(r) ==
    /\ r.auth \in accepted
    /\ accepted' = IF r.auth = issued THEN {issued} ELSE accepted
    /\ UNCHANGED issued

Reject(r) ==
    /\ r.auth \notin accepted
    /\ Reply(r, Rejection)
    /\ UNCHANGED <<tokenVars, commandVars>>

HandleHeartbeat(r) ==
    /\ r.op = "heartbeat"
    /\ known' = known \cup {r.agent}
    /\ \/ /\ Accept(r)
          /\ Reply(r, Success(IF r.auth = issued THEN None ELSE issued))
       \/ /\ r.auth = issued
          /\ issued < MaxToken
          /\ issued' = issued + 1
          /\ accepted' = {issued, issued + 1}
          /\ Reply(r, Success(issued + 1))
    /\ UNCHANGED <<owner, fetched, results>>

Pending(id) ==
    {c \in Commands : /\ owner[c] = id
                      /\ c \notin fetched \/ (c \in Repeated /\ results[c] = {})}

HandleFetch(r) ==
    /\ r.op = "fetch"
    /\ Accept(r)
    /\ \/ /\ Pending(r.agent) = {}
          /\ Reply(r, Success(None))
          /\ UNCHANGED fetched
       \/ \E c \in Pending(r.agent) :
            /\ Reply(r, Success(c))
            /\ fetched' = fetched \cup {c}
    /\ UNCHANGED <<known, owner, results>>

HandleReport(r) ==
    /\ r.op = "report"
    /\ Accept(r)
    /\ Reply(r, Success(None))
    /\ results' = [results EXCEPT ![r.cmd] = @ \cup {r.outcome}]
    /\ UNCHANGED <<known, owner, fetched>>

Handle(r) == Reject(r) \/ HandleHeartbeat(r) \/ HandleFetch(r) \/ HandleReport(r)

Dispatch(c) ==
    /\ owner[c] = None
    /\ \E id \in known : owner' = [owner EXCEPT ![c] = id]
    /\ UNCHANGED <<agentVars, taskVars, wire, tokenVars, known, fetched, results, history>>

-----------------------------------------------------------------------------
(* The client receives.                                                    *)

\* The tasks ts await nothing any more.  A request of theirs that has not
\* been handled is lost, or arrives late.
Abandon(ts) ==
    /\ \E late \in SUBSET {r \in net : r.from \in ts} :
          net' = {r \in net : r.from \notin ts} \cup {[r EXCEPT !.from = None] : r \in late}
    /\ Cardinality({r \in net' : r.from = None}) <= MaxLate
    /\ answer' = [t \in Tasks |-> IF t \in ts THEN None ELSE answer[t]]

\* What a task does after its call: a sender sends again, a worker is done.
Rest(t) == IF t \in Senders THEN "idle" ELSE "done"

\* The call of t returns, and t goes on to place with the command c.
Return(t, place, c) ==
    /\ pc' = [pc EXCEPT ![t] = place]
    /\ cmd' = [cmd EXCEPT ![t] = c]
    /\ outcome' = [outcome EXCEPT ![t] = None]

CallFails(t, place, c) ==
    /\ pc[t] \in Ops
    /\ Abandon({t})
    /\ Return(t, place, c)
    /\ UNCHANGED <<agentVars, tokenVars, commandVars, history>>

\* Mutant: a command whose report failed is run again.
RunAgain(t) == CallFails(t, IF pc[t] = "report" THEN "execute" ELSE Rest(t), cmd[t])

\* HeartbeatError::Network or Parse: the server may have handled the request.
\* The client does not repeat it.
RequestFails(t) == CallFails(t, Rest(t), None)

Received(t, op) ==
    /\ pc[t] = op
    /\ answer[t] # None
    /\ answer[t].ok
    /\ answer' = [answer EXCEPT ![t] = None]
    /\ UNCHANGED <<net, agent, starts, tokenVars, commandVars, history>>

Rejected(t) ==
    /\ answer[t] # None
    /\ ~answer[t].ok
    /\ answer' = [answer EXCEPT ![t] = None]
    /\ Return(t, Rest(t), None)
    /\ UNCHANGED <<net, agent, starts, tokenVars, commandVars, history>>

\* Mutant: after a rejection the agent falls back to its configured token.
FallBack(t) == Rejected(t) /\ token' = 0

\* HeartbeatError::Server.
RequestRejected(t) == Rejected(t) /\ UNCHANGED token

\* maybe_rotate: a token that is sent is installed.
Rotate(new) == token' = IF new = None THEN token ELSE new

\* A rotated token is installed before the call returns.
HeartbeatOk(t) ==
    /\ Received(t, "heartbeat")
    /\ Rotate(answer[t].body)
    /\ Return(t, Rest(t), None)

\* Mutant: a 204 is taken for a command.
NoContentIgnored(t) ==
    /\ Received(t, "fetch")
    /\ Return(t, "execute", answer[t].body)
    /\ UNCHANGED token

CommandFetched(t) ==
    /\ Received(t, "fetch")
    /\ Return(t, IF answer[t].body = None THEN "done" ELSE "execute", answer[t].body)
    /\ UNCHANGED token

ResultReported(t) ==
    /\ Received(t, "report")
    /\ Return(t, "done", None)
    /\ UNCHANGED token

\* execute_task: the tool succeeds or fails.
ExecuteTask(t) ==
    /\ pc[t] = "execute"
    /\ \E o \in Outcomes :
          /\ outcome' = [outcome EXCEPT ![t] = o]
          /\ ran' = [ran EXCEPT ![cmd[t]] = @ \cup {o}]
    /\ again' = IF ran[cmd[t]] = {} THEN again ELSE again \cup {cmd[t]}
    /\ pc' = [pc EXCEPT ![t] = "executed"]
    /\ UNCHANGED <<cmd, agentVars, wire, tokenVars, commandVars>>

-----------------------------------------------------------------------------
(* The agent dies and is started again.                                    *)

\* Config::agent_id: a new UUID for every start without a configured id.
AgentId(n) == IF Configured THEN 0 ELSE n

\* What is in memory is lost.  main builds its client with the configured
\* token.
Restart ==
    /\ starts < MaxStarts
    /\ starts' = starts + 1
    /\ token' = 0
    /\ agent' = AgentId(starts + 1)
    /\ pc' = [t \in Tasks |-> "idle"]
    /\ cmd' = [t \in Tasks |-> None]
    /\ outcome' = [t \in Tasks |-> None]
    /\ Abandon(Tasks)
    /\ UNCHANGED <<tokenVars, commandVars, history>>

-----------------------------------------------------------------------------

TaskStep(t) ==
    \/ SendHeartbeat(t)
    \/ FetchNextCommand(t)
    \/ ReportResult(t)
    \/ RequestFails(t)
    \/ RequestRejected(t)
    \/ HeartbeatOk(t)
    \/ CommandFetched(t)
    \/ ResultReported(t)
    \/ ExecuteTask(t)

Next ==
    \/ \E t \in Tasks : TaskStep(t)
    \/ \E r \in net : Handle(r)
    \/ \E c \in Commands : Dispatch(c)
    \/ Restart

Spec == Init /\ [][Next]_vars

-----------------------------------------------------------------------------
(* Properties.                                                             *)

\* What one sender makes of the answers it gets, late requests and earlier
\* lives included: while it lives, the store never goes back to a token that
\* it has replaced.
TokenNeverGoesBack == [][starts' = starts => token' >= token]_vars

\* Until it is started again, the server accepts the agent's token, whichever
\* answers are lost and whichever requests arrive late: one token of grace is
\* enough.
NeverLockedOut == starts = 0 => token \in accepted

\* A command that is handed out once runs at most once: a report that fails
\* and a restart do not repeat it.
RunsOnce == again \subseteq Repeated

\* "the agent swaps its in-memory + on-disk token before the next request"
\* (heartbeat.rs), "persist it to the on-disk agent config so subsequent
\* requests use it" (security.rs): no start of the agent takes it back.
RotationSurvivesRestart == [][token' >= token]_vars

\* Only dispatched commands run, and the server is told of nothing but
\* outcomes they had.
Life == INSTANCE CommandLife WITH
    dispatched <- {c \in Commands : owner[c] # None}, reported <- results

ImplementsCommandLife == Life!Spec

-----------------------------------------------------------------------------
(* Why the safety properties hold.                                         *)

\* The command t has, or is about to be given.
Given(t) == IF pc[t] = "fetch" /\ answer[t] # None THEN answer[t].body ELSE cmd[t]

\* A request somebody awaits is the only one of its task, which has no answer
\* yet.  A report carries an outcome its command had.
WireInv ==
    /\ \A r \in net :
          /\ r.from # None => pc[r.from] = r.op /\ answer[r.from] = None
          /\ r.op = "report" => r.cmd \in Commands /\ r.outcome \in ran[r.cmd]
          /\ \A q \in net : q.from = r.from /\ r.from # None => q = r
    /\ \A t \in Tasks : answer[t] # None =>
          /\ pc[t] \in Ops
          /\ pc[t] = "heartbeat" => answer[t].body \in Tokens \cup {None}
          /\ pc[t] = "fetch" => answer[t].body \in Commands \cup {None}

TaskInv ==
    \A t \in Tasks :
        /\ pc[t] = "heartbeat" => t \in Senders
        /\ Given(t) # None => owner[Given(t)] # None
        /\ outcome[t] # None => outcome[t] \in ran[cmd[t]]

IInv == TypeOK /\ WireInv /\ TaskInv

\* With one sender, what is on its way to the store is no older than what it
\* has.
OrderInv ==
    /\ token <= issued
    /\ \A t \in Tasks : answer[t] # None /\ pc[t] = "heartbeat" /\ answer[t].body # None
          => token <= answer[t].body /\ answer[t].body <= issued

\* In the first life of the agent the server is at most one token ahead, and
\* nothing on the wire carries a token that the store has not had.
GraceInv ==
    starts = 0 =>
        /\ issued <= token + 1
        /\ {token, issued} \subseteq accepted
        /\ \A r \in net : r.auth <= token

\* A command that is handed out once has at most one holder, and has not run
\* before the holder runs it.
OnceInv ==
    /\ again \subseteq Repeated
    /\ \A c \in Commands \ fetched : ran[c] = {}
    /\ \A t \in Tasks : Given(t) # None =>
          /\ Given(t) \in fetched
          /\ Given(t) \notin Repeated =>
                /\ pc[t] \in {"fetch", "execute"} => ran[Given(t)] = {}
                /\ \A u \in Tasks : Given(u) = Given(t) => u = t
=============================================================================
