------------------------- MODULE CommandCycleProofs -------------------------
(***************************************************************************)
(* Proofs about CommandCycle, for any tasks, commands and bounds.          *)
(***************************************************************************)
EXTENDS CommandCycle, TLAPS

USE CycleAssumption DEF Outcomes, Ops, Tokens, Ids

LEMMA InitInvariant == Init => IInv
BY DEF Init, IInv, TypeOK, WireInv, TaskInv, Given, Tasks

\* A new request is awaited, and its task awaited none before.
LEMMA SendKeepsInvariant ==
    ASSUME IInv, NEW t \in Tasks, NEW op \in Ops, Send(t, op),
           \/ pc[t] = "idle" /\ op = "heartbeat" /\ t \in Senders
           \/ pc[t] = "idle" /\ op = "fetch"
           \/ pc[t] = "executed" /\ op = "report"
    PROVE  IInv'
<1> USE DEF IInv, Send, agentVars, tokenVars, commandVars, history
<1>1. TypeOK'
    BY DEF TypeOK, Requests
<1>2. WireInv'
    BY DEF WireInv, TypeOK, TaskInv, Requests
<1>3. TaskInv'
    BY DEF TaskInv, TypeOK, WireInv, Given
<1> QED
    BY <1>1, <1>2, <1>3

\* What a reply leaves alone.
LEMMA ReplyKeepsInvariant ==
    ASSUME IInv, NEW r \in net, NEW a \in Answers, Reply(r, a),
           a.body = None \/ (r.op = "heartbeat" /\ a.body \in Tokens)
              \/ (r.op = "fetch" /\ a.body \in Commands /\ owner[a.body] # None),
           owner' = owner,
           accepted' \subseteq Tokens, issued' \in Tokens,
           known' \subseteq Ids, fetched' \subseteq Commands,
           results' \in [Commands -> SUBSET Outcomes]
    PROVE  IInv'
<1> USE DEF IInv, Reply, agentVars, taskVars, history
<1>1. TypeOK'
    BY DEF TypeOK
<1>2. WireInv'
    BY DEF WireInv, TypeOK, Answers, Requests
<1>3. TaskInv'
    BY DEF TaskInv, TypeOK, WireInv, Given, Requests
<1> QED
    BY <1>1, <1>2, <1>3

LEMMA HandleKeepsInvariant ==
    ASSUME IInv, NEW r \in net, Handle(r)
    PROVE  IInv'
<1> USE DEF IInv, TypeOK
<1>0. /\ r \in Requests
      /\ r.op = "report" => r.cmd \in Commands /\ r.outcome \in Outcomes
    BY DEF WireInv, Requests
<1>1. CASE Reject(r)
    BY <1>1, ReplyKeepsInvariant DEF Reject, Rejection, Answers, tokenVars, commandVars
<1>2. CASE HandleHeartbeat(r)
  <2>1. known' \subseteq Ids /\ owner' = owner /\ fetched' = fetched /\ results' = results
    BY <1>0, <1>2 DEF HandleHeartbeat, Requests
  <2>2. ASSUME Accept(r), Reply(r, Success(IF r.auth = issued THEN None ELSE issued))
        PROVE  IInv'
    <3> DEFINE a == Success(IF r.auth = issued THEN None ELSE issued)
    <3>1. a \in Answers /\ (a.body = None \/ a.body \in Tokens)
      BY DEF Success, Answers
    <3>2. accepted' \subseteq Tokens /\ issued' \in Tokens
      BY <2>2 DEF Accept
    <3> HIDE DEF a
    <3>3. Reply(r, a)
      BY <2>2 DEF a
    <3> QED
      BY <1>2, <2>1, <3>1, <3>2, <3>3, ReplyKeepsInvariant DEF HandleHeartbeat
  <2>3. ASSUME issued < MaxToken, issued' = issued + 1, accepted' = {issued, issued + 1},
               Reply(r, Success(issued + 1))
        PROVE  IInv'
    <3>1. issued + 1 \in Tokens
      BY <2>3
    <3>2. Success(issued + 1) \in Answers /\ Success(issued + 1).body \in Tokens
      BY <3>1 DEF Success, Answers
    <3> QED
      BY <1>2, <2>1, <2>3, <3>1, <3>2, ReplyKeepsInvariant DEF HandleHeartbeat
  <2> QED
    BY <1>2, <2>2, <2>3 DEF HandleHeartbeat
<1>3. CASE HandleFetch(r)
  <2>1. accepted' \subseteq Tokens /\ issued' \in Tokens
    BY <1>3 DEF HandleFetch, Accept
  <2>2. CASE Reply(r, Success(None)) /\ fetched' = fetched
    BY <1>3, <2>1, <2>2, ReplyKeepsInvariant DEF HandleFetch, Success, Answers
  <2>3. ASSUME NEW c \in Pending(r.agent), Reply(r, Success(c)), fetched' = fetched \cup {c}
        PROVE  IInv'
    <3>1. c \in Commands /\ owner[c] # None
      BY <1>0 DEF Pending, Requests
    <3>2. Success(c) \in Answers /\ Success(c).body = c
      BY <3>1 DEF Success, Answers
    <3>3. fetched' \subseteq Commands
      BY <2>3, <3>1
    <3> QED
      BY <1>3, <2>1, <2>3, <3>1, <3>2, <3>3, ReplyKeepsInvariant DEF HandleFetch
  <2> QED
    BY <1>3, <2>2, <2>3 DEF HandleFetch
<1>4. CASE HandleReport(r)
  <2>1. accepted' \subseteq Tokens /\ issued' \in Tokens
    BY <1>4 DEF HandleReport, Accept
  <2>2. results' \in [Commands -> SUBSET Outcomes]
    BY <1>0, <1>4 DEF HandleReport
  <2> QED
    BY <1>4, <2>1, <2>2, ReplyKeepsInvariant DEF HandleReport, Success, Answers
<1> QED
    BY <1>1, <1>2, <1>3, <1>4 DEF Handle

LEMMA DispatchKeepsInvariant ==
    ASSUME IInv, NEW c \in Commands, Dispatch(c)
    PROVE  IInv'
<1> USE DEF IInv, Dispatch, agentVars, taskVars, wire, tokenVars, history
<1>1. TypeOK'
    BY DEF TypeOK
<1>2. WireInv'
    BY DEF WireInv
<1>3. TaskInv'
    BY DEF TaskInv, TypeOK, Given
<1> QED
    BY <1>1, <1>2, <1>3

\* After it has abandoned its request, nothing on the wire is awaited by ts.
LEMMA AbandonFacts ==
    ASSUME IInv, NEW ts \in SUBSET Tasks, Abandon(ts)
    PROVE  /\ net' \subseteq Requests
           /\ answer' \in [Tasks -> Answers \cup {None}]
           /\ \A r \in net' : r.from \notin ts
           /\ \A r \in net' : r.from # None => r \in net
           /\ \A r \in net' : \E q \in net : q.op = r.op /\ q.cmd = r.cmd /\ q.outcome = r.outcome /\ q.auth = r.auth
           /\ \A t \in Tasks : answer'[t] = IF t \in ts THEN None ELSE answer[t]
BY DEF IInv, TypeOK, Abandon, Requests, Tasks

LEMMA CallFailsKeepsInvariant ==
    ASSUME IInv, NEW t \in Tasks, RequestFails(t)
    PROVE  IInv'
<1> USE DEF IInv, RequestFails, CallFails, Return, Rest, agentVars, tokenVars, commandVars, history
<1>0. Abandon({t}) /\ {t} \in SUBSET Tasks
    OBVIOUS
<1>1. TypeOK'
    BY <1>0, AbandonFacts DEF TypeOK
<1>2. WireInv'
  <2>1. ASSUME NEW r \in net'
        PROVE  /\ r.from # None => pc'[r.from] = r.op /\ answer'[r.from] = None
               /\ r.op = "report" => r.cmd \in Commands /\ r.outcome \in ran'[r.cmd]
               /\ \A q \in net' : q.from = r.from /\ r.from # None => q = r
    BY <1>0, AbandonFacts DEF WireInv, TypeOK, Requests
  <2>2. ASSUME NEW u \in Tasks, answer'[u] # None
        PROVE  pc'[u] = pc[u] /\ answer'[u] = answer[u]
    BY <1>0, <2>2, AbandonFacts DEF TypeOK
  <2> QED
    BY <2>1, <2>2 DEF WireInv
<1>3. TaskInv'
    BY <1>0, AbandonFacts DEF TaskInv, TypeOK, Given
<1> QED
    BY <1>1, <1>2, <1>3

LEMMA RestartKeepsInvariant ==
    ASSUME IInv, Restart
    PROVE  IInv'
<1> USE DEF IInv, Restart, tokenVars, commandVars, history
<1>0. Abandon(Tasks) /\ Tasks \in SUBSET Tasks
    OBVIOUS
<1>1. TypeOK'
    BY <1>0, AbandonFacts DEF TypeOK, AgentId
<1>2. WireInv'
    BY <1>0, AbandonFacts DEF WireInv, TypeOK, Requests
<1>3. TaskInv'
    BY <1>0, AbandonFacts DEF TaskInv, TypeOK, Given
<1> QED
    BY <1>1, <1>2, <1>3

\* A call returns with an answer.
LEMMA ReceiveKeepsInvariant ==
    ASSUME IInv, NEW t \in Tasks,
           RequestRejected(t) \/ HeartbeatOk(t) \/ CommandFetched(t) \/ ResultReported(t)
    PROVE  IInv'
<1> USE DEF IInv, RequestRejected, Rejected, HeartbeatOk, CommandFetched, Rotate,
            ResultReported, Received, Return, Rest, tokenVars, commandVars, history
<1>1. TypeOK'
  <2>1. CASE RequestRejected(t)
    BY <2>1 DEF TypeOK
  <2>2. CASE HeartbeatOk(t)
    BY <2>2 DEF TypeOK, WireInv
  <2>3. CASE CommandFetched(t)
    BY <2>3 DEF TypeOK, WireInv
  <2>4. CASE ResultReported(t)
    BY <2>4 DEF TypeOK
  <2> QED
    BY <2>1, <2>2, <2>3, <2>4
<1>2. WireInv'
    BY DEF WireInv, TypeOK, Requests
<1>3. TaskInv'
    BY DEF TaskInv, TypeOK, WireInv, Given
<1> QED
    BY <1>1, <1>2, <1>3

LEMMA ExecuteKeepsInvariant ==
    ASSUME IInv, NEW t \in Tasks, ExecuteTask(t)
    PROVE  IInv'
<1> USE DEF IInv, ExecuteTask, agentVars, wire, tokenVars, commandVars
<1>0. cmd[t] \in Commands
    BY DEF TypeOK
<1>1. TypeOK'
    BY <1>0 DEF TypeOK
<1>2. WireInv'
    BY <1>0 DEF WireInv, TypeOK, Requests
<1>3. TaskInv'
    BY <1>0 DEF TaskInv, TypeOK, Given
<1> QED
    BY <1>1, <1>2, <1>3

LEMMA NextKeepsInvariant == IInv /\ [Next]_vars => IInv'
<1> SUFFICES ASSUME IInv, [Next]_vars
             PROVE  IInv'
    OBVIOUS
<1>1. CASE \E t \in Tasks : TaskStep(t)
  <2>1. PICK t \in Tasks : TaskStep(t)
    BY <1>1
  <2> QED
    BY <2>1, SendKeepsInvariant, CallFailsKeepsInvariant, ReceiveKeepsInvariant,
       ExecuteKeepsInvariant DEF TaskStep, SendHeartbeat, FetchNextCommand, ReportResult
<1>2. CASE \E r \in net : Handle(r)
    BY <1>2, HandleKeepsInvariant
<1>3. CASE \E c \in Commands : Dispatch(c)
    BY <1>3, DispatchKeepsInvariant
<1>4. CASE Restart
    BY <1>4, RestartKeepsInvariant
<1>5. CASE UNCHANGED vars
    BY <1>5 DEF IInv, TypeOK, WireInv, TaskInv, Given, vars, agentVars, taskVars,
       wire, tokenVars, commandVars, history
<1> QED
    BY <1>1, <1>2, <1>3, <1>4, <1>5 DEF Next

\* Every variable stays in its type, and a task holds a command and a result
\* exactly while it works on one.
THEOREM TypeCorrect == Spec => []TypeOK
<1>1. Spec => []IInv
    BY InitInvariant, NextKeepsInvariant, PTL DEF Spec
<1>2. IInv => TypeOK
    BY DEF IInv
<1> QED
    BY <1>1, <1>2, PTL

\* The server's side: an answer carries the newest token, and a token is issued
\* only to a request that carries the newest one.
LEMMA HandleKeepsOrder ==
    ASSUME IInv, OrderInv, NEW r \in net, Handle(r)
    PROVE  OrderInv'
<1> USE DEF IInv, TypeOK
<1>1. r.auth \in Tokens /\ token' = token /\ pc' = pc
    BY DEF Requests, Handle, Reject, HandleHeartbeat, HandleFetch, HandleReport,
       Reply, agentVars, taskVars
<1>2. issued <= issued' /\ issued' \in Int
    BY DEF Handle, Reject, HandleHeartbeat, HandleFetch, HandleReport, Accept, tokenVars
<1>3. token' <= issued'
    BY <1>1, <1>2 DEF OrderInv
<1>4. ASSUME NEW t \in Tasks, answer'[t] # None, pc'[t] = "heartbeat", answer'[t].body # None
      PROVE  token' <= answer'[t].body /\ answer'[t].body <= issued'
  <2>1. CASE t # r.from
    <3>1. answer'[t] = answer[t]
      BY <2>1 DEF Handle, Reject, HandleHeartbeat, HandleFetch, HandleReport, Reply
    <3>2. answer[t].body \in Tokens
      BY <1>1, <1>4, <3>1 DEF WireInv
    <3> QED
      BY <1>1, <1>2, <1>4, <3>1, <3>2 DEF OrderInv
  <2>2. CASE t = r.from
    <3>1. r.op = "heartbeat"
      BY <1>1, <1>4, <2>2 DEF WireInv
    <3>2. answer'[t].body = issued'
      BY <1>4, <2>2, <3>1 DEF Handle, Reject, HandleHeartbeat, HandleFetch,
         HandleReport, Reply, Accept, Success, Rejection
    <3> QED
      BY <1>2, <1>3, <3>2
  <2> QED
    BY <2>1, <2>2
<1> QED
    BY <1>3, <1>4 DEF OrderInv

LEMMA HandleKeepsGrace ==
    ASSUME IInv, OrderInv, GraceInv, NEW r \in net, Handle(r)
    PROVE  GraceInv'
<1> USE DEF IInv, TypeOK
<1> SUFFICES ASSUME starts' = 0
             PROVE  GraceInv'
    BY DEF GraceInv
<1>1. /\ r.auth \in Tokens /\ token' = token /\ starts = 0
      /\ r.auth <= token
    BY DEF GraceInv, Requests, Handle, Reject, HandleHeartbeat, HandleFetch,
       HandleReport, Reply, agentVars
<1>2. {token', issued'} \subseteq accepted' /\ issued' <= token' + 1
    BY <1>1 DEF GraceInv, OrderInv, Handle, Reject, HandleHeartbeat, HandleFetch,
       HandleReport, Accept, tokenVars
<1>3. \A q \in net' : q.auth <= token'
    BY <1>1 DEF GraceInv, Handle, Reject, HandleHeartbeat, HandleFetch, HandleReport, Reply
<1> QED
    BY <1>2, <1>3 DEF GraceInv

\* What is on the wire after ts have abandoned their requests was on it before.
LEMMA AbandonKeepsGrace ==
    ASSUME IInv, GraceInv, starts = 0, NEW ts \in SUBSET Tasks, Abandon(ts)
    PROVE  \A r \in net' : r.auth <= token
BY AbandonFacts DEF GraceInv

\* The one sender, which is the only task that installs a token, awaits nothing
\* else when it does.  A new life begins with the oldest token.
LEMMA StepKeepsTokens ==
    ASSUME IInv, OrderInv, GraceInv, \A s, t \in Senders : s = t, [Next]_vars
    PROVE  OrderInv' /\ GraceInv' /\ (starts' = starts => token' >= token)
<1> USE DEF IInv, TypeOK
<1>1. ASSUME NEW t \in Tasks, NEW op \in Ops, Send(t, op), pc[t] \in {"idle", "executed"}
      PROVE  OrderInv' /\ GraceInv' /\ token' = token
  <2>1. OrderInv' /\ token' = token
    BY <1>1 DEF OrderInv, WireInv, Send, agentVars, tokenVars
  <2>2. GraceInv'
    BY <1>1 DEF GraceInv, Send, agentVars, tokenVars
  <2> QED
    BY <2>1, <2>2
<1>2. ASSUME NEW t \in Tasks, RequestFails(t)
      PROVE  OrderInv' /\ GraceInv' /\ token' = token
  <2>1. Abandon({t}) /\ {t} \in SUBSET Tasks
    BY <1>2 DEF RequestFails, CallFails
  <2>2. OrderInv' /\ token' = token
    BY <1>2, <2>1, AbandonFacts
    DEF OrderInv, RequestFails, CallFails, Return, agentVars, tokenVars
  <2>3. GraceInv'
    BY <1>2, <2>1, AbandonKeepsGrace DEF GraceInv, RequestFails, CallFails, agentVars, tokenVars
  <2> QED
    BY <2>2, <2>3
<1>3. ASSUME NEW t \in Tasks, RequestRejected(t) \/ CommandFetched(t) \/ ResultReported(t)
      PROVE  OrderInv' /\ GraceInv' /\ token' = token
    BY <1>3 DEF OrderInv, GraceInv, RequestRejected, Rejected, CommandFetched, ResultReported,
       Received, Return, tokenVars
<1>4. ASSUME NEW t \in Tasks, HeartbeatOk(t)
      PROVE  OrderInv' /\ GraceInv' /\ token' >= token
  <2>1. answer[t].body \in Tokens \cup {None}
    BY <1>4 DEF HeartbeatOk, Received, WireInv
  <2>2. token' \in Tokens /\ token <= token' /\ token' <= issued
    BY <1>4, <2>1 DEF HeartbeatOk, Rotate, Received, OrderInv
  <2>3. \A u \in Tasks : ~(answer'[u] # None /\ pc'[u] = "heartbeat" /\ answer'[u].body # None)
    BY <1>4 DEF HeartbeatOk, Received, Return, Rest, TaskInv
  <2>4. OrderInv'
    BY <1>4, <2>2, <2>3 DEF OrderInv, HeartbeatOk, Received, tokenVars
  <2>5. GraceInv'
    <3> SUFFICES ASSUME starts = 0
                 PROVE  GraceInv'
      BY <1>4 DEF GraceInv, HeartbeatOk, Received
    <3>1. token' \in {token, issued} /\ issued \in accepted /\ token \in accepted
      BY <2>2 DEF GraceInv
    <3>2. \A r \in net : r.auth <= token /\ r.auth \in Nat
      BY DEF GraceInv, Requests
    <3>3. net' = net /\ issued' = issued /\ accepted' = accepted
      BY <1>4 DEF HeartbeatOk, Received, tokenVars
    <3>4. \A r \in net' : r.auth <= token'
      BY <2>2, <3>2, <3>3
    <3>5. issued' <= token' + 1
      <4>1. issued <= token + 1 /\ issued \in Int /\ token \in Int /\ token' \in Int
        BY <2>2 DEF GraceInv
      <4>2. issued' = issued
        BY <3>3
      <4>3. token <= token'
        BY <2>2
      <4>4. ASSUME NEW i \in Int, NEW j \in Int, NEW k \in Int, i <= j + 1, j <= k
            PROVE  i <= k + 1
        BY <4>4
      <4> QED
        BY <4>1, <4>2, <4>3, <4>4
    <3> QED
      BY <3>1, <3>3, <3>4, <3>5 DEF GraceInv
  <2> QED
    BY <2>2, <2>4, <2>5
<1>5. ASSUME NEW t \in Tasks, ExecuteTask(t)
      PROVE  OrderInv' /\ GraceInv' /\ token' = token
    BY <1>5 DEF OrderInv, GraceInv, ExecuteTask, WireInv, agentVars, wire, tokenVars
<1>6. ASSUME NEW r \in net, Handle(r)
      PROVE  OrderInv' /\ GraceInv' /\ token' = token
    BY <1>6, HandleKeepsOrder, HandleKeepsGrace DEF Handle, Reject, HandleHeartbeat,
       HandleFetch, HandleReport, Reply, agentVars
<1>7. ASSUME NEW c \in Commands, Dispatch(c)
      PROVE  OrderInv' /\ GraceInv' /\ token' = token
    BY <1>7 DEF OrderInv, GraceInv, Dispatch, agentVars, taskVars, wire, tokenVars
<1>8. CASE Restart
  <2>1. Abandon(Tasks) /\ Tasks \in SUBSET Tasks
    BY <1>8 DEF Restart
  <2>2. OrderInv' /\ starts' # starts /\ starts' # 0
    BY <1>8, <2>1, AbandonFacts DEF OrderInv, Restart, tokenVars
  <2> QED
    BY <2>2 DEF GraceInv
<1>9. CASE UNCHANGED vars
    BY <1>9 DEF OrderInv, GraceInv, vars, agentVars, taskVars, wire, tokenVars
<1> QED
    BY <1>1, <1>2, <1>3, <1>4, <1>5, <1>6, <1>7, <1>8, <1>9
    DEF Next, TaskStep, SendHeartbeat, FetchNextCommand, ReportResult

LEMMA TokenInvariant ==
    ASSUME \A s, t \in Senders : s = t
    PROVE  Spec => [](IInv /\ OrderInv /\ GraceInv)
<1>1. Init => IInv /\ OrderInv /\ GraceInv
    BY InitInvariant DEF Init, OrderInv, GraceInv
<1>2. IInv /\ OrderInv /\ GraceInv /\ [Next]_vars => (IInv /\ OrderInv /\ GraceInv)'
    BY NextKeepsInvariant, StepKeepsTokens
<1> QED
    BY <1>1, <1>2, PTL DEF Spec

\* With one sender, as in main, the server accepts the agent's token until the
\* agent is started again, for any tasks that use the token and any tokens.
THEOREM TokenIsAccepted ==
    ASSUME \A s, t \in Senders : s = t
    PROVE  Spec => []NeverLockedOut
<1>1. GraceInv => NeverLockedOut
    BY DEF GraceInv, NeverLockedOut
<1> QED
    BY <1>1, TokenInvariant, PTL

\* With one sender no answer puts an older token back, in any life of the agent,
\* although requests of earlier lives still reach the server.
THEOREM TokensAdvance ==
    ASSUME \A s, t \in Senders : s = t
    PROVE  Spec => TokenNeverGoesBack
<1>1. IInv /\ OrderInv /\ GraceInv /\ [Next]_vars => [starts' = starts => token' >= token]_vars
    BY StepKeepsTokens
<1> QED
    BY <1>1, TokenInvariant, PTL DEF Spec, TokenNeverGoesBack

-----------------------------------------------------------------------------

\* What a task holds is what it held before, or nothing.
LEMMA StepKeepsOnce ==
    ASSUME IInv, OnceInv, [Next]_vars
    PROVE  OnceInv'
<1> USE DEF IInv, TypeOK
<1>1. ASSUME NEW t \in Tasks, NEW op \in Ops, Send(t, op),
             pc[t] = "idle" \/ (pc[t] = "executed" /\ op = "report")
      PROVE  OnceInv'
  <2>1. \A u \in Tasks : Given(u)' = Given(u)
    BY <1>1 DEF Send, Given, WireInv
  <2>2. \A u \in Tasks : Given(u) # None /\ pc'[u] \in {"fetch", "execute"} => pc'[u] = pc[u]
    BY <1>1 DEF Send, Given
  <2> QED
    BY <1>1, <2>1, <2>2 DEF OnceInv, Send, commandVars, history
<1>2. ASSUME NEW ts \in SUBSET Tasks, Abandon(ts), ran' = ran, again' = again, fetched' = fetched,
             \A u \in Tasks : IF u \in ts THEN cmd'[u] = None /\ pc'[u] \in {"idle", "done"}
                                          ELSE cmd'[u] = cmd[u] /\ pc'[u] = pc[u]
      PROVE  OnceInv'
  <2>1. \A u \in Tasks : Given(u)' = IF u \in ts THEN None ELSE Given(u)
    BY <1>2, AbandonFacts DEF Given
  <2> QED
    BY <1>2, <2>1 DEF OnceInv
<1>3. ASSUME NEW t \in Tasks, RequestRejected(t) \/ HeartbeatOk(t) \/ ResultReported(t)
      PROVE  OnceInv'
  <2>1. \A u \in Tasks : Given(u)' = IF u = t THEN None ELSE Given(u)
    BY <1>3 DEF Given, RequestRejected, Rejected, HeartbeatOk, ResultReported, Received, Return
  <2>2. \A u \in Tasks : u # t => pc'[u] = pc[u]
    BY <1>3 DEF RequestRejected, Rejected, HeartbeatOk, ResultReported, Received, Return
  <2> QED
    BY <1>3, <2>1, <2>2 DEF OnceInv, RequestRejected, Rejected, HeartbeatOk,
       ResultReported, Received, commandVars, history
<1>4. ASSUME NEW t \in Tasks, CommandFetched(t)
      PROVE  OnceInv'
  <2>1. \A u \in Tasks : Given(u)' = Given(u)
    BY <1>4 DEF Given, CommandFetched, Received, Return
  <2>2. \A u \in Tasks : u # t => pc'[u] = pc[u]
    BY <1>4 DEF CommandFetched, Received, Return
  <2>3. pc[t] = "fetch"
    BY <1>4 DEF CommandFetched, Received
  <2> QED
    BY <1>4, <2>1, <2>2, <2>3 DEF OnceInv, CommandFetched, Received, commandVars, history
<1>5. ASSUME NEW t \in Tasks, ExecuteTask(t)
      PROVE  OnceInv'
  <2>1. \A u \in Tasks : Given(u)' = Given(u)
    BY <1>5 DEF Given, ExecuteTask, wire
  <2>2. /\ cmd[t] \in Commands /\ Given(t) = cmd[t] /\ cmd[t] \in fetched
        /\ cmd[t] \notin Repeated => ran[cmd[t]] = {}
    <3>1. cmd[t] \in Commands /\ Given(t) = cmd[t] /\ pc[t] = "execute" /\ Given(t) # None
      BY <1>5 DEF ExecuteTask, Given
    <3> QED
      BY <3>1 DEF OnceInv
  <2>3. \A c \in Commands : c # cmd[t] => ran'[c] = ran[c]
    BY <1>5, <2>2 DEF ExecuteTask
  <2>4. again' \subseteq Repeated /\ fetched' = fetched
    BY <1>5, <2>2 DEF OnceInv, ExecuteTask, commandVars
  <2>5. pc'[t] = "executed" /\ \A u \in Tasks : u # t => pc'[u] = pc[u]
    BY <1>5 DEF ExecuteTask
  <2>6. \A c \in Commands \ fetched' : ran'[c] = {}
    BY <2>2, <2>3, <2>4 DEF OnceInv
  <2>7. ASSUME NEW u \in Tasks, Given(u) # None
        PROVE  /\ Given(u) \in fetched
               /\ Given(u) \notin Repeated =>
                     /\ pc'[u] \in {"fetch", "execute"} => ran'[Given(u)] = {}
                     /\ \A v \in Tasks : Given(v) = Given(u) => v = u
    <3>1. Given(u) \in fetched
      BY <2>7 DEF OnceInv
    <3>2. ASSUME Given(u) \notin Repeated
          PROVE  /\ pc[u] \in {"fetch", "execute"} => ran[Given(u)] = {}
                 /\ \A v \in Tasks : Given(v) = Given(u) => v = u
      BY <2>7, <3>2 DEF OnceInv
    <3>3. ASSUME Given(u) \notin Repeated, pc'[u] \in {"fetch", "execute"}
          PROVE  ran'[Given(u)] = {}
      <4>1. u # t /\ pc'[u] = pc[u]
        BY <2>5, <3>3
      <4>2. Given(u) # cmd[t]
        BY <2>2, <3>2, <3>3, <4>1
      <4>3. Given(u) \in Commands
        BY <3>1
      <4> QED
        BY <2>3, <3>2, <3>3, <4>1, <4>2, <4>3
    <3> QED
      BY <3>1, <3>2, <3>3
  <2> QED
    BY <2>1, <2>4, <2>6, <2>7 DEF OnceInv
<1>6. ASSUME NEW r \in net, Handle(r), fetched' = fetched,
             \/ Reply(r, Rejection)
             \/ Reply(r, Success(None))
             \/ \E b \in Tokens \cup {None} : r.op # "fetch" /\ Reply(r, Success(b))
      PROVE  OnceInv'
  <2>1. \A u \in Tasks : Given(u)' = Given(u) \/ Given(u)' = None
    BY <1>6 DEF Given, Reply, Rejection, Success, taskVars, WireInv
  <2> QED
    BY <1>6, <2>1 DEF OnceInv, Reply, history, taskVars
<1>7. ASSUME NEW r \in net, HandleFetch(r)
      PROVE  OnceInv'
  <2>1. CASE Reply(r, Success(None)) /\ fetched' = fetched
    BY <1>6, <1>7, <2>1 DEF Handle
  <2>2. ASSUME NEW c \in Pending(r.agent), Reply(r, Success(c)), fetched' = fetched \cup {c}
        PROVE  OnceInv'
    <3>1. c \in Commands /\ (c \notin Repeated => c \notin fetched /\ ran[c] = {})
      BY DEF Pending, OnceInv
    <3>2. \A u \in Tasks : Given(u)' = IF u = r.from THEN c ELSE Given(u)
      <4>1. Success(c) \in Answers /\ Success(c).body = c
        BY <3>1 DEF Success, Answers
      <4>2. r.op = "fetch" /\ (r.from # None => pc[r.from] = "fetch")
        BY <1>7 DEF HandleFetch, WireInv
      <4> QED
        BY <2>2, <4>1, <4>2 DEF Given, Reply, taskVars
    <3>3. c \notin Repeated => \A u \in Tasks : Given(u) # c
      BY <3>1 DEF OnceInv
    <3>4. ran' = ran /\ again' = again /\ pc' = pc
      BY <2>2 DEF Reply, taskVars, history
    <3>5. \A d \in Commands \ fetched' : ran'[d] = {}
      BY <2>2, <3>4 DEF OnceInv
    <3>6. ASSUME NEW u \in Tasks, Given(u)' # None
          PROVE  /\ Given(u)' \in fetched'
                 /\ Given(u)' \notin Repeated =>
                       /\ pc'[u] \in {"fetch", "execute"} => ran'[Given(u)'] = {}
                       /\ \A v \in Tasks : Given(v)' = Given(u)' => v = u
      <4>1. CASE u = r.from
        BY <2>2, <3>1, <3>2, <3>3, <3>4, <4>1
      <4>2. CASE u # r.from
        <5>1. Given(u)' = Given(u) /\ Given(u) # None
          BY <3>2, <3>6, <4>2
        <5>2. Given(u) \in fetched
          BY <5>1 DEF OnceInv
        <5>3. ASSUME Given(u) \notin Repeated
              PROVE  /\ pc[u] \in {"fetch", "execute"} => ran[Given(u)] = {}
                     /\ \A v \in Tasks : Given(v) = Given(u) => v = u
          BY <5>1, <5>3 DEF OnceInv
        <5> QED
          BY <2>2, <3>1, <3>2, <3>3, <3>4, <4>2, <5>1, <5>2, <5>3
      <4> QED
        BY <4>1, <4>2
    <3> QED
      BY <3>4, <3>5, <3>6 DEF OnceInv
  <2> QED
    BY <1>7, <2>1, <2>2 DEF HandleFetch
<1>8. CASE \E t \in Tasks : TaskStep(t)
  <2>1. PICK t \in Tasks : TaskStep(t)
    BY <1>8
  <2>2. CASE RequestFails(t)
    BY <1>2, <2>2 DEF RequestFails, CallFails, Return, Rest, commandVars, history
  <2> QED
    BY <1>1, <1>3, <1>4, <1>5, <2>1, <2>2
    DEF TaskStep, SendHeartbeat, FetchNextCommand, ReportResult
<1>9. CASE \E r \in net : Handle(r)
  <2>1. PICK r \in net : Handle(r)
    BY <1>9
  <2>2. CASE Reject(r)
    BY <1>6, <2>1, <2>2 DEF Reject, commandVars
  <2>3. CASE HandleHeartbeat(r)
    <3>1. fetched' = fetched /\ r.op # "fetch"
      BY <2>3 DEF HandleHeartbeat
    <3>2. \E b \in Tokens \cup {None} : Reply(r, Success(b))
      <4> DEFINE repeated == IF r.auth = issued THEN None ELSE issued
      <4>1. repeated \in Tokens \cup {None}
        OBVIOUS
      <4>2. issued < MaxToken => issued + 1 \in Tokens
        OBVIOUS
      <4>3. Reply(r, Success(repeated)) \/ (issued < MaxToken /\ Reply(r, Success(issued + 1)))
        BY <2>3 DEF HandleHeartbeat
      <4> HIDE DEF repeated
      <4> QED
        BY <4>1, <4>2, <4>3
    <3> QED
      BY <1>6, <2>1, <3>1, <3>2
  <2>4. CASE HandleReport(r)
    BY <1>6, <2>1, <2>4 DEF HandleReport
  <2> QED
    BY <1>7, <2>1, <2>2, <2>3, <2>4 DEF Handle
<1>10. CASE \E c \in Commands : Dispatch(c)
  <2>1. \A u \in Tasks : Given(u)' = Given(u)
    BY <1>10 DEF Given, Dispatch, taskVars, wire
  <2> QED
    BY <1>10, <2>1 DEF OnceInv, Dispatch, taskVars, history
<1>11. CASE Restart
    BY <1>2, <1>11 DEF Restart, commandVars, history
<1>12. CASE UNCHANGED vars
    BY <1>12 DEF OnceInv, Given, vars, taskVars, wire, commandVars, history
<1> QED
    BY <1>8, <1>9, <1>10, <1>11, <1>12 DEF Next

\* A command the server hands out once runs at most once.
THEOREM CommandRunsOnce == Spec => []RunsOnce
<1>1. Init => IInv /\ OnceInv
    BY InitInvariant DEF Init, OnceInv, Given
<1>2. IInv /\ OnceInv /\ [Next]_vars => (IInv /\ OnceInv)'
    BY NextKeepsInvariant, StepKeepsOnce
<1>3. OnceInv => RunsOnce
    BY DEF OnceInv, RunsOnce
<1> QED
    BY <1>1, <1>2, <1>3, PTL DEF Spec
-----------------------------------------------------------------------------

LEMMA InitLife == Init => Life!Init
BY DEF Init, Life!Init

\* A run is a run of a dispatched command, a report of an outcome it had, and
\* everything else but a dispatch is hidden.
LEMMA StepLife ==
    ASSUME IInv, [Next]_vars
    PROVE  [Life!Next]_Life!vars
<1> USE DEF IInv, TypeOK, Life!vars
<1> DEFINE D == {c \in Commands : owner[c] # None}
<1>1. ASSUME NEW t \in Tasks, ExecuteTask(t)
      PROVE  Life!Next
  <2>1. cmd[t] \in Commands /\ owner[cmd[t]] # None
    BY <1>1 DEF ExecuteTask, TaskInv, Given
  <2>2. PICK o \in Outcomes : ran' = [ran EXCEPT ![cmd[t]] = @ \cup {o}]
    BY <1>1 DEF ExecuteTask
  <2>3. owner' = owner /\ results' = results
    BY <1>1 DEF ExecuteTask, commandVars
  <2>4. Life!Run(cmd[t], o)
    BY <2>1, <2>2, <2>3 DEF Life!Run
  <2> QED
    BY <2>1, <2>4 DEF Life!Next
<1>2. ASSUME NEW r \in net, HandleReport(r)
      PROVE  Life!Next
  <2>1. r.cmd \in Commands /\ r.outcome \in ran[r.cmd] /\ r.outcome \in Outcomes
    BY <1>2 DEF HandleReport, WireInv
  <2>2. Life!Report(r.cmd, r.outcome)
    BY <1>2, <2>1 DEF HandleReport, Reply, Life!Report, history
  <2> QED
    BY <2>1, <2>2 DEF Life!Next
<1>3. ASSUME NEW c \in Commands, Dispatch(c)
      PROVE  Life!Next
  <2>1. PICK id \in known : owner' = [owner EXCEPT ![c] = id]
    BY <1>3 DEF Dispatch
  <2>2. id # None
    BY <2>1
  <2>3. D' = D \cup {c}
    BY <2>1, <2>2
  <2>4. Life!Dispatch(c)
    BY <1>3, <2>3 DEF Dispatch, history, Life!Dispatch
  <2> QED
    BY <2>4 DEF Life!Next
<1>4. ASSUME NEW t \in Tasks, TaskStep(t), ~ExecuteTask(t)
      PROVE  owner' = owner /\ ran' = ran /\ results' = results
    BY <1>4 DEF TaskStep, SendHeartbeat, FetchNextCommand, ReportResult, Send, RequestFails,
       CallFails, RequestRejected, Rejected, HeartbeatOk, CommandFetched, ResultReported,
       Received, commandVars, history
<1>5. ASSUME NEW r \in net, Handle(r), ~HandleReport(r)
      PROVE  owner' = owner /\ ran' = ran /\ results' = results
    BY <1>5 DEF Handle, Reject, HandleHeartbeat, HandleFetch, Reply, commandVars, history
<1>6. CASE Restart \/ UNCHANGED vars
    BY <1>6 DEF Restart, vars, commandVars, history
<1> QED
    BY <1>1, <1>2, <1>3, <1>4, <1>5, <1>6 DEF Next

\* The cycle implements the abstract life of a command.
THEOREM Refinement == Spec => ImplementsCommandLife
<1>1. Init => IInv /\ Life!Init
    BY InitInvariant, InitLife
<1>2. IInv /\ [Next]_vars => IInv' /\ [Life!Next]_Life!vars
    BY NextKeepsInvariant, StepLife
<1> QED
    BY <1>1, <1>2, PTL DEF Spec, ImplementsCommandLife, Life!Spec
=============================================================================
