------------------------------ MODULE Startup ------------------------------
(***************************************************************************)
(* The agent from the start of main to the installation of its signal      *)
(* handlers (src/src/main.rs): the configuration clap makes of the command *)
(* line and the environment (config.rs), and the discovery of the host's   *)
(* tools (discovery.rs), during which tools come and go.  What follows is  *)
(* module Agent.                                                           *)
(***************************************************************************)
EXTENDS Integers, Sequences

CONSTANTS
    Flags,       \* flags that may be given
    Variables,   \* environment variables that may be set
    WellKnown,   \* WELL_KNOWN_TOOLS
    Hanging,     \* tools whose version command never ends
    MaxChanges,  \* bound: tools installed or removed during the start
    None

Known == {WellKnown[i] : i \in DOMAIN WellKnown}

ASSUME StartupAssumption ==
    /\ WellKnown \in Seq(Known)
    /\ \A i, j \in DOMAIN WellKnown : WellKnown[i] = WellKnown[j] => i = j
    /\ Hanging \subseteq Known
    /\ MaxChanges \in Nat

VARIABLES
    flags,         \* the flags of the command line
    environment,   \* the variables that are set
    wellFormed,    \* the heartbeat interval that is given is a u64
    config,        \* where the value of each option comes from
    hostname,
    hasWhich,      \* the host has the program `which`
    installed,     \* the tools on the host
    always, ever,  \* history: those on it all the time, and at some time
    changes,
    probe,         \* the index of the tool that is probed
    tools,         \* the DiscoveredTools
    pc

hostVars == <<hasWhich, installed, always, ever, changes>>
inputs == <<flags, environment, wellFormed>>
vars == <<inputs, config, hostname, hostVars, probe, tools, pc>>

-----------------------------------------------------------------------------
(* Config.                                                                 *)

\* #[arg(long, env = ...)].
FlagOf == [server_url |-> "--server-url", agent_id |-> "--agent-id", tenant_id |-> "--tenant-id",
           api_token |-> "--api-token", heartbeat_interval |-> "--heartbeat-interval",
           log_level |-> "--log-level"]

VariableOf == [server_url |-> "SIGOPS_SERVER_URL", agent_id |-> "AGENT_ID",
               tenant_id |-> "TENANT_ID", api_token |-> "API_TOKEN",
               heartbeat_interval |-> "HEARTBEAT_INTERVAL", log_level |-> "LOG_LEVEL"]

Options == DOMAIN FlagOf
KnownFlags == {FlagOf[o] : o \in Options}
Origins == {"flag", "variable", "default"}

Parsed == [o \in Options |-> IF FlagOf[o] \in flags THEN "flag"
                             ELSE IF VariableOf[o] \in environment THEN "variable"
                             ELSE "default"]

\* clap rejects flags it does not know and an interval that is no number.
Acceptable ==
    /\ flags \subseteq KnownFlags
    /\ Parsed["heartbeat_interval"] # "default" => wellFormed

-----------------------------------------------------------------------------

Places == {"parse", "host", "which", "version", "spawn", "handlers", "running", "usage", "killed"}
Starting == Places \ {"running", "usage", "killed"}

TypeOK ==
    /\ flags \subseteq Flags
    /\ environment \subseteq Variables
    /\ wellFormed \in BOOLEAN
    /\ config \in [Options -> Origins] \cup {None}
    /\ hostname \in {"name", "unknown", None}
    /\ hasWhich \in BOOLEAN
    /\ installed \subseteq Known
    /\ always \subseteq installed
    /\ installed \subseteq ever
    /\ changes \in 0..MaxChanges
    /\ probe \in 1..Len(WellKnown) + 1
    /\ tools \in Seq([name : Known, version : {"stdout", "stderr", None}])
    /\ Len(tools) < probe
    /\ pc \in Places
    /\ pc \in {"which", "version"} => probe <= Len(WellKnown)

Init ==
    /\ flags \in SUBSET Flags
    /\ environment \in SUBSET Variables
    /\ wellFormed \in BOOLEAN
    /\ config = None
    /\ hostname = None
    /\ hasWhich \in BOOLEAN
    /\ installed \in SUBSET Known
    /\ always = installed
    /\ ever = installed
    /\ changes = 0
    /\ probe = 1
    /\ tools = <<>>
    /\ pc = "parse"

Parse ==
    /\ pc = "parse"
    /\ IF Acceptable THEN pc' = "host" /\ config' = Parsed
                     ELSE pc' = "usage" /\ UNCHANGED config
    /\ UNCHANGED <<inputs, hostname, hostVars, probe, tools>>

\* Mutant: the loop ends one tool too late.
ContinuePast(i) == IF i > Len(WellKnown) + 1 THEN "spawn" ELSE "which"

Continue(i) == IF i > Len(WellKnown) THEN "spawn" ELSE "which"

collect_host_info ==
    /\ pc = "host"
    /\ hostname' \in {"name", "unknown"}
    /\ pc' = Continue(1)
    /\ UNCHANGED <<inputs, config, hostVars, probe, tools>>

-----------------------------------------------------------------------------
(* probe_tool.                                                             *)

Skip ==
    /\ probe' = probe + 1
    /\ pc' = Continue(probe + 1)
    /\ UNCHANGED <<inputs, config, hostname, hostVars, tools>>

\* Mutant: a tool that is missing is probed again.
TryAgain == UNCHANGED vars

NotFound == Skip

Which ==
    /\ pc = "which"
    /\ IF hasWhich /\ WellKnown[probe] \in installed
       THEN pc' = "version" /\ UNCHANGED <<inputs, config, hostname, hostVars, probe, tools>>
       ELSE NotFound

Push(version) ==
    /\ tools' = Append(tools, [name |-> WellKnown[probe], version |-> version])
    /\ probe' = probe + 1
    /\ pc' = Continue(probe + 1)
    /\ UNCHANGED <<inputs, config, hostname, hostVars>>

\* Mutant: a tool whose version command fails is left out.
OnlyWithVersion == Skip \/ Push("stdout")

\* The first line of stdout, or of stderr if the command fails; none if it
\* is blank or the command does not start.
AnyVersion == \E v \in {"stdout", "stderr", None} : Push(v)

Version ==
    /\ pc = "version"
    /\ IF WellKnown[probe] \in installed
       THEN WellKnown[probe] \notin Hanging /\ AnyVersion
       ELSE Push(None)

-----------------------------------------------------------------------------

SpawnTasks ==
    /\ pc = "spawn"
    /\ pc' = "handlers"
    /\ UNCHANGED <<inputs, config, hostname, hostVars, probe, tools>>

\* The first poll of select!.
InstallHandlers ==
    /\ pc = "handlers"
    /\ pc' = "running"
    /\ UNCHANGED <<inputs, config, hostname, hostVars, probe, tools>>

\* SIGTERM and SIGINT have no handler yet.
Signal ==
    /\ pc \in Starting
    /\ pc' = "killed"
    /\ UNCHANGED <<inputs, config, hostname, hostVars, probe, tools>>

\* Somebody installs or removes a tool.
HostChanges ==
    /\ pc \in Starting
    /\ changes < MaxChanges
    /\ changes' = changes + 1
    /\ \E t \in Known : installed' = IF t \in installed THEN installed \ {t} ELSE installed \cup {t}
    /\ always' = always \cap installed'
    /\ ever' = ever \cup installed'
    /\ UNCHANGED <<inputs, config, hostname, hasWhich, probe, tools, pc>>

Main ==
    \/ Parse
    \/ collect_host_info
    \/ Which
    \/ Version
    \/ SpawnTasks
    \/ InstallHandlers

Next == Main \/ Signal \/ HostChanges

Spec == Init /\ [][Next]_vars

\* main goes on.
FairSpec == Spec /\ WF_vars(Main)

-----------------------------------------------------------------------------
(* Properties.                                                             *)

Found == {tools[i].name : i \in DOMAIN tools}

\* However the host changes meanwhile and whatever the version commands do,
\* the first heartbeat names the tools that were there all the time and none
\* that was never there.  A host without `which` has no tools.
StableToolsAreListed ==
    pc \in {"handlers", "running"} =>
        /\ hasWhich => always \subseteq Found
        /\ Found \subseteq ever

\* No tool is named twice.
ToolsAreListedOnce ==
    \A i, j \in DOMAIN tools : tools[i].name = tools[j].name => i = j

\* A bound on the steps main has left: two for each tool, and its way through
\* the rest.
PlaceRank ==
    CASE pc = "parse"                -> 5
      [] pc = "host"                 -> 4
      [] pc = "which"                -> 3
      [] pc \in {"version", "spawn"} -> 2
      [] pc = "handlers"             -> 1
      [] OTHER                       -> 0

StepsLeft == 2 * (Len(WellKnown) + 1 - probe) + PlaceRank

\* Each step of main brings it nearer to its handlers or ends it, and changes
\* of the host do not send it back: it probes no tool twice.
StartIsBounded ==
    [][UNCHANGED <<pc, probe, tools>> \/ (0 <= StepsLeft' /\ StepsLeft' < StepsLeft)]_vars

\* main gets to its signal handlers: nothing but a version command that does
\* not end can keep it from that.
StartupCompletes ==
    <>(pc \notin Starting \/ (pc = "version" /\ WellKnown[probe] \in Hanging))

\* README.md starts the agent with --server-url and --api-key.
DocumentedFlagsStart ==
    pc = "usage" => ~(flags \subseteq {"--server-url", "--api-key"} /\ environment = {})

\* README.md: SIGOPS_API_KEY is the agent's API key.
DocumentedVariablesAreRead ==
    config # None /\ "SIGOPS_API_KEY" \in environment => config["api_token"] # "default"

-----------------------------------------------------------------------------
(* Why the first two hold.                                                 *)

\* The tools before the one that is probed have been dealt with.
ProbedInv ==
    /\ hasWhich => \A i \in 1..(probe - 1) : WellKnown[i] \in always => WellKnown[i] \in Found
    /\ Found \subseteq ever
    /\ pc = "version" => WellKnown[probe] \in ever
    /\ pc \in {"parse", "host"} => probe = 1
    /\ pc \in {"spawn", "handlers", "running"} => probe > Len(WellKnown)

\* What has been listed is one of the tools before it, and they differ.
ListedInv ==
    /\ ToolsAreListedOnce
    /\ \A i \in DOMAIN tools : \E k \in 1..(probe - 1) : tools[i].name = WellKnown[k]

IInv == TypeOK /\ ProbedInv
=============================================================================
