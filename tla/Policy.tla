------------------------------- MODULE Policy -------------------------------
(***************************************************************************)
(* SecurityPolicy (src/src/security.rs): the builder methods that set a    *)
(* policy up, and one call of run: the checks in their order, argument by  *)
(* argument, then the execution, which RunWithTimeout models.              *)
(*                                                                         *)
(* A string is a sequence of fragments: separators, "~", "..", shell       *)
(* metacharacters, and names.                                              *)
(***************************************************************************)
EXTENDS Integers, Sequences

CONSTANTS
    Fragments,
    Slash, Tilde, Dots,  \* "/", "~" and ".."
    Metacharacters,      \* ; & | and the others
    Commands,            \* commands that are asked for
    Arguments,           \* arguments they are given
    MaxArguments,        \* bound: arguments of a call
    WhiteLists,          \* lists of allowed commands, the default one included
    DenyLists,           \* lists of denied strings, the default one included
    Directories,         \* configuration directories
    NotText,             \* a configuration directory that is not UTF-8
    Timeouts,
    Homes,               \* values of $HOME
    DefaultWhiteList, DefaultDenyList, DefaultTimeout,
    None

Elements(list) == {list[i] : i \in DOMAIN list}

Strings == Commands \cup Arguments \cup Directories \cup Homes
           \cup UNION {Elements(list) : list \in DenyLists}

Errors == {"EmptyCommand", "ShellMetacharacter", "CommandNotAllowed",
           "PathTraversal", "DeniedPath"}

ASSUME PolicyAssumption ==
    /\ Strings \subseteq Seq(Fragments)
    /\ {Slash, Tilde, Dots} \cup Metacharacters \subseteq Fragments
    /\ DefaultWhiteList \in WhiteLists
    /\ DefaultDenyList \in DenyLists
    /\ DefaultTimeout \in Timeouts
    /\ {None, NotText} \cap Strings = {}
    /\ None # NotText
    /\ None \notin Errors
    /\ MaxArguments \in Nat
    /\ {Slash, Tilde, Dots} \cap Metacharacters = {}

VARIABLES
    policy,   \* the SecurityPolicy
    home,     \* $HOME, or None
    pc,       \* building, or where validate is
    command, args,
    next,     \* the argument validate looks at
    error     \* what run returns instead of executing

vars == <<policy, home, pc, command, args, next, error>>

Policies == [allowed_commands : WhiteLists,
             denied_paths     : DenyLists,
             exec_timeout     : Timeouts,
             config_dir       : Directories \cup {NotText, None}]

Calls == UNION {[1..n -> Arguments] : n \in 0..MaxArguments}

TypeOK ==
    /\ policy \in Policies
    /\ home \in Homes \cup {None}
    /\ pc \in {"build", "command", "args", "execute", "rejected"}
    /\ command \in Commands \cup {None}
    /\ args \in Seq(Arguments)
    /\ next \in 1..Len(args) + 1
    /\ error \in Errors \cup {None}
    /\ pc = "rejected" <=> error # None

\* SecurityPolicy::new.
Init ==
    /\ policy = [allowed_commands |-> DefaultWhiteList,
                 denied_paths     |-> DefaultDenyList,
                 exec_timeout     |-> DefaultTimeout,
                 config_dir       |-> None]
    /\ home \in Homes \cup {None}
    /\ pc = "build"
    /\ command = None
    /\ args = <<>>
    /\ next = 1
    /\ error = None

-----------------------------------------------------------------------------
(* Strings.                                                                *)

StartsWith(s, t) == Len(t) <= Len(s) /\ SubSeq(s, 1, Len(t)) = t

\* str::contains.
Contains(s, t) ==
    \E i \in 0..(Len(s) - Len(t)) : \A j \in 1..Len(t) : s[i + j] = t[j]

Has(s, fragments) == \E i \in DOMAIN s : s[i] \in fragments

contains_shell_metacharacter(s) == Has(s, Metacharacters)

\* Path::file_name: the last component, without separators after it; the
\* command itself if there is no name.
file_name(s) ==
    LET IsName(i, j) == /\ i <= j
                        /\ \A k \in i..j : s[k] # Slash
                        /\ i = 1 \/ s[i - 1] = Slash
                        /\ \A k \in (j + 1)..Len(s) : s[k] = Slash
        ends == {ij \in (DOMAIN s) \X (DOMAIN s) : IsName(ij[1], ij[2])}
        names == {SubSeq(s, ij[1], ij[2]) : ij \in ends} \ {<<Dots>>}
    IN  IF names = {} THEN s ELSE CHOOSE t \in names : TRUE

is_command_allowed(c) == c # <<>> /\ file_name(c) \in Elements(policy.allowed_commands)

\* Mutant: $HOME is not put in the place of "~".
MatchesLiterally(arg, denied, h) == Contains(arg, denied)

arg_matches_denied(arg, denied, h) ==
    \/ Contains(arg, denied)
    \/ /\ StartsWith(denied, <<Tilde>>)
       /\ \/ h # None /\ Contains(arg, h \o Tail(denied))
          \/ StartsWith(Tail(denied), <<Slash>>) /\ Contains(arg, Tail(denied))

\* A configuration directory that is not UTF-8 is passed over.
Denied ==
    Elements(policy.denied_paths) \cup ({policy.config_dir} \ {NotText, None})

Matches(arg) == \E d \in Denied : arg_matches_denied(arg, d, home)

-----------------------------------------------------------------------------
(* The builder methods.                                                    *)

Set(field, values) ==
    /\ pc = "build"
    /\ \E v \in values : policy' = [policy EXCEPT ![field] = v]
    /\ UNCHANGED <<home, pc, command, args, next, error>>

with_allowed_commands == Set("allowed_commands", WhiteLists)
with_denied_paths == Set("denied_paths", DenyLists)
with_timeout == Set("exec_timeout", Timeouts)
with_config_dir == Set("config_dir", Directories \cup {NotText})

-----------------------------------------------------------------------------
(* run: validate, then execute.                                            *)

Run ==
    /\ pc = "build"
    /\ pc' = "command"
    /\ command' \in Commands
    /\ args' \in Calls
    /\ UNCHANGED <<policy, home, next, error>>

\* Mutant: a return is missing.
Note(e) ==
    /\ error' = e
    /\ UNCHANGED <<policy, home, pc, command, args, next>>

Reject(e) ==
    /\ pc' = "rejected"
    /\ error' = e
    /\ UNCHANGED <<policy, home, command, args, next>>

CheckCommand ==
    /\ pc = "command"
    /\ IF command = <<>> THEN Reject("EmptyCommand")
       ELSE IF contains_shell_metacharacter(command) THEN Reject("ShellMetacharacter")
       ELSE IF ~is_command_allowed(command) THEN Reject("CommandNotAllowed")
       ELSE pc' = "args" /\ UNCHANGED <<policy, home, command, args, next, error>>

\* Mutant: the first argument that passes ends the loop.
PassAll == next' = Len(args) + 1

PassOne == next' = next + 1

CheckArgument ==
    /\ pc = "args"
    /\ next <= Len(args)
    /\ LET arg == args[next]
       IN  IF contains_shell_metacharacter(arg) THEN Reject("ShellMetacharacter")
           ELSE IF Has(arg, {Dots}) THEN Reject("PathTraversal")
           ELSE IF Matches(arg) THEN Reject("DeniedPath")
           ELSE PassOne /\ UNCHANGED <<policy, home, pc, command, args, error>>

\* run_with_timeout(command, args, self.exec_timeout).
Execute ==
    /\ pc = "args"
    /\ next > Len(args)
    /\ pc' = "execute"
    /\ UNCHANGED <<policy, home, command, args, next, error>>

Next ==
    \/ with_allowed_commands
    \/ with_denied_paths
    \/ with_timeout
    \/ with_config_dir
    \/ Run
    \/ CheckCommand
    \/ CheckArgument
    \/ Execute

Spec == Init /\ [][Next]_vars

-----------------------------------------------------------------------------
(* Properties.                                                             *)

\* The matching strategy as the comment of arg_matches_denied states it.
DocumentedMatch(arg, denied, h) ==
    \/ StartsWith(denied, <<Slash>>) /\ StartsWith(arg, denied)
    \/ /\ StartsWith(denied, <<Tilde>>)
       /\ StartsWith(arg, IF h = None THEN denied ELSE h \o Tail(denied))
    \/ /\ ~StartsWith(denied, <<Slash>>) /\ ~StartsWith(denied, <<Tilde>>)
       /\ Contains(arg, denied)

\* The path c ends in the name t, separators after it left aside.
Names(c, t) ==
    \/ c = t
    \/ \E i, j \in DOMAIN c :
          /\ SubSeq(c, i, j) = t
          /\ i > 1 => c[i - 1] = Slash
          /\ \A k \in (j + 1)..Len(c) : c[k] = Slash

\* Whatever is executed has a listed name, and no argument of it, in whichever
\* place, is one that the comments say is denied: a rule that begins with "/"
\* as a prefix, one with "~" with $HOME in its place, another one anywhere.
NothingDeniedRuns ==
    pc = "execute" =>
        /\ ~Has(command, Metacharacters)
        /\ \E t \in Elements(policy.allowed_commands) : Names(command, t)
        /\ \A i \in DOMAIN args :
              /\ ~Has(args[i], Metacharacters \cup {Dots})
              /\ \A d \in Denied : ~DocumentedMatch(args[i], d, home)

\* "if `denied` starts with `/`, we treat it as an absolute prefix match"; "if
\* `denied` starts with `~`, we normalise to $HOME when set, otherwise match
\* the literal string" (security.rs): nothing else is denied.
OnlyDocumentedDenials ==
    pc = "rejected" /\ error = "DeniedPath" =>
        \E d \in Denied : DocumentedMatch(args[next], d, home)

\* "We only match by basename so an attacker can't ... sneak
\* `/opt/hacker/echo` past the whitelist" (security.rs): what runs is listed as
\* it is called.
OnlyListedCommandsRun ==
    pc = "execute" => command \in Elements(policy.allowed_commands)

-----------------------------------------------------------------------------
(* Why they hold.                                                          *)

\* What validate objects to in a command and in an argument.
CommandIsFine(c) == ~Has(c, Metacharacters) /\ is_command_allowed(c)
Offending(arg) == Has(arg, Metacharacters \cup {Dots}) \/ Matches(arg)

\* What has been checked stays true: nothing changes the policy any more.
CheckedInv ==
    /\ pc \in {"args", "execute"} => CommandIsFine(command)
    /\ \A i \in 1..(next - 1) : ~Offending(args[i])
    /\ pc \in {"build", "command"} => next = 1
    /\ pc = "execute" => next > Len(args)

IInv == TypeOK /\ CheckedInv
=============================================================================
