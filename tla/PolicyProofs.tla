---------------------------- MODULE PolicyProofs ----------------------------
(***************************************************************************)
(* Theorems about Policy: for every policy, call and value of $HOME.       *)
(***************************************************************************)
EXTENDS Policy, TLAPS

USE PolicyAssumption

-----------------------------------------------------------------------------
(* The checks.                                                             *)

LEMMA InitInvariant == Init => IInv
<1> SUFFICES ASSUME Init PROVE IInv
    OBVIOUS
<1>1. TypeOK
    BY DEF Init, TypeOK, Policies, PolicyAssumption
<1>2. CheckedInv
    BY DEF Init, CheckedInv
<1> QED BY <1>1, <1>2 DEF IInv

\* The two ways to write down what validate objects to agree.
LEMMA OffendingIs ==
    ASSUME TypeOK, NEW arg
    PROVE  Offending(arg) <=> \/ contains_shell_metacharacter(arg)
                              \/ Has(arg, {Dots})
                              \/ Matches(arg)
BY DEF Offending, Has, contains_shell_metacharacter

LEMMA CallType == \A c \in Calls : c \in Seq(Arguments)
<1> SUFFICES ASSUME NEW n \in 0..MaxArguments, NEW c \in [1..n -> Arguments]
             PROVE  c \in Seq(Arguments)
    BY DEF Calls
<1>1. n \in Nat
    BY DEF PolicyAssumption
<1> QED BY <1>1

\* Before validate has passed an argument there is none to be offending.
LEMMA BuildStep ==
    ASSUME IInv, NEW field \in DOMAIN policy, NEW values, Set(field, values),
           policy' \in Policies
    PROVE  IInv'
<1>1. TypeOK'
    BY DEF IInv, TypeOK, Set
<1>2. CheckedInv'
    BY DEF IInv, TypeOK, CheckedInv, Set
<1> QED BY <1>1, <1>2 DEF IInv

LEMMA RejectStep ==
    ASSUME IInv, pc \in {"command", "args"}, NEW e \in Errors, Reject(e)
    PROVE  IInv'
<1>1. TypeOK'
    BY DEF IInv, TypeOK, Reject, PolicyAssumption
<1>2. /\ \A arg : Offending(arg)' <=> Offending(arg)
      /\ CommandIsFine(command)' <=> CommandIsFine(command)
    BY DEF Offending, Matches, Denied, CommandIsFine, is_command_allowed, Reject
<1>3. CheckedInv'
    BY <1>2 DEF IInv, CheckedInv, Reject
<1> QED BY <1>1, <1>3 DEF IInv

LEMMA StepInvariant == IInv /\ [Next]_vars => IInv'
<1> SUFFICES ASSUME IInv, [Next]_vars PROVE IInv'
    OBVIOUS
<1> USE DEF IInv
<1>1. CASE with_allowed_commands
    <2>1. policy' \in Policies
        BY <1>1 DEF with_allowed_commands, Set, TypeOK, Policies
    <2> QED BY <1>1, <2>1, BuildStep DEF with_allowed_commands, TypeOK, Policies
<1>2. CASE with_denied_paths
    <2>1. policy' \in Policies
        BY <1>2 DEF with_denied_paths, Set, TypeOK, Policies
    <2> QED BY <1>2, <2>1, BuildStep DEF with_denied_paths, TypeOK, Policies
<1>3. CASE with_timeout
    <2>1. policy' \in Policies
        BY <1>3 DEF with_timeout, Set, TypeOK, Policies
    <2> QED BY <1>3, <2>1, BuildStep DEF with_timeout, TypeOK, Policies
<1>4. CASE with_config_dir
    <2>1. policy' \in Policies
        BY <1>4 DEF with_config_dir, Set, TypeOK, Policies
    <2> QED BY <1>4, <2>1, BuildStep DEF with_config_dir, TypeOK, Policies
<1>5. CASE Run
    <2>1. args' \in Seq(Arguments) /\ next = 1
        BY <1>5, CallType DEF Run, CheckedInv
    <2>2. TypeOK'
        BY <1>5, <2>1 DEF Run, TypeOK
    <2>3. CheckedInv'
        BY <1>5, <2>1 DEF Run, TypeOK, CheckedInv
    <2> QED BY <2>2, <2>3
<1>6. CASE CheckCommand
    <2>1. CASE ~CommandIsFine(command) /\ \E e \in Errors : Reject(e)
        BY <1>6, <2>1, RejectStep DEF CheckCommand
    <2>2. CASE /\ CommandIsFine(command)
               /\ pc' = "args"
               /\ UNCHANGED <<policy, home, command, args, next, error>>
        <3>1. TypeOK'
            BY <1>6, <2>2 DEF CheckCommand, TypeOK
        <3>2. /\ \A arg : Offending(arg)' <=> Offending(arg)
              /\ CommandIsFine(command)'
            BY <2>2 DEF Offending, Matches, Denied, CommandIsFine, is_command_allowed
        <3>3. CheckedInv'
            BY <1>6, <2>2, <3>2 DEF CheckCommand, CheckedInv, TypeOK
        <3> QED BY <3>1, <3>3
    <2>3. command = <<>> => ~CommandIsFine(command)
        BY DEF CommandIsFine, is_command_allowed
    <2> QED BY <1>6, <2>1, <2>2, <2>3
            DEF CheckCommand, CommandIsFine, contains_shell_metacharacter, Errors
<1>7. CASE CheckArgument
    <2> DEFINE arg == args[next]
    <2>1. CASE contains_shell_metacharacter(arg)
        BY <1>7, <2>1, RejectStep, OffendingIs DEF CheckArgument, Errors
    <2>2. CASE ~contains_shell_metacharacter(arg) /\ (Has(arg, {Dots}) \/ Matches(arg))
        BY <1>7, <2>2, RejectStep, OffendingIs DEF CheckArgument, Errors
    <2>3. CASE ~(contains_shell_metacharacter(arg) \/ Has(arg, {Dots}) \/ Matches(arg))
        <3>1. PassOne /\ UNCHANGED <<policy, home, pc, command, args, error>>
            BY <1>7, <2>3 DEF CheckArgument
        <3>2. ~Offending(arg)
            BY <2>3, OffendingIs
        <3>3. TypeOK'
            BY <1>7, <3>1 DEF CheckArgument, PassOne, TypeOK
        <3>4. /\ \A a : Offending(a)' <=> Offending(a)
              /\ CommandIsFine(command)' <=> CommandIsFine(command)
            BY <3>1 DEF Offending, Matches, Denied, CommandIsFine, is_command_allowed
        <3>5. \A i \in 1..next : ~Offending(args[i])
            BY <3>2 DEF CheckedInv, TypeOK
        <3>6. CheckedInv'
            BY <1>7, <3>1, <3>4, <3>5 DEF CheckArgument, PassOne, CheckedInv, TypeOK
        <3> QED BY <3>3, <3>6
    <2> QED BY <2>1, <2>2, <2>3
<1>8. CASE Execute
    <2>1. TypeOK'
        BY <1>8 DEF Execute, TypeOK
    <2>2. /\ \A a : Offending(a)' <=> Offending(a)
          /\ CommandIsFine(command)' <=> CommandIsFine(command)
        BY <1>8 DEF Execute, Offending, Matches, Denied, CommandIsFine, is_command_allowed
    <2>3. CheckedInv'
        BY <1>8, <2>2 DEF Execute, CheckedInv
    <2> QED BY <2>1, <2>3
<1>9. CASE UNCHANGED vars
    BY <1>9 DEF vars, TypeOK, CheckedInv, Offending, Matches, Denied,
                CommandIsFine, is_command_allowed
<1> QED BY <1>1, <1>2, <1>3, <1>4, <1>5, <1>6, <1>7, <1>8, <1>9 DEF Next

LEMMA Invariant == Spec => []IInv
BY InitInvariant, StepInvariant, PTL DEF Spec

-----------------------------------------------------------------------------
(* The theorems.                                                           *)

\* A call is rejected with an error, or executed, or still being checked.
THEOREM TypeCorrect == Spec => []TypeOK
BY Invariant, PTL DEF IInv

\* What starts with a string contains it.
LEMMA StartIsContained ==
    ASSUME NEW s \in Seq(Fragments), NEW t \in Seq(Fragments), StartsWith(s, t)
    PROVE  Contains(s, t)
<1>1. Len(s) \in Nat /\ Len(t) \in Nat /\ Len(t) <= Len(s) /\ SubSeq(s, 1, Len(t)) = t
    BY DEF StartsWith
<1>2. 0 \in 0..(Len(s) - Len(t))
    BY <1>1
<1>3. \A j \in 1..Len(t) : s[0 + j] = SubSeq(s, 1, Len(t))[j]
    BY <1>1
<1> QED BY <1>1, <1>2, <1>3 DEF Contains

\* The code denies what its comment says it denies.
LEMMA DocumentedIsDenied ==
    ASSUME NEW arg \in Seq(Fragments), NEW denied \in Seq(Fragments), NEW h,
           h # None => h \o Tail(denied) \in Seq(Fragments),
           DocumentedMatch(arg, denied, h)
    PROVE  arg_matches_denied(arg, denied, h)
<1>1. CASE StartsWith(arg, denied)
    BY <1>1, StartIsContained DEF arg_matches_denied
<1>2. CASE StartsWith(denied, <<Tilde>>) /\ h # None /\ StartsWith(arg, h \o Tail(denied))
    BY <1>2, StartIsContained DEF arg_matches_denied
<1>3. CASE Contains(arg, denied)
    BY <1>3 DEF arg_matches_denied
<1> QED BY <1>1, <1>2, <1>3 DEF DocumentedMatch

\* Path::file_name finds a name the path ends in.
LEMMA FileNameNames == \A c : Names(c, file_name(c))
<1> SUFFICES ASSUME NEW c PROVE Names(c, file_name(c))
    OBVIOUS
<1> DEFINE IsName(i, j) == /\ i <= j
                           /\ \A k \in i..j : c[k] # Slash
                           /\ i = 1 \/ c[i - 1] = Slash
                           /\ \A k \in (j + 1)..Len(c) : c[k] = Slash
           ends == {ij \in (DOMAIN c) \X (DOMAIN c) : IsName(ij[1], ij[2])}
           names == {SubSeq(c, ij[1], ij[2]) : ij \in ends} \ {<<Dots>>}
<1>1. file_name(c) = IF names = {} THEN c ELSE CHOOSE t \in names : TRUE
    BY DEF file_name
<1>2. CASE names = {}
    BY <1>1, <1>2 DEF Names
<1>3. CASE names # {}
    <2>1. file_name(c) \in names
        <3> HIDE DEF names
        <3> QED BY <1>1, <1>3
    <2>2. PICK ij \in ends : file_name(c) = SubSeq(c, ij[1], ij[2])
        BY <2>1
    <2>3. ij[1] \in DOMAIN c /\ ij[2] \in DOMAIN c
        BY <2>2
    <2>4. /\ ij[1] > 1 => c[ij[1] - 1] = Slash
          /\ \A k \in (ij[2] + 1)..Len(c) : c[k] = Slash
        BY <2>2
    <2> QED BY <2>2, <2>3, <2>4 DEF Names
<1> QED BY <1>2, <1>3

\* Nothing runs that the comments say is denied, for any rules, arguments and
\* value of $HOME.
THEOREM DeniedStaysOut == Spec => []NothingDeniedRuns
<1>1. ASSUME IInv, pc = "execute"
      PROVE  /\ ~Has(command, Metacharacters)
             /\ \E t \in Elements(policy.allowed_commands) : Names(command, t)
    BY <1>1, FileNameNames DEF IInv, CheckedInv, CommandIsFine, is_command_allowed
<1>2. ASSUME IInv, pc = "execute", NEW i \in DOMAIN args
      PROVE  /\ ~Has(args[i], Metacharacters \cup {Dots})
             /\ \A d \in Denied : ~DocumentedMatch(args[i], d, home)
    <2>1. ~Offending(args[i])
        BY <1>2 DEF IInv, TypeOK, CheckedInv
    <2>2. args[i] \in Strings
        BY <1>2 DEF IInv, TypeOK, Strings
    <2>3. ASSUME NEW d \in Denied
          PROVE  d \in Strings
        <3>1. policy \in Policies
            BY <1>2 DEF IInv, TypeOK
        <3>2. d \in Directories \/ d \in Elements(policy.denied_paths)
            BY <3>1 DEF Denied, Policies
        <3>3. policy.denied_paths \in DenyLists
            BY <3>1 DEF Policies
        <3> QED BY <3>2, <3>3 DEF Strings
    <2>4. home # None => home \in Strings
        BY <1>2 DEF IInv, TypeOK, Strings
    <2>5. ASSUME NEW d \in Denied, DocumentedMatch(args[i], d, home)
          PROVE  FALSE
        <3>1. d \in Seq(Fragments) /\ args[i] \in Seq(Fragments)
            BY <2>2, <2>3 DEF PolicyAssumption
        <3>2. CASE home = None
            <4>1. arg_matches_denied(args[i], d, home)
                BY <2>5, <3>1, <3>2, DocumentedIsDenied
            <4> QED BY <2>1, <4>1 DEF Offending, Matches
        <3>3. CASE home # None /\ d # <<>>
            <4>1. home \o Tail(d) \in Seq(Fragments)
                BY <2>4, <3>1, <3>3 DEF PolicyAssumption
            <4>2. arg_matches_denied(args[i], d, home)
                BY <2>5, <3>1, <4>1, DocumentedIsDenied
            <4> QED BY <2>1, <4>2 DEF Offending, Matches
        <3>4. CASE d = <<>>
            <4>1. Contains(args[i], d)
                BY <3>1, <3>4 DEF Contains
            <4> QED BY <2>1, <4>1 DEF Offending, Matches, arg_matches_denied
        <3> QED BY <3>2, <3>3, <3>4
    <2> QED BY <2>1, <2>5 DEF Offending
<1>3. IInv => NothingDeniedRuns
    BY <1>1, <1>2 DEF NothingDeniedRuns
<1> QED BY Invariant, <1>3, PTL
=============================================================================
