---------------------------- MODULE StartupProofs ---------------------------
(***************************************************************************)
(* Theorems about Startup: for any list of tools, and however often the    *)
(* host changes.                                                           *)
(***************************************************************************)
EXTENDS Startup, TLAPS

USE StartupAssumption

LEMMA InitInvariant == Init => IInv
<1> SUFFICES ASSUME Init PROVE IInv
    OBVIOUS
<1>1. TypeOK
    BY DEF Init, TypeOK, Places, StartupAssumption
<1>2. ProbedInv
    BY DEF Init, ProbedInv, Found
<1> QED BY <1>1, <1>2 DEF IInv

\* A tool that is not listed has not been there all the time.
LEMMA SkipStep ==
    ASSUME IInv, pc = "which", Skip, ~(hasWhich /\ WellKnown[probe] \in installed)
    PROVE  IInv'
<1> USE DEF IInv
<1>1. probe \in Nat /\ probe <= Len(WellKnown) /\ Len(WellKnown) \in Nat
    BY DEF TypeOK, StartupAssumption
<1>2. TypeOK'
    BY <1>1 DEF Skip, TypeOK, inputs, hostVars, Continue, Places
<1>3. ProbedInv'
    <2>1. hasWhich => WellKnown[probe] \notin always
        BY DEF TypeOK
    <2>2. hasWhich => \A i \in 1..probe : WellKnown[i] \in always => WellKnown[i] \in Found
        BY <1>1, <2>1 DEF ProbedInv
    <2> QED BY <1>1, <2>2 DEF Skip, ProbedInv, hostVars, Continue, Found
<1> QED BY <1>2, <1>3

LEMMA PushStep ==
    ASSUME IInv, pc = "version", NEW v \in {"stdout", "stderr", None}, Push(v)
    PROVE  IInv'
<1> USE DEF IInv
<1>1. probe \in Nat /\ probe <= Len(WellKnown) /\ Len(WellKnown) \in Nat
    BY DEF TypeOK, StartupAssumption
<1>2. WellKnown[probe] \in Known
    BY <1>1 DEF StartupAssumption, TypeOK
<1> DEFINE tool == [name |-> WellKnown[probe], version |-> v]
<1>3. /\ tools \in Seq([name : Known, version : {"stdout", "stderr", None}])
      /\ tool \in [name : Known, version : {"stdout", "stderr", None}]
      /\ tools' = Append(tools, tool)
    BY <1>2 DEF TypeOK, Push
<1>4. TypeOK'
    BY <1>1, <1>3 DEF Push, TypeOK, inputs, hostVars, Continue, Places
<1>5. Found' = Found \cup {WellKnown[probe]}
    <2>1. /\ Len(tools) \in Nat
          /\ DOMAIN tools' = 1..Len(tools) + 1
          /\ DOMAIN tools = 1..Len(tools)
          /\ \A i \in DOMAIN tools : tools'[i] = tools[i]
          /\ tools'[Len(tools) + 1] = tool
        BY <1>3
    <2>2. tool.name = WellKnown[probe]
        OBVIOUS
    <2> HIDE DEF tool
    <2> QED BY <2>1, <2>2 DEF Found
<1>6. ProbedInv'
    <2>1. hasWhich => \A i \in 1..probe : WellKnown[i] \in always => WellKnown[i] \in Found'
        BY <1>1, <1>5 DEF ProbedInv
    <2>2. Found' \subseteq ever
        BY <1>5 DEF ProbedInv
    <2>3. UNCHANGED hostVars /\ probe' = probe + 1 /\ pc' = Continue(probe + 1)
        BY DEF Push
    <2> QED BY <1>1, <2>1, <2>2, <2>3 DEF ProbedInv, hostVars, Continue
<1> QED BY <1>4, <1>6

LEMMA StepInvariant == IInv /\ [Next]_vars => IInv'
<1> SUFFICES ASSUME IInv, [Next]_vars PROVE IInv'
    OBVIOUS
<1> USE DEF IInv
<1>1. CASE Parse
    <2>1. Parsed \in [Options -> Origins]
        BY DEF Parsed, Origins
    <2>2. TypeOK'
        BY <1>1, <2>1 DEF Parse, TypeOK, inputs, hostVars, Places
    <2>3. ProbedInv'
        BY <1>1 DEF Parse, ProbedInv, hostVars, Found
    <2> QED BY <2>2, <2>3
<1>2. CASE collect_host_info
    <2>1. probe = 1 /\ Len(WellKnown) \in Nat
        BY <1>2 DEF collect_host_info, ProbedInv, StartupAssumption
    <2>2. TypeOK'
        BY <1>2, <2>1 DEF collect_host_info, TypeOK, inputs, hostVars, Continue, Places
    <2>3. ProbedInv'
        BY <1>2, <2>1 DEF collect_host_info, ProbedInv, hostVars, Continue, Found
    <2> QED BY <2>2, <2>3
<1>3. CASE Which
    <2>1. CASE hasWhich /\ WellKnown[probe] \in installed
        <3>1. TypeOK'
            BY <1>3, <2>1 DEF Which, TypeOK, inputs, hostVars, Places
        <3>2. ProbedInv'
            BY <1>3, <2>1 DEF Which, ProbedInv, hostVars, Found, TypeOK
        <3> QED BY <3>1, <3>2
    <2> QED BY <1>3, <2>1, SkipStep DEF Which, NotFound
<1>4. CASE Version
    BY <1>4, PushStep DEF Version, AnyVersion
<1>5. CASE SpawnTasks
    BY <1>5 DEF SpawnTasks, TypeOK, inputs, hostVars, Places, ProbedInv, Found
<1>6. CASE InstallHandlers
    BY <1>6 DEF InstallHandlers, TypeOK, inputs, hostVars, Places, ProbedInv, Found
<1>7. CASE Signal
    BY <1>7 DEF Signal, TypeOK, inputs, hostVars, Places, ProbedInv, Found
<1>8. CASE HostChanges
    <2>1. /\ always' \subseteq always
          /\ ever \subseteq ever'
          /\ always' \subseteq installed'
          /\ installed' \subseteq ever'
          /\ installed' \subseteq Known
        BY <1>8 DEF HostChanges, TypeOK
    <2>2. TypeOK'
        BY <1>8, <2>1 DEF HostChanges, TypeOK, inputs, StartupAssumption
    <2>3. ProbedInv'
        BY <1>8, <2>1 DEF HostChanges, ProbedInv, Found
    <2> QED BY <2>2, <2>3
<1>9. CASE UNCHANGED vars
    BY <1>9 DEF vars, TypeOK, inputs, hostVars, ProbedInv, Found
<1> QED BY <1>1, <1>2, <1>3, <1>4, <1>5, <1>6, <1>7, <1>8, <1>9 DEF Next, Main

LEMMA Invariant == Spec => []IInv
BY InitInvariant, StepInvariant, PTL DEF Spec

\* The configuration, the probes and the list of tools stay in their types.
THEOREM TypeCorrect == Spec => []TypeOK
BY Invariant, PTL DEF IInv

\* The tools that stay are found, for any list of tools and any changes.
THEOREM ToolsAreListed == Spec => []StableToolsAreListed
<1>1. IInv => StableToolsAreListed
    <2> SUFFICES ASSUME IInv, pc \in {"handlers", "running"}, hasWhich, NEW t \in always
                 PROVE  t \in Found
        BY DEF StableToolsAreListed, IInv, ProbedInv
    <2>1. t \in Known /\ Len(WellKnown) \in Nat /\ probe \in Nat
        BY DEF IInv, TypeOK, StartupAssumption
    <2>2. PICK i \in DOMAIN WellKnown : t = WellKnown[i]
        BY <2>1 DEF Known
    <2>3. i \in 1..(probe - 1)
        BY <2>1, <2>2 DEF IInv, ProbedInv, StartupAssumption
    <2> QED BY <2>2, <2>3 DEF IInv, ProbedInv
<1> QED BY Invariant, <1>1, PTL

-----------------------------------------------------------------------------
(* What discovery lists.                                                   *)

\* A tool that is listed is the one that is probed, and is new.
LEMMA PushListsOnce ==
    ASSUME TypeOK, ListedInv, pc = "version", NEW v \in {"stdout", "stderr", None}, Push(v)
    PROVE  ListedInv'
<1>1. probe \in Nat \ {0} /\ probe <= Len(WellKnown) /\ Len(WellKnown) \in Nat
    BY DEF TypeOK, StartupAssumption
<1> DEFINE tool == [name |-> WellKnown[probe], version |-> v]
<1>2. WellKnown[probe] \in Known
    BY <1>1 DEF StartupAssumption
<1>3. /\ tools \in Seq([name : Known, version : {"stdout", "stderr", None}])
      /\ tool \in [name : Known, version : {"stdout", "stderr", None}]
      /\ tools' = Append(tools, tool)
      /\ probe' = probe + 1
    BY <1>2 DEF TypeOK, Push
<1>4. /\ Len(tools) \in Nat
      /\ DOMAIN tools' = 1..Len(tools) + 1
      /\ DOMAIN tools = 1..Len(tools)
      /\ \A i \in DOMAIN tools : tools'[i] = tools[i]
      /\ tools'[Len(tools) + 1] = tool
    BY <1>3
<1>5. tool.name = WellKnown[probe]
    OBVIOUS
<1> HIDE DEF tool
<1>6. \A i \in DOMAIN tools : tools[i].name # WellKnown[probe]
    BY <1>1 DEF ListedInv, StartupAssumption
<1>7. ToolsAreListedOnce'
    BY <1>4, <1>5, <1>6 DEF ListedInv, ToolsAreListedOnce
<1>8. \A i \in DOMAIN tools' : \E k \in 1..probe : tools'[i].name = WellKnown[k]
    BY <1>1, <1>4, <1>5 DEF ListedInv
<1> QED BY <1>1, <1>3, <1>7, <1>8 DEF ListedInv

\* No tool is listed twice, for any list of different tools.
THEOREM ListedOnce == Spec => []ToolsAreListedOnce
<1>1. Init => ListedInv
    BY DEF Init, ListedInv, ToolsAreListedOnce
<1>2. ASSUME IInv, ListedInv, [Next]_vars
      PROVE  ListedInv'
    <2> USE <1>2 DEF IInv
    <2>1. CASE Version
        BY <2>1, PushListsOnce DEF Version, AnyVersion
    <2>2. CASE UNCHANGED tools /\ probe' \in {probe, probe + 1}
        <3>1. probe \in Nat
            BY DEF TypeOK, StartupAssumption
        <3>2. ASSUME NEW k \in 1..(probe - 1)
              PROVE  k \in 1..(probe' - 1)
            <4>1. CASE probe' = probe
                BY <4>1
            <4>2. CASE probe' = probe + 1
                BY <3>1, <4>2
            <4> QED BY <2>2, <4>1, <4>2
        <3> QED BY <2>2, <3>2 DEF ListedInv, ToolsAreListedOnce
    <2> QED
        BY <2>1, <2>2 DEF Next, Main, Parse, collect_host_info, Which, NotFound, Skip,
           SpawnTasks, InstallHandlers, Signal, HostChanges, vars
<1>3. ListedInv => ToolsAreListedOnce
    BY DEF ListedInv
<1> QED BY Invariant, <1>1, <1>2, <1>3, PTL DEF Spec

\* main takes a bounded number of steps, whatever happens to the host.
THEOREM BoundedStart == Spec => StartIsBounded
<1>1. ASSUME IInv, [Next]_vars
      PROVE  UNCHANGED <<pc, probe, tools>> \/ (0 <= StepsLeft' /\ StepsLeft' < StepsLeft)
    <2> USE <1>1 DEF IInv, StepsLeft, PlaceRank
    <2>0. Len(WellKnown) \in Nat /\ probe \in 1..Len(WellKnown) + 1
        BY DEF TypeOK, StartupAssumption
    <2>1. CASE Parse
        BY <2>0, <2>1 DEF Parse
    <2>2. CASE collect_host_info
        BY <2>0, <2>2 DEF collect_host_info, Continue
    <2>3. CASE Which
        <3>1. PlaceRank = 3 /\ probe <= Len(WellKnown)
            BY <2>3 DEF Which, TypeOK
        <3>2. \/ probe' = probe /\ PlaceRank' = 2
              \/ probe' = probe + 1 /\ PlaceRank' \in {2, 3}
            BY <2>3 DEF Which, NotFound, Skip, Continue
        <3> HIDE DEF PlaceRank
        <3> QED BY <2>0, <3>1, <3>2
    <2>4. CASE Version
        <3>1. PlaceRank = 2 /\ probe <= Len(WellKnown)
            BY <2>4 DEF Version, TypeOK
        <3>2. probe' = probe + 1 /\ PlaceRank' \in {2, 3}
            BY <2>4 DEF Version, AnyVersion, Push, Continue
        <3> HIDE DEF PlaceRank
        <3> QED BY <2>0, <3>1, <3>2
    <2>5. CASE SpawnTasks \/ InstallHandlers \/ Signal
        BY <2>0, <2>5 DEF SpawnTasks, InstallHandlers, Signal, Starting, Places
    <2>6. CASE HostChanges \/ UNCHANGED vars
        BY <2>6 DEF HostChanges, vars
    <2> QED BY <2>1, <2>2, <2>3, <2>4, <2>5, <2>6 DEF Next, Main
<1>2. IInv /\ [Next]_vars =>
        UNCHANGED <<pc, probe, tools>> \/ (0 <= StepsLeft' /\ StepsLeft' < StepsLeft)
    BY <1>1
<1> QED BY Invariant, <1>2, PTL DEF Spec, StartIsBounded
=============================================================================
