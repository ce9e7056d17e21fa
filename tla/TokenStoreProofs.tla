-------------------------- MODULE TokenStoreProofs --------------------------
(***************************************************************************)
(* What holds of TokenStore for any set of clients and tokens.  Everything *)
(* follows from the inductive invariant IInv of TokenStore.                *)
(***************************************************************************)
EXTENDS TokenStore, TLAPS

LEMMA LoadedToken ==
    ASSUME NEW f \in Tokens
    PROVE  Loaded(f) = f
BY TokenStoreAssumption DEF Loaded

\* The first state satisfies the inductive invariant.
LEMMA InitInvariant == Init => IInv
<1> SUFFICES ASSUME Init PROVE IInv
    OBVIOUS
<1> USE TokenStoreAssumption DEF Init
<1>1. TypeOK
    BY DEF TypeOK, Loaded, Offers, Results, Places
<1>2. MutualExclusion
    BY DEF MutualExclusion, Critical, Writing
<1>3. \A c \in Clients : HolderInv(c)
    BY DEF HolderInv, Critical, Writing
<1>4. PersistedTokenIsWhole
    BY DEF PersistedTokenIsWhole
<1> QED
    BY <1>1, <1>2, <1>3, <1>4 DEF IInv

\* A call starts outside the mutex and touches neither memory nor disk.
LEMMA CallKeepsInvariant ==
    ASSUME IInv, NEW c \in Clients, NEW t \in Offers, CallMaybeRotate(c, t)
    PROVE  IInv'
<1> USE TokenStoreAssumption DEF IInv, CallMaybeRotate, Return, GoTo, disk
<1>1. TypeOK'
    BY DEF TypeOK, Results, Places
<1>2. MutualExclusion'
    BY DEF MutualExclusion, Critical, Writing, TypeOK
<1>3. ASSUME NEW d \in Clients PROVE HolderInv(d)'
    BY <1>3 DEF HolderInv, Critical, Writing, TypeOK
<1>4. PersistedTokenIsWhole'
    BY DEF PersistedTokenIsWhole
<1> QED
    BY <1>1, <1>2, <1>3, <1>4

\* current() is read under the mutex and nothing is changed.
LEMMA CompareKeepsInvariant ==
    ASSUME IInv, NEW c \in Clients, CompareCurrent(c)
    PROVE  IInv'
<1> USE TokenStoreAssumption DEF IInv, CompareCurrent, Return, GoTo, disk
<1>1. TypeOK'
    BY DEF TypeOK, Offers, Results, Places
<1>2. MutualExclusion'
    BY DEF MutualExclusion, Critical, Writing, TypeOK
<1>3. ASSUME NEW d \in Clients PROVE HolderInv(d)'
    BY <1>3 DEF HolderInv, Critical, Writing, TypeOK
<1>4. PersistedTokenIsWhole'
    BY DEF PersistedTokenIsWhole
<1> QED
    BY <1>1, <1>2, <1>3, <1>4

\* Only a well-formed token goes on to rotate.
LEMMA ValidateKeepsInvariant ==
    ASSUME IInv, NEW c \in Clients, ValidateTokenFormat(c)
    PROVE  IInv'
<1> USE TokenStoreAssumption DEF IInv, ValidateTokenFormat, Return, GoTo, disk
<1>1. TypeOK'
    BY DEF TypeOK, Offers, Results, Places
<1>2. MutualExclusion'
    BY DEF MutualExclusion, Critical, Writing, TypeOK
<1>3. ASSUME NEW d \in Clients PROVE HolderInv(d)'
    BY <1>3 DEF HolderInv, Critical, Writing, TypeOK
<1>4. PersistedTokenIsWhole'
    BY DEF PersistedTokenIsWhole
<1> QED
    BY <1>1, <1>2, <1>3, <1>4

\* The mutex was free, so no other client is in the critical section.
LEMMA InstallKeepsInvariant ==
    ASSUME IInv, NEW c \in Clients, Install(c)
    PROVE  IInv'
<1> USE TokenStoreAssumption DEF IInv, Install, GoTo, disk
<1>1. TypeOK'
    BY DEF TypeOK, Places, Critical, Writing, HolderInv
<1>2. MutualExclusion'
    BY DEF MutualExclusion, Critical, Writing, TypeOK
<1>3. ASSUME NEW d \in Clients PROVE HolderInv(d)'
    BY <1>3 DEF HolderInv, MutualExclusion, Writing
<1>4. PersistedTokenIsWhole'
    BY DEF PersistedTokenIsWhole
<1> QED
    BY <1>1, <1>2, <1>3, <1>4

\* Truncating path.tmp disturbs only the client that holds the mutex.
LEMMA CreateKeepsInvariant ==
    ASSUME IInv, NEW c \in Clients, CreateTmp(c)
    PROVE  IInv'
<1> USE TokenStoreAssumption DEF IInv, CreateTmp, GoTo, disk
<1>1. TypeOK'
    BY DEF TypeOK, Places, Critical, Writing
<1>2. MutualExclusion'
    BY DEF MutualExclusion, Critical, Writing
<1>3. ASSUME NEW d \in Clients PROVE HolderInv(d)'
    BY <1>3 DEF HolderInv, MutualExclusion, Critical, Writing
<1>4. PersistedTokenIsWhole'
    BY DEF PersistedTokenIsWhole
<1> QED
    BY <1>1, <1>2, <1>3, <1>4

\* path.tmp becomes the token of the client that holds the mutex.
LEMMA WriteKeepsInvariant ==
    ASSUME IInv, NEW c \in Clients, WriteTmp(c)
    PROVE  IInv'
<1> USE TokenStoreAssumption DEF IInv, WriteTmp, GoTo, disk
<1>1. TypeOK'
    BY DEF TypeOK, Places, Critical, Writing, HolderInv
<1>2. MutualExclusion'
    BY DEF MutualExclusion, Critical, Writing
<1>3. ASSUME NEW d \in Clients PROVE HolderInv(d)'
    BY <1>3 DEF HolderInv, Critical, Writing
<1>4. PersistedTokenIsWhole'
    BY DEF PersistedTokenIsWhole
<1> QED
    BY <1>1, <1>2, <1>3, <1>4

\* sync_all leaves contents alone.
LEMMA SyncKeepsInvariant ==
    ASSUME IInv, NEW c \in Clients, SyncTmp(c)
    PROVE  IInv'
<1> USE TokenStoreAssumption DEF IInv, SyncTmp, GoTo, disk
<1>1. TypeOK'
    BY DEF TypeOK, Places, Critical, Writing
<1>2. MutualExclusion'
    BY DEF MutualExclusion, Critical, Writing
<1>3. ASSUME NEW d \in Clients PROVE HolderInv(d)'
    BY <1>3 DEF HolderInv, Critical, Writing
<1>4. PersistedTokenIsWhole'
    BY DEF PersistedTokenIsWhole
<1> QED
    BY <1>1, <1>2, <1>3, <1>4

\* What the rename publishes is whole and synced.
LEMMA RenameKeepsInvariant ==
    ASSUME IInv, NEW c \in Clients, RenameTmp(c)
    PROVE  IInv'
<1> USE TokenStoreAssumption DEF IInv, RenameTmp, GoTo, disk
<1>1. TypeOK'
    BY DEF TypeOK, Places, Critical
<1>2. MutualExclusion'
    BY DEF MutualExclusion, Critical, Writing
<1>3. ASSUME NEW d \in Clients PROVE HolderInv(d)'
    BY <1>3 DEF HolderInv, MutualExclusion, Critical, Writing, TypeOK
<1>4. PersistedTokenIsWhole'
    BY DEF PersistedTokenIsWhole, HolderInv, Critical, Writing
<1> QED
    BY <1>1, <1>2, <1>3, <1>4

\* An early error return releases the mutex.
LEMMA FsErrorKeepsInvariant ==
    ASSUME IInv, NEW c \in Clients, FsError(c)
    PROVE  IInv'
<1> USE TokenStoreAssumption DEF IInv, FsError, Return, GoTo, disk
<1>1. TypeOK'
    BY DEF TypeOK, Offers, Results, Places
<1>2. MutualExclusion'
    BY DEF MutualExclusion, Critical, Writing, TypeOK
<1>3. ASSUME NEW d \in Clients PROVE HolderInv(d)'
    BY <1>3 DEF HolderInv, Critical, Writing, TypeOK
<1>4. PersistedTokenIsWhole'
    BY DEF PersistedTokenIsWhole
<1> QED
    BY <1>1, <1>2, <1>3, <1>4

\* The normal return releases the mutex.
LEMMA ReturnKeepsInvariant ==
    ASSUME IInv, NEW c \in Clients, ReturnRotated(c)
    PROVE  IInv'
<1> USE TokenStoreAssumption DEF IInv, ReturnRotated, Return, GoTo, disk
<1>1. TypeOK'
    BY DEF TypeOK, Offers, Results, Places
<1>2. MutualExclusion'
    BY DEF MutualExclusion, Critical, Writing, TypeOK
<1>3. ASSUME NEW d \in Clients PROVE HolderInv(d)'
    BY <1>3 DEF HolderInv, Critical, Writing, TypeOK
<1>4. PersistedTokenIsWhole'
    BY DEF PersistedTokenIsWhole
<1> QED
    BY <1>1, <1>2, <1>3, <1>4

\* A restarted process loads a whole token and holds nothing.
LEMMA CrashKeepsInvariant ==
    ASSUME IInv, CrashRestart
    PROVE  IInv'
<1> USE TokenStoreAssumption DEF IInv, CrashRestart, Start, disk
<1>1. TypeOK'
    BY DEF TypeOK, Loaded, Offers, Results, Places, PersistedTokenIsWhole
<1>2. MutualExclusion'
    BY DEF MutualExclusion, Critical, Writing
<1>3. ASSUME NEW d \in Clients PROVE HolderInv(d)'
    BY <1>3 DEF HolderInv, Critical, Writing
<1>4. PersistedTokenIsWhole'
    BY DEF PersistedTokenIsWhole
<1> QED
    BY <1>1, <1>2, <1>3, <1>4

\* Every content the file may have after a power loss is whole.
LEMMA PowerLossKeepsInvariant ==
    ASSUME IInv, PowerLoss
    PROVE  IInv'
<1> USE TokenStoreAssumption DEF IInv, PowerLoss, Start, disk
<1>1. TypeOK'
    BY DEF TypeOK, Loaded, Offers, Results, Places, PersistedTokenIsWhole
<1>2. MutualExclusion'
    BY DEF MutualExclusion, Critical, Writing
<1>3. ASSUME NEW d \in Clients PROVE HolderInv(d)'
    BY <1>3 DEF HolderInv, Critical, Writing
<1>4. PersistedTokenIsWhole'
    BY DEF PersistedTokenIsWhole
<1> QED
    BY <1>1, <1>2, <1>3, <1>4

LEMMA StutterKeepsInvariant ==
    ASSUME IInv, UNCHANGED vars
    PROVE  IInv'
BY DEF IInv, vars, TypeOK, MutualExclusion, HolderInv, PersistedTokenIsWhole

\* Every behaviour of the store satisfies the inductive invariant.
THEOREM Invariant == Spec => []IInv
<1>1. ASSUME IInv, [Next]_vars
      PROVE  IInv'
  <2>1. ASSUME NEW c \in Clients, NEW t \in Offers, CallMaybeRotate(c, t)
        PROVE  IInv'
    BY <1>1, <2>1, CallKeepsInvariant
  <2>2. ASSUME NEW c \in Clients, Step(c)
        PROVE  IInv'
    BY <1>1, <2>2, CompareKeepsInvariant, ValidateKeepsInvariant,
       InstallKeepsInvariant, CreateKeepsInvariant, WriteKeepsInvariant,
       SyncKeepsInvariant, RenameKeepsInvariant, FsErrorKeepsInvariant,
       ReturnKeepsInvariant DEF Step
  <2>3. CASE CrashRestart
    BY <1>1, <2>3, CrashKeepsInvariant
  <2>4. CASE PowerLoss
    BY <1>1, <2>4, PowerLossKeepsInvariant
  <2>5. CASE UNCHANGED vars
    BY <1>1, <2>5, StutterKeepsInvariant
  <2> QED
    BY <1>1, <2>1, <2>2, <2>3, <2>4, <2>5 DEF Next
<1> QED
    BY InitInvariant, <1>1, PTL DEF Spec

\* Every variable of the store stays in its type.
THEOREM TypeCorrect == Spec => []TypeOK
<1>1. IInv => TypeOK
    BY DEF IInv
<1> QED
    BY Invariant, <1>1, PTL

\* Whatever fails and whenever the process or the host stops, the token file
\* is absent or whole.
THEOREM TokenFileIsWhole == Spec => []PersistedTokenIsWhole
<1>1. IInv => PersistedTokenIsWhole
    BY DEF IInv
<1> QED
    BY Invariant, <1>1, PTL

\* The file only ever changes to the token in memory: no writer that was
\* overtaken puts an older token over a newer one.
THEOREM FileFollowsMemory == Spec => DiskFollowsMemory
<1>1. ASSUME IInv, [Next]_vars
      PROVE  [file' # file => Loaded(file') = token']_vars
  <2> SUFFICES ASSUME Next, file' # file
               PROVE  Loaded(file') = token'
    BY <1>1
  <2>1. ASSUME NEW c \in Clients, RenameTmp(c)
        PROVE  Loaded(file') = token'
    <3>1. file' = offer[c] /\ token' = offer[c] /\ offer[c] \in Tokens
      BY <1>1, <2>1 DEF RenameTmp, IInv, HolderInv, Critical, Writing
    <3> QED
      BY <3>1, LoadedToken
  <2>2. CASE PowerLoss
    BY <2>2 DEF PowerLoss, Start
  <2>3. ASSUME NEW c \in Clients, Step(c), ~RenameTmp(c)
        PROVE  FALSE
    BY <2>3 DEF Step, CompareCurrent, ValidateTokenFormat, Install, CreateTmp,
       WriteTmp, SyncTmp, FsError, ReturnRotated, disk
  <2>4. ~CrashRestart
    BY DEF CrashRestart, disk
  <2>5. ~ \E c \in Clients : \E t \in Offers : CallMaybeRotate(c, t)
    BY DEF CallMaybeRotate, disk
  <2> QED
    BY <2>1, <2>2, <2>3, <2>4, <2>5 DEF Next
<1> QED
  <2>1. []IInv /\ [][Next]_vars => DiskFollowsMemory
    BY <1>1, PTL DEF DiskFollowsMemory
  <2> QED
    BY <2>1, Invariant, PTL DEF Spec

\* With a persist path, a call that returns Ok(true) leaves its token in
\* memory and in the file a restart would load.
THEOREM AckedRotation ==
    ASSUME Persists
    PROVE  Spec => AckedRotationIsDurable
<1> DEFINE Acked(c) ==
        result[c] # "rotated" /\ result'[c] = "rotated"
          => token' = offer[c] /\ Loaded(file') = offer[c]
<1>1. ASSUME IInv, [Next]_vars
      PROVE  [\A c \in Clients : Acked(c)]_vars
  <2> SUFFICES ASSUME Next, NEW c \in Clients,
                      result[c] # "rotated", result'[c] = "rotated"
               PROVE  token' = offer[c] /\ Loaded(file') = offer[c]
    BY <1>1
  <2> USE <1>1 DEF IInv, TypeOK
  <2>1. CASE ReturnRotated(c)
    <3>1. token = offer[c] /\ file = offer[c] /\ offer[c] \in Tokens
      BY <2>1 DEF ReturnRotated, HolderInv, Critical
    <3> QED
      BY <2>1, <3>1, LoadedToken DEF ReturnRotated, disk
  <2>2. ASSUME NEW d \in Clients, Step(d), ~(d = c /\ ReturnRotated(c))
        PROVE  FALSE
    BY <2>2 DEF Step, CompareCurrent, ValidateTokenFormat, Install, CreateTmp,
       WriteTmp, SyncTmp, RenameTmp, FsError, ReturnRotated, Return
  <2>3. ASSUME NEW d \in Clients, NEW t \in Offers, CallMaybeRotate(d, t)
        PROVE  FALSE
    BY <2>3 DEF CallMaybeRotate, Return
  <2>4. ~CrashRestart /\ ~PowerLoss
    BY DEF CrashRestart, PowerLoss, Start
  <2> QED
    BY <2>1, <2>2, <2>3, <2>4 DEF Next
<1> QED
  <2>1. []IInv /\ [][Next]_vars => AckedRotationIsDurable
    BY <1>1, PTL DEF AckedRotationIsDurable
  <2> QED
    BY <2>1, Invariant, PTL DEF Spec

\* The store implements the durable token register: each step is a step of
\* DurableToken on memory, the file and its survivors, or leaves them alone.
THEOREM Refinement == Spec => ImplementsDurableToken
<1>1. Init => Register!Init
    BY DEF Init, Register!Init, Loaded, Register!Loaded,
       TokenStoreAssumption
<1>2. ASSUME IInv, [Next]_vars
      PROVE  [Register!Next]_(Register!vars)
  <2> USE <1>2, TokenStoreAssumption DEF IInv, TypeOK, Register!vars, disk
  <2>1. ASSUME NEW c \in Clients, NEW t \in Offers, CallMaybeRotate(c, t)
        PROVE  UNCHANGED Register!vars
    BY <2>1 DEF CallMaybeRotate
  <2>2. ASSUME NEW c \in Clients, Step(c)
        PROVE  [Register!Next]_(Register!vars)
    <3>1. CASE Install(c)
      <4>1. Register!Install(offer[c])
        BY <3>1 DEF Install, Register!Install
      <4>2. offer[c] \in Tokens
        BY <3>1 DEF Install, HolderInv
      <4> QED
        BY <4>1, <4>2 DEF Register!Next
    <3>2. CASE RenameTmp(c)
      <4>1. lock = c /\ tmp = token /\ tmpSynced
        BY <3>2 DEF RenameTmp, HolderInv, MutualExclusion, Critical, Writing
      <4>2. Register!Publish
        BY <3>2, <4>1 DEF RenameTmp, Register!Publish
      <4> QED
        BY <4>2 DEF Register!Next
    <3>3. CASE FsError(c) \/ ReturnRotated(c)
      <4>1. lock = c
        BY <3>3 DEF FsError, ReturnRotated, MutualExclusion, Critical
      <4>2. Register!Release
        BY <3>3, <4>1 DEF FsError, ReturnRotated, Register!Release
      <4> QED
        BY <4>2 DEF Register!Next
    <3>4. CASE \/ CompareCurrent(c) \/ ValidateTokenFormat(c)
               \/ CreateTmp(c) \/ WriteTmp(c) \/ SyncTmp(c)
      BY <3>4 DEF CompareCurrent, ValidateTokenFormat, CreateTmp, WriteTmp,
         SyncTmp
    <3> QED
      BY <2>2, <3>1, <3>2, <3>3, <3>4 DEF Step
  <2>3. CASE CrashRestart
    <3>1. Register!Restart
      BY <2>3 DEF CrashRestart, Start, Register!Restart, Loaded,
         Register!Loaded
    <3> QED
      BY <3>1 DEF Register!Next
  <2>4. CASE PowerLoss
    <3>1. Register!HostRestart
      BY <2>4 DEF PowerLoss, Start, Register!HostRestart, Loaded,
         Register!Loaded
    <3> QED
      BY <3>1 DEF Register!Next
  <2>5. CASE UNCHANGED vars
    BY <2>5 DEF vars
  <2> QED
    BY <2>1, <2>2, <2>3, <2>4, <2>5 DEF Next
<1> QED
    BY <1>1, <1>2, Invariant, PTL DEF Spec, ImplementsDurableToken, Register!Spec

-----------------------------------------------------------------------------
(* The mutex.                                                              *)

\* A locked mutex has a holder, who is in the critical section, and nobody
\* else is: no return leaves it locked.
THEOREM OneHolder == Spec => []MutualExclusion
<1>1. IInv => MutualExclusion
    BY DEF IInv
<1> QED
    BY Invariant, <1>1, PTL

\* The holder is never more than five steps of its own away from the release,
\* the steps that fail included, and nobody touches what it guards meanwhile.
THEOREM BoundedHolding == Spec => CriticalSectionIsBounded
<1> DEFINE GetsOn(c) ==
        lock = c /\ lock' = c
          => \/ StepsToRelease(c)' < StepsToRelease(c)
             \/ UNCHANGED <<pc[c], offer[c], token, disk>>
<1>1. ASSUME IInv, [Next]_vars
      PROVE  [\A c \in Clients : GetsOn(c)]_vars
  <2> SUFFICES ASSUME Next, NEW c \in Clients, lock = c, lock' = c
               PROVE  \/ StepsToRelease(c)' < StepsToRelease(c)
                      \/ UNCHANGED <<pc[c], offer[c], token, disk>>
    BY <1>1
  <2> USE <1>1, TokenStoreAssumption DEF IInv, TypeOK
  <2>0. lock # None /\ pc[c] \in Critical
    BY DEF MutualExclusion
  <2>1. CASE CreateTmp(c) \/ WriteTmp(c) \/ SyncTmp(c) \/ RenameTmp(c)
    BY <2>1 DEF CreateTmp, WriteTmp, SyncTmp, RenameTmp, GoTo, StepsToRelease
  <2>2. ASSUME NEW d \in Clients, d # c, Step(d)
        PROVE  UNCHANGED <<pc[c], offer[c], token, disk>>
    <3>1. pc[d] \notin Critical
      BY <2>2 DEF MutualExclusion
    <3> QED
      BY <2>0, <2>2, <3>1 DEF Step, CompareCurrent, ValidateTokenFormat, Install,
         CreateTmp, WriteTmp, SyncTmp, RenameTmp, FsError, ReturnRotated,
         Return, GoTo, Critical, Writing
  <2>3. ASSUME NEW d \in Clients, NEW t \in Offers, CallMaybeRotate(d, t)
        PROVE  UNCHANGED <<pc[c], offer[c], token, disk>>
    BY <2>0, <2>3 DEF CallMaybeRotate, Return, GoTo, Critical, Writing
  <2>4. ~FsError(c) /\ ~ReturnRotated(c) /\ ~CrashRestart /\ ~PowerLoss
    BY <2>0 DEF FsError, ReturnRotated, CrashRestart, PowerLoss, Start
  <2>5. ~CompareCurrent(c) /\ ~ValidateTokenFormat(c) /\ ~Install(c)
    BY <2>0 DEF CompareCurrent, ValidateTokenFormat, Install, Critical, Writing
  <2> QED
    BY <2>1, <2>2, <2>3, <2>4, <2>5 DEF Next, Step
<1> QED
  <2>1. []IInv /\ [][Next]_vars => CriticalSectionIsBounded
    BY <1>1, PTL DEF CriticalSectionIsBounded
  <2> QED
    BY <2>1, Invariant, PTL DEF Spec

-----------------------------------------------------------------------------
(* The comparison with the current token.                                  *)

\* Memory changes only by an installation or a start.
LEMMA OnlyInstallChangesMemory ==
    ASSUME Next, token' # token
    PROVE  (\E c \in Clients : Install(c)) \/ Start
BY DEF Next, CallMaybeRotate, Step, CompareCurrent, ValidateTokenFormat,
   CreateTmp, WriteTmp, SyncTmp, RenameTmp, FsError, ReturnRotated,
   CrashRestart, PowerLoss

\* A client goes to "validate" only by its comparison, and keeps its offer
\* until it returns.
LEMMA OnlyCompareValidates ==
    ASSUME TypeOK, Next, NEW c \in Clients, pc'[c] = "validate"
    PROVE  \/ CompareCurrent(c) /\ offer[c] # token /\ offer'[c] = offer[c]
           \/ pc[c] = "validate" /\ offer'[c] = offer[c]
<1> USE DEF TypeOK
<1>1. ASSUME NEW d \in Clients, Step(d)
      PROVE  \/ CompareCurrent(c) /\ offer[c] # token /\ offer'[c] = offer[c]
             \/ pc[c] = "validate" /\ offer'[c] = offer[c]
    BY <1>1 DEF Step, CompareCurrent, ValidateTokenFormat, Install, CreateTmp,
       WriteTmp, SyncTmp, RenameTmp, FsError, ReturnRotated, Return, GoTo
<1>2. ASSUME NEW d \in Clients, NEW t \in Offers, CallMaybeRotate(d, t)
      PROVE  pc[c] = "validate" /\ offer'[c] = offer[c]
    BY <1>2 DEF CallMaybeRotate, Return, GoTo
<1>3. ~CrashRestart /\ ~PowerLoss
    BY DEF CrashRestart, PowerLoss, Start
<1> QED
    BY <1>1, <1>2, <1>3 DEF Next

\* A token rejected for its format is not the one in use.
THEOREM InvalidIsNotInUse == Spec => InvalidTokenIsNotInUse
<1> USE TokenStoreAssumption
<1>1. Init => ComparedInv
    BY DEF Init, ComparedInv
<1>2. ASSUME IInv, ComparedInv, [Next]_vars
      PROVE  ComparedInv'
  <2>1. CASE UNCHANGED vars
    BY <1>2, <2>1 DEF vars, ComparedInv
  <2>2. ASSUME Next, NEW c \in Clients, pc'[c] = "validate", offer'[c] \notin Tokens
        PROVE  offer'[c] # token'
    <3>1. ~Start
      BY <2>2 DEF Start
    <3>2. offer'[c] = offer[c] /\ offer[c] # token
      BY <1>2, <2>2, OnlyCompareValidates DEF IInv, ComparedInv
    <3>3. token' = token \/ token' \in Tokens
      BY <1>2, <2>2, <3>1, OnlyInstallChangesMemory DEF IInv, HolderInv, Install
    <3> QED
      BY <2>2, <3>2, <3>3
  <2> QED
    BY <1>2, <2>1, <2>2 DEF ComparedInv
<1>3. ASSUME IInv, ComparedInv, [Next]_vars
      PROVE  [\A c \in Clients :
                result[c] # "invalid" /\ result'[c] = "invalid" => token' # offer[c]]_vars
  <2> SUFFICES ASSUME Next, NEW c \in Clients,
                      result[c] # "invalid", result'[c] = "invalid"
               PROVE  token' # offer[c]
    BY <1>3
  <2> USE <1>3 DEF IInv, TypeOK
  <2>1. CASE ValidateTokenFormat(c)
    BY <2>1 DEF ValidateTokenFormat, Return, ComparedInv
  <2>2. ASSUME NEW d \in Clients, Step(d), ~(d = c /\ ValidateTokenFormat(c))
        PROVE  FALSE
    BY <2>2 DEF Step, CompareCurrent, ValidateTokenFormat, Install, CreateTmp,
       WriteTmp, SyncTmp, RenameTmp, FsError, ReturnRotated, Return
  <2>3. ASSUME NEW d \in Clients, NEW t \in Offers, CallMaybeRotate(d, t)
        PROVE  FALSE
    BY <2>3 DEF CallMaybeRotate, Return
  <2>4. ~CrashRestart /\ ~PowerLoss
    BY DEF CrashRestart, PowerLoss, Start
  <2> QED
    BY <2>1, <2>2, <2>3, <2>4 DEF Next
<1> QED
  <2>1. []IInv /\ Init /\ [][Next]_vars => InvalidTokenIsNotInUse
    BY <1>1, <1>2, <1>3, PTL DEF InvalidTokenIsNotInUse
  <2> QED
    BY <2>1, Invariant, PTL DEF Spec

\* A store with one holder, as the agent's is, never installs the token that
\* is already current; token_noop's trace needs two.
THEOREM OneHolderSkipsNoops ==
    ASSUME \A c, d \in Clients : c = d
    PROVE  Spec => NoopRotationsAreSkipped
<1> USE TokenStoreAssumption
<1>1. Init => UnequalInv
    BY DEF Init, UnequalInv
<1>2. ASSUME IInv, UnequalInv, [Next]_vars
      PROVE  UnequalInv'
  <2> USE <1>2 DEF IInv, TypeOK, UnequalInv
  <2>1. ASSUME NEW c \in Clients, Step(c)
        PROVE  UnequalInv'
    BY <2>1 DEF Step, CompareCurrent, ValidateTokenFormat, Install, CreateTmp,
       WriteTmp, SyncTmp, RenameTmp, FsError, ReturnRotated, Return, GoTo
  <2>2. ASSUME NEW c \in Clients, NEW t \in Offers, CallMaybeRotate(c, t)
        PROVE  UnequalInv'
    BY <2>2 DEF CallMaybeRotate, Return, GoTo
  <2>3. CASE CrashRestart \/ PowerLoss
    BY <2>3 DEF CrashRestart, PowerLoss, Start
  <2>4. CASE UNCHANGED vars
    BY <2>4 DEF vars
  <2> QED
    BY <2>1, <2>2, <2>3, <2>4 DEF Next
<1>3. ASSUME IInv, UnequalInv, [Next]_vars
      PROVE  [\A c \in Clients : lock # c /\ lock' = c => token # offer[c]]_vars
  <2> SUFFICES ASSUME Next, NEW c \in Clients, lock # c, lock' = c
               PROVE  token # offer[c]
    BY <1>3
  <2>1. Install(c)
    BY DEF Next, CallMaybeRotate, Step, CompareCurrent, ValidateTokenFormat,
       Install, CreateTmp, WriteTmp, SyncTmp, RenameTmp, FsError,
       ReturnRotated, CrashRestart, PowerLoss, Start
  <2> QED
    BY <1>3, <2>1 DEF Install, UnequalInv
<1> QED
  <2>1. []IInv /\ Init /\ [][Next]_vars => NoopRotationsAreSkipped
    BY <1>1, <1>2, <1>3, PTL DEF NoopRotationsAreSkipped
  <2> QED
    BY <2>1, Invariant, PTL DEF Spec
=============================================================================
