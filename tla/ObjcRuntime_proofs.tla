-------------------------- MODULE ObjcRuntime_proofs --------------------------
(***************************************************************************)
(* Proofs about the load lifecycle, for any number of threads, any class   *)
(* hierarchy, every set of options and every payload.                      *)
(*                                                                         *)
(* The hook registry's own theorems carry over: the runtime touches the    *)
(* registry only through the registry's operations.                        *)
(***************************************************************************)
EXTENDS ObjcRuntime, ObjcMethod_proofs

\* The actions of thread t, in one list.
Acts(t) ==
  \/ ResetCall(t)
  \/ \E r \in LoadRequest : LoadCall(t, r)
  \/ UnlockedError(t) \/ LoadLock(t) \/ Validate(t) \/ CheckPolicy(t) \/ LoadData(t)
  \/ Accept(t) \/ RejectHookErrors(t) \/ HandlerReenters(t)
  \/ \E m \in Target : EntryHook(t, m)
  \/ \E b \in Block : EntryCreateBlock(t, b)
  \/ \E m \in Method : EntryReenters(t, m)
  \/ EntryReturns(t) \/ EntryTraps(t)
  \/ ResetLock(t) \/ ResetRuntime(t) \/ ClearHook(t) \/ ClearHooksDone(t) \/ ClearBlocks(t)
  \/ \E m \in Method : CallHooked(t, m)
  \/ \E b \in Block : InvokeBlock(t, b)
  \/ FetchRuntime(t)
  \/ \E m \in Target : RunHooks(t, m)
  \/ RunReturns(t)

LEMMA NextActs == Next => \E t \in Thread : Acts(t)
  BY DEF Next, LoadStep, EntryStep, EntryEnds, ResetStep, CallStep, Acts

-------------------------------------------------------------------------------
(* The runtime implements the registry.                                      *)

LEMMA ActsMethod ==
  ASSUME NEW t \in Thread, Acts(t)
  PROVE  [MethodNext]_methodVars
  <1>1. CASE \E m \in Target : EntryHook(t, m) \/ RunHooks(t, m)
    BY <1>1 DEF EntryHook, RunHooks, MethodNext
  <1>2. CASE LoadData(t)
    BY <1>2 DEF LoadData, MethodNext
  <1>3. CASE ResetRuntime(t) \/ ClearHook(t) \/ ClearHooksDone(t)
    BY <1>3 DEF ResetRuntime, ClearHook, ClearHooksDone, MethodNext, ClearSteps
  <1>4. CASE UNCHANGED methodVars
    BY <1>4
  <1>5. CASE \/ ResetCall(t) \/ UnlockedError(t) \/ LoadLock(t) \/ Validate(t) \/ CheckPolicy(t)
             \/ \E r \in LoadRequest : LoadCall(t, r)
             \/ Accept(t) \/ RejectHookErrors(t) \/ HandlerReenters(t)
    BY <1>4, <1>5 DEF ResetCall, UnlockedError, LoadLock, Validate, CheckPolicy, LoadCall,
         Accept, RejectHookErrors, HandlerReenters
  <1>6. CASE \/ \E b \in Block : EntryCreateBlock(t, b) \/ InvokeBlock(t, b)
             \/ \E m \in Method : EntryReenters(t, m) \/ CallHooked(t, m)
             \/ EntryReturns(t) \/ EntryTraps(t) \/ ResetLock(t) \/ ClearBlocks(t)
             \/ FetchRuntime(t) \/ RunReturns(t)
    BY <1>4, <1>6 DEF EntryCreateBlock, InvokeBlock, EntryReenters, CallHooked, EntryReturns,
         EntryTraps, ResetLock, ClearBlocks, FetchRuntime, RunReturns
  <1> QED BY <1>1, <1>2, <1>3, <1>5, <1>6 DEF Acts

LEMMA StepMethod == [Next]_vars => [MethodNext]_methodVars
  <1>1. ASSUME Next PROVE [MethodNext]_methodVars
    BY <1>1, NextActs, ActsMethod
  <1>2. CASE UNCHANGED vars
    BY <1>2 DEF vars
  <1> QED BY <1>1, <1>2

\* Whatever loads, resets and calls interleave, the hook registry inside the
\* runtime behaves as the registry's own specification says.
THEOREM RuntimeImplementsMethod == Spec => MethodSpec
  <1>1. Init => MethodInit
    BY DEF Init
  <1> QED BY <1>1, StepMethod, PTL DEF Spec, MethodSpec

\* No load, failed load, reset or call leaks a closure or frees one twice.
THEOREM RuntimeLeaksNoClosure == Spec => []ClosuresOwned
  BY RuntimeImplementsMethod, NoClosureLeaks, PTL

-------------------------------------------------------------------------------
(* Types.                                                                    *)

HostTypeOK ==
  /\ owner \in Thread \cup {NoThread}
  /\ runtime \in {"null", "empty", "noEntry", "entry"}
  /\ loaded \in BOOLEAN
  /\ lastError \in Errors
  /\ block \in [Block -> {"unused", "live", "freed"}]
  /\ pc \in [Thread -> Locked \cup {"idle", "unlocked", "loadWait", "resetWait", "failed",
                                    "trampoline", "running"}]
  /\ request \in [Thread -> LoadRequest \cup {ResetRequest, NoRequest}]
  /\ callee \in [Thread -> Closure \cup Block \cup {NoClosure}]
  /\ ref \in [Thread -> {"none", "live", "freed"}]
  /\ active \in BOOLEAN
  /\ missed \in BOOLEAN

LEMMA TypeSplit == RuntimeTypeOK <=> TypeOK /\ HostTypeOK
  BY DEF RuntimeTypeOK, HostTypeOK

LEMMA HostTypeActs ==
  ASSUME HostTypeOK, NEW t \in Thread, Acts(t)
  PROVE  HostTypeOK'
  <1> USE DEF HostTypeOK, Locked, Errors
  <1>1. CASE ResetCall(t) \/ UnlockedError(t) \/ LoadLock(t)
    BY <1>1 DEF ResetCall, UnlockedError, LoadLock, Goto
  <1>2. ASSUME NEW r \in LoadRequest, LoadCall(t, r) PROVE HostTypeOK'
    BY <1>2 DEF LoadCall, Goto, LoadRequest, PayloadKind
  <1>3. CASE Validate(t)
    BY <1>3 DEF Validate, Goto, Fail, SetError, Return
  <1>11. CASE CheckPolicy(t)
    BY <1>11 DEF CheckPolicy, Goto, Fail, SetError, Return
  <1>4. CASE LoadData(t)
    BY <1>4 DEF LoadData, Goto, Fail, SetError, Return, Ensured
  <1>5. CASE Accept(t) \/ RejectHookErrors(t) \/ HandlerReenters(t) \/ EntryReturns(t) \/ EntryTraps(t)
    <2>1. CASE Accept(t)
      BY <2>1 DEF Accept, Goto, Return
    <2>2. CASE RejectHookErrors(t)
      BY <2>2 DEF RejectHookErrors, Goto, Fail, SetError, Return
    <2>3. CASE HandlerReenters(t) \/ EntryReturns(t)
      BY <2>3 DEF HandlerReenters, EntryReturns, Goto
    <2>4. CASE EntryTraps(t)
      BY <2>4 DEF EntryTraps, Goto, Fail, SetError, Return
    <2> QED BY <1>5, <2>1, <2>2, <2>3, <2>4
  <1>6. ASSUME NEW m \in Target, EntryHook(t, m) \/ RunHooks(t, m) PROVE HostTypeOK'
    BY <1>6 DEF EntryHook, RunHooks, hostVars
  <1>7. ASSUME NEW b \in Block, EntryCreateBlock(t, b) \/ InvokeBlock(t, b) PROVE HostTypeOK'
    <2>1. CASE EntryCreateBlock(t, b)
      BY <2>1 DEF EntryCreateBlock, hostVars
    <2>2. CASE InvokeBlock(t, b)
      BY <2>2 DEF InvokeBlock, Goto
    <2> QED BY <1>7, <2>1, <2>2
  <1>8. ASSUME NEW m \in Method, EntryReenters(t, m) \/ CallHooked(t, m) PROVE HostTypeOK'
    <2>1. CASE EntryReenters(t, m)
      BY <2>1 DEF EntryReenters, Goto
    <2>2. CASE CallHooked(t, m)
      BY <2>2 DEF CallHooked, Goto
    <2> QED BY <1>8, <2>1, <2>2
  <1>9. CASE ResetLock(t) \/ ResetRuntime(t) \/ ClearHook(t) \/ ClearHooksDone(t)
    <2>1. CASE ResetLock(t)
      BY <2>1 DEF ResetLock, Goto
    <2>2. CASE ResetRuntime(t)
      <3>1. ref' \in [Thread -> {"none", "live", "freed"}]
        BY <2>2 DEF ResetRuntime
      <3>2. pc' = [pc EXCEPT ![t] = "clearHooks"]
        BY <2>2 DEF ResetRuntime, Goto
      <3>3. /\ runtime' = "null" /\ loaded' = FALSE /\ lastError' = "none" /\ active' = FALSE
            /\ UNCHANGED <<owner, block, request, callee, missed>>
        BY <2>2 DEF ResetRuntime, Forget
      <3> QED BY <3>1, <3>2, <3>3
    <2>3. CASE ClearHook(t)
      BY <2>3 DEF ClearHook, hostVars
    <2>4. CASE ClearHooksDone(t)
      BY <2>4 DEF ClearHooksDone, Goto
    <2> QED BY <1>9, <2>1, <2>2, <2>3, <2>4
  <1>12. CASE ClearBlocks(t)
    BY <1>12 DEF ClearBlocks, Goto, Return
  <1>10. CASE FetchRuntime(t) \/ RunReturns(t)
    <2>1. CASE FetchRuntime(t)
      BY <2>1 DEF FetchRuntime, Goto, Ensured
    <2>2. CASE RunReturns(t)
      BY <2>2 DEF RunReturns, Goto
    <2> QED BY <1>10, <2>1, <2>2
  <1> QED BY <1>1, <1>2, <1>3, <1>4, <1>5, <1>6, <1>7, <1>8, <1>9, <1>10, <1>11, <1>12 DEF Acts

LEMMA HostTypeInit == Init => HostTypeOK
  BY DEF Init, HostTypeOK, Errors, Locked

LEMMA HostTypeStep == HostTypeOK /\ [Next]_vars => HostTypeOK'
  <1>1. ASSUME HostTypeOK, Next PROVE HostTypeOK'
    BY <1>1, NextActs, HostTypeActs
  <1>2. ASSUME HostTypeOK, UNCHANGED vars PROVE HostTypeOK'
    BY <1>2 DEF HostTypeOK, vars, hostVars
  <1> QED BY <1>1, <1>2

\* The runtime and its registry never leave their types.
THEOREM RuntimeTypeCorrect == Spec => []RuntimeTypeOK
  <1>1. Spec => []HostTypeOK
    BY HostTypeInit, HostTypeStep, PTL DEF Spec
  <1>2. Spec => []TypeOK
    BY RuntimeImplementsMethod, TypeCorrect, PTL
  <1> QED BY <1>1, <1>2, TypeSplit, PTL

-------------------------------------------------------------------------------
(* The mutex.                                                                *)

\* A thread that moves moves alone.
LEMMA GotoMoves ==
  ASSUME HostTypeOK, NEW t \in Thread, NEW from, NEW to, Goto(t, from, to)
  PROVE  pc[t] = from /\ pc'[t] = to /\ \A u \in Thread : u # t => pc'[u] = pc[u]
  BY DEF HostTypeOK, Goto

LEMMA ReturnMoves ==
  ASSUME HostTypeOK, NEW t \in Thread, NEW from, NEW succeeded \in BOOLEAN,
         Return(t, from, succeeded)
  PROVE  /\ pc[t] = from /\ pc'[t] \in {"idle", "failed"}
         /\ \A u \in Thread : u # t => pc'[u] = pc[u]
         /\ owner' = NoThread /\ missed' = FALSE
  BY DEF HostTypeOK, Goto, Return

LEMMA LockReturn ==
  ASSUME HostTypeOK, LockExcludes, NEW t \in Thread, NEW from \in Locked,
         NEW succeeded \in BOOLEAN, Return(t, from, succeeded)
  PROVE  LockExcludes'
  <1>1. /\ pc[t] = from /\ pc'[t] \notin Locked /\ owner' = NoThread
        /\ \A u \in Thread : u # t => pc'[u] = pc[u]
    BY ReturnMoves DEF Locked
  <1>2. \A u \in Thread : u # t => pc[u] \notin Locked
    BY <1>1 DEF LockExcludes
  <1> QED BY <1>1, <1>2, RuntimeAssumption DEF LockExcludes

LEMMA LockMove ==
  ASSUME HostTypeOK, LockExcludes, NEW t \in Thread, NEW from \in Locked, NEW to \in Locked,
         Goto(t, from, to), UNCHANGED owner
  PROVE  LockExcludes'
  BY GotoMoves DEF LockExcludes

LEMMA LockActs ==
  ASSUME HostTypeOK, LockExcludes, NEW t \in Thread, Acts(t)
  PROVE  LockExcludes'
  <1> USE RuntimeAssumption DEF HostTypeOK, LockExcludes, Locked
  <1>1. CASE ResetCall(t) \/ UnlockedError(t) \/ \E r \in LoadRequest : LoadCall(t, r)
    BY <1>1 DEF ResetCall, UnlockedError, LoadCall, Goto
  <1>2. CASE LoadLock(t) \/ ResetLock(t)
    BY <1>2 DEF LoadLock, ResetLock, Goto
  <1>3. CASE Validate(t)
    BY <1>3, LockReturn, LockMove DEF Validate, Fail
  <1>4. CASE CheckPolicy(t)
    BY <1>4, LockReturn, LockMove DEF CheckPolicy, Fail
  <1>5. CASE LoadData(t)
    BY <1>5, LockReturn, LockMove DEF LoadData, Fail
  <1>6. CASE Accept(t) \/ RejectHookErrors(t) \/ EntryTraps(t)
    BY <1>6, LockReturn DEF Accept, RejectHookErrors, EntryTraps, Fail
  <1>7. CASE \/ HandlerReenters(t) \/ EntryReturns(t) \/ ResetRuntime(t) \/ ClearHooksDone(t)
             \/ \E m \in Method : EntryReenters(t, m)
    BY <1>7 DEF HandlerReenters, EntryReturns, ResetRuntime, ClearHooksDone, EntryReenters, Goto
  <1>8. CASE ClearBlocks(t)
    BY <1>8, LockReturn, LockMove DEF ClearBlocks
  <1>9. CASE \/ ClearHook(t) \/ \E m \in Target : EntryHook(t, m) \/ RunHooks(t, m)
             \/ \E b \in Block : EntryCreateBlock(t, b)
    BY <1>9 DEF ClearHook, EntryHook, RunHooks, EntryCreateBlock, hostVars
  <1>10. CASE \/ FetchRuntime(t) \/ RunReturns(t) \/ \E b \in Block : InvokeBlock(t, b)
              \/ \E m \in Method : CallHooked(t, m)
    BY <1>10 DEF FetchRuntime, RunReturns, InvokeBlock, CallHooked, Goto
  <1> QED BY <1>1, <1>2, <1>3, <1>4, <1>5, <1>6, <1>7, <1>8, <1>9, <1>10 DEF Acts

LEMMA LockStep == HostTypeOK /\ LockExcludes /\ [Next]_vars => LockExcludes'
  <1>1. ASSUME HostTypeOK, LockExcludes, Next PROVE LockExcludes'
    BY <1>1, NextActs, LockActs
  <1>2. ASSUME LockExcludes, UNCHANGED vars PROVE LockExcludes'
    BY <1>2 DEF LockExcludes, vars, hostVars
  <1> QED BY <1>1, <1>2

LEMMA LockInit == Init => LockExcludes
  BY RuntimeAssumption DEF Init, LockExcludes, Locked

\* Loads and resets exclude each other: whoever is between its lock_guard and
\* its return holds _mutex, and nobody else is there.
THEOREM LoadsExclude == Spec => []LockExcludes
  <1>1. Spec => []HostTypeOK
    BY HostTypeInit, HostTypeStep, PTL DEF Spec
  <1> QED BY <1>1, LockInit, LockStep, PTL DEF Spec

-------------------------------------------------------------------------------
(* What "loaded" means.                                                      *)

\* From the call of entry() to the verdict the interpreter has an entry(): the
\* mutex keeps every reset out.
EntryLoaded ==
  \A t \in Thread : pc[t] \in {"entry", "verdict", "blocked"} => runtime = "entry"

\* Steps that leave the interpreter and the acceptance alone, and move no thread
\* into entry().
LEMMA LoadedKept ==
  ASSUME EntryLoaded, LoadedIsActive, UNCHANGED <<runtime, active>>, loaded' \in {loaded, FALSE},
         \A u \in Thread : pc'[u] \in {"entry", "verdict", "blocked"} => pc'[u] = pc[u]
  PROVE  EntryLoaded' /\ LoadedIsActive'
  <1>1. EntryLoaded'
    BY DEF EntryLoaded
  <1>2. LoadedIsActive'
    BY Zenon DEF LoadedIsActive
  <1> QED BY <1>1, <1>2

LEMMA LoadedActs ==
  ASSUME HostTypeOK, LockExcludes, EntryLoaded, LoadedIsActive, NEW t \in Thread, Acts(t)
  PROVE  EntryLoaded' /\ LoadedIsActive'
  <1> USE DEF HostTypeOK, EntryLoaded, LoadedIsActive
  <1>1. CASE ResetCall(t) \/ UnlockedError(t) \/ \E r \in LoadRequest : LoadCall(t, r)
    BY <1>1 DEF ResetCall, UnlockedError, LoadCall, Goto
  <1>2. CASE LoadLock(t) \/ ResetLock(t)
    BY <1>2 DEF LoadLock, ResetLock, Goto
  <1>3. CASE Validate(t)
    <2>1. /\ UNCHANGED <<runtime, active>> /\ loaded' \in {loaded, FALSE}
      BY <1>3 DEF Validate, Fail, SetError
    <2>2. \A u \in Thread : pc'[u] \in {"entry", "verdict", "blocked"} => pc'[u] = pc[u]
      <3>1. CASE Fail(t, "validate", "already loaded")
        BY <3>1, ReturnMoves DEF Fail
      <3>2. CASE \E to \in {"resetRuntime", "policy"} : Goto(t, "validate", to)
        BY <3>2, GotoMoves
      <3> QED BY <1>3, <3>1, <3>2 DEF Validate
    <2> HIDE DEF HostTypeOK, EntryLoaded, LoadedIsActive
    <2> QED BY <2>1, <2>2, LoadedKept
  <1>4. CASE CheckPolicy(t)
    <2>1. /\ UNCHANGED <<runtime, active>> /\ loaded' \in {loaded, FALSE}
      BY <1>4 DEF CheckPolicy, Fail, SetError
    <2>2. \A u \in Thread : pc'[u] \in {"entry", "verdict", "blocked"} => pc'[u] = pc[u]
      <3>1. CASE Fail(t, "policy", "policy")
        BY <3>1, ReturnMoves DEF Fail
      <3>2. CASE Goto(t, "policy", "loadData")
        BY <3>2, GotoMoves
      <3> QED BY <1>4, <3>1, <3>2 DEF CheckPolicy
    <2> HIDE DEF HostTypeOK, EntryLoaded, LoadedIsActive
    <2> QED BY <2>1, <2>2, LoadedKept
  <1>5. CASE LoadData(t)
    <2>0. \/ \E e \in Errors : Fail(t, "loadData", e)
          \/ Goto(t, "loadData", "entry") /\ runtime' = "entry"
      BY <1>5 DEF LoadData, Errors
    <2>1. pc[t] = "loadData" /\ \A u \in Thread : u # t => pc'[u] = pc[u]
      <3>1. CASE \E e \in Errors : Fail(t, "loadData", e)
        BY <3>1, ReturnMoves DEF Fail
      <3>2. CASE Goto(t, "loadData", "entry")
        BY <3>2, GotoMoves
      <3> QED BY <2>0, <3>1, <3>2
    <2>2. \A u \in Thread : u # t => pc'[u] \notin {"entry", "verdict", "blocked"}
      <3>1. \A u \in Thread : u # t => pc[u] \notin Locked
        BY <2>1, RuntimeAssumption DEF LockExcludes, Locked
      <3> QED BY <2>1, <3>1 DEF Locked
    <2>3. CASE runtime' = "entry"
      <3>1. active' = active /\ loaded' \in {loaded, FALSE}
        BY <1>5 DEF LoadData, Fail, SetError
      <3>2. LoadedIsActive'
        BY <2>3, <3>1, Zenon
      <3> QED BY <2>3, <3>2
    <2>4. ASSUME NEW e \in Errors, Fail(t, "loadData", e) PROVE EntryLoaded' /\ LoadedIsActive'
      <3>1. loaded' = FALSE
        BY <2>4 DEF Fail, SetError
      <3>2. pc'[t] \in {"idle", "failed"}
        BY <2>4, ReturnMoves DEF Fail
      <3>3. EntryLoaded'
        BY <2>2, <3>2
      <3>4. LoadedIsActive'
        BY <3>1, Zenon
      <3> QED BY <3>3, <3>4
    <2> QED BY <2>0, <2>3, <2>4
  <1>6. CASE Accept(t) \/ RejectHookErrors(t) \/ EntryTraps(t)
    <2>1. CASE Accept(t)
      <3>1. pc[t] = "verdict" /\ runtime' = runtime /\ active' = TRUE
        BY <2>1 DEF Accept, Accepts
      <3>2. \A u \in Thread : pc'[u] \in {"entry", "verdict", "blocked"} => pc'[u] = pc[u]
        BY <2>1, ReturnMoves DEF Accept
      <3> QED BY <3>1, <3>2
    <2>2. CASE RejectHookErrors(t) \/ EntryTraps(t)
      <3>1. UNCHANGED <<runtime, active>> /\ loaded' = FALSE
        BY <2>2 DEF RejectHookErrors, EntryTraps, Fail, SetError
      <3>2. \A u \in Thread : pc'[u] \in {"entry", "verdict", "blocked"} => pc'[u] = pc[u]
        BY <2>2, ReturnMoves DEF RejectHookErrors, EntryTraps, Fail
      <3> HIDE DEF HostTypeOK, EntryLoaded, LoadedIsActive
      <3> QED BY <3>1, <3>2, LoadedKept
    <2> QED BY <1>6, <2>1, <2>2
  <1>7. CASE \/ HandlerReenters(t) \/ EntryReturns(t) \/ ClearHooksDone(t)
             \/ \E m \in Method : EntryReenters(t, m)
    BY <1>7 DEF HandlerReenters, EntryReturns, ClearHooksDone, EntryReenters, Goto
  <1>8. CASE ResetRuntime(t)
    <2>1. owner = t /\ \A u \in Thread : u # t => pc[u] \notin Locked
      BY <1>8, RuntimeAssumption DEF ResetRuntime, Goto, LockExcludes, Locked
    <2> QED BY <1>8, <2>1 DEF ResetRuntime, Forget, Goto, Locked
  <1>9. CASE ClearBlocks(t)
    BY <1>9 DEF ClearBlocks, Goto, Return
  <1>10. CASE \/ ClearHook(t) \/ \E m \in Target : EntryHook(t, m) \/ RunHooks(t, m)
              \/ \E b \in Block : EntryCreateBlock(t, b)
    BY <1>10 DEF ClearHook, EntryHook, RunHooks, EntryCreateBlock, hostVars
  <1>11. CASE \/ FetchRuntime(t) \/ RunReturns(t) \/ \E b \in Block : InvokeBlock(t, b)
              \/ \E m \in Method : CallHooked(t, m)
    BY <1>11 DEF FetchRuntime, RunReturns, InvokeBlock, CallHooked, Goto, Ensured
  <1> QED BY <1>1, <1>2, <1>3, <1>4, <1>5, <1>6, <1>7, <1>8, <1>9, <1>10, <1>11 DEF Acts

LEMMA LoadedStep ==
  HostTypeOK /\ LockExcludes /\ EntryLoaded /\ LoadedIsActive /\ [Next]_vars
    => EntryLoaded' /\ LoadedIsActive'
  <1>1. ASSUME HostTypeOK, LockExcludes, EntryLoaded, LoadedIsActive, Next
        PROVE  EntryLoaded' /\ LoadedIsActive'
    BY <1>1, NextActs, LoadedActs
  <1>2. ASSUME EntryLoaded, LoadedIsActive, UNCHANGED vars PROVE EntryLoaded' /\ LoadedIsActive'
    BY <1>2 DEF EntryLoaded, LoadedIsActive, vars, hostVars
  <1> QED BY <1>1, <1>2

LEMMA LoadedInit == Init => EntryLoaded /\ LoadedIsActive
  BY DEF Init, EntryLoaded, LoadedIsActive

\* isLoaded() never says yes of a patch that was reset, or of an interpreter
\* without an entry(), whichever thread asks.
THEOREM LoadedIsTrue == Spec => []LoadedIsActive
  <1>1. Spec => []HostTypeOK
    BY HostTypeInit, HostTypeStep, PTL DEF Spec
  <1> QED BY <1>1, LoadsExclude, LoadedInit, LoadedStep, PTL DEF Spec

-------------------------------------------------------------------------------
(* Errors.                                                                   *)

LEMMA ErrorKept ==
  ASSUME LoadedHasNoError,
         \/ loaded' = FALSE \/ lastError' = "none"
         \/ \E u \in Thread : pc'[u] = "unlocked"
         \/ /\ UNCHANGED <<loaded, lastError>>
            /\ \A u \in Thread : pc[u] = "unlocked" => pc'[u] = "unlocked"
  PROVE  LoadedHasNoError'
  BY DEF LoadedHasNoError

LEMMA ErrorActs ==
  ASSUME HostTypeOK, LoadedHasNoError, NEW t \in Thread, Acts(t)
  PROVE  LoadedHasNoError'
  <1> DEFINE Kept == \A u \in Thread : pc[u] = "unlocked" => pc'[u] = "unlocked"
  <1>1. CASE UnlockedError(t)
    BY <1>1, ErrorKept DEF UnlockedError
  <1>2. ASSUME NEW r \in LoadRequest, LoadCall(t, r) PROVE LoadedHasNoError'
    <2>1. CASE Goto(t, "idle", "unlocked")
      BY <2>1, GotoMoves, ErrorKept
    <2>2. CASE Goto(t, "idle", "loadWait") /\ UNCHANGED <<loaded, lastError>>
      BY <2>2, GotoMoves, ErrorKept
    <2> QED BY <1>2, <2>1, <2>2 DEF LoadCall
  <1>3. CASE \E from \in Locked : \E e \in Errors : Fail(t, from, e)
    BY <1>3, ErrorKept DEF Fail, SetError
  <1>4. CASE Accept(t) \/ ResetRuntime(t)
    BY <1>4, ErrorKept DEF Accept, ResetRuntime, Forget
  <1>5. CASE UNCHANGED <<loaded, lastError, pc>>
    BY <1>5, ErrorKept
  <1>6. CASE /\ UNCHANGED <<loaded, lastError>>
             /\ \E from \in Locked \cup {"idle", "loadWait", "resetWait", "trampoline", "running"} :
                  \E to : Goto(t, from, to)
    BY <1>6, GotoMoves, ErrorKept DEF Locked
  <1>7. CASE Validate(t) \/ CheckPolicy(t)
    BY <1>3, <1>6, <1>7 DEF Validate, CheckPolicy, Locked, Errors
  <1>8. CASE LoadData(t)
    BY <1>3, <1>6, <1>8 DEF LoadData, Locked, Errors
  <1>9. CASE RejectHookErrors(t) \/ EntryTraps(t)
    BY <1>3, <1>9 DEF RejectHookErrors, EntryTraps, Locked, Errors
  <1>10. CASE ResetCall(t)
    BY <1>10, ErrorKept DEF ResetCall, HostTypeOK
  <1>11. CASE ClearBlocks(t)
    BY <1>6, <1>11 DEF ClearBlocks, Return, Locked
  <1>12. CASE ClearHook(t) \/ \E m \in Target : EntryHook(t, m) \/ RunHooks(t, m)
    BY <1>5, <1>12 DEF ClearHook, EntryHook, RunHooks, hostVars
  <1>13. CASE \E b \in Block : EntryCreateBlock(t, b)
    BY <1>5, <1>13 DEF EntryCreateBlock, hostVars
  <1>14. CASE LoadLock(t) \/ HandlerReenters(t) \/ EntryReturns(t) \/ ResetLock(t) \/ ClearHooksDone(t)
    BY <1>6, <1>14 DEF LoadLock, HandlerReenters, EntryReturns, ResetLock, ClearHooksDone, Locked
  <1>15. CASE FetchRuntime(t) \/ RunReturns(t)
    BY <1>6, <1>15 DEF FetchRuntime, RunReturns
  <1>16. CASE \/ \E m \in Method : EntryReenters(t, m) \/ CallHooked(t, m)
              \/ \E b \in Block : InvokeBlock(t, b)
    BY <1>6, <1>16 DEF EntryReenters, CallHooked, InvokeBlock, Locked
  <1> QED BY <1>1, <1>2, <1>4, <1>7, <1>8, <1>9, <1>10, <1>11, <1>12, <1>13, <1>14, <1>15,
             <1>16 DEF Acts

LEMMA ErrorStep == HostTypeOK /\ LoadedHasNoError /\ [Next]_vars => LoadedHasNoError'
  <1>1. ASSUME HostTypeOK, LoadedHasNoError, Next PROVE LoadedHasNoError'
    BY <1>1, NextActs, ErrorActs
  <1>2. ASSUME LoadedHasNoError, UNCHANGED vars PROVE LoadedHasNoError'
    BY <1>2, ErrorKept DEF vars, hostVars
  <1> QED BY <1>1, <1>2

\* lastError() is empty whenever isLoaded() says yes, except between the two
\* halves of a setError that runs without the mutex.
THEOREM LoadedReportsNoError == Spec => []LoadedHasNoError
  <1>1. Spec => []HostTypeOK
    BY HostTypeInit, HostTypeStep, PTL DEF Spec
  <1>2. Init => LoadedHasNoError
    BY DEF Init, LoadedHasNoError
  <1> QED BY <1>1, <1>2, ErrorStep, PTL DEF Spec

-------------------------------------------------------------------------------
(* strictHooks.                                                              *)

\* Until the verdict, a hook that entry() could not install stays counted: only
\* the thread that loads could forget it.
MissedCounted ==
  \A t \in Thread : pc[t] \in {"entry", "verdict"} /\ missed = TRUE => hookErrors > 0

\* A hook that addHook appends without a closure is counted, and no count is lost.
LEMMA AddHookCounts ==
  ASSUME TypeOK, NEW m \in Target, AddHook(m)
  PROVE  /\ hookErrors \in Nat /\ hookErrors' \in {hookErrors, hookErrors + 1}
         /\ hooks'[Len(hooks')].closure = NoClosure => hookErrors' > 0
  <1>1. hookErrors \in Nat /\ hooks \in Seq(Hook)
    BY DEF TypeOK
  <1>2. CASE \E h : Register(h, TRUE)
    BY <1>1, <1>2 DEF Register
  <1>3. CASE HookInstalled(m)
    <2>1. PICK k \in Closure : Register([target |-> m, original |-> Lookup(imp, m), closure |-> k], FALSE)
      BY <1>3 DEF HookInstalled
    <2> DEFINE h == [target |-> m, original |-> Lookup(imp, m), closure |-> k]
    <2>2. hooks' = Append(hooks, h) /\ hookErrors' = hookErrors
      BY <2>1 DEF Register
    <2>3. hooks'[Len(hooks')] = h
      BY <1>1, <2>2
    <2> QED BY <1>1, <2>2, <2>3, ValuesAssumption
  <1> QED BY <1>2, <1>3 DEF AddHook, HookTargetMissing, HookAllocFailed, HookPrepareFailed

LEMMA MissedKept ==
  ASSUME MissedCounted, UNCHANGED <<missed, hookErrors>>,
         \A u \in Thread : pc'[u] \in {"entry", "verdict"} => pc[u] \in {"entry", "verdict"}
  PROVE  MissedCounted'
  BY DEF MissedCounted

LEMMA MissedActs ==
  ASSUME RuntimeTypeOK, LockExcludes, MissedCounted, NEW t \in Thread, Acts(t)
  PROVE  MissedCounted'
  <1>0. HostTypeOK /\ TypeOK
    BY TypeSplit
  <1>1. ASSUME pc[t] \in Locked \ {"entry", "verdict"}
        PROVE  \A u \in Thread : pc[u] \notin {"entry", "verdict"}
    BY <1>1, RuntimeAssumption DEF LockExcludes, Locked
  <1>2. CASE missed' = FALSE
    BY <1>2 DEF MissedCounted
  <1>3. CASE \E from, e : Fail(t, from, e)
    BY <1>0, <1>2, <1>3, ReturnMoves DEF Fail
  <1>4. CASE /\ UNCHANGED <<missed, methodVars>>
             /\ \E from : \E to : Goto(t, from, to) /\ (to = "verdict" => from = "entry") /\ to # "entry"
    <2>1. \A u \in Thread : pc'[u] \in {"entry", "verdict"} => pc[u] \in {"entry", "verdict"}
      BY <1>0, <1>4, GotoMoves
    <2> QED BY <1>4, <2>1, MissedKept DEF methodVars
  <1>5. CASE UNCHANGED <<missed, methodVars, pc>>
    BY <1>5, MissedKept DEF methodVars
  <1>6. CASE Validate(t) \/ CheckPolicy(t)
    BY <1>3, <1>4, <1>6 DEF Validate, CheckPolicy
  <1>7. CASE LoadData(t)
    BY <1>2, <1>3, <1>7 DEF LoadData
  <1>8. CASE Accept(t) \/ RejectHookErrors(t) \/ EntryTraps(t)
    BY <1>2, <1>3, <1>8 DEF Accept, Return, RejectHookErrors, EntryTraps
  <1>9. CASE ClearBlocks(t)
    BY <1>2, <1>4, <1>9 DEF ClearBlocks, Return
  <1>10. CASE ResetRuntime(t) \/ ClearHook(t) \/ ClearHooksDone(t)
    <2>1. \A u \in Thread : pc[u] \notin {"entry", "verdict"}
      BY <1>1, <1>10 DEF ResetRuntime, ClearHook, ClearHooksDone, Goto, Locked
    <2>2. pc' = pc \/ \E from : \E to \in {"clearHooks", "clearBlocks"} : Goto(t, from, to)
      BY <1>10 DEF ResetRuntime, ClearHook, ClearHooksDone, hostVars
    <2>3. \A u \in Thread : pc'[u] \notin {"entry", "verdict"}
      BY <1>0, <2>1, <2>2, GotoMoves
    <2> QED BY <2>3 DEF MissedCounted
  <1>11. ASSUME NEW m \in Target, EntryHook(t, m) PROVE MissedCounted'
    <2>1. AddHook(m) /\ pc' = pc /\ missed' = (missed \/ hooks'[Len(hooks')].closure = NoClosure)
      BY <1>11 DEF EntryHook, hostVars
    <2>2. ASSUME NEW u \in Thread, pc[u] \in {"entry", "verdict"}, missed' = TRUE
          PROVE  hookErrors' > 0
      <3>1. CASE missed = TRUE
        BY <1>0, <2>1, <2>2, <3>1, AddHookCounts DEF MissedCounted
      <3>2. CASE hooks'[Len(hooks')].closure = NoClosure
        BY <1>0, <2>1, <3>2, AddHookCounts
      <3> QED BY <1>0, <2>1, <2>2, <3>1, <3>2 DEF HostTypeOK
    <2> QED BY <2>1, <2>2 DEF MissedCounted
  <1>12. ASSUME NEW m \in Target, RunHooks(t, m) PROVE MissedCounted'
    <2>1. AddHook(m) /\ pc' = pc /\ missed' = missed
      BY <1>12 DEF RunHooks, hostVars
    <2> QED BY <1>0, <2>1, AddHookCounts DEF MissedCounted
  <1>13. CASE \/ LoadLock(t) \/ UnlockedError(t) \/ \E r \in LoadRequest : LoadCall(t, r)
              \/ HandlerReenters(t) \/ EntryReturns(t) \/ ResetLock(t)
    BY <1>4, <1>13 DEF LoadLock, UnlockedError, LoadCall, HandlerReenters, EntryReturns, ResetLock
  <1>14. CASE \/ FetchRuntime(t) \/ RunReturns(t)
              \/ \E m \in Method : EntryReenters(t, m) \/ CallHooked(t, m)
              \/ \E b \in Block : InvokeBlock(t, b)
    BY <1>4, <1>14 DEF FetchRuntime, RunReturns, EntryReenters, CallHooked, InvokeBlock
  <1>15. CASE \E b \in Block : EntryCreateBlock(t, b)
    BY <1>5, <1>15 DEF EntryCreateBlock, hostVars
  <1>16. CASE ResetCall(t)
    <2>1. \A u \in Thread : pc'[u] \in {"entry", "verdict"} => pc[u] \in {"entry", "verdict"}
      BY <1>0, <1>16 DEF ResetCall, HostTypeOK
    <2> QED BY <1>16, <2>1, MissedKept DEF ResetCall, methodVars
  <1> QED BY <1>6, <1>7, <1>8, <1>9, <1>10, <1>11, <1>12, <1>13, <1>14, <1>15, <1>16 DEF Acts

LEMMA MissedStep == RuntimeTypeOK /\ LockExcludes /\ MissedCounted /\ [Next]_vars => MissedCounted'
  <1>1. ASSUME RuntimeTypeOK, LockExcludes, MissedCounted, Next PROVE MissedCounted'
    BY <1>1, NextActs, MissedActs
  <1>2. ASSUME MissedCounted, UNCHANGED vars PROVE MissedCounted'
    BY <1>2, MissedKept DEF vars, hostVars, methodVars
  <1> QED BY <1>1, <1>2

\* The only step from the verdict back to the host that leaves the runtime loaded
\* is the acceptance.
LEMMA VerdictActs ==
  ASSUME HostTypeOK, NEW t \in Thread, Acts(t), NEW u \in Thread,
         pc[u] = "verdict", pc'[u] = "idle", loaded' = TRUE
  PROVE  Accept(u)
  <1>1. CASE pc' = pc
    BY <1>1
  <1>2. CASE \E from, to : Goto(t, from, to) /\ (from # "verdict" \/ to # "idle")
    BY <1>2, GotoMoves
  <1>3. CASE \E from, succeeded : Return(t, from, succeeded) /\ from # "verdict"
    BY <1>3, <1>2 DEF Return
  <1>4. CASE \E from, e : Fail(t, from, e)
    BY <1>4 DEF Fail, SetError
  <1>5. CASE Accept(t)
    <2>1. u = t
      BY <1>5, ReturnMoves DEF Accept
    <2> QED BY <1>5, <2>1
  <1>6. CASE \E from \in {"unlocked", "loadWait", "entry", "resetWait", "resetRuntime",
                        "clearHooks", "trampoline", "running", "idle"} : \E to : Goto(t, from, to)
    BY <1>2, <1>6
  <1>13. CASE UnlockedError(t) \/ LoadLock(t) \/ EntryReturns(t) \/ ResetLock(t)
    BY <1>6, <1>13 DEF UnlockedError, LoadLock, EntryReturns, ResetLock
  <1>14. CASE ResetRuntime(t) \/ ClearHooksDone(t) \/ FetchRuntime(t) \/ RunReturns(t)
    BY <1>6, <1>14 DEF ResetRuntime, ClearHooksDone, FetchRuntime, RunReturns
  <1>15. CASE \E r \in LoadRequest : LoadCall(t, r)
    BY <1>6, <1>15 DEF LoadCall
  <1>16. CASE HandlerReenters(t)
    BY <1>2, <1>16 DEF HandlerReenters
  <1>7. CASE \/ \E m \in Method : EntryReenters(t, m) \/ CallHooked(t, m)
             \/ \E b \in Block : InvokeBlock(t, b)
    BY <1>6, <1>7 DEF EntryReenters, CallHooked, InvokeBlock
  <1>8. CASE \/ ClearHook(t) \/ \E m \in Target : EntryHook(t, m) \/ RunHooks(t, m)
             \/ \E b \in Block : EntryCreateBlock(t, b)
    BY <1>1, <1>8 DEF ClearHook, EntryHook, RunHooks, EntryCreateBlock, hostVars
  <1>9. CASE Validate(t) \/ CheckPolicy(t) \/ LoadData(t)
    BY <1>2, <1>4, <1>9 DEF Validate, CheckPolicy, LoadData
  <1>10. CASE RejectHookErrors(t) \/ EntryTraps(t)
    BY <1>4, <1>10 DEF RejectHookErrors, EntryTraps
  <1>11. CASE ClearBlocks(t)
    BY <1>2, <1>3, <1>11 DEF ClearBlocks
  <1>12. CASE ResetCall(t)
    BY <1>12 DEF ResetCall, HostTypeOK
  <1> QED BY <1>5, <1>7, <1>8, <1>9, <1>10, <1>11, <1>12, <1>13, <1>14, <1>15, <1>16 DEF Acts

\* A load with strictHooks is never accepted when its entry() asked for a hook
\* that could not be installed.
THEOREM StrictLoadsAreWhole == Spec => StrictAcceptsAll
  <1>1. ASSUME RuntimeTypeOK, RuntimeTypeOK', MissedCounted, Next PROVE AcceptedWhole
    <2> SUFFICES ASSUME NEW u \in Thread, pc[u] = "verdict", pc'[u] = "idle", Strict(u), loaded' = TRUE
                 PROVE  missed = FALSE
      BY <1>1 DEF RuntimeTypeOK, AcceptedWhole
    <2>1. Accept(u)
      BY <1>1, NextActs, VerdictActs, TypeSplit
    <2>2. ~(hookErrors > 0)
      BY <2>1 DEF Accept, Accepts
    <2> QED BY <1>1, <2>2 DEF MissedCounted, RuntimeTypeOK
  <1>2. RuntimeTypeOK /\ RuntimeTypeOK' /\ MissedCounted /\ [Next]_vars => [AcceptedWhole]_vars
    BY <1>1
  <1>3. Init => MissedCounted
    BY DEF Init, MissedCounted
  <1>4. Spec => [](RuntimeTypeOK /\ MissedCounted)
    BY <1>3, MissedStep, RuntimeTypeCorrect, LoadsExclude, PTL DEF Spec
  <1> QED BY <1>2, <1>4, PTL DEF Spec, StrictAcceptsAll

-------------------------------------------------------------------------------
(* What a running thread is inside of.                                       *)

LEMMA AddHookKeepsLive ==
  ASSUME TypeOK, NEW m \in Target, AddHook(m), NEW k \in Closure, closure[k] = "live"
  PROVE  closure'[k] = "live"
  BY DEF TypeOK, AddHook, HookTargetMissing, HookAllocFailed, HookPrepareFailed, HookInstalled

Resetting == {"resetRuntime", "clearHooks", "clearBlocks"}

\* A step outside a reset frees nothing.
LEMMA NothingFreed ==
  ASSUME RuntimeTypeOK, NEW u \in Thread, Acts(u), pc[u] \notin Resetting
  PROVE  /\ \A k \in Closure : closure[k] = "live" => closure'[k] = "live"
         /\ \A b \in Block : block[b] = "live" => block'[b] = "live"
         /\ \A t \in Thread \ {u} : ref'[t] = ref[t] /\ callee'[t] = callee[t]
         /\ ref'[u] # "freed" \/ ref'[u] = ref[u]
         /\ callee'[u] = callee[u] \/ callee'[u] = NoClosure \/ ~Inside(u)
  <1> USE DEF RuntimeTypeOK, Resetting
  <1>1. CASE \/ ResetCall(u) \/ UnlockedError(u) \/ LoadLock(u) \/ ResetLock(u)
             \/ \E r \in LoadRequest : LoadCall(u, r)
    BY <1>1 DEF ResetCall, UnlockedError, LoadLock, ResetLock, LoadCall, methodVars
  <1>2. CASE Validate(u) \/ CheckPolicy(u)
    BY <1>2 DEF Validate, CheckPolicy, Fail, Return, methodVars
  <1>3. CASE LoadData(u)
    BY <1>3 DEF LoadData, Fail, Return, ClearHookErrors, methodVars
  <1>4. CASE Accept(u) \/ RejectHookErrors(u) \/ HandlerReenters(u) \/ EntryReturns(u) \/ EntryTraps(u)
    BY <1>4 DEF Accept, RejectHookErrors, HandlerReenters, EntryReturns, EntryTraps, Fail, Return,
                methodVars
  <1>5. ASSUME NEW m \in Target, EntryHook(u, m) \/ RunHooks(u, m)
        PROVE  /\ \A k \in Closure : closure[k] = "live" => closure'[k] = "live"
               /\ UNCHANGED <<block, ref, callee>>
    BY <1>5, AddHookKeepsLive DEF EntryHook, RunHooks, hostVars
  <1>6. ASSUME NEW b \in Block, EntryCreateBlock(u, b)
        PROVE  /\ \A c \in Block : block[c] = "live" => block'[c] = "live"
               /\ UNCHANGED <<closure, ref, callee>>
    BY <1>6 DEF EntryCreateBlock, hostVars, methodVars
  <1>7. ASSUME \/ \E b \in Block : InvokeBlock(u, b)
               \/ \E m \in Method : EntryReenters(u, m) \/ CallHooked(u, m)
        PROVE  /\ UNCHANGED <<closure, block, ref>>
               /\ \A t \in Thread \ {u} : callee'[t] = callee[t]
               /\ ~Inside(u)
    BY <1>7 DEF InvokeBlock, EntryReenters, CallHooked, methodVars, Goto, Inside
  <1>8. CASE FetchRuntime(u) \/ RunReturns(u)
    BY <1>8 DEF FetchRuntime, RunReturns, methodVars
  <1>9. ~(ResetRuntime(u) \/ ClearHook(u) \/ ClearHooksDone(u) \/ ClearBlocks(u))
    BY DEF ResetRuntime, ClearHook, ClearHooksDone, ClearBlocks, Goto, Return
  <1> QED BY <1>1, <1>2, <1>3, <1>4, <1>5, <1>6, <1>7, <1>8, <1>9 DEF Acts

\* A thread inside a replacement or a block loses it, or its interpreter, only
\* while another thread resets.
THEOREM RunsUntilReset == Spec => OnlyResetFrees
  <1>1. ASSUME RuntimeTypeOK, Next PROVE FreedByReset
    <2> SUFFICES ASSUME NEW t \in Thread, Inside(t), CalleeAlive(t),
                        \A u \in Thread \ {t} : pc[u] \notin Resetting
                 PROVE  CalleeAlive(t)'
      BY DEF FreedByReset, Resetting
    <2>1. PICK u \in Thread : Acts(u)
      BY <1>1, NextActs
    <2>2. pc[u] \notin Resetting
      BY DEF Inside, Resetting
    <2>3. ref'[t] # "freed"
      BY <1>1, <2>1, <2>2, NothingFreed DEF CalleeAlive
    <2>4. callee'[t] = callee[t] \/ callee'[t] = NoClosure
      BY <1>1, <2>1, <2>2, NothingFreed
    <2>5. NoClosure \notin Closure /\ NoClosure \notin Block
      BY ValuesAssumption, RuntimeAssumption
    <2> QED BY <1>1, <2>1, <2>2, <2>3, <2>4, <2>5, NothingFreed DEF CalleeAlive
  <1>2. RuntimeTypeOK /\ [Next]_vars => [FreedByReset]_vars
    BY <1>1
  <1> QED BY <1>2, RuntimeTypeCorrect, PTL DEF Spec, OnlyResetFrees
===============================================================================
