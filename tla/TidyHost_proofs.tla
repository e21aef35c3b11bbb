---------------------------- MODULE TidyHost_proofs ----------------------------
(***************************************************************************)
(* Proofs about the load lifecycle as a tidy host uses it: its patches     *)
(* install their hooks from entry(), one thread loads and resets, and it   *)
(* resets after each load that failed.  Any number of other threads call   *)
(* what the patches hooked, and the blocks they created, at any time.      *)
(***************************************************************************)
EXTENDS ObjcRuntime_proofs

\* Replacements that run later hook nothing.
HooksAtEntry == HooksLater = FALSE

OneLoader == \A t, u \in Loader : t = u

NoHooks == hooks = <<>>
NoBlocks == \A b \in Block : block[b] # "live"

\* Without an interpreter there are no hooks and no blocks, but for those the
\* thread that resets has not come to.
NullIsBare ==
  /\ \A t \in Thread : pc[t] = "clearHooks" => mutex = "clearing"
  /\ runtime = "null" =>
       \/ \E t \in Thread : pc[t] = "clearHooks"
       \/ NoHooks /\ (NoBlocks \/ \E t \in Thread : pc[t] = "clearBlocks")

\* Threads that do not load only call.
OthersCall == \A t \in Thread \ Loader : pc[t] \in {"idle", "trampoline", "running"}

\* Where the loader is not inside a load or a reset, and its last load succeeded.
Calm == {"idle", "loadWait", "validate", "trampoline", "running"}

\* What the runtime holds, by where the loader is.
Accounts(t) ==
  /\ pc[t] \in Calm /\ loaded = FALSE => NoHooks /\ NoBlocks /\ active = FALSE
  /\ pc[t] \in {"validate", "policy"} => request[t] \in LoadRequest /\ request[t].policy # NoPolicy
  /\ pc[t] \in {"loadWait", "loadData", "entry", "verdict"} => request[t] \in LoadRequest
  /\ pc[t] = "resetWait" => request[t] = ResetRequest
  /\ pc[t] \in {"resetRuntime", "clearHooks", "clearBlocks"} =>
       \/ request[t] = ResetRequest
       \/ /\ request[t] \in LoadRequest /\ request[t].policy # NoPolicy
          /\ request[t].policy.allowReload
  /\ pc[t] \in {"clearHooks", "clearBlocks"} => active = FALSE
  /\ pc[t] = "clearBlocks" => NoHooks
  /\ /\ pc[t] \in {"policy", "loadData"}
     /\ request[t].policy # NoPolicy /\ request[t].policy.resetBeforeLoad
     => NoHooks /\ NoBlocks
  /\ /\ pc[t] \in {"policy", "loadData", "entry", "verdict"}
     /\ request[t].policy # NoPolicy /\ ~request[t].policy.allowReload
     => active = FALSE

TidyInv == OthersCall /\ \A t \in Loader : Accounts(t)

-------------------------------------------------------------------------------
(* No interpreter, no patch.                                                 *)

\* Steps that leave the interpreter and what the patch made alone.
LEMMA BareKept ==
  ASSUME NullIsBare, UNCHANGED <<runtime, hooks, block, mutex>>,
         \A u \in Thread : pc'[u] = "clearHooks" <=> pc[u] = "clearHooks",
         \A u \in Thread : pc[u] = "clearBlocks" => pc'[u] = "clearBlocks"
  PROVE  NullIsBare'
  BY DEF NullIsBare, NoHooks, NoBlocks

\* Steps that leave an interpreter.
LEMMA BareIfNull ==
  ASSUME NullIsBare, runtime' # "null", mutex' = mutex,
         \A u \in Thread : pc'[u] = "clearHooks" => pc[u] = "clearHooks"
  PROVE  NullIsBare'
  BY DEF NullIsBare

LEMMA BareMoves ==
  ASSUME HostTypeOK, NullIsBare, NEW t \in Thread, UNCHANGED <<runtime, hooks, block, mutex>>,
         NEW from, NEW to, Goto(t, from, to),
         from \notin {"clearHooks", "clearBlocks"}, to \notin {"clearHooks", "clearBlocks"}
  PROVE  NullIsBare'
  <1>1. /\ \A u \in Thread : pc'[u] = "clearHooks" <=> pc[u] = "clearHooks"
        /\ \A u \in Thread : pc[u] = "clearBlocks" => pc'[u] = "clearBlocks"
    BY GotoMoves
  <1> QED BY <1>1, BareKept

LEMMA BareReturns ==
  ASSUME HostTypeOK, NullIsBare, NEW t \in Thread, UNCHANGED <<runtime, hooks, block, mutex>>,
         NEW from \in Locked \ {"clearHooks", "clearBlocks"}, NEW succeeded \in BOOLEAN,
         Return(t, from, succeeded)
  PROVE  NullIsBare'
  <1>1. /\ \A u \in Thread : pc'[u] = "clearHooks" <=> pc[u] = "clearHooks"
        /\ \A u \in Thread : pc[u] = "clearBlocks" => pc'[u] = "clearBlocks"
    BY ReturnMoves
  <1> QED BY <1>1, BareKept

LEMMA BareActs ==
  ASSUME HostTypeOK, LockExcludes, EntryLoaded, NullIsBare, HooksAtEntry,
         NEW t \in Thread, Acts(t)
  PROVE  NullIsBare'
  <1>0. ASSUME pc[t] \in Locked PROVE \A u \in Thread : pc[u] \in Locked => u = t
    BY <1>0 DEF LockExcludes
  <1>1. CASE ResetCall(t)
    <2>1. /\ \A u \in Thread : pc'[u] = "clearHooks" <=> pc[u] = "clearHooks"
          /\ \A u \in Thread : pc[u] = "clearBlocks" => pc'[u] = "clearBlocks"
      BY <1>1 DEF ResetCall, HostTypeOK
    <2> QED BY <1>1, <2>1, BareKept DEF ResetCall, methodVars
  <1>2. CASE \/ UnlockedError(t) \/ LoadLock(t) \/ HandlerReenters(t) \/ EntryReturns(t)
             \/ ResetLock(t) \/ RunReturns(t) \/ \E r \in LoadRequest : LoadCall(t, r)
    BY <1>2, BareMoves DEF UnlockedError, LoadLock, HandlerReenters, EntryReturns, ResetLock,
       RunReturns, LoadCall, methodVars
  <1>3. CASE Validate(t) \/ CheckPolicy(t)
    <2>1. UNCHANGED <<runtime, hooks, block, mutex>>
      BY <1>3 DEF Validate, CheckPolicy, methodVars
    <2>2. \/ \E from \in {"validate", "policy"} : \E to \in {"resetRuntime", "policy", "loadData"} :
               Goto(t, from, to)
          \/ \E from \in {"validate", "policy"} : Return(t, from, FALSE)
      BY <1>3 DEF Validate, CheckPolicy, Fail
    <2> QED BY <2>1, <2>2, BareMoves, BareReturns DEF Locked
  <1>4. CASE LoadData(t)
    <2>1. runtime' # "null" /\ mutex' = mutex
      BY <1>4 DEF LoadData, Ensured, ClearHookErrors, methodVars
    <2>2. \A u \in Thread : pc'[u] = "clearHooks" => pc[u] = "clearHooks"
      <3>1. CASE \E e : Fail(t, "loadData", e)
        BY <3>1, ReturnMoves DEF Fail
      <3>2. CASE Goto(t, "loadData", "entry")
        BY <3>2, GotoMoves
      <3> QED BY <1>4, <3>1, <3>2 DEF LoadData
    <2> QED BY <2>1, <2>2, BareIfNull
  <1>5. CASE Accept(t) \/ RejectHookErrors(t) \/ EntryTraps(t)
    BY <1>5, BareReturns DEF Accept, RejectHookErrors, EntryTraps, Fail, Locked, methodVars
  <1>6. ASSUME NEW m \in Target, EntryHook(t, m) PROVE NullIsBare'
    <2>1. runtime' # "null" /\ mutex' = mutex /\ pc' = pc
      BY <1>6 DEF EntryHook, EntryLoaded, AddHook, HookTargetMissing, HookAllocFailed,
         HookPrepareFailed, HookInstalled, Register, hostVars
    <2> QED BY <2>1, BareIfNull
  <1>7. ASSUME NEW b \in Block, EntryCreateBlock(t, b) PROVE NullIsBare'
    BY <1>7, BareIfNull DEF EntryCreateBlock, EntryLoaded, hostVars, methodVars
  <1>8. CASE ResetRuntime(t)
    <2>1. pc'[t] = "clearHooks" /\ \A u \in Thread \ {t} : pc'[u] # "clearHooks"
      BY <1>0, <1>8, GotoMoves DEF ResetRuntime, Goto, Locked
    <2> QED BY <1>8, <2>1 DEF ResetRuntime, BeginClear, NullIsBare
  <1>9. CASE ClearHook(t)
    BY <1>9 DEF ClearHook, DestroyFront, NullIsBare, hostVars
  <1>10. CASE ClearHooksDone(t)
    <2>1. pc'[t] = "clearBlocks" /\ \A u \in Thread : pc'[u] # "clearHooks"
      BY <1>0, <1>10, GotoMoves DEF ClearHooksDone, Goto, Locked
    <2> QED BY <1>10, <2>1 DEF ClearHooksDone, EndClear, NullIsBare, NoHooks
  <1>11. CASE ClearBlocks(t)
    <2>1. /\ pc[t] = "clearBlocks" /\ \A u \in Thread : pc[u] # "clearHooks"
          /\ \A u \in Thread : pc'[u] # "clearHooks"
      <3>1. pc[t] = "clearBlocks" /\ \A u \in Thread : pc[u] # "clearHooks"
        BY <1>0, <1>11 DEF ClearBlocks, Locked
      <3>2. pc'[t] # "clearHooks" /\ \A u \in Thread \ {t} : pc'[u] = pc[u]
        <4>1. CASE Return(t, "clearBlocks", TRUE)
          BY <4>1, ReturnMoves
        <4>2. CASE Goto(t, "clearBlocks", "policy")
          BY <4>2, GotoMoves
        <4> QED BY <1>11, <4>1, <4>2 DEF ClearBlocks
      <3> QED BY <3>1, <3>2
    <2>2. NoBlocks' /\ runtime' = runtime /\ hooks' = hooks
      BY <1>11 DEF ClearBlocks, NoBlocks, methodVars
    <2> QED BY <2>1, <2>2 DEF NullIsBare, NoHooks
  <1>12. CASE \/ \E m \in Method : EntryReenters(t, m) \/ CallHooked(t, m)
              \/ \E b \in Block : InvokeBlock(t, b)
    BY <1>12, BareMoves DEF EntryReenters, CallHooked, InvokeBlock, methodVars
  <1>13. CASE FetchRuntime(t)
    BY <1>13, BareIfNull, GotoMoves DEF FetchRuntime, Ensured, methodVars
  <1>14. \A m \in Target : ~RunHooks(t, m)
    BY DEF RunHooks, HooksAtEntry
  <1> QED BY <1>1, <1>2, <1>3, <1>4, <1>5, <1>6, <1>7, <1>8, <1>9, <1>10, <1>11, <1>12, <1>13,
             <1>14 DEF Acts

LEMMA BareStep ==
  ASSUME HooksAtEntry
  PROVE  HostTypeOK /\ LockExcludes /\ EntryLoaded /\ NullIsBare /\ [Next]_vars => NullIsBare'
  <1>1. ASSUME HostTypeOK, LockExcludes, EntryLoaded, NullIsBare, Next PROVE NullIsBare'
    BY <1>1, NextActs, BareActs
  <1>2. ASSUME NullIsBare, UNCHANGED vars PROVE NullIsBare'
    BY <1>2, BareKept DEF vars, hostVars, methodVars
  <1> QED BY <1>1, <1>2

LEMMA EntryIsLoaded == Spec => [](HostTypeOK /\ LockExcludes /\ EntryLoaded)
  <1>1. Spec => []HostTypeOK
    BY HostTypeInit, HostTypeStep, PTL DEF Spec
  <1> QED BY <1>1, LoadsExclude, LoadedInit, LoadedStep, PTL DEF Spec

\* Where patches hook from entry(), a runtime without an interpreter has no hook,
\* no closure and no block left, however loads fail and calls of what was hooked
\* overlap the reset.
THEOREM NothingOutlivesRuntime ==
  ASSUME HooksAtEntry
  PROVE  Spec => []NoRuntimeNoPatch
  <1>1. Init => NullIsBare
    BY DEF Init, MethodInit, NullIsBare, NoHooks, NoBlocks
  <1>2. Spec => []NullIsBare
    BY <1>1, BareStep, EntryIsLoaded, PTL DEF Spec
  <1>3. NullIsBare /\ ClosuresOwned => NoRuntimeNoPatch
    BY DEF NullIsBare, ClosuresOwned, NoRuntimeNoPatch, NoHooks, NoBlocks
  <1> QED BY <1>2, <1>3, RuntimeLeaksNoClosure, PTL

-------------------------------------------------------------------------------
(* One thread that loads, and resets after failures.                         *)

TidyHost == HooksAtEntry /\ OneLoader /\ ResetOnError = TRUE

\* The loader does everything, the other threads only call.
LEMMA NextLoadsOrCalls ==
  ASSUME TidyInv, Next
  PROVE  \/ \E t \in Thread \ Loader : CallStep(t)
         \/ \E t \in Loader : Acts(t)
  <1>1. ASSUME NEW t \in Thread \ Loader,
               LoadStep(t) \/ EntryStep(t) \/ HandlerReenters(t) \/ ResetStep(t) \/ CallStep(t)
        PROVE  CallStep(t)
    <2>1. pc[t] \in {"idle", "trampoline", "running"}
      BY DEF TidyInv, OthersCall
    <2>2. ~LoadStep(t)
      BY <2>1 DEF LoadStep, UnlockedError, LoadLock, Validate, CheckPolicy, LoadData, Accept,
         Accepts, RejectHookErrors, Goto
    <2>3. ~EntryStep(t) /\ ~HandlerReenters(t)
      BY <2>1 DEF EntryStep, EntryHook, EntryCreateBlock, EntryReenters, EntryEnds, EntryReturns,
         EntryTraps, Fail, Return, HandlerReenters, Goto
    <2>4. ~ResetStep(t)
      BY <2>1 DEF ResetStep, ResetLock, ResetRuntime, ClearHook, ClearHooksDone, ClearBlocks, Goto
    <2> QED BY <1>1, <2>2, <2>3, <2>4
  <1>2. PICK t \in Thread :
          \/ t \in Loader /\ (ResetCall(t) \/ \E r \in LoadRequest : LoadCall(t, r))
          \/ LoadStep(t) \/ EntryStep(t) \/ HandlerReenters(t) \/ ResetStep(t) \/ CallStep(t)
    BY DEF Next
  <1>3. CASE t \in Loader
    <2>1. Acts(t)
      BY <1>2 DEF LoadStep, EntryStep, EntryEnds, ResetStep, CallStep, Acts
    <2> QED BY <1>3, <2>1
  <1>4. CASE t \notin Loader
    BY <1>1, <1>2, <1>4
  <1> QED BY <1>3, <1>4

\* A call leaves the registry, the blocks and what the loads left behind alone.
LEMMA CallsKeep ==
  ASSUME HostTypeOK, HooksAtEntry, NEW t \in Thread, CallStep(t)
  PROVE  /\ UNCHANGED <<hooks, block, loaded, active, request>>
         /\ pc[t] \in {"idle", "trampoline", "running"}
         /\ pc'[t] \in {"idle", "trampoline", "running"}
         /\ \A u \in Thread \ {t} : pc'[u] = pc[u]
  <1>1. ASSUME NEW m \in Method, CallHooked(t, m)
        PROVE  Goto(t, "idle", "trampoline") /\ UNCHANGED <<hooks, block, loaded, active, request>>
    BY <1>1 DEF CallHooked, methodVars
  <1>2. ASSUME NEW b \in Block, InvokeBlock(t, b)
        PROVE  Goto(t, "idle", "trampoline") /\ UNCHANGED <<hooks, block, loaded, active, request>>
    BY <1>2 DEF InvokeBlock, methodVars
  <1>3. ASSUME FetchRuntime(t)
        PROVE  Goto(t, "trampoline", "running") /\ UNCHANGED <<hooks, block, loaded, active, request>>
    BY <1>3 DEF FetchRuntime, methodVars
  <1>4. ASSUME RunReturns(t)
        PROVE  Goto(t, "running", "idle") /\ UNCHANGED <<hooks, block, loaded, active, request>>
    BY <1>4 DEF RunReturns, methodVars
  <1>5. \A m \in Target : ~RunHooks(t, m)
    BY DEF RunHooks, HooksAtEntry
  <1> QED BY <1>1, <1>2, <1>3, <1>4, <1>5, GotoMoves DEF CallStep

LEMMA ActsMoveOne ==
  ASSUME HostTypeOK, NEW t \in Thread, Acts(t), NEW u \in Thread, u # t
  PROVE  pc'[u] = pc[u]
  BY DEF HostTypeOK, Acts, Goto, Return, Fail, ResetCall, LoadCall, UnlockedError, LoadLock,
     Validate, CheckPolicy, LoadData, Accept, RejectHookErrors, HandlerReenters, EntryHook,
     EntryCreateBlock, EntryReenters, EntryReturns, EntryTraps, ResetLock, ResetRuntime, ClearHook,
     ClearHooksDone, ClearBlocks, CallHooked, InvokeBlock, FetchRuntime, RunHooks, RunReturns,
     hostVars

\* The loader's own steps.
LEMMA LoaderActs ==
  ASSUME HostTypeOK, HooksAtEntry, ResetOnError = TRUE, NEW t \in Loader, Accounts(t), Acts(t)
  PROVE  Accounts(t)'
  <1>0. t \in Thread
    BY RuntimeAssumption
  <1> USE <1>0 DEF HostTypeOK
  <1>1. CASE ResetCall(t)
    <2>1. pc'[t] = "resetWait" /\ request'[t] = ResetRequest
      BY <1>1 DEF ResetCall
    <2> QED BY <2>1 DEF Accounts, Calm
  <1>2. ASSUME NEW r \in LoadRequest, LoadCall(t, r) PROVE Accounts(t)'
    <2>1. /\ pc[t] = "idle" /\ pc'[t] \in {"unlocked", "loadWait"} /\ request'[t] = r
          /\ UNCHANGED <<hooks, block, loaded, active>>
      BY <1>2 DEF LoadCall, Goto, methodVars
    <2> QED BY <2>1 DEF Accounts, Calm, NoHooks, NoBlocks
  <1>3. CASE UnlockedError(t)
    <2>1. pc'[t] = "failed"
      BY <1>3 DEF UnlockedError, Goto
    <2> QED BY <2>1 DEF Accounts, Calm
  <1>4. CASE LoadLock(t)
    <2>1. /\ pc[t] = "loadWait"
          /\ pc'[t] = IF request[t].policy # NoPolicy THEN "validate" ELSE "loadData"
          /\ UNCHANGED <<hooks, block, loaded, active, request>>
      BY <1>4 DEF LoadLock, Goto, methodVars
    <2> QED BY <2>1 DEF Accounts, Calm, NoHooks, NoBlocks
  <1>5. ASSUME NEW from, NEW e, Fail(t, from, e) PROVE Accounts(t)'
    <2>1. pc'[t] = "failed"
      BY <1>5 DEF Fail, Return, Goto
    <2> QED BY <2>1 DEF Accounts, Calm
  <1>6. CASE Validate(t)
    <2>1. CASE ~Refuses(request[t].policy)
      <3>1. /\ pc[t] = "validate"
            /\ pc'[t] = IF Resets(request[t].policy) THEN "resetRuntime" ELSE "policy"
            /\ UNCHANGED <<hooks, block, loaded, active, request>>
        BY <1>6, <2>1 DEF Validate, Goto, methodVars
      <3>2. request[t] \in LoadRequest /\ request[t].policy # NoPolicy
        BY <3>1 DEF Accounts
      <3>3. CASE loaded = FALSE
        <4>1. NoHooks /\ NoBlocks /\ active = FALSE /\ pc'[t] = "policy"
          BY <3>1, <3>3 DEF Accounts, Calm, Resets
        <4> QED BY <3>1, <3>2, <4>1 DEF Accounts, Calm, NoHooks, NoBlocks
      <3>4. CASE loaded = TRUE
        <4>1. request[t].policy.allowReload
          BY <2>1, <3>4 DEF Refuses
        <4>2. CASE request[t].policy.resetBeforeLoad
          <5>1. pc'[t] = "resetRuntime"
            BY <3>1, <3>4, <4>1, <4>2 DEF Resets
          <5> QED BY <3>1, <3>2, <4>1, <5>1 DEF Accounts, Calm
        <4>3. CASE ~request[t].policy.resetBeforeLoad
          <5>1. pc'[t] = "policy"
            BY <3>1, <4>3 DEF Resets
          <5> QED BY <3>1, <3>2, <4>1, <4>3, <5>1 DEF Accounts, Calm
        <4> QED BY <4>2, <4>3
      <3> QED BY <3>3, <3>4
    <2> QED BY <1>5, <1>6, <2>1 DEF Validate
  <1>7. CASE CheckPolicy(t)
    <2>1. CASE Goto(t, "policy", "loadData")
      <3>1. pc[t] = "policy" /\ pc'[t] = "loadData" /\ UNCHANGED <<hooks, block, active, request>>
        BY <1>7, <2>1 DEF CheckPolicy, Goto, Fail, Return, methodVars
      <3> QED BY <3>1 DEF Accounts, Calm, NoHooks, NoBlocks
    <2> QED BY <1>5, <1>7, <2>1 DEF CheckPolicy
  <1>8. CASE LoadData(t)
    <2>1. CASE Goto(t, "loadData", "entry")
      <3>1. pc[t] = "loadData" /\ pc'[t] = "entry" /\ active' = active
        BY <1>8, <2>1 DEF LoadData, Goto
      <3>2. request' = request
        BY <1>8, <3>1 DEF LoadData, Fail, Return, Goto
      <3> QED BY <3>1, <3>2 DEF Accounts, Calm
    <2> QED BY <1>5, <1>8, <2>1 DEF LoadData
  <1>9. CASE Accept(t)
    <2>1. pc'[t] = "idle" /\ loaded' = TRUE
      BY <1>9 DEF Accept, Return, Goto
    <2> QED BY <2>1 DEF Accounts, Calm
  <1>10. CASE RejectHookErrors(t) \/ EntryTraps(t)
    BY <1>5, <1>10 DEF RejectHookErrors, EntryTraps
  <1>11. CASE HandlerReenters(t) \/ \E m \in Method : EntryReenters(t, m)
    <2>1. pc'[t] = "blocked"
      BY <1>11 DEF HandlerReenters, EntryReenters, Goto
    <2> QED BY <2>1 DEF Accounts, Calm
  <1>12. CASE EntryReturns(t)
    <2>1. pc[t] = "entry" /\ pc'[t] = "verdict" /\ UNCHANGED <<active, request>>
      BY <1>12 DEF EntryReturns, Goto
    <2> QED BY <2>1 DEF Accounts, Calm
  <1>13. CASE \/ \E m \in Target : EntryHook(t, m)
              \/ \E b \in Block : EntryCreateBlock(t, b)
    <2>1. pc[t] = "entry" /\ pc'[t] = "entry" /\ UNCHANGED <<active, request>>
      BY <1>13 DEF EntryHook, EntryCreateBlock, hostVars
    <2> QED BY <2>1 DEF Accounts, Calm
  <1>14. CASE ResetLock(t)
    <2>1. pc[t] = "resetWait" /\ pc'[t] = "resetRuntime" /\ request' = request
      BY <1>14 DEF ResetLock, Goto
    <2> QED BY <2>1 DEF Accounts, Calm
  <1>15. CASE ResetRuntime(t)
    <2>1. /\ pc[t] = "resetRuntime" /\ pc'[t] = "clearHooks" /\ request' = request
          /\ active' = FALSE
      BY <1>15 DEF ResetRuntime, Forget, Goto
    <2> QED BY <2>1 DEF Accounts, Calm
  <1>16. CASE ClearHook(t)
    <2>1. pc[t] = "clearHooks" /\ pc'[t] = "clearHooks" /\ UNCHANGED <<active, request>>
      BY <1>16 DEF ClearHook, hostVars
    <2> QED BY <2>1 DEF Accounts, Calm
  <1>17. CASE ClearHooksDone(t)
    <2>1. /\ pc[t] = "clearHooks" /\ pc'[t] = "clearBlocks" /\ UNCHANGED <<active, request>>
          /\ hooks' = <<>>
      BY <1>17 DEF ClearHooksDone, EndClear, Goto
    <2> QED BY <2>1 DEF Accounts, Calm, NoHooks
  <1>18. CASE ClearBlocks(t)
    <2>1. pc[t] = "clearBlocks" /\ UNCHANGED <<hooks, loaded, active>> /\ NoBlocks'
      BY <1>18 DEF ClearBlocks, Goto, Return, methodVars, NoBlocks
    <2>2. NoHooks' /\ active' = FALSE
      BY <2>1 DEF Accounts, NoHooks
    <2>3. CASE request[t] = ResetRequest
      <3>1. pc'[t] = "idle"
        BY <1>18, <2>3 DEF ClearBlocks, Return, Goto
      <3> QED BY <2>1, <2>2, <3>1 DEF Accounts
    <2>4. CASE request[t] # ResetRequest
      <3>1. pc'[t] = "policy" /\ request' = request
        BY <1>18, <2>4 DEF ClearBlocks, Goto
      <3>2. request[t] \in LoadRequest /\ request[t].policy # NoPolicy
        BY <2>1, <2>4 DEF Accounts
      <3> QED BY <2>1, <2>2, <3>1, <3>2 DEF Accounts
    <2> QED BY <2>3, <2>4
  <1>19. CASE CallStep(t)
    <2>1. /\ UNCHANGED <<hooks, block, loaded, active, request>>
          /\ pc[t] \in {"idle", "trampoline", "running"}
          /\ pc'[t] \in {"idle", "trampoline", "running"}
      BY <1>19, CallsKeep
    <2> QED BY <2>1 DEF Accounts, Calm, NoHooks, NoBlocks
  <1>20. ASSUME \/ \E m \in Method : CallHooked(t, m)
                \/ \E b \in Block : InvokeBlock(t, b)
                \/ FetchRuntime(t)
                \/ \E m \in Target : RunHooks(t, m)
                \/ RunReturns(t)
         PROVE  CallStep(t)
    BY <1>20 DEF CallStep
  <1> QED BY <1>1, <1>2, <1>3, <1>4, <1>6, <1>7, <1>8, <1>9, <1>10, <1>11, <1>12, <1>13, <1>14,
             <1>15, <1>16, <1>17, <1>18, <1>19, <1>20 DEF Acts

LEMMA TidyStep ==
  ASSUME TidyHost
  PROVE  HostTypeOK /\ TidyInv /\ [Next]_vars => TidyInv'
  <1>1. ASSUME HostTypeOK, TidyInv, NEW t \in Thread \ Loader, CallStep(t)
        PROVE  TidyInv'
    <2>1. /\ UNCHANGED <<hooks, block, loaded, active, request>>
          /\ pc'[t] \in {"idle", "trampoline", "running"}
          /\ \A u \in Thread \ {t} : pc'[u] = pc[u]
      BY <1>1, CallsKeep DEF TidyHost
    <2>2. OthersCall'
      BY <1>1, <2>1 DEF TidyInv, OthersCall
    <2>3. ASSUME NEW u \in Loader PROVE Accounts(u)'
      <3>1. pc'[u] = pc[u]
        BY <1>1, <2>1, RuntimeAssumption
      <3>2. Accounts(u)
        BY <1>1 DEF TidyInv
      <3> QED BY <2>1, <3>1, <3>2 DEF Accounts, NoHooks, NoBlocks
    <2> QED BY <2>2, <2>3 DEF TidyInv
  <1>2. ASSUME HostTypeOK, TidyInv, NEW t \in Loader, Acts(t)
        PROVE  TidyInv'
    <2>1. Accounts(t)'
      BY <1>2, LoaderActs DEF TidyHost, TidyInv
    <2>2. \A u \in Thread \ Loader : pc'[u] = pc[u]
      BY <1>2, ActsMoveOne, RuntimeAssumption
    <2>3. \A u \in Loader : u = t
      BY <1>2 DEF TidyHost, OneLoader
    <2> QED BY <1>2, <2>1, <2>2, <2>3 DEF TidyInv, OthersCall
  <1>3. ASSUME TidyInv, UNCHANGED vars PROVE TidyInv'
    BY <1>3 DEF TidyInv, OthersCall, Accounts, NoHooks, NoBlocks, vars, hostVars, methodVars
  <1> QED BY <1>1, <1>2, <1>3, NextLoadsOrCalls

LEMMA TidyInit == Init => TidyInv
  BY RuntimeAssumption DEF Init, MethodInit, TidyInv, OthersCall, Accounts, Calm, NoHooks, NoBlocks

LEMMA TidyInvariant ==
  ASSUME TidyHost
  PROVE  Spec => []TidyInv
  BY TidyInit, TidyStep, EntryIsLoaded, PTL DEF Spec

\* One thread that loads, and resets after each failure, may rely on
\* resetBeforeLoad: entry() starts from a program without hooks and blocks.
THEOREM ResetsFirst ==
  ASSUME TidyHost
  PROVE  Spec => []ResetFirst
  <1>1. TidyInv => ResetFirst
    BY DEF TidyInv, OthersCall, Accounts, ResetFirst, NoHooks, NoBlocks
  <1> QED BY <1>1, TidyInvariant, PTL

\* For such a host, a patch is accepted on top of an active one only if the load
\* allows it: an accepted patch stays active until it is reset.
THEOREM ReloadsAreAllowed ==
  ASSUME TidyHost
  PROVE  Spec => []ReloadIsAllowed
  <1>1. TidyInv => ReloadIsAllowed
    BY DEF TidyInv, OthersCall, Accounts, ReloadIsAllowed, Accepts
  <1> QED BY <1>1, TidyInvariant, PTL
===============================================================================
