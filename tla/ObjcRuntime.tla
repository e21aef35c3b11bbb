----------------------------- MODULE ObjcRuntime -----------------------------
(***************************************************************************)
(* The load lifecycle of WasmPatch: wap::ObjcRuntime, the singleton that   *)
(* owns the wasm interpreter, the last error and the loaded flag, used by  *)
(* any number of host threads, composed with the hook registry of          *)
(* ObjcMethod and with the blocks a patch created.                         *)
(*                                                                         *)
(* _mutex is taken once per load and per reset and held while the patch's  *)
(* entry() runs; it is not recursive.  A call of a hooked method, or of a  *)
(* block, takes it only to fetch the interpreter and runs without it.      *)
(***************************************************************************)
EXTENDS ObjcMethod

CONSTANTS
  Thread,        \* host threads
  Loader,        \* the threads that load and reset; every thread calls into patches
  NoThread,      \* the owner of a free mutex
  NoRequest,     \* a thread that asked for nothing
  Block,         \* blocks the patches create (create_block)
  Payload,       \* kinds of wasm payloads the host loads
  Policy,        \* load options the host uses, or NoPolicy for a load without
  NoPolicy,
  MayReenter,    \* may entry() call a hooked method, or the log handler the API?
  HooksLater,    \* may a replacement that runs later hook further methods?
  ResetOnError   \* does the host call reset() after each load that failed?

\* empty: empty path or data; unreadable: no such file; rejected: bad magic, or,
\* for a policy that says so, too large or another hash; unparsable: refused by
\* the interpreter; noEntry: without entry().
PayloadKind == {"empty", "unreadable", "rejected", "unparsable", "noEntry", "valid"}

Options == [allowReload : BOOLEAN, resetBeforeLoad : BOOLEAN, strictHooks : BOOLEAN]

ASSUME RuntimeAssumption ==
  /\ NoThread \notin Thread
  /\ Loader \subseteq Thread
  /\ Payload \subseteq PayloadKind
  /\ NoPolicy \notin Options
  /\ Policy \subseteq Options \cup {NoPolicy}
  /\ Block \cap Closure = {}
  /\ NoClosure \notin Block
  /\ {MayReenter, HooksLater, ResetOnError} \subseteq BOOLEAN

VARIABLES
  owner,      \* the thread that holds ObjcRuntime::_mutex
  runtime,    \* _runtime: null, or what its modules export
  loaded,     \* _loaded
  lastError,  \* _lastError
  block,      \* g_blocks: what became of each block
  pc,         \* where each thread is
  request,    \* the load or reset a thread is performing
  callee,     \* the closure or block a thread is executing
  ref,        \* the interpreter a thread fetched with runtime()
  active,     \* history: a load was accepted since the last reset
  missed      \* history: the running entry() failed to install a hook

hostVars == <<pc, request, callee, ref>>
vars == <<methodVars, owner, runtime, loaded, lastError, block, hostVars, active, missed>>

\* load and loadData, with and without options.  They differ for a file that
\* cannot be read, which only load meets.
LoadRequest == [op : {"load"}, policy : Policy, payload : Payload]
ResetRequest == [op |-> "reset"]

\* Statements that run under _mutex.
Locked == {"validate", "resetRuntime", "clearHooks", "clearBlocks", "policy",
           "loadData", "entry", "verdict", "blocked"}

Errors == {"none", "empty", "unreadable", "already loaded", "policy", "load failed",
           "no entry", "trap", "hook errors"}

-------------------------------------------------------------------------------

Init ==
  /\ MethodInit
  /\ owner = NoThread
  /\ runtime = "null"
  /\ loaded = FALSE
  /\ lastError = "none"
  /\ block = [b \in Block |-> "unused"]
  /\ pc = [t \in Thread |-> "idle"]
  /\ request = [t \in Thread |-> NoRequest]
  /\ callee = [t \in Thread |-> NoClosure]
  /\ ref = [t \in Thread |-> "none"]
  /\ active = FALSE
  /\ missed = FALSE

Goto(t, from, to) == pc[t] = from /\ pc' = [pc EXCEPT ![t] = to]

Ensured == IF runtime = "null" THEN "empty" ELSE runtime

SetError(e) == lastError' = e /\ loaded' = FALSE

\* A load or reset returns and its lock_guard releases _mutex.
Return(t, from, succeeded) ==
  /\ Goto(t, from, IF ~succeeded /\ ResetOnError THEN "failed" ELSE "idle")
  /\ request' = [request EXCEPT ![t] = NoRequest]
  /\ owner' = NoThread
  /\ missed' = FALSE
  /\ UNCHANGED <<callee, ref>>

\* Bug: a failure returns without giving the mutex back.
FailKeepsLock(t, from, e) ==
  /\ SetError(e)
  /\ Goto(t, from, "idle")
  /\ request' = [request EXCEPT ![t] = NoRequest]
  /\ UNCHANGED <<owner, callee, ref, missed>>

\* A load fails under the lock.
Fail(t, from, e) ==
  /\ SetError(e)
  /\ Return(t, from, FALSE)

-------------------------------------------------------------------------------
(* Loading                                                                   *)

\* The checks that come before the mutex: an empty path or buffer, and, for a
\* path with options, reading the file.  They set the error without the lock.
LoadCall(t, r) ==
  /\ request' = [request EXCEPT ![t] = r]
  /\ \/ /\ r.payload = "empty" \/ (r.payload = "unreadable" /\ r.policy # NoPolicy)
        /\ Goto(t, "idle", "unlocked")
        /\ lastError' = r.payload
     \/ /\ ~(r.payload = "empty" \/ (r.payload = "unreadable" /\ r.policy # NoPolicy))
        /\ Goto(t, "idle", "loadWait")
        /\ UNCHANGED lastError
  /\ UNCHANGED <<methodVars, owner, runtime, loaded, block, callee, ref, active, missed>>

\* The second half of setError, still without the lock.
UnlockedError(t) ==
  /\ Goto(t, "unlocked", IF ResetOnError THEN "failed" ELSE "idle")
  /\ loaded' = FALSE
  /\ request' = [request EXCEPT ![t] = NoRequest]
  /\ UNCHANGED <<methodVars, owner, runtime, lastError, block, callee, ref, active, missed>>

LoadLock(t) ==
  /\ owner = NoThread
  /\ owner' = t
  /\ Goto(t, "loadWait", IF request[t].policy # NoPolicy THEN "validate" ELSE "loadData")
  /\ UNCHANGED <<methodVars, runtime, loaded, lastError, block, request, callee, ref, active, missed>>

\* Bug: the condition is inverted.
RefusesReload(policy) == loaded /\ policy.allowReload

Refuses(policy) == loaded /\ ~policy.allowReload

\* Bug: the reset hangs on the other option.
ResetsUnlessReload(policy) == loaded /\ policy.resetBeforeLoad /\ ~policy.allowReload

Resets(policy) == loaded /\ policy.allowReload /\ policy.resetBeforeLoad

\* validateLoadLocked, up to the reset.
Validate(t) ==
  LET policy == request[t].policy IN
  /\ pc[t] = "validate"
  /\ \/ /\ Refuses(policy)
        /\ Fail(t, "validate", "already loaded")
     \/ /\ ~Refuses(policy)
        /\ Goto(t, "validate", IF Resets(policy) THEN "resetRuntime" ELSE "policy")
        /\ UNCHANGED <<owner, loaded, lastError, request, callee, ref, missed>>
  /\ UNCHANGED <<methodVars, runtime, block, active>>

\* validateLoadLocked, its payload checks.
CheckPolicy(t) ==
  /\ pc[t] = "policy"
  /\ \/ /\ request[t].payload = "rejected"
        /\ Fail(t, "policy", "policy")
     \/ /\ request[t].payload # "rejected"
        /\ Goto(t, "policy", "loadData")
        /\ UNCHANGED <<owner, loaded, lastError, request, callee, ref, missed>>
  /\ UNCHANGED <<methodVars, runtime, block, active>>

\* loadBufferLocked up to the call of entry(): modules are searched from the
\* newest to the oldest, so a module without entry() runs an older one's.  What
\* the policy would reject, a load without options leaves to the interpreter;
\* load(path) without options only reads its file now, under the mutex.
LoadData(t) ==
  LET payload == request[t].payload IN
  /\ pc[t] = "loadData"
  /\ \/ /\ payload \in {"unreadable", "unparsable", "rejected"}
        /\ runtime' = Ensured
        /\ Fail(t, "loadData", IF payload = "unreadable" THEN payload ELSE "load failed")
        /\ UNCHANGED methodVars
     \/ /\ payload = "noEntry" /\ runtime # "entry"
        /\ runtime' = "noEntry"
        /\ ClearHookErrors
        /\ Fail(t, "loadData", "no entry")
     \/ /\ payload = "valid" \/ (payload = "noEntry" /\ runtime = "entry")
        /\ runtime' = "entry"
        /\ ClearHookErrors
        /\ missed' = FALSE
        /\ Goto(t, "loadData", "entry")
        /\ UNCHANGED <<owner, loaded, lastError, request, callee, ref>>
  /\ UNCHANGED <<block, active>>

\* entry() calls replace_instance_method or replace_class_method ...
EntryHook(t, m) ==
  /\ pc[t] = "entry"
  /\ AddHook(m)
  /\ missed' = (missed \/ hooks'[Len(hooks')].closure = NoClosure)
  /\ UNCHANGED <<owner, runtime, loaded, lastError, block, hostVars, active>>

\* ... or create_block ...
EntryCreateBlock(t, b) ==
  /\ pc[t] = "entry"
  /\ block[b] = "unused"
  /\ block' = [block EXCEPT ![b] = "live"]
  /\ UNCHANGED <<methodVars, owner, runtime, loaded, lastError, hostVars, active, missed>>

\* ... or calls a host method that is hooked: the replacement's runtime() locks
\* the mutex this very thread holds.
EntryReenters(t, m) ==
  /\ MayReenter
  /\ Lookup(imp, m) \in Closure
  /\ Goto(t, "entry", "blocked")
  /\ callee' = [callee EXCEPT ![t] = Lookup(imp, m)]
  /\ UNCHANGED <<methodVars, owner, runtime, loaded, lastError, block, request, ref, active, missed>>

\* entry() traps, or returns.
EntryTraps(t) ==
  /\ Fail(t, "entry", "trap")
  /\ UNCHANGED <<methodVars, runtime, block, active>>

EntryReturns(t) ==
  /\ Goto(t, "entry", "verdict")
  /\ UNCHANGED <<methodVars, owner, runtime, loaded, lastError, block, request, callee, ref, active, missed>>

Strict(t) == request[t].policy # NoPolicy /\ request[t].policy.strictHooks

\* Bug: strictHooks is ignored.
AcceptsAnyway(t) == pc[t] = "verdict"

Accepts(t) == pc[t] = "verdict" /\ ~(hookErrors > 0 /\ Strict(t))

\* The end of loadBufferLocked.
Accept(t) ==
  /\ Accepts(t)
  /\ loaded' = TRUE
  /\ lastError' = "none"
  /\ active' = TRUE
  /\ Return(t, "verdict", TRUE)
  /\ UNCHANGED <<methodVars, runtime, block>>

RejectHookErrors(t) ==
  /\ pc[t] = "verdict"
  /\ hookErrors > 0
  /\ Strict(t)
  /\ Fail(t, "verdict", "hook errors")
  /\ UNCHANGED <<methodVars, runtime, block, active>>

\* The host's log handler hears of the hook errors while the mutex is held, and
\* asks wap_is_loaded(), say.
HandlerReenters(t) ==
  /\ MayReenter
  /\ hookErrors > 0
  /\ Goto(t, "verdict", "blocked")
  /\ UNCHANGED <<methodVars, owner, runtime, loaded, lastError, block, request, callee, ref, active, missed>>

-------------------------------------------------------------------------------
(* Reset                                                                     *)

ResetCall(t) ==
  /\ pc[t] \in {"idle", "failed"}
  /\ pc' = [pc EXCEPT ![t] = "resetWait"]
  /\ request' = [request EXCEPT ![t] = ResetRequest]
  /\ UNCHANGED <<methodVars, owner, runtime, loaded, lastError, block, callee, ref, active, missed>>

\* Bug: reset does not wait for the mutex.
ResetLockAtOnce(t) ==
  /\ owner' = t
  /\ Goto(t, "resetWait", "resetRuntime")
  /\ UNCHANGED <<methodVars, runtime, loaded, lastError, block, request, callee, ref, active, missed>>

ResetLock(t) ==
  /\ owner = NoThread
  /\ owner' = t
  /\ Goto(t, "resetWait", "resetRuntime")
  /\ UNCHANGED <<methodVars, runtime, loaded, lastError, block, request, callee, ref, active, missed>>

\* Bug: a reset runtime still says it is loaded.
ForgetErrorOnly ==
  /\ lastError' = "none"
  /\ active' = FALSE
  /\ UNCHANGED loaded

Forget ==
  /\ loaded' = FALSE
  /\ lastError' = "none"
  /\ active' = FALSE

\* resetLocked: the interpreter first, under the feet of whoever is using it ...
ResetRuntime(t) ==
  /\ Goto(t, "resetRuntime", "clearHooks")
  /\ runtime' = "null"
  /\ ref' = [u \in Thread |-> IF ref[u] = "live" THEN "freed" ELSE ref[u]]
  /\ Forget
  /\ BeginClear
  /\ UNCHANGED <<owner, block, request, callee, missed>>

\* ... then the hooks, one by one ...
ClearHook(t) ==
  /\ pc[t] = "clearHooks"
  /\ DestroyFront
  /\ UNCHANGED <<owner, runtime, loaded, lastError, block, hostVars, active, missed>>

ClearHooksDone(t) ==
  /\ EndClear
  /\ Goto(t, "clearHooks", "clearBlocks")
  /\ UNCHANGED <<owner, runtime, loaded, lastError, block, request, callee, ref, active, missed>>

\* ... then the blocks (ClearWasmBlocks).
ClearBlocks(t) ==
  /\ pc[t] = "clearBlocks"
  /\ block' = [b \in Block |-> IF block[b] = "live" THEN "freed" ELSE block[b]]
  /\ \/ /\ request[t] = ResetRequest
        /\ Return(t, "clearBlocks", TRUE)
     \/ /\ request[t] # ResetRequest
        /\ Goto(t, "clearBlocks", "policy")
        /\ UNCHANGED <<owner, request, callee, ref, missed>>
  /\ UNCHANGED <<methodVars, runtime, loaded, lastError, active>>

-------------------------------------------------------------------------------
(* Calls into the patch                                                      *)

\* The host messages a hooked method, or invokes a block it was handed.
CallHooked(t, m) ==
  /\ Lookup(imp, m) \in Closure
  /\ Goto(t, "idle", "trampoline")
  /\ callee' = [callee EXCEPT ![t] = Lookup(imp, m)]
  /\ UNCHANGED <<methodVars, owner, runtime, loaded, lastError, block, request, ref, active, missed>>

InvokeBlock(t, b) ==
  /\ block[b] = "live"
  /\ Goto(t, "idle", "trampoline")
  /\ callee' = [callee EXCEPT ![t] = b]
  /\ UNCHANGED <<methodVars, owner, runtime, loaded, lastError, block, request, ref, active, missed>>

\* The trampoline fetches the interpreter: runtime() takes the mutex, makes sure
\* there is an interpreter, and gives the mutex back before the call.
FetchRuntime(t) ==
  /\ owner = NoThread
  /\ Goto(t, "trampoline", "running")
  /\ runtime' = Ensured
  /\ ref' = [ref EXCEPT ![t] = "live"]
  /\ UNCHANGED <<methodVars, owner, loaded, lastError, block, request, callee, active, missed>>

\* A replacement hooks another method.
RunHooks(t, m) ==
  /\ HooksLater
  /\ pc[t] = "running"
  /\ AddHook(m)
  /\ UNCHANGED <<owner, runtime, loaded, lastError, block, hostVars, active, missed>>

\* Bug: a block is freed once it ran.
RunReturnsFreesBlock(t) ==
  /\ Goto(t, "running", "idle")
  /\ callee' = [callee EXCEPT ![t] = NoClosure]
  /\ ref' = [ref EXCEPT ![t] = "none"]
  /\ block' = IF callee[t] \in Block THEN [block EXCEPT ![callee[t]] = "freed"] ELSE block
  /\ UNCHANGED <<methodVars, owner, runtime, loaded, lastError, request, active, missed>>

RunReturns(t) ==
  /\ Goto(t, "running", "idle")
  /\ callee' = [callee EXCEPT ![t] = NoClosure]
  /\ ref' = [ref EXCEPT ![t] = "none"]
  /\ UNCHANGED <<methodVars, owner, runtime, loaded, lastError, block, request, active, missed>>

-------------------------------------------------------------------------------

LoadStep(t) ==
  \/ UnlockedError(t) \/ LoadLock(t) \/ Validate(t)
  \/ CheckPolicy(t) \/ LoadData(t) \/ Accept(t) \/ RejectHookErrors(t)

EntryEnds(t) == EntryReturns(t) \/ EntryTraps(t)

ResetStep(t) ==
  ResetLock(t) \/ ResetRuntime(t) \/ ClearHook(t) \/ ClearHooksDone(t) \/ ClearBlocks(t)

EntryStep(t) ==
  \/ \E m \in Target : EntryHook(t, m)
  \/ \E b \in Block : EntryCreateBlock(t, b)
  \/ \E m \in Method : EntryReenters(t, m)
  \/ EntryEnds(t)

CallStep(t) ==
  \/ \E m \in Method : CallHooked(t, m)
  \/ \E b \in Block : InvokeBlock(t, b)
  \/ FetchRuntime(t)
  \/ \E m \in Target : RunHooks(t, m)
  \/ RunReturns(t)

Next ==
  \E t \in Thread :
    \/ t \in Loader /\ (ResetCall(t) \/ \E r \in LoadRequest : LoadCall(t, r))
    \/ LoadStep(t) \/ EntryStep(t) \/ HandlerReenters(t) \/ ResetStep(t) \/ CallStep(t)

\* A thread that is inside the library keeps running; the host need not call it,
\* and entry() returns or traps.  Nothing is assumed of who gets the mutex next.
Fairness ==
  \A t \in Thread :
    WF_vars(LoadStep(t)) /\ WF_vars(ResetStep(t)) /\ WF_vars(EntryEnds(t)) /\ WF_vars(RunReturns(t))

Spec == Init /\ [][Next]_vars

FairSpec == Spec /\ Fairness

-------------------------------------------------------------------------------

RuntimeTypeOK ==
  /\ TypeOK
  /\ owner \in Thread \cup {NoThread}
  /\ runtime \in {"null", "empty", "noEntry", "entry"}
  /\ loaded \in BOOLEAN
  /\ lastError \in Errors
  /\ block \in [Block -> {"unused", "live", "freed"}]
  /\ pc \in [Thread -> Locked \cup {"idle", "unlocked", "loadWait", "resetWait", "failed",
                                    "trampoline", "running"}]
  /\ request \in [Thread -> LoadRequest \cup {ResetRequest, NoRequest}]
  /\ callee \in [Thread -> Closure \cup Block \cup {NoClosure}]
  /\ ref \in [Thread -> {"none", "live", "freed"}]
  /\ active \in BOOLEAN
  /\ missed \in BOOLEAN

\* Loads and resets exclude each other from their first locked statement to
\* their return, whatever happens in between: entry() runs alone.
LockExcludes ==
  \A t \in Thread : pc[t] \in Locked <=> owner = t

\* isLoaded() tells the truth when it says yes: an accepted patch with an entry
\* is in the interpreter and has not been reset.
LoadedIsActive == loaded => active /\ runtime = "entry"

\* Without an interpreter nothing of a patch is left: no hook is registered and
\* no closure or block is allocated, except while a reset is still at it.
NoRuntimeNoPatch ==
  runtime = "null" /\ mutex = "free" /\ (\A t \in Thread : pc[t] # "clearBlocks") =>
    /\ hooks = <<>>
    /\ \A k \in Closure : closure[k] # "live"
    /\ \A b \in Block : block[b] # "live"

\* With no load under way, a loaded runtime reports no error.
LoadedHasNoError ==
  loaded /\ (\A t \in Thread : pc[t] # "unlocked") => lastError = "none"

\* A load with strictHooks that is accepted installed every hook its entry()
\* asked for.
AcceptedWhole ==
  \A t \in Thread : pc[t] = "verdict" /\ pc'[t] = "idle" /\ Strict(t) /\ loaded' => ~missed

StrictAcceptsAll == [][AcceptedWhole]_vars

\* The mutex is always given back, so that hooked methods can be called from any
\* thread: entry() ends, and its thread never waits for what it holds itself.
LockReleased == (owner # NoThread) ~> (owner = NoThread)

\* A load with resetBeforeLoad starts from a program without hooks and blocks.
ResetFirst ==
  \A t \in Thread :
    pc[t] = "loadData" /\ request[t].policy # NoPolicy /\ request[t].policy.resetBeforeLoad =>
      hooks = <<>> /\ \A b \in Block : block[b] # "live"

\* While a patch is active, only a load that allows a reload is accepted.
ReloadIsAllowed ==
  \A t \in Thread :
    Accepts(t) /\ active => request[t].policy = NoPolicy \/ request[t].policy.allowReload

\* At most one thread executes in the interpreter ("the bridge serializes access
\* to the interpreter").
InterpreterSerialized ==
  \A t, u \in Thread :
    pc[t] \in {"entry", "running"} /\ pc[u] \in {"entry", "running"} => t = u

\* What a thread is inside of, a replacement or a block, and the interpreter it
\* fetched for it, still exist.
Inside(t) == pc[t] \in {"trampoline", "running"}

CalleeAlive(t) ==
  /\ ref[t] # "freed"
  /\ callee[t] \in Closure => closure[callee[t]] = "live"
  /\ callee[t] \in Block => block[callee[t]] = "live"

\* They cease to exist only by the reset, or the resetting load, of another
\* thread: not by a load that fails or is rejected, by hooks that are added, or by
\* another thread's return from the same code.
FreedByReset ==
  \A t \in Thread :
    Inside(t) /\ CalleeAlive(t) /\ ~CalleeAlive(t)' =>
      \E u \in Thread \ {t} : pc[u] \in {"resetRuntime", "clearHooks", "clearBlocks"}

OnlyResetFrees == [][FreedByReset]_vars
===============================================================================
