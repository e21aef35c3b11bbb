----------------------------- MODULE HookClosures -----------------------------
(***************************************************************************)
(* The hook registry and the blocks that a patch creates, as the users of  *)
(* libffi's closures: hooks and blocks take them in the order in which     *)
(* the patch makes them, and a reset gives back first those of the hooks   *)
(* (ObjcMethod) and then those of the blocks, the oldest first.  libffi    *)
(* has them in tables of trampolines on arm64, in a heap on x86_64.        *)
(***************************************************************************)
EXTENDS ObjcMethod, ClosureTables, ClosureHeap

CONSTANTS
  MaxBlocks,    \* bound: blocks that exist at one time
  IntelTargets  \* bound: what is hooked on x86_64, where only the memory differs

VARIABLES
  arch,        \* what the program is built for
  tables,      \* libffi's tables, on arm64
  heap,        \* libffi's heap, on x86_64
  trampoline,  \* where each hook's closure is: table and entry, or data and code
  blocks,      \* g_blocks, by the places of their closures
  resetting    \* ObjcRuntime::resetLocked is under way

codeVars == <<arch, tables, heap>>
closureVars == <<methodVars, codeVars, trampoline, blocks, resetting>>

ClosuresInit ==
  /\ MethodInit
  /\ tables = NoTables
  /\ \/ arch = "arm64" /\ heap = NoHeap(FALSE)
     \/ arch = "x86_64" /\ \E hardened \in BOOLEAN : heap = NoHeap(hardened)
  /\ trampoline = [k \in Closure |-> NoPlace]
  /\ blocks = <<>>
  /\ resetting = FALSE

-------------------------------------------------------------------------------
(* libffi's closures, wherever they are.                                     *)

\* What ffi_closure_alloc can return, and leave behind.
Allocs ==
  IF arch = "arm64"
  THEN IF MayAlloc(tables)
       THEN {[place |-> Allocated(tables), tables |-> AllocIn(tables), heap |-> heap]}
       ELSE {}
  ELSE {[place |-> o.place, tables |-> tables, heap |-> o.heap] : o \in ClosureAlloc(heap)}

Alloc(a) == tables' = a.tables /\ heap' = a.heap /\ UNCHANGED arch

\* ffi_closure_free, when libffi has the given tables and heap.
Free(ts, h, place) ==
  /\ tables' = IF arch = "arm64" THEN FreeIn(ts, place) ELSE ts
  /\ heap' = IF arch = "arm64" THEN h ELSE ClosureFree(h, place)
  /\ UNCHANGED arch

-------------------------------------------------------------------------------

\* What is to be given to the hook that is made, if one is.
Taken(k) == closure[k] = "unused" /\ closure'[k] = "live"

Hooked(m) ==
  /\ ~resetting
  /\ Untouched(m)
  /\ arch = "arm64" \/ m \in IntelTargets
  /\ \/ /\ HookTargetMissing(m) \/ HookAllocFailed(m)
        /\ UNCHANGED <<codeVars, trampoline>>
     \/ /\ HookPrepareFailed(m)
        /\ \E a \in Allocs : Free(a.tables, a.heap, a.place)
        /\ UNCHANGED trampoline
     \/ /\ HookInstalled(m)
        /\ \E a \in Allocs :
              /\ Alloc(a)
              /\ trampoline' = [k \in Closure |-> IF Taken(k) THEN a.place ELSE trampoline[k]]
  /\ UNCHANGED <<blocks, resetting>>

\* The closure is made, and given back when libffi cannot prepare it.
CreateBlock ==
  /\ ~resetting /\ mutex = "free"
  /\ \E a \in Allocs :
        \/ Len(blocks) < MaxBlocks /\ Alloc(a) /\ blocks' = Append(blocks, a.place)
        \/ Free(a.tables, a.heap, a.place) /\ UNCHANGED blocks
  /\ UNCHANGED <<methodVars, trampoline, resetting>>

BeginReset ==
  /\ ~resetting
  /\ BeginClear
  /\ resetting' = TRUE
  /\ UNCHANGED <<codeVars, trampoline, blocks>>

DestroyHook ==
  /\ DestroyFront
  /\ LET k == Head(hooks).closure IN
       IF k = NoClosure THEN UNCHANGED <<codeVars, trampoline>>
       ELSE /\ Free(tables, heap, trampoline[k])
            /\ trampoline' = [trampoline EXCEPT ![k] = NoPlace]
  /\ UNCHANGED <<blocks, resetting>>

HooksCleared == EndClear /\ UNCHANGED <<codeVars, trampoline, blocks, resetting>>

ClearBlock ==
  /\ resetting /\ mutex = "free" /\ hooks = <<>> /\ blocks # <<>>
  /\ Free(tables, heap, Head(blocks))
  /\ blocks' = Tail(blocks)
  /\ UNCHANGED <<methodVars, trampoline, resetting>>

EndReset ==
  /\ resetting /\ mutex = "free" /\ hooks = <<>> /\ blocks = <<>>
  /\ resetting' = FALSE
  /\ UNCHANGED <<methodVars, codeVars, trampoline, blocks>>

ClosuresNext ==
  \/ \E m \in Target : Hooked(m)
  \/ CreateBlock
  \/ BeginReset \/ DestroyHook \/ HooksCleared \/ ClearBlock \/ EndReset
  \/ ~resetting /\ ClearHookErrors /\ UNCHANGED <<codeVars, trampoline, blocks, resetting>>

ClosuresSpec == ClosuresInit /\ [][ClosuresNext]_closureVars

-------------------------------------------------------------------------------

\* Those that own a closure: the hooks that were installed, and the blocks.
Holder ==
  {<<"hook", i>> : i \in {j \in DOMAIN hooks : hooks[j].closure # NoClosure}}
    \cup {<<"block", i>> : i \in DOMAIN blocks}

InUse ==
  [h \in Holder |-> IF h[1] = "hook" THEN trampoline[hooks[h[2]].closure] ELSE blocks[h[2]]]

\* No two hooks or blocks share a trampoline, and none has one in a page that was
\* given back; the others are free, none lost.
TrampolinesOwnedOnce == arch = "arm64" => EachOnce(tables, InUse)

\* On x86_64 each hook and block has a chunk of its own in a heap that dlmalloc's own
\* checks would pass, none is lost, and the code of a closure shows what was written
\* to its data, however segments are extended, merged, trimmed and released.
ChunksOwnedOnce == arch = "x86_64" => HeapWhole(heap) /\ ChunksHeld(heap, InUse)
===============================================================================
