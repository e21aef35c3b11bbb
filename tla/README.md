# WasmPatch in TLA+

WasmPatch replaces Objective-C methods of a running app by functions of a
WebAssembly module.  A *patch* is such a module; its exported `entry()` calls
back into the host (`replace_instance_method`, `create_block`, ...), which
installs libffi closures in the method tables of the Objective-C classes.  A
message to a hooked method runs the closure, the closure runs a wasm function in
the interpreter (wasm3).

This directory specifies that machinery in TLA+, checks it with TLC, and proves
part of it with TLAPS.  `src/` stands for the root of the repository, `wap/` for
`src/WasmPatch/Classes/wap/`, and `wasm3/` and `libffi/` for the directories of
those names under `wap/depend/`.

1. [The system](#1-the-system)
2. [The modules](#2-the-modules)
3. [What the runs check](#3-what-the-runs-check)
4. [Where the code and its promises part](#4-where-the-code-and-its-promises-part)
5. [Fairness](#5-fairness)
6. [What is proved, and how](#6-what-is-proved-and-how)
7. [What is not modelled](#7-what-is-not-modelled)
8. [Plan](#8-plan)

## 1. The system

### Components

| component | source | state | operations |
|---|---|---|---|
| C API and runtime lifecycle | `WasmPatch.mm`, `wap/core/runtime/wap_objc_runtime.mm` | `_runtime`, `_loaded`, `_lastError`, `_mutex` | `load`, `loadData` (each with or without options), `reset`, `runtime()`, `isLoaded`, `lastError` |
| hook registry | `wap/core/method/wap_objc_method.mm`, `wap_objc_method_hook.mm` | `hooks`, `hookErrors`, `mutex`; the classes' method tables; libffi closures | `addHook`, `clearHooks`, `clearHookErrors`; `hook()` and its destructor |
| created blocks | `wap/core/method/wap_objc_block_create.mm` | `g_blocks`, under `g_blocks_mutex` | `CreateWasmBlock`, `BlockTrampoline`, `ClearWasmBlocks` |
| method bridge | `wap/core/method/wap_objc_method_bridge.mm` | none of its own: it uses the interpreter `runtime()` returns | the closure's function: box the arguments, call wasm, unbox the result |
| interpreter wrapper | `wap/core/util/wap_wasm.hpp` | wasm3 environment, runtime, module chain, one code buffer | parse, load, link, find and call a function |
| struct layout and fields | `wap/core/method/wap_objc_struct.h`, `wap/core/runtime/export/*struct*.h` | structs in `NSValue`, `NSData` or `NSMutableData` | size, alignment and libffi type of a struct, from its type encoding; make, read and write one |
| method signatures | `wap/core/method/wap_objc_method_signature.mm` | none, pure | split an encoding into a return type and arguments, find their libffi types |
| call exports, object handles | `wap/core/runtime/export/*.h` | boxes and arrays on the C++ heap, whose addresses wasm holds | calls from wasm into Objective-C, `alloc_*`, `new_objc_*`, `dealloc_object`, arrays, `invoke_block` |
| log handler | `wap_objc_runtime.mm` | the handler, and a mutex of its own | `SetLogHandler`, `EmitLog` |
| patch loader | `WAPPatchLoader.mm` | none: it reads the runtime's | load from a file, a bundle or memory; verify the signature; name the error |
| patch manager | `WAPPatchManager.mm` | the cache directory; fetches in progress | fetch, store, apply, remove, clear |
| patch SDK | `src/Tool/sdk/wasmpatch.h` | an autorelease-style pool inside the patch | macros over the exports |
| wasm3: files and linking | `wasm3/m3_parse.c`, `m3_module.c`, `m3_env.c`, `m3_bind.c` | modules, their sections, memory, tables, globals; the environment's function types | parse a module, load it, link functions to its imports, find an export |
| wasm3: compiler | `wasm3/m3_compile.c`, `m3_emit.c`, `m3_code.c` | where each operand is, in slots or registers; pages of code, open or full | compile a function, the first time it is called, in one pass |
| wasm3: execution | `wasm3/m3_exec.c`, `m3_exec.h` | frames on one stack, the memory's address in a register | call, loop, branch, trap, grow memory |
| libffi | `libffi/.../ffi_arm64.c`, `ffi64_x86_64.c`, `prep_cif.c`, `closures.c`, `dlmalloc.c` | tables of trampolines on arm64, a heap of executable memory on x86_64, each under one mutex | lay out a struct; place arguments for a call and for a closure; allocate and free closures |

wasm3 and libffi are vendored.  They are specified all the same, because each patch
runs on them, in this version and on their edges: several modules in one runtime,
structs by value, hundreds of closures given back in bulk.

### How they interact

```
 host threads --> WAPPatchManager --> WAPPatchLoader --> C API --> ObjcRuntime
                   |  cache files      (signature)                  |  _mutex
 URLSession -------+                                                | entry()
                                                                    v
 any thread --message--> method table --> closure --runtime()--> interpreter
                              ^              |                      |  compiles on
                              |           libffi: arguments,        |  the first call
                              |           trampolines               v
                              +------ ObjcMethod::addHook <------ exports
```

* `ObjcRuntime::_mutex` is an ordinary, non-recursive mutex.  A load holds it
  from validation, through linking and **through the patch's `entry()`**, to the
  verdict; a reset holds it throughout.
* A closure takes the same mutex for a moment, to fetch the interpreter, and runs
  wasm without it.
* The registry has another mutex, held by `addHook` and across `clearHooks`.  The
  Objective-C method tables are read by all threads, under no mutex of the library.
* A reset destroys the interpreter first, then the hooks from the oldest to the
  newest, then the blocks.
* Loader and manager have no lock.  They meet in the file system, and in the
  runtime's last error, which is read again after the load returned.
* A replacement is compiled by whoever calls it first, on that thread, from a buffer
  that a later load overwrites, into pages that all functions of the runtime share.
* libffi and the Objective-C compiler never meet: both work out where an argument
  is, one from the encoding the library read, the other from the declaration.

### What is hard

* **Order.** A hook saves the implementation it *finds*, which may be another
  hook's closure or one inherited from a class that is hooked itself.  Restoring
  is correct only if the order of the destructions fits.
* **Partial failure.** `hook()` can fail at six places, after the closure was
  allocated or after the original was saved; a load can fail in validation, in
  parsing, in `entry()` half-way through its hooks, or be rejected at the end; a
  function can fail to compile half-way, with code of it on a page.
  All of it leaves state behind that the next load or reset starts from.
* **Interleaving.** Loads, resets, closures and the patch's own later hooks, from
  several threads; stores, removals and clearings of one cache directory.
* **Deadlock.** Anything that runs under `_mutex` and calls a hooked method, or
  the C API, waits for itself.
* **Stale state.** `_loaded` is cleared by *every* error; a module without
  `entry()` runs the one of an older module; a file is verified in one reading
  and loaded in another; a function that is running holds the old address of a
  memory that moved; the compiler's idea of what is in a register.
* **Ownership by hand.** Wasm sees addresses of boxes that C++ allocates and somebody
  deletes: the patch, the bridge, an array, the pool, or nobody.  A function may trap
  between any two of these.
* **Boundaries.** Three descriptions of a struct have to agree to the byte: the
  compiler's, the library's, libffi's; and so do three opinions on the register or the
  bytes of stack that hold each argument.

### What makes each component correct

* registry: every live closure belongs to one hook, none is freed twice; the last
  hook of a method is what its class runs; no class runs a freed closure; clearing
  gives back what was shipped; a trampoline has one user, and what is given back to
  the system is nobody's.
* lifecycle: loads and resets exclude each other; `isLoaded` is never true of what
  was reset; a loaded runtime reports no error; `strictHooks` accepts a patch
  whole; a reload starts afresh and happens only where it is allowed; only a reset
  frees what a thread is executing; the mutex always comes back.
* delivery: the cache is a map from names to patches whatever races in it; a pinned
  load loads what it pins; every fetch is answered, once.
* handles: each box and each array has one who will free it, and none who uses it
  afterwards; what leaks is known.
* structs: the three descriptions agree; a member that was set is what is read there,
  and what arrives.
* signatures and calls: libffi has every argument and result where the compiler of the
  other side has it, and sets aside enough stack.
* interpreter: a module is what its sections say, a patch that is well formed is
  accepted and its exports are found; the code emitted works on the operands the
  instruction has; a call runs the newest function of that name, instruction by
  instruction, wherever its code is; pages have one owner and are not overrun.

The list of hazards, each at its line and with the properties that watch it, is in
`PROJECT.json`.

## 2. The modules

```
ObjcMethod ------------------> ObjcMethod_proofs <----\
   | EXTENDS  \                     | EXTENDS         |
   |        HookClosures -------------------> HookClosures_proofs
   |            \-- ClosureTables, ClosureHeap
ObjcRuntime -----------------> ObjcRuntime_proofs <-- TidyHost_proofs

PatchDelivery --INSTANCE--> PatchCache (abstract)
   \---------> PatchDelivery_proofs

ObjectHandles ---------------> ObjectHandles_proofs

StructLayout <-- StructFields

FFITypes <-- MethodSignature <-- ArgumentPassing
    <------- Arm64Arguments, X64Arguments --INSTANCE--^

WasmBytes <-- WasmModule
WasmSlots <-- WasmCompile
WasmRuntime --INSTANCE--> WasmMachine (abstract)
   \---------> WasmRuntime_proofs <-- WasmPages_proofs
```

Each specification `M` that is checked has a module `MCM` that gives its constants
values, and one `.cfg` per run.  In the specifications a definition whose comment
starts with *Bug:* is no part of the behaviour: it is a mutated form of the definition
that follows it, kept to show that the property it is named with in `PROJECT.json` can
fail.

A constant named `Avoid` lists what patches, or hosts, are known *not* to do.  Each
of its members is a guard in one place of the module, where the comment says what
happens otherwise; without it a property of the run fails (section 4 says which).

### ObjcMethod: the hook registry

`imp` is the program's method tables: for every class and selector the
implementation in the class's *own* table.  `Lookup` is the search up the
superclass chain.  `hooks` is the list of `ObjcMethodHook` objects, reduced to the
fields that outlive `hook()`; `closure` says what became of every libffi closure.

| action | code |
|---|---|
| `HookTargetMissing` | no such class, or no such method: `hook()` returns before it saved anything |
| `HookAllocFailed` | the original is saved, `ffi_closure_alloc` fails |
| `HookPrepareFailed` | return type, `ffi_prep_cif` or `ffi_prep_closure_loc`: the closure is freed, the saved original stays |
| `HookInstalled` | `class_addMethod`, else `class_replaceMethod` |
| `BeginClear`, `DestroyFront`, `EndClear` | `clearHooks`, one destruction at a time, because other threads read the tables meanwhile |
| `ClearHookErrors` | at the start of a load |

In all four outcomes of `hook()` the hook object joins the list, as `addHook`
does it.  A destroyed hook restores whenever it saved something, also if it was
never installed.

`MethodSpec` lets a patch do anything.  `CarefulSpec` is the same registry used by
a patch that touches no method twice between two resets, not even through
inheritance; that is the condition under which a reset undoes a patch.

### ClosureTables, ClosureHeap, HookClosures: the closures of hooks and blocks

Where no page may be both written and executed, libffi hands out trampolines from tables,
each one page of code remapped next to a page of configuration.  `ClosureTables` has `ffi_closure_alloc`
and `ffi_closure_free` as functions of the list of tables: of the tables only the first
is searched, a table that gets a free entry is moved to the top, and an unused table that
is not the first is given back to the system.  One mutex covers each function, so each
is one step of its caller.

On x86_64 closures are chunks of a private copy of dlmalloc whose memory comes from
`dlmmap`.  `ClosureHeap` has `dlmalloc`, for the one size that is ever asked for, with `sys_alloc` and the
three ways in which new memory joins a segment, and `dlfree` with `sys_trim` and `release_unused_segments`, as functions of
the heap: the headers of its chunks, its bins, designated victim, top and segments, and what each page
of memory shows.  Where the system refuses memory that is both writable and executable (`hardened`), each page
is mapped twice from a file, and a segment's code is at an offset from its data.  Addresses
and sizes are counted in words of eight bytes, to which dlmalloc aligns here.

* A bin is a set of sizes and addresses; of several chunks of one size any may be found, which covers the
  order of the lists and the trees.
* dlmalloc holds its mutex for each call, so a call is one step.  `ffi_closure_alloc` looks for the segment after
  it returned, without the mutex; hooks and blocks are made and cleared one at a time, so nothing comes between.
* Of the code that the definitions of `closures.c` switch off (`MORECORE`, direct mappings, `FOOTERS`) nothing is
  there; nor are `least_addr`, the footprint and the run-time checks that never fail in a heap that is whole.
* A page that cannot be mapped, a file that cannot be opened or has no space left, is an allocation that fails,
  which `HookAllocFailed` has.  Unmapping what is mapped does not fail.

`HookClosures` composes the registry with both and with the blocks; `arch` says which of the two the program
was built for.  Each hook and each
block takes a closure, a hook that fails gives its back at once, and a reset gives back the hooks' and then
the blocks'.  Every step of the registry's careful patch is a step here.

### ObjcRuntime: the load lifecycle

Extends the registry.  `pc[t]` is where a host thread is; `owner` holds `_mutex`.
One action per stretch of code between two points where another thread can get
in: the unlocked early checks (`LoadCall`, `UnlockedError`), the lock, validation,
the payload checks, parsing and linking (`LoadData`), everything `entry()` may
call (`EntryHook`, `EntryCreateBlock`, `EntryReenters`), its end, the verdict, and
the three phases of a reset.  A call into a patch is `CallHooked` or `InvokeBlock`,
`FetchRuntime` (the mutex is taken and given back), possibly `RunHooks`, and
`RunReturns`.

`load` and `loadData`, with and without options, are one request whose `policy`
may be `NoPolicy`: they differ in when a missing file is noticed, and the model
has that difference.  `ref[t]` is the interpreter a thread fetched; a reset turns
it to `"freed"`.  `active` and `missed` are history variables: an accepted load
has not been reset, and the running `entry()` failed to install a hook.

A reset while another thread is inside a replacement is undefined behaviour of
the code (it frees the interpreter and the closure that run).  The model lets the
thread go on and return, and `OnlyResetFrees` says that nothing else brings this
about.

### PatchDelivery and PatchCache: manager and loader

Every file operation is a step of its own: ask whether the file is there, read it,
create the directory, write atomically, remove one file, remove the directory.
`mainQueue` holds the completions of fetches.  The runtime is reduced to its
loaded patch and its last error: a load is one step here, which `LoadsExclude`
justifies.  A hash is the content it is the hash of.

`PatchCache` is what a user of the manager would like to believe: a map, in which
a store takes effect once, whole, and only for the content that was asked for.
`PatchDelivery` implements it under the mapping `Cache`, which counts a store as
done from its atomic write on.

### ObjectHandles: who frees what crosses the bridge

`heap` says of every box (`WAPInternalObject`) and array whether it was allocated and
deleted.  An *activation* is a function of the patch that runs: `entry()`, the
replacement of a method or the body of a block.  The bridge boxes what it passes
(`MethodEnters`, `BlockEnters`; an argument of an unknown type is the handle 0), the
function calls exports in any order, and it returns at most one handle
(`MethodReturns`, `BlockResult` and then `BlockReturns`) or traps (`Traps`).  The actions between them
are the exports that make, store, pass or free a box or an array; `CallMethod` and
`CallReturns` are apart, since the method called may enter the patch again.  `PoolKeep` and `PoolDrain` are
the pool of `wasmpatch.h`.

`owned` is what the *author* of a function keeps in mind, not state of the program: a careful author frees what an
export returned once, or hands it to an array or the pool or the caller, and leaves
alone what was passed, as all examples of the documentation do.  The properties
then say that the library does its part.  `lost` is a history variable.

One thing the documentation does not tell an author: a replacement may return
a box it was passed, but the body of a block may not.  `BlockTrampoline` deletes the
result and then all arguments, and so deletes that one twice.  `MayForward` allows it;
with `TRUE`, `HeldOnce` fails after three steps, and the run has `FALSE`.

### StructLayout, StructFields: structs by value

Types are trees of scalars, arrays, bit-fields, structs and unions.  `CLayout` is
the compiler's layout on the 64-bit Apple platforms, `TokenLayout` the library's
manual one (used when `NSGetSizeAndAlignment` gives up at a bit-field), `FFIType`
the libffi type the library builds.  The steps of `StructLayout` only enumerate the
types: a struct gets a member, or becomes a member.  The descent is recursive, so
these modules are for TLC only.

`StructFields` goes on where a type is complete.  A struct is made by `alloc_struct`, by one of the
`new_cg*` exports, or received; its members are then set one after the other, each through an accessor of
its kind (`struct_set_*`, `struct_set_bits`, or those of the four geometry structs), and in the end it is
passed.  A value is no number: every bit tells where it came from, which is nobody (zeroed),
the struct that was given, or the patch, as the *i*-th bit of what it set a member to.  `set` remembers the members that were
set, in this order; `FieldsReadBack` compares it with what the getters return and with
the bytes that arrive.  There is no accessor for `char`, `short` and `bool` members: they
are reached through the bit accessors.

### FFITypes, MethodSignature, Arm64Arguments, X64Arguments, ArgumentPassing

`MethodSignature` translates the scanner that cuts an encoding into arguments and the
mapping of each piece to a libffi type.  A step of the scanner is one character; the scan is a fold over the encoding.
`Arm64Arguments` and `X64Arguments` have, for each of the two processors, three opinions
on an argument: `CallArgument` is `ffi_call`'s, `ClosureArgument` the one of
`ffi_closure_*_inner`, and `CompilerArgument` is the processor's calling convention, of which
there is no source in the repository (its entries are marked external).  Each moves the counts of
taken registers and stack bytes on and returns a location: register file, first register,
number, bytes moved; or an offset on the stack.

`ArgumentPassing` takes the arguments of a signature one by one, so that each state is a whole
signature: the compiler's opinion is about the *declared* type, libffi's about what the library
*read in the encoding*.  A replacement and the body of a block use the closure, `invoke_block` the call.

### WasmBytes, WasmModule: from a file to a module

`binary` is what was read so far; `ReadSection` takes any section next, in or out of
order, cut off or whole, with numbers in their short or their longest LEB128 form, which `WasmBytes` decodes bit by bit.  The module that
results is `module`.  After `EndOfPatch` come the steps of `m3_LoadModule`: `InitMemory`, `Globals`, `Data`,
`Elements`, `InitStartFunc`, each of which may fail, and then `Link` for every function
of the bridge.  The properties recompute from `binary` alone what a module should be.

### WasmSlots, WasmCompile: the single-pass compiler

`WasmSlots` is the compiler's bookkeeping as operators on a record `o`, the
`M3Compilation`: slots with a use count, two registers, the stack of operands, and the stack of open blocks.
`WasmCompile` has one action per kind of instruction.  The program is not given: each step *chooses* a valid
instruction and compiles it.  `local.get` copies nothing: its operand names the slot of the local, until
`SetLocal`, `LoopOrBlock` or `If` saves the value for the operands that name it
(`FindReferencedLocalWithinCurrentBlock`).  Each step also runs the code it emitted, on a
frame in which every cell holds a value of its own, and compares with what WebAssembly means; `wrong` says what did not fit.
Since the frame is symbolic again after each step, a finite number of states stands for functions of any length.

### WasmRuntime and WasmMachine: running patches

`WasmMachine` is what the interpreter promises the bridge: patches that were loaded over
each other, calls by name, and a stack of functions that run the instructions of the *program*.
In `WasmRuntime` the program is compiled when a function is first called.  `code` has pages of
a fixed number of lines, in one of three lists, open, full or the environment's; a page that
is too short for the next operation is *bridged* to another one; branches forward are reserved
and patched at the end of their block; the arms of an `if` have pages of their own.  `frames` holds a program counter into a page, and a call, a return, a
branch and a trap do what `m3_exec.h` says, operation by operation.  Memory is a flag per frame:
it moved since the frame last fetched its address.  A word that holds no operation (an address, an operand, nothing yet) has
no effect if it is run; `Word` gives it the kind `Data`.  The refinement mapping `M` reads off the page where in the
program the counter stands, through the function `Landing`, which follows a bridge to its end.

Three assumptions say what a patch is here.  `PayloadAssumption`: of each body, the kinds of instructions, at most four
operands (`m3_core.h:165`), calls of functions the patch has, arms of an `if` that end where it does and nest; the table
names functions with code; and no function is both imported and defined.  It is what the parser and the compiler have checked when a
function is compiled.  `ExportsAssumption`: the exports that are linked are a list.  `LinesAssumption`: a page has a line.

## 3. What the runs check

| run | configuration | what it shows |
|---|---|---|
| `careful` | a class, a subclass and an unrelated class; 3 hooks, 4 closures, 2 blocks; tables of 2 trampolines, 3 of them; a heap of 4 pages | types (`TypeOK`); closures are owned by exactly one hook (`ClosuresOwned`), no freed closure is reachable (`NoDanglingImp`), a cleared registry is the shipped program (`ResetRestores`), no trampoline is lost, shared or given back in use (`TrampolinesOwnedOnce`), dlmalloc's own checks would pass, each chunk in use is a closure's or a segment's record, and what is written to a closure is what its code reads (`ChunksOwnedOnce`) |
| `twice` | the same without blocks, `MethodSpec` | **violated**: a method hooked twice (`NoDanglingImp`) |
| `lifecycle` | two threads that load, reset and call; three policies; reentry and later hooks allowed | exclusion (`LockExcludes`), the meaning of `isLoaded` (`LoadedIsActive`), `strictHooks` (`StrictAcceptsAll`) |
| `tidy` | one loading and one calling thread, all payloads, three hooks, two of them installed, a host that resets after each failed load | of the hooks on one method, failed ones among them, the last that was installed wins (`LatestHookWins`); a reset leaves nothing (`NoRuntimeNoPatch`), a reload starts from nothing (`ResetFirst`) and only where allowed (`ReloadIsAllowed`), only a reset frees what runs (`OnlyResetFrees`), the mutex comes back (`LockReleased`) |
| `two_callers` | two calling threads | **violated**: `InterpreterSerialized` |
| `races` | two calls at a time, of every kind, on two names of one file and a third name | the cache is a map (`ImplementsCache`), a pinned load (`LoadedAsPinned`), one completion per fetch (`OneCompletion`, `FetchCompletes`) |
| `ownership` | two activations, four boxes, two arrays, a pool of one, calls and arrays of up to two | nothing is freed twice or used after it was freed (`HeldOnce`); what leaks is what a replaced method was passed, what a full pool refused and what a trapped function had (`LeaksAreKnown`) |
| `tame` | all types of up to three members and two levels; of each, structs made or received whose members are set up to twice | the descriptions agree on structs whose bit-fields fill their units, without the three kinds of `LayoutAvoid` (`TameMatchesC`); what was set is read back and arrives (`FieldsReadBack`) |
| `signatures` | both processors; scalars, pointers, structs of one to five scalars and nested ones; the real numbers of registers | arguments and results are where the compiler has them, for calls (`CallMatchesCompiler`) and closures (`ClosureMatchesCompiler`), and the stack counted beforehand holds them (`ArgumentsFit`) |
| `module` | files of all sections, some of them malformed | a well-formed patch is loaded (`NoPatchRefused`), its exports are found (`ExportsAreFound`), imports are linked to functions of their type (`FunctionsMatch`), memory, table and globals are what the segments say, and nothing is written outside of them (`InstanceMatches`) |
| `compile` | a function of an `f64` and an `i32` argument and an `i32` variable, in slots 0, 2 and 3, values of type `i32` and `f64`, instructions of every kind | operands (`RightOperands`), the compiler's idea of where each entry of the stack is (`RightEntries`), labels (`RightJoins`), use counts (`SlotsAreCounted`); a block leaves the entries outside it alone (`OuterEntriesStay`) |
| `machine` | two modules of five patches, three frames, two calls of the bridge nested, pages of 12 lines | the interpreter does what the program says (`ImplementsMachine`); a page is in one list and not overrun (`PagesOwnedOnce`), code that can be reached does not change (`CodeStays`), whoever runs knows where memory is (`MemoryIsCurrent`) |

The invariants of the registry hold of *any* patch, careful or not, and whatever the
bounds: that is proved (section 6), so that the run `careful` need not repeat it.

### Bounds

* **Registry.** Interference needs two hooks on one method, on a method and one it
  overrides or inherits, or on unrelated ones: two related classes and one apart
  have all cases, a third hook puts a failed one before, between or after them.
  A closure of the registry is used once in a behaviour, so `Closure` also bounds the closures
  that are allocated in total; four of them let hooks be installed again after a clear.
  The theorems of section 6 are free of these bounds.  A careful patch hooks a method once, so
  which of several hooks is the last is checked in `tidy`, where three hooks go to one method,
  two of them installed and one failed before, between or after them, or fewer installed and more failed.
* **Trampolines.** Tables have 1024 entries in the code and two here: an entry
  that is the last free one, the first, or one between are still told apart.  Three hooks and two blocks
  need three tables, so that one is first, one is last and one between.
* **Heap.** A page has 32 words (512 in the code), enough for two closures and the foot of a segment, and as
  in the code a multiple of a closure's 8 words, so that what is left of a top is as odd as it is there.  The large bins begin at
  16 words, not 32: what a segment of one unused page leaves has to be binned as a large chunk, as it is there;
  `HeapAssumption` names what is kept of the relations between the sizes.  A top of more than 41 words is trimmed,
  the least with which trimming always gains a page, as it does with 2 MB.  With four pages of address
  space segments are appended, prepended, kept apart, trimmed and released, with data and code next to each other in
  every order; the file has three pages, so that mapping from it may fail.  On x86_64 two unrelated methods
  are hooked (`IntelTargets`), because there only the memory differs.
* **Lifecycle.** Two threads are a holder and a waiter, or two callers.  One
  method is enough, since the registry's own runs deal with several.  The payload
  kinds are classes of payloads the code tells apart; `lifecycle` leaves out
  `empty` and `unparsable`, which fail in the same place as kinds it has
  (`unreadable` with options, `rejected` without), and `tidy` has all of them.
* **Delivery.** Two calls in progress are the race; three files' worth of names are
  a name and its alias, and one more.  Three contents are the good one, one that is
  well-formed but not signed, and one that is not wasm.
* **Handles.** Activations meet only in the heap, so two of them are enough for one
  that is called while another waits.  A box is used once in a behaviour; four
  are a receiver, two arguments and a result.  Two arrays are the arguments and
  one of the patch's own, or that of a call.  A pool of one is full at the second object.
* **Structs.** Scalars of one and four bytes give every kind of padding, arrays of
  two show count and alignment apart, bit-fields fill a unit alone, together, or
  not at all, alone in their struct or among other members.  A second setting shows whether the first is disturbed.
* **Signatures.** All register counts are the real ones.  `MaxStack` of 9 bytes holds a
  word and the beginning of a second: what follows depends only on where in a word it begins, and
  all of that has come round by then.
* **Module.** Each section has a handful of contents, chosen so that indices reach
  imports and functions, types are equal and different, and segments touch, overlap
  and end outside, behind memory and before it.  A page of 128 bytes makes the boundary reachable.  Sections come in any
  order, so the bound is on their contents alone.
* **Compiler.** `MaxLoad` bounds operands and open blocks together, three of them: a
  value held over a block, in a block, or two operands and a condition.  Two words per 64-bit value are in.
  The arguments and the variable have the numbers 0, 1 and 2 and the slots 0, 2 and 3, so that a number is its slot,
  is another local's, or is half of one; the 64-bit one takes two.  14 slots, of which six are those of locals and
  constants, are never used up.  Functions are of any length.
* **Machine.** Pages of 12 lines are the shortest that hold the widest operation and
  the bridge behind it, so that nearly every operation is next to a boundary.  The patches have a loop, an
  `if` with both arms, a branch table, calls direct and by table, growing memory, traps,
  an import that is missing, a function that does not compile.  Two nested calls are a
  replacement that is called while another runs; 3 frames overflow at the fourth.

### Deadlock

Deadlock is checked except in four runs.  In `lifecycle` the code really stops:
`entry()` calls a method it has hooked, or the host's log handler calls the API, and
waits for the mutex its own thread holds, for ever.  The documentation warns of it for
blocks (`pages/guides/blocks.md`, "Lifetime & threading"); `tidy` assumes that nobody does it
(`MayReenter`), because `LockReleased` does not hold otherwise.  In `tame` and `signatures` the
enumeration of types and of arguments simply ends at its bounds, and in `module` a file is
loaded, or refused, and that is the end.

## 4. Where the code and its promises part

Two are runs that TLC ends with a counterexample; the quotations are in
`PROJECT.json` under `findings`.

* `twice`: a method is hooked twice.  The second hook saves the first one's closure;
  `clearHooks` destroys the first hook (shipped implementation back, closure freed)
  and then the second (freed closure back into the class).  The documentation says
  that a reset is clean.
* `two_callers`: `runtime()` gives the mutex back before the call, so two threads
  execute on one wasm3 stack.

The others are what the guards of the passing runs keep out.  Take the guard away and the
property named here fails.

**Lifecycle.** The refusal of a second load goes through `setError`, which clears `_loaded`
(`wap_objc_runtime.mm:180`); the third load is then accepted though `allowReload` is off
(`ResetOnError`, `ReloadIsAllowed`; `pages/guides/diagnostics.md:74`).  A strict load is
rejected after `entry()` ran, and the hooks that did install stay (`wap_objc_runtime.mm:166`;
`pages/concepts/security.md:71`).

**Structs.** `TameMatchesC` is about types whose bit-fields fill their storage units; then, `pages/faq.md:65`,
`pages/guides/structs.md:86` and `wap_objc_struct.h:357` say, the size inferred is right.  Three kinds of them are taken for
others, and left out by name.  A struct of several bytes only has no alignment to be found, so in a type with bit-fields it
is guessed from the size: `{char; char:8; char}` gets size and alignment 4, which are 3 and 1 (`bytes`, line 390).
A struct with bit-fields that is larger than it is aligned, with several units or with other members, is described as
integers of its size: `{int; int:32}` is aligned to 8, which is 4 (`words`, line 170).  So is a union, and one with bit-fields lays
them behind its other members (`union`).  A union of eight bytes aligned to four is described to libffi as one
eight-byte integer, so that an enclosing struct grows beyond the buffer held for it
(`wap_objc_struct.h:170`; `README.md:91`).  A received struct is an immutable `NSData`, and
setting a member of it is silently ignored (`received`); `alloc_struct` for a geometry
struct makes bytes that nobody unwraps (`family`); an `NSRange` is an `NSValue` that has no accessors, though
`README.md:30` lists it (`range`); `StructUnwrapBytes` says that it returns false for the wrong
kind (`wap_objc_struct.h:118`) and does not compare kinds (`kind`).  All four: `FieldsReadBack`.

**Signatures and calls** (`CallMatchesCompiler`).  An encoding that is a pointer to more than one character
(`r^v`, `^^v`, `^{..}`, `N^@`) is cut into several arguments (`split`).  On arm64, a small struct on
the stack takes whole words for the compiler and its own size for libffi (`packed`), and
`ffi_call` aligns the pointer to a large struct as the struct (`reference`, `ffi_arm64.c:647`).  On x86_64, a nested struct
that begins off an eightbyte is classified by its own size (`straddle`, `ffi64_x86_64.c:222`), and a struct of an integer and a
floating-point word whose first takes the last general register is copied with all that follows
(`overrun`, line 652).

**Files** (`module`).  The DataCount section, which stands before Code, is refused as misordered
(`dataCount`, `m3_parse.c:555`); the start function runs before `initRuntime` has linked what
it calls (`start`); an empty element segment behind the table is a table overflow (`empty`): `NoPatchRefused`.
An element segment that ends lower than an earlier one shrinks the table (`descending`), and a data segment that begins
before memory and ends in it is copied over the header of memory, because the sum of its offset and its length, in 64 bits, is
all that is compared (`before`, `m3_env.c:567`): `InstanceMatches`.
A function has one name, shared by imports, exports and the name section: an export of an import or under a second name (`alias`), one whose name an import or another
function's debug name has, too (`shadow`), or one that is named before it is exported (`early`) is not found: `ExportsAreFound`.
A type section that ends between two types frees one that the environment owns (`m3_parse.c:97`).  It shows in the next
patch of the same environment; the model loads one patch, and has no environment.

**Compiler** (`compile`).  `memory.size` writes the register without saving what is in it (`size`,
`m3_compile.c:1475`): `RightEntries`.  A call marks one slot for a 64-bit result (`wide`, 1385): `RightEntries`.
A conditional branch to a label with a value evicts the value into the slot its condition was
just freed from (`evict`, 1213): `RightOperands`.  Locals are copied for the operands that name them before a block begins and
before they are assigned.  Before a block the local's number is used as its slot, so that a local in another slot is not
copied, and an assignment in the block changes the operand, on the paths that pass through it (`unsaved`, 1533): `RightEntries` and `RightJoins`.
The copy has the type of the stack entry whose index is the local's slot, an operand's or another local's, and so
too many slots or too few (`mistyped`, 880), and the uses of a 64-bit copy by several operands are counted in its
first slot and given back in both (`halved`, 885 and 305): `SlotsAreCounted`.

**Machine.** A second load overwrites the buffer that functions of the first are still
compiled from (`stale`, `wap_wasm.hpp:145`), and a call site is rewritten before its function has compiled
(`spoilt`, `m3_exec.c:175`): `ImplementsMachine`.  An `else` that fails to compile loses the page
of the other arm (`lost`, `m3_compile.c:1587`): `PagesOwnedOnce`.

**Trampolines.** `ffi_closure_free` moves a table to the top without mending the links it
had (`closures.c:339`).  With hooks and blocks over three tables, in the code more than 2048
closures, live tables come to point at freed ones; they are not followed in a way that
`TrampolinesOwnedOnce` could see.

The passing runs state what does hold: under `CarefulSpec`, for a host that resets
after each failure, for tame structs, for programs that keep to `Avoid`.

## 5. Fairness

Specifications for safety have none.  `ObjcRuntime!FairSpec` assumes, per thread,
weak fairness of the library's own steps of a load and of a reset, of the end of
`entry()`, and of the return of a replacement: a thread that is inside the library
is scheduled, and the patch's functions end.  The host is never obliged to call.
Weak fairness of the locking step does *not* promise that a waiting thread gets the
mutex; `LockReleased` only says that whoever has it gives it back, which is all
that `std::mutex` and the code support.

`PatchDelivery!FairSpec` assumes that a call that was made runs on, that
`URLSession` calls its handler (it times out otherwise), and that the main queue
is served.

The compiler, the module loader and the interpreter run on their caller's thread and loop
only where the program does; nothing is claimed of their progress.

## 6. What is proved, and how

For every value of the constants allowed by the assumptions: any number of
threads, classes, selectors, closures, blocks, policies, fetches, files, boxes, arrays and
activations, tables of any size, any class hierarchy, and in the interpreter any patches, any number of lines in a
page and any depth of calls.

| theorem | states |
|---|---|
| `TypeCorrect`, `RuntimeTypeCorrect` | types |
| `NoClosureLeaks` | `ClosuresOwned`, whatever fails |
| `LatestHookRuns` | `LatestHookWins` |
| `CarefulNeverDangles`, `CarefulIsUndone` | `NoDanglingImp` and `ResetRestores`, for a careful patch |
| `RuntimeImplementsMethod` | the lifecycle implements the registry: `Spec => MethodSpec` |
| `RuntimeLeaksNoClosure` | hence no interleaving of loads, failures, resets and calls leaks a closure |
| `LoadsExclude` | `LockExcludes` |
| `LoadedIsTrue` | `LoadedIsActive` |
| `LoadedReportsNoError` | a loaded runtime reports no error |
| `StrictLoadsAreWhole` | `StrictAcceptsAll` |
| `RunsUntilReset` | `OnlyResetFrees` |
| `NothingOutlivesRuntime` | `NoRuntimeNoPatch`, for patches that hook in `entry()` only |
| `ResetsFirst`, `ReloadsAreAllowed` | `ResetFirst` and `ReloadIsAllowed`, for a tidy host |
| `ClosuresImplementCareful` | hooks, blocks and tables of trampolines implement the careful registry: `ClosuresSpec => CarefulSpec` |
| `NoTrampolineShared` | `TrampolinesOwnedOnce`, that is, for arm64 |
| `DeliveryImplementsCache` | manager and loader implement the cache: `ImplementsCache` |
| `LoadsArePinned`, `CompletesOnce` | `LoadedAsPinned`, `OneCompletion` |
| `FreedOnce`, `LeaksAreListed` | `HeldOnce` and `LeaksAreKnown`, for blocks that do not return an argument |
| `CodeInvariant` | pages, lists and words of code are well formed, whatever is loaded, compiled, fails and runs |
| `WrittenCodeStays` | `CodeStays` |
| `FramesInvariant` | a function that waits for the bridge stands at a call of it |
| `MemoryKnown` | `MemoryIsCurrent` |
| `PagesOwned` | `PagesOwnedOnce`, for patches that leave nothing uncompiled behind and lose no page |

**Assumptions.** `HierarchyAssumption`: inheritance is reflexive, transitive and
antisymmetric, and a non-empty set of ancestors of a class has a nearest member, as
a superclass chain has.  `ValuesAssumption` and `RuntimeAssumption`: the null values
are no values, a closure is no block, the sets are subsets of what they should be.
`HandlesAssumption`: a box is no array, and
neither is the handle 0.  `PayloadAssumption`, `ExportsAssumption` and `LinesAssumption` are those of `WasmRuntime`, above.  TLC evaluates them in every run.

Six theorems have a hypothesis on a constant, which is what the run of the same property
has for its value.  `HooksAtEntry` (`NothingOutlivesRuntime`): patches make hooks and blocks
while `entry()` runs, not later out of a replacement.  `TidyHost` (`ResetsFirst`, `ReloadsAreAllowed`):
that, one thread that loads, and a reset after each failure.  `MayForward = FALSE` (`FreedOnce`, `LeaksAreListed`):
no body of a block returns a box it was passed (see `ObjectHandles`, above).
`{"stale", "lost"} \subseteq Avoid` (`PagesOwned`): no patch is loaded over functions not yet compiled, and none
calls, behind an `else`, an import the bridge does not link (section 4 has what happens otherwise).  The properties do not hold
without them; the runs `lifecycle` and `tidy` differ in just that.

**The registry.** `ClosuresOwned` is inductive with the types.  `NoDanglingImp` and
`ResetRestores` are not: that no class runs a freed closure says nothing about what
the *next* destruction will put back.  The strengthening is `CarefulInv`:
`SavedIsShipped`, each hook remembers what the *shipped* program runs there, and
`Accounted(m)`, each slot of the tables is untouched, holds a shipped
implementation, or holds the closure of a hook that is still registered.  The
delicate case is a destruction: it puts back a shipped implementation, and because
hooks do not interfere no other hook's slot changes.  That a hook added now saves a
shipped implementation (`CarefulLookup`) needs that no registered hook is visible
from its class, which is where the hierarchy's assumption is used (`NearestExists`,
`NearestUnique`, `LookupUnchanged`).  With an empty list `Accounted` has only its
first two cases left, and these are `ResetRestores`.

**The lifecycle.** `ActsMethod` shows that each action of a thread is a step of the
registry or leaves it alone, which is `RuntimeImplementsMethod`; the registry's
theorems are then inherited.  `LockExcludes` is inductive with the types.
`LoadedIsActive` needs `EntryLoaded`: while a thread is in `entry()` or at the
verdict the interpreter has an entry, because the mutex keeps every reset out.
`StrictAcceptsAll` needs `MissedCounted`: a hook that the running `entry()` missed is
counted in `hookErrors`, because only the load that holds the mutex, and a reset,
set the counter to zero.  `OnlyResetFrees` follows from `NothingFreed`, step by
step: no action but the three phases of a reset takes a closure, a block or a
fetched interpreter away, and those phases are another thread's since one that is
inside a patch is not in them.

**A tidy host.** `NoRuntimeNoPatch` is made inductive by `NullIsBare`, which says it of each stretch of a
reset: once `clearHooks` and `ClearWasmBlocks` are done, nothing can be made before the next interpreter
is. `ResetFirst` and `ReloadIsAllowed` need `TidyInv`: where the loading thread stands, it either has accepted nothing since
the last reset, and then there is neither hook nor block, or what it accepted is still the
loaded patch; a failure leaves it no way but the reset.

**Closures.** The invariant `ClosuresInv` relates three lists that different code keeps: the hooks, the blocks, and libffi's list of tables with
their free lists.  On arm64 that is `HoldersOK`: every hook and block whose closure is live has a trampoline, no two the same
one, each in a table that is on the list and not on that table's free list.  The lemmas about tables
(`SoundAlloc`, `SoundFree`) say what allocation and release do to a sound list:
a table is dropped only if it is entirely free, which follows from its count because a free list without
repetitions that is as long as the table is everything in it (`FullList`).  `InUse` is
written as a function on holders, not as a selection from a list, which the provers could not look into.

**Delivery.** `DeliveryInv` has one clause for each step a call may be at: what is in `data`, in
`call` and in the cache when it is there.  `LoadedAsPinned` follows because comparing and loading are the
same step on the same bytes.  The refinement has one lemma for each action: only the atomic write of a store and the
removals are steps of the cache, every other is a stutter, and a store that answers
with a path has had its one write.

**Handles.** `HeldOnce` and `LeaksAreKnown` together are the same as: each object is either written down in
exactly one place (six kinds of places: owned, receiver, arguments, parameters, pool, item of an array) or in none,
and then not live or known to be lost (`KeptOrLoose`).  This form is inductive with the types, what each activation has in hand where it
is (`FrameOK`), and that an array not yet allocated is empty (`FreshArrays`).  An action moves few objects
from one place to another; `StaysAsItWas` takes care of all others, `PassedIsHeld` of
everything that is boxed for a call, and `WhatWentIsKnown` of everything that goes when a function returns or traps.

**The interpreter.** `CodeInv` says that the three lists hold pages there are, that a page is a list of words, and that
each operation belongs to a module that is loaded, and behind each one that compiles a function is the name of a
function that module has.  Nothing smaller is inductive: a call site is rewritten through the name behind it.  While a body is compiled,
`Working` holds between the code at the beginning and the code now: what was there is `Kept`,
and what remains to be patched is `Fresh`, an operand written since.  From this follows `CodeStays`: a branch
that is resolved changes words nobody has run, and all other changes are the two that `CodeStays` names.
Acquiring, bridging, releasing and patching each have lemmas of their own; a compilation is a fold of them.
`MemoryIsCurrent` is not inductive, since memory moves for every frame while a call of the bridge is out: `FramesInv` adds that
whoever has a call of the bridge above it stands at the word that made it, a word nothing rewrites
(`RawStays`, from `CodeStays`), and this word is the one that fetches the address again.

**Pages.** Between steps every page is in one list, once (`Neat(code, {})`).  While compiling, some pages are in none, and that
is no flaw: the one that is written and those of the arms of each open `if`.  `Writing(c, H, n)` names them, `H`
being the pages that wait, and says how many lines are left on each; two lines are always kept back, for the jump that a
bridge or the end of an arm writes, and that is why nothing is written behind the end of a page.  An arm
saves its page until its `if` ends, so `Compiling` has a stack of saved pages that nest as the
arms of the body do, all different; when the last instruction is reached none is left, because each would
end behind it.  A compilation that fails drops its page properly, unless it is inside an arm: `CompileElseBlock` then forgets
the page it had put aside.  This is what `lost` excludes, and `stale` excludes that a function's bytes are gone from the buffer, where
a call of it fails in an arm, too.  `PagesInv` carries both from the loads to the
compilations: linked imports have addresses, and the module of a function not compiled yet is the one in the buffer.

Compilation, patching and linking are folds, and so are proved by induction over the instructions, words and
exports.  The library's induction takes an operator, so `Induction` is stated for a *set* of numbers that contains 0
and the successor of each of its members, derived from `WFMin`.  The functions that the folds
iterate (`BodyIter`, `TableIter`, `LinkIter`) are named, shown to exist, and then unfolded one step at a time.

**Only model-checked.** Liveness (`LockReleased`, `FetchCompletes`), which TLAPS does
not reach.  What is defined by a `RECURSIVE` operator, which the provers cannot be given, and all that depends on it: the layouts of
`StructLayout` and `StructFields`, the arguments of `Arm64Arguments` and `X64Arguments` and so
`ArgumentPassing`.  Three components whose definitions the provers can be given, but where no proof has been
written: `WasmCompile`, where each of some twenty-five actions moves entries, counts and registers at once; `WasmModule`, which has a fold for each kind of section;
and `ChunksOwnedOnce`, since a heap is changed by some twenty operators and a fold over segments.  `ImplementsMachine`: besides the invariants above it
needs that each branch, once resolved, lands where the program says, which relates every word to an instruction.

## 7. What is not modelled

* The conversion of arguments and results in the method bridge, in blocks and in
  the call exports: which number or string a box holds.  Layouts and locations are the
  part with the hard boundaries.
* The references that boxes hold to Objective-C objects, which ARC counts.
* In `CreateWasmBlock`, the errors before its closure is allocated, which change nothing.
* The log handler, except that it may call back while the mutex is held.
* In struct layout the scanning of names and qualifiers (`MethodSignature` has it), empty
  structs and zero-width bit-fields.  In signatures the encodings `D`, `(` and
  qualifiers other than `r`, which get no type at all and make the hook fail; structs as arguments and results of
  `invoke_block`, which it does not support.
* A fetch without a completion block, and the configuration of the session.
* The contents of hashes and signatures: they fit or they do not.
* The torn read of `lastError`, a reference into a string that another thread may
  be assigning: it has no value one could state a property about.
* Of wasm3: the arithmetic of `m3_exec.h` and `m3_math_utils.h`, the values on the stack
  (which slots the code names is `WasmCompile`'s subject, where it continues `WasmRuntime`'s), the magic
  number, the bytes of names, the lengths of sections, imported tables, exports of things that are no functions, the start function's
  run, WASI and the tracing layers.  Code behind a branch is taken not to exist, as compilers emit none.
* Of libffi: the 32-bit ABIs, variadic calls, reallocation and aligned allocation in dlmalloc, raw and Java closures, and the assembly that
  moves the registers.
* The demo apps, build scripts and the documentation site.

Noticed on the way and not pursued further, since no property here is about it:
sizes of memory that wrap at 32 bits (`m3_env.c`, `ResizeMemory`); a second module with a memory
of its own, which replaces the runtime's; raw pointers into memory that exports keep while memory may move;
pages that failed compilations use up.

## 8. Plan

Written so far, in this order, the most central first: `ObjcMethod`, `ObjcRuntime`,
the proofs of both, `PatchDelivery` over `PatchCache`, `StructLayout`, `ObjectHandles`;
then the ground that patches stand on: `WasmCompile`, `WasmRuntime` over `WasmMachine`, `ArgumentPassing`,
`WasmModule`, `StructFields`, `HookClosures`; then the proofs about `PatchDelivery`, the
tidy host, `HookClosures` and `ObjectHandles`, and `ClosureHeap`; last the proofs about `WasmRuntime`, of
its code and frames (`WasmRuntime_proofs`) and of its pages (`WasmPages_proofs`).  Next:

1. That resolved branches land where the program says, and from it `ImplementsMachine`, by the induction that
   `WasmRuntime_proofs` has.
2. **WasmModule_proofs**: that an import is linked to functions of its type only, the part of `FunctionsMatch` that holds
   of any file, by the same induction over the functions of the bridge.
3. **LogHandler**: copy-then-call under its own mutex; a handler may still run after it
   was replaced, but never a half-assigned one.

Runs stay few: new questions about one component share a run, and the
counterexamples may give way as the runs above need room.  Bounds are
chosen as here: two actors, the smallest hierarchy or file set that has every case,
one spare of each consumable.
