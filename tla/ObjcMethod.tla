------------------------------ MODULE ObjcMethod ------------------------------
(***************************************************************************)
(* The hook registry of WasmPatch: wap::ObjcMethod, the singleton that     *)
(* owns every ObjcMethodHook a patch installed, together with the part of  *)
(* the Objective-C runtime the hooks write, the classes' method tables.    *)
(*                                                                         *)
(* A hook remembers the implementation it found (possibly one inherited    *)
(* from a superclass, possibly another hook's closure), puts a libffi      *)
(* closure in its place, and puts the remembered implementation back when  *)
(* it is destroyed.  clearHooks() destroys the hooks from the oldest to    *)
(* the newest, one after the other, under the registry's mutex; the method *)
(* tables are read by every thread of the host without that mutex, so each *)
(* destruction is a step of its own.                                       *)
(***************************************************************************)
EXTENDS Naturals, Sequences

CONSTANTS
  Class,         \* class and metaclass objects of the host program
  Selector,      \* selectors
  Ancestors,     \* Ancestors[c]: c itself and its superclasses
  Shipped,       \* methods the host binary implements itself, as <<class, selector>>
  UnknownClass,  \* a class name the Objective-C runtime does not know
  Closure,       \* libffi closures, one per successful ffi_closure_alloc
  NoImp,         \* a null IMP: the class has no such method
  NoClosure,     \* a null closure pointer
  MaxHooks       \* bound: hooks the registry holds at one time

Method == Class \X Selector

\* Class objects form a forest under inheritance, and a search up the superclass
\* chain meets a first class; the null values are no values.
ASSUME HierarchyAssumption ==
  /\ Ancestors \in [Class -> SUBSET Class]
  /\ \A c \in Class : c \in Ancestors[c]
  /\ \A c \in Class : \A a \in Ancestors[c] : Ancestors[a] \subseteq Ancestors[c]
  /\ \A c \in Class : \A a \in Ancestors[c] : c \in Ancestors[a] => a = c
  /\ \A c \in Class : \A S \in (SUBSET Ancestors[c]) \ {{}} :
        \E a \in S : S \subseteq Ancestors[a]

ASSUME ValuesAssumption ==
  /\ Shipped \subseteq Method
  /\ UnknownClass \notin Class
  /\ NoClosure \notin Closure
  /\ NoImp \notin Closure
  /\ NoImp \notin Method
  /\ Method \cap Closure = {}
  /\ MaxHooks \in Nat

VARIABLES
  imp,         \* the classes' own method tables; a shipped method's IMP is its own name
  closure,     \* what became of each closure
  hooks,       \* ObjcMethod::hooks
  hookErrors,  \* size of ObjcMethod::hookErrors
  mutex        \* ObjcMethod::mutex, held across the steps of clearHooks

methodVars == <<imp, closure, hooks, hookErrors, mutex>>

Imp == Method \cup Closure

\* What a patch may name: a method of a class, or of a class that does not exist.
Target == (Class \cup {UnknownClass}) \X Selector

\* The ObjcMethodHook fields that outlive hook(): context.targetClass and
\* targetSelector, originalImplementation, closure.
Hook == [target : Target, original : Imp \cup {NoImp}, closure : Closure \cup {NoClosure}]

-------------------------------------------------------------------------------
(* Method lookup, as class_getInstanceMethod and message sending do it.      *)

\* a is the class nearest to c, upwards, whose own table has selector s.
Nearest(table, a, c, s) ==
  /\ a \in Ancestors[c]
  /\ table[<<a, s>>] # NoImp
  /\ \A b \in Ancestors[c] : table[<<b, s>>] # NoImp => b \in Ancestors[a]

\* The implementation a message <<class, selector>> reaches; NoImp when none does.
Lookup(table, m) ==
  IF \E a \in Class : m[1] \in Class /\ Nearest(table, a, m[1], m[2])
  THEN table[<<CHOOSE a \in Class : Nearest(table, a, m[1], m[2]), m[2]>>]
  ELSE NoImp

ShippedTable == [m \in Method |-> IF m \in Shipped THEN m ELSE NoImp]

\* One of the two methods is seen through the other's class.
Related(m, n) ==
  /\ m[2] = n[2]
  /\ \/ m[1] \in Class /\ n[1] \in Ancestors[m[1]]
     \/ n[1] \in Class /\ m[1] \in Ancestors[n[1]]

-------------------------------------------------------------------------------

MethodInit ==
  /\ imp = ShippedTable
  /\ closure = [k \in Closure |-> "unused"]
  /\ hooks = <<>>
  /\ hookErrors = 0
  /\ mutex = "free"

\* addHook: whatever hook() returned, the hook joins the list.
Register(h, failed) ==
  /\ mutex = "free"
  /\ Len(hooks) < MaxHooks
  /\ hooks' = Append(hooks, h)
  /\ hookErrors' = IF failed THEN hookErrors + 1 ELSE hookErrors
  /\ UNCHANGED mutex

\* hook() found no such class, or the class answers to no such selector.
HookTargetMissing(m) ==
  /\ Lookup(imp, m) = NoImp
  /\ Register([target |-> m, original |-> NoImp, closure |-> NoClosure], TRUE)
  /\ UNCHANGED <<imp, closure>>

\* hook() saved the original implementation, but ffi_closure_alloc failed.
HookAllocFailed(m) ==
  /\ Lookup(imp, m) # NoImp
  /\ Register([target |-> m, original |-> Lookup(imp, m), closure |-> NoClosure], TRUE)
  /\ UNCHANGED <<imp, closure>>

\* The return type is not supported, or libffi could not prepare the call or
\* the closure: the closure is freed again, the saved implementation stays.
HookPrepareFailed(m) ==
  /\ Lookup(imp, m) # NoImp
  /\ \E k \in Closure :
        /\ closure[k] = "unused"
        /\ closure' = [closure EXCEPT ![k] = "freed"]
  /\ Register([target |-> m, original |-> Lookup(imp, m), closure |-> NoClosure], TRUE)
  /\ UNCHANGED imp

\* Bug: a class that does not answer to the selector is not noticed.
HookInstalledUnchecked(m) ==
  /\ \E k \in Closure :
        /\ closure[k] = "unused"
        /\ closure' = [closure EXCEPT ![k] = "live"]
        /\ imp' = [imp EXCEPT ![m] = k]
        /\ Register([target |-> m, original |-> Lookup(imp, m), closure |-> k], FALSE)

\* Bug: class_addMethod alone, which leaves a class's own method as it is.
HookInstalledAddsOnly(m) ==
  /\ Lookup(imp, m) # NoImp
  /\ \E k \in Closure :
        /\ closure[k] = "unused"
        /\ closure' = [closure EXCEPT ![k] = "live"]
        /\ imp' = [imp EXCEPT ![m] = IF @ = NoImp THEN k ELSE @]
        /\ Register([target |-> m, original |-> Lookup(imp, m), closure |-> k], FALSE)

\* class_addMethod, or class_replaceMethod where the class has its own method.
HookInstalled(m) ==
  /\ Lookup(imp, m) # NoImp
  /\ \E k \in Closure :
        /\ closure[k] = "unused"
        /\ closure' = [closure EXCEPT ![k] = "live"]
        /\ imp' = [imp EXCEPT ![m] = k]
        /\ Register([target |-> m, original |-> Lookup(imp, m), closure |-> k], FALSE)

\* replace_class_method / replace_instance_method, called by the patch.
AddHook(m) ==
  \/ HookTargetMissing(m)
  \/ HookAllocFailed(m)
  \/ HookPrepareFailed(m)
  \/ HookInstalled(m)

\* clearHooks takes the mutex ...
BeginClear ==
  /\ mutex = "free"
  /\ mutex' = "clearing"
  /\ UNCHANGED <<imp, closure, hooks, hookErrors>>

\* Bug: only what the class implemented itself is put back.
RestoredIfOwn(table, h) ==
  IF h.original = h.target THEN [table EXCEPT ![h.target] = h.original] ELSE table

\* Bug: a hook that remembers nothing takes the method away.
RestoredAlways(table, h) ==
  [table EXCEPT ![h.target] = IF h.closure # NoClosure THEN NoImp ELSE @]

\* Bug: the closure is not given back.
ReleasedNever(cl, h) == cl

\* ~ObjcMethodHook puts back what hook() saved, if it came that far, and only
\* then frees the closure.
Restored(table, h) ==
  IF h.original # NoImp THEN [table EXCEPT ![h.target] = h.original] ELSE table

Released(cl, h) ==
  IF h.closure # NoClosure THEN [cl EXCEPT ![h.closure] = "freed"] ELSE cl

\* ... list::clear destroys the hooks in list order ...
DestroyFront ==
  /\ mutex = "clearing"
  /\ hooks # <<>>
  /\ imp' = Restored(imp, Head(hooks))
  /\ closure' = Released(closure, Head(hooks))
  /\ hooks' = Tail(hooks)
  /\ UNCHANGED <<hookErrors, mutex>>

\* ... and the errors go with them.
EndClear ==
  /\ mutex = "clearing"
  /\ hooks = <<>>
  /\ hookErrors' = 0
  /\ mutex' = "free"
  /\ UNCHANGED <<imp, closure, hooks>>

\* clearHookErrors, at the start of every load.
ClearHookErrors ==
  /\ mutex = "free"
  /\ hookErrors' = 0
  /\ UNCHANGED <<imp, closure, hooks, mutex>>

ClearSteps == BeginClear \/ DestroyFront \/ EndClear

MethodNext ==
  \/ \E m \in Target : AddHook(m)
  \/ ClearSteps
  \/ ClearHookErrors

MethodSpec == MethodInit /\ [][MethodNext]_methodVars

(***************************************************************************)
(* The registry as a careful patch uses it: between two resets it hooks no *)
(* method twice, and no two methods of which one overrides, or inherits,   *)
(* the other.                                                              *)
(***************************************************************************)
Untouched(m) ==
  \A i \in DOMAIN hooks : hooks[i].original # NoImp => ~Related(hooks[i].target, m)

CarefulNext ==
  \/ \E m \in Target : Untouched(m) /\ AddHook(m)
  \/ ClearSteps
  \/ ClearHookErrors

CarefulSpec == MethodInit /\ [][CarefulNext]_methodVars

-------------------------------------------------------------------------------

TypeOK ==
  /\ imp \in [Method -> Imp \cup {NoImp}]
  /\ closure \in [Closure -> {"unused", "live", "freed"}]
  /\ hooks \in Seq(Hook)
  /\ \A i \in DOMAIN hooks : hooks[i].original # NoImp \/ hooks[i].closure # NoClosure => hooks[i].target \in Method
  /\ hookErrors \in Nat
  /\ mutex \in {"free", "clearing"}

\* Every closure that is allocated belongs to exactly one registered hook, and
\* no registered hook holds a closure that was given back: no error path of
\* hook() and no destruction leaks a closure or frees one twice.
ClosuresOwned ==
  /\ \A k \in Closure :
        closure[k] = "live" => \E i \in DOMAIN hooks : hooks[i].closure = k
  /\ \A i \in DOMAIN hooks : hooks[i].closure # NoClosure => closure[hooks[i].closure] = "live"
  /\ \A i, j \in DOMAIN hooks :
        hooks[i].closure = hooks[j].closure /\ hooks[i].closure # NoClosure => i = j

\* The most recent hook that was installed on a method is the one its class
\* runs, whatever failed hooks on the same method came before or after it.
LatestHookWins ==
  mutex = "free" =>
    \A i \in DOMAIN hooks :
      /\ hooks[i].closure # NoClosure
      /\ \A j \in DOMAIN hooks :
            j > i => hooks[j].target # hooks[i].target \/ hooks[j].closure = NoClosure
      => imp[hooks[i].target] = hooks[i].closure

\* No class runs a closure that was freed: a message to it would jump into
\* memory given back to libffi.
NoDanglingImp ==
  \A m \in Method : imp[m] \in Closure => closure[imp[m]] # "freed"

\* Once the hooks are cleared every message reaches the implementation the
\* host shipped ("restores original implementations").
ResetRestores ==
  hooks = <<>> => \A m \in Method : Lookup(imp, m) = Lookup(ShippedTable, m)

\* Why a careful patch is undone: each hook remembers a shipped implementation,
\* so every slot of the tables is untouched, restored, or held by its hook.
SavedIsShipped ==
  \A i \in DOMAIN hooks :
    /\ hooks[i].closure # NoClosure => hooks[i].original # NoImp
    /\ hooks[i].original # NoImp => hooks[i].original = Lookup(ShippedTable, hooks[i].target)

Accounted(m) ==
  \/ imp[m] = NoImp /\ m \notin Shipped
  \/ imp[m] = Lookup(ShippedTable, m) /\ imp[m] # NoImp
  \/ imp[m] \in Closure /\ \E i \in DOMAIN hooks : hooks[i].target = m /\ hooks[i].closure = imp[m]

CarefulInv == SavedIsShipped /\ \A m \in Method : Accounted(m)
===============================================================================
