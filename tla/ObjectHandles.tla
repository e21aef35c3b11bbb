----------------------------- MODULE ObjectHandles -----------------------------
(***************************************************************************)
(* Who frees what crosses the bridge between the host and a patch.         *)
(*                                                                         *)
(* Wasm knows an Objective-C value by a handle, the address of a box       *)
(* (WAPInternalObject) or of an array of handles (WAPInternalArray), both  *)
(* allocated and deleted by hand.  Functions of the patch, entry(),        *)
(* replacements of methods and bodies of blocks, run in activations; they  *)
(* allocate boxes and arrays through the exports, get some passed, and     *)
(* return one.                                                             *)
(*                                                                         *)
(* The functions are those of a careful author, who follows the examples   *)
(* of the documentation: what an export returned is freed once, or put     *)
(* into an array or the pool, which are freed once, or returned; what was  *)
(* passed is left alone.                                                   *)
(***************************************************************************)
EXTENDS Naturals, Sequences, SequencesExt

CONSTANTS
  Activation,   \* functions of the patch that may be running together
  Box,          \* boxes, one per allocation
  Array,        \* arrays, one per allocation
  Null,         \* the handle 0
  PoolCapacity, \* WAP_POOL_CAPACITY
  MaxArgs,      \* bound: arguments of a call
  MayForward    \* may the body of a block return one of its arguments?

Object == Box \cup Array
Handle == Box \cup {Null}

ASSUME HandlesAssumption ==
  /\ Box \cap Array = {}
  /\ Null \notin Object
  /\ PoolCapacity \in Nat
  /\ MaxArgs \in Nat
  /\ MayForward \in BOOLEAN

VARIABLES
  heap,   \* what became of each box and array
  items,  \* what the arrays hold
  at,     \* what each activation is doing
  kind,   \* the function it runs
  self,   \* the receiver's box, of a replacement
  args,   \* the array of its arguments
  params, \* the array a call_*_method_N made for the call it performs
  owned,  \* boxes and arrays it still has to free
  pool,   \* its WAPPool
  lost    \* history: what nobody will ever free

frameVars == <<at, kind, self, args, params>>
vars == <<heap, items, frameVars, owned, pool, lost>>

-------------------------------------------------------------------------------

Init ==
  /\ heap = [o \in Object |-> "unused"]
  /\ items = [r \in Array |-> <<>>]
  /\ at = [a \in Activation |-> "idle"]
  /\ kind = [a \in Activation |-> "none"]
  /\ self = [a \in Activation |-> Null]
  /\ args = [a \in Activation |-> Null]
  /\ params = [a \in Activation |-> Null]
  /\ owned = [a \in Activation |-> {}]
  /\ pool = [a \in Activation |-> <<>>]
  /\ lost = {}

Unused(S) == {o \in S : heap[o] = "unused"}

\* heap with objects allocated, or deleted; the handle 0 is skipped.
With(S, state) == [o \in Object |-> IF o \in S THEN state ELSE heap[o]]

\* What a handle's array holds.
Items(r) == IF r = Null THEN {} ELSE ToSet(items[r])

Goto(a, from, to) == at[a] = from /\ at' = [at EXCEPT ![a] = to]

\* Arguments as they are boxed: fresh boxes, and 0 where the type is not supported.
Boxed(n) ==
  {s \in [1 .. n -> Unused(Box) \cup {Null}] :
     \A i, j \in 1 .. n : s[i] = s[j] /\ s[i] # Null => i = j}

-------------------------------------------------------------------------------
(* The host enters the patch                                                 *)

EntryEnters(a) ==
  /\ Goto(a, "idle", "running")
  /\ kind' = [kind EXCEPT ![a] = "entry"]
  /\ UNCHANGED <<heap, items, self, args, params, owned, pool, lost>>

\* binding_objc_method boxes the receiver and, if there are any, the arguments.
MethodEnters(a) ==
  /\ Goto(a, "idle", "running")
  /\ kind' = [kind EXCEPT ![a] = "method"]
  /\ \E n \in 0 .. MaxArgs : \E boxed \in Boxed(n) : \E b \in Unused(Box) \ ToSet(boxed) :
       /\ self' = [self EXCEPT ![a] = b]
       /\ \/ /\ n = 0
             /\ heap' = With({b}, "live")
             /\ UNCHANGED <<items, args>>
          \/ /\ n > 0
             /\ \E r \in Unused(Array) :
                  /\ heap' = With({b, r} \cup ToSet(boxed), "live")
                  /\ items' = [items EXCEPT ![r] = boxed]
                  /\ args' = [args EXCEPT ![a] = r]
  /\ UNCHANGED <<params, owned, pool, lost>>

\* BlockTrampoline boxes the arguments.
BlockEnters(a) ==
  /\ Goto(a, "idle", "running")
  /\ kind' = [kind EXCEPT ![a] = "block"]
  /\ \E n \in 0 .. MaxArgs : \E boxed \in Boxed(n) : \E r \in Unused(Array) :
       /\ heap' = With({r} \cup ToSet(boxed), "live")
       /\ items' = [items EXCEPT ![r] = boxed]
       /\ args' = [args EXCEPT ![a] = r]
  /\ UNCHANGED <<self, params, owned, pool, lost>>

-------------------------------------------------------------------------------
(* The exports, as the patch calls them                                      *)

Running(a) == at[a] = "running"

\* The handles a function may pass on: what it owns, what its pool keeps, and what
\* it was passed.
Reach(a) == (owned[a] \cap Box) \cup ToSet(pool[a]) \cup {self[a]} \cup Items(args[a])

\* A new box for the caller.
NewBox(a) ==
  \E b \in Unused(Box) :
    /\ heap' = With({b}, "live")
    /\ owned' = [owned EXCEPT ![a] = @ \cup {b}]

\* alloc_*, new_objc_*, create_block
NewObject(a) ==
  /\ Running(a)
  /\ NewBox(a)
  /\ UNCHANGED <<items, frameVars, pool, lost>>

\* call_*_method_param boxes what the method returned, if it returned something,
\* and leaves the array of its arguments to the caller.
CallWithArray(a, r) ==
  /\ Running(a)
  /\ r \in owned[a] \cup {Null}
  /\ NewBox(a)
  /\ UNCHANGED <<items, frameVars, pool, lost>>

\* So does invoke_block, whose block may be an argument.
InvokeBlock(a, block, r) ==
  /\ block \in Reach(a)
  /\ CallWithArray(a, r)

DeallocObject(a, b) ==
  /\ Running(a)
  /\ b \in owned[a]
  /\ heap' = With({b}, "freed")
  /\ owned' = [owned EXCEPT ![a] = @ \ {b}]
  /\ UNCHANGED <<items, frameVars, pool, lost>>

AllocArray(a) ==
  /\ Running(a)
  /\ \E r \in Unused(Array) :
       /\ heap' = With({r}, "live")
       /\ owned' = [owned EXCEPT ![a] = @ \cup {r}]
  /\ UNCHANGED <<items, frameVars, pool, lost>>

\* The array takes the box over.
AppendArray(a, r, b) ==
  /\ Running(a)
  /\ {r, b} \subseteq owned[a]
  /\ Len(items[r]) < MaxArgs
  /\ items' = [items EXCEPT ![r] = Append(@, b)]
  /\ owned' = [owned EXCEPT ![a] = @ \ {b}]
  /\ UNCHANGED <<heap, frameVars, pool, lost>>

\* Bug: the array goes without its items.
ArrayAlone(r) == {r}

ArrayAndItems(r) == {r} \cup ToSet(items[r])

DeallocArray(a, r) ==
  /\ Running(a)
  /\ r \in owned[a]
  /\ heap' = With(ArrayAndItems(r), "freed")
  /\ owned' = [owned EXCEPT ![a] = @ \ {r}]
  /\ UNCHANGED <<items, frameVars, pool, lost>>

\* Bug: the arguments are freed with the array they were put into.
ArrayOfCall(r) == ArrayAndItems(r)

\* call_*_method_N lines its parameters up in an array of its own ...
CallMethod(a, given) ==
  /\ Goto(a, "running", "calling")
  /\ \E r \in Unused(Array) :
       /\ heap' = With({r}, "live")
       /\ items' = [items EXCEPT ![r] = given]
       /\ params' = [params EXCEPT ![a] = r]
  /\ UNCHANGED <<kind, self, args, owned, pool, lost>>

\* ... which it deletes, and nothing else, whether the call was made, failed or
\* returned something.
Temporary(r) == {r}

CallReturns(a) ==
  /\ Goto(a, "calling", "running")
  /\ params' = [params EXCEPT ![a] = Null]
  /\ \/ /\ heap' = With(Temporary(params[a]), "freed")
        /\ UNCHANGED owned
     \/ \E b \in Unused(Box) :
          /\ heap' = [With(Temporary(params[a]), "freed") EXCEPT ![b] = "live"]
          /\ owned' = [owned EXCEPT ![a] = @ \cup {b}]
  /\ UNCHANGED <<items, kind, self, args, pool, lost>>

\* WAP_KEEP: a full pool takes nothing, and says nothing.
PoolKeep(a, b) ==
  /\ Running(a)
  /\ b \in owned[a]
  /\ owned' = [owned EXCEPT ![a] = @ \ {b}]
  /\ \/ /\ Len(pool[a]) < PoolCapacity
        /\ pool' = [pool EXCEPT ![a] = Append(@, b)]
        /\ UNCHANGED lost
     \/ /\ Len(pool[a]) = PoolCapacity
        /\ lost' = lost \cup {b}
        /\ UNCHANGED pool
  /\ UNCHANGED <<heap, items, frameVars>>

\* WAP_POOL_END
PoolDrain(a) ==
  /\ Running(a)
  /\ pool[a] # <<>>
  /\ heap' = With(ToSet(pool[a]), "freed")
  /\ pool' = [pool EXCEPT ![a] = <<>>]
  /\ UNCHANGED <<items, frameVars, owned, lost>>

-------------------------------------------------------------------------------
(* The patch returns                                                         *)

\* The function has freed what it had to, except what it returns.
Settled(a, result) == owned[a] \subseteq {result} /\ pool[a] = <<>>

\* The frame is gone.
Leave(a, from) ==
  /\ Goto(a, from, "idle")
  /\ kind' = [kind EXCEPT ![a] = "none"]
  /\ self' = [self EXCEPT ![a] = Null]
  /\ args' = [args EXCEPT ![a] = Null]
  /\ UNCHANGED params

EntryReturns(a) ==
  /\ kind[a] = "entry"
  /\ Settled(a, Null)
  /\ Leave(a, "running")
  /\ UNCHANGED <<heap, items, owned, pool, lost>>

\* What binding_objc_method made for the call and leaves behind.
Passed(a) == ({self[a], args[a]} \cup Items(args[a])) \ {Null}

\* consume_objc_return_*, consume_c_string_return_value and the struct return
\* delete the box they were given.
Consumed(result) == {result} \ {Null}

\* A replacement may return a new object, one it was passed, or none.
MethodReturns(a, result) ==
  /\ kind[a] = "method"
  /\ result \in (owned[a] \cap Box) \cup {self[a], Null} \cup Items(args[a])
  /\ Settled(a, result)
  /\ heap' = With(Consumed(result), "freed")
  /\ lost' = lost \cup (Passed(a) \ {result})
  /\ owned' = [owned EXCEPT ![a] = {}]
  /\ Leave(a, "running")
  /\ UNCHANGED <<items, pool>>

\* BlockTrampoline takes the result's value and deletes its box ...
BlockResult(a, result) ==
  /\ kind[a] = "block"
  /\ result \in (owned[a] \cap Box) \cup {Null} \cup (IF MayForward THEN Items(args[a]) ELSE {})
  /\ Settled(a, result)
  /\ heap' = With(Consumed(result), "freed")
  /\ owned' = [owned EXCEPT ![a] = {}]
  /\ Goto(a, "running", "returning")
  /\ UNCHANGED <<items, kind, self, args, params, pool, lost>>

\* ... and then the arguments' boxes and their array.
BlockReturns(a) ==
  /\ Leave(a, "returning")
  /\ heap' = With(ArrayAndItems(args[a]), "freed")
  /\ UNCHANGED <<items, owned, pool, lost>>

\* The function traps: nobody knows any more what it owned.  A block's arguments
\* are freed as ever.
Traps(a) ==
  LET had == owned[a] \cup ToSet(pool[a]) \cup UNION {Items(r) : r \in owned[a] \cap Array} IN
  /\ Running(a)
  /\ owned' = [owned EXCEPT ![a] = {}]
  /\ pool' = [pool EXCEPT ![a] = <<>>]
  /\ \/ /\ kind[a] = "block"
        /\ lost' = lost \cup had
        /\ Goto(a, "running", "returning")
        /\ UNCHANGED <<kind, self, args, params>>
     \/ /\ kind[a] # "block"
        /\ lost' = lost \cup had \cup Passed(a)
        /\ Leave(a, "running")
  /\ UNCHANGED <<heap, items>>

-------------------------------------------------------------------------------

Enters(a) == EntryEnters(a) \/ MethodEnters(a) \/ BlockEnters(a)

Export(a) ==
  \/ NewObject(a)
  \/ \E r \in Array \cup {Null} : CallWithArray(a, r)
  \/ \E block \in Box, r \in Array \cup {Null} : InvokeBlock(a, block, r)
  \/ \E b \in Box : DeallocObject(a, b)
  \/ AllocArray(a)
  \/ \E r \in Array, b \in Box : AppendArray(a, r, b)
  \/ \E r \in Array : DeallocArray(a, r)
  \/ \E n \in 1 .. MaxArgs : \E given \in [1 .. n -> Reach(a)] : CallMethod(a, given)
  \/ CallReturns(a)
  \/ \E b \in Box : PoolKeep(a, b)
  \/ PoolDrain(a)

Returns(a) ==
  \/ EntryReturns(a)
  \/ \E result \in Handle : MethodReturns(a, result)
  \/ \E result \in Handle : BlockResult(a, result)
  \/ BlockReturns(a)
  \/ Traps(a)

Next == \E a \in Activation : Enters(a) \/ Export(a) \/ Returns(a)

Spec == Init /\ [][Next]_vars

-------------------------------------------------------------------------------

\* The arrays whose items will be freed with them.
Arrays(a) == (owned[a] \cap Array) \cup ({args[a]} \ {Null})

\* Everything an activation, or the bridge on its behalf, is still going to free
\* or to hand on: a list of the places where that is written down.
Grips(o) ==
  {<<"owned", a>> : a \in {a \in Activation : o \in owned[a]}} \cup
  {<<"self", a>> : a \in {a \in Activation : o = self[a]}} \cup
  {<<"args", a>> : a \in {a \in Activation : o = args[a]}} \cup
  {<<"params", a>> : a \in {a \in Activation : o = params[a]}} \cup
  (UNION {{<<"pool", a, i>> : i \in {i \in DOMAIN pool[a] : pool[a][i] = o}} : a \in Activation}) \cup
  (UNION {UNION {{<<"item", r, i>> : i \in {i \in DOMAIN items[r] : items[r][i] = o}} : r \in Arrays(a)} :
            a \in Activation})

\* What somebody is still going to free is allocated, and only one is going to
\* free it: binding_objc_method, BlockTrampoline, the exports and a careful author
\* never free a box twice, nor use one that was freed, whatever is returned,
\* passed on, kept or trapped.
HeldOnce ==
  \A o \in Object : Grips(o) # {} => heap[o] = "live" /\ \A g, h \in Grips(o) : g = h

\* Nothing leaks but what binding_objc_method made for a call, what a full pool
\* refused and what a trapped function had.
LeaksAreKnown ==
  \A o \in Object : heap[o] = "live" => Grips(o) # {} \/ o \in lost
===============================================================================
