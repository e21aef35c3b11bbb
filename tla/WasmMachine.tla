------------------------------ MODULE WasmMachine ------------------------------
(***************************************************************************)
(* What the interpreter promises the bridge: patches that were loaded, and *)
(* calls of their functions by name, which run the instructions of the     *)
(* program one after the other.  Nothing is compiled here and there are no *)
(* pages of code; WasmRuntime implements this.                             *)
(*                                                                         *)
(* A patch is a record: the code of its functions by name, the functions it *)
(* imports, those its table holds, and how loading it ends.  The beginning *)
(* and the end of a loop or of an arm of an if are instructions with a     *)
(* position of their own; a branch names the position it leads behind.     *)
(***************************************************************************)
EXTENDS Integers, Sequences, FiniteSets

CONSTANTS
  Payload,     \* the patches there are
  Exports,     \* what the bridge links, in the order it does
  MaxModules,  \* bound: patches loaded into one interpreter
  MaxFrames,   \* functions that fit on the stack, 8 kB in the code (wap_wasm.hpp:105)
  MaxCalls     \* bound: calls by the bridge that are in progress, one inside the other

VARIABLES
  loaded,  \* the patches, oldest first
  stack    \* the functions that are being run, innermost last

vars == <<loaded, stack>>

Functions(p) == DOMAIN p.code

Linked(p) == {x \in p.imports : \E i \in DOMAIN Exports : Exports[i] = x}

(* Every function that is called is there, be it one that the bridge exports. *)
Complete(p, f) ==
  \A i \in DOMAIN p.code[f] :
    p.code[f][i].op = "call" => p.code[f][i].func \in Functions(p) \cup Linked(p)

(* A block and an `end` do nothing, and behind the first arm of an if the *)
(* one after the second.                                                          *)
Position(body, i) ==
  LET at[k \in 0 .. Len(body) + 1] ==
        IF k \notin DOMAIN body THEN k
        ELSE IF body[k].op \in {"block", "end"} THEN at[k + 1]
        ELSE IF body[k].op = "else" THEN at[body[k].to + 1] ELSE k
  IN at[i]

(* Where an instruction may lead. *)
Targets(body, i) ==
  {Position(body, j + 1) :
     j \in CASE body[i].op \in {"branchIf", "continueIf", "if"} -> {i, body[i].to}
             [] body[i].op = "table" -> {body[i].to[k] : k \in DOMAIN body[i].to}
             [] OTHER -> {i}}

-------------------------------------------------------------------------------
Init == loaded = <<>> /\ stack = <<>>

Hosts(s) == {k \in DOMAIN s : s[k].host}
LastHost(s) == CHOOSE k \in Hosts(s) : \A j \in Hosts(s) : j <= k

(* The bridge calls when nothing runs, or out of a function that it exports. *)
Waiting ==
  stack = <<>> \/ stack[Len(stack)].func \in loaded[stack[Len(stack)].module].imports

Load(p) ==
  /\ Waiting /\ Len(loaded) < MaxModules
  /\ p.fails = "never"
  /\ loaded' = Append(loaded, p)
  /\ UNCHANGED stack

(* The interpreter is thrown away. *)
Reset == stack = <<>> /\ loaded' = <<>> /\ UNCHANGED stack

(* Position 0 is the entry of the function, where the stack is checked. *)
Frame(m, f, host) == [module |-> m, func |-> f, at |-> 0, host |-> host]

(* A function is looked up in the patch that was loaded last, and then the older ones. *)
Newest(f) ==
  LET M == {m \in DOMAIN loaded : f \in Functions(loaded[m])}
  IN CHOOSE m \in M : \A k \in M : k <= m

Call(f) ==
  /\ Waiting /\ Cardinality(Hosts(stack)) < MaxCalls
  /\ \E m \in DOMAIN loaded : f \in Functions(loaded[m])
  /\ Complete(loaded[Newest(f)], f)
  /\ stack' = Append(stack, Frame(Newest(f), f, TRUE))
  /\ UNCHANGED loaded

Returned(s) == SubSeq(s, 1, Len(s) - 1)

(* A trap ends every function up to the one that the bridge called. *)
Unwound(s) == SubSeq(s, 1, LastHost(s) - 1)

(* Each call by the bridge starts at the bottom of the interpreter's stack. *)
Overflows(s) == Len(s) - LastHost(s) + 1 > MaxFrames

Instruction(p, s, i) ==
  LET top == s[Len(s)]
      body == p.code[top.func]
      ins == body[i]
      At(j) == [s EXCEPT ![Len(s)].at = j]
      Called(g) == IF g \in p.imports \/ Complete(p, g)
                   THEN Append(At(Position(body, i + 1)), Frame(top.module, g, FALSE))
                   ELSE Unwound(s)
  IN CASE ins.op = "trap" -> {Unwound(s)}
       [] ins.op = "call" -> {Called(ins.func)}
       [] ins.op = "callIndirect" -> {Unwound(s)} \cup {Called(g) : g \in p.table}
       [] OTHER -> {At(j) : j \in Targets(body, i)}

Step ==
  /\ stack # <<>>
  /\ UNCHANGED loaded
  /\ LET top == stack[Len(stack)]
         p == loaded[top.module]
         body == p.code[top.func]
     IN IF top.func \in p.imports \/ top.at = Len(body) + 1 THEN stack' = Returned(stack)
        ELSE IF top.at = 0
             THEN stack' = IF Overflows(stack) THEN Unwound(stack)
                           ELSE [stack EXCEPT ![Len(stack)].at = Position(body, 1)]
             ELSE stack' \in Instruction(p, stack, top.at)

Next ==
  \/ \E p \in Payload : Load(p) \/ \E f \in Functions(p) : Call(f)
  \/ Reset
  \/ Step

Spec == Init /\ [][Next]_vars
===============================================================================
