----------------------------- MODULE WasmCompile ------------------------------
(***************************************************************************)
(* The interpreter's compiler (m3_compile.c): one action for every kind of *)
(* WebAssembly instruction, for functions of any length.  It is the        *)
(* program that is chosen, one valid instruction after the other; what the *)
(* compiler knows is o, the M3Compilation.                                 *)
(*                                                                         *)
(* Every step also runs the code it emits, on a frame in which each cell   *)
(* holds a value of its own, and compares it with what the instruction     *)
(* means on WebAssembly's stack.  `wrong` collects what went wrong: an     *)
(* operand that is not the one the instruction has, an entry of the stack  *)
(* whose value is not where the compiler thinks it is, or a label that is  *)
(* reached with the values in different places.                            *)
(*                                                                         *)
(* The code behind a branch, a return or a trap is not reached; compilers  *)
(* write none, and only the end of the block follows.                      *)
(***************************************************************************)
EXTENDS WasmSlots

CONSTANTS
  ReturnType,  \* of the function, or "none"
  ValueTypes,  \* types of constants, globals, selections and blocks
  Signatures,  \* of the functions it calls, <<types of the arguments, type of the result>>
  Bits,        \* words of constants
  Avoid,       \* what the program is known not to do; see the guards
  MaxLoad      \* bound: operands on the stack and open blocks, together; the code allows
               \* 2000 operands (d_m3MaxFunctionStackHeight)

VARIABLES
  o,      \* the compilation (M3Compilation)
  wrong   \* in which ways the emitted code has differed from the program

vars == <<o, wrong>>

-------------------------------------------------------------------------------
(* The meaning of the program, and the comparison                            *)

Was(i) == ValueIn(Identity, o.stack[i])   \* the value of an entry before the instruction

(* The values of the lowest entries, which the instruction leaves alone. *)
Kept(height) == [i \in 1 .. height |-> Was(i)]

(* The emitted operation reads these entries, in a frame, for the topmost operands. *)
Reads(frame, entries) ==
  \A k \in DOMAIN entries : ValueIn(frame, entries[k]) = Was(Height(o) - Len(entries) + k)

Top(p, n) == SubSeq(p.stack, Height(p) - n + 1, Height(p))

(* The operation's result goes where the new top entry is. *)
Result(p) ==
  [p EXCEPT !.frame = Put(@, Entry(p, 0).loc, Each(Entry(p, 0).type, New))]

Fresh(t) == <<Each(t, New)>>

Holds(p, values) ==
  /\ Len(p.stack) = Len(values)
  /\ \A i \in DOMAIN values : ValueIn(p.frame, p.stack[i]) = values[i]
  /\ \A c \in p.first - NumConsts .. p.first - 1 : p.slots[c] > 0 => p.frame[c] = c

Fault(ok, kind) == IF ok THEN {} ELSE {kind}

(* A function with too many values for its slots is not compiled; then, as after *)
(* its end, the next one is, from a cleared M3Compilation.                       *)
Compiled(p, faults) ==
  /\ o' = IF p.failed THEN Start(ReturnType) ELSE [p EXCEPT !.frame = Identity]
  /\ wrong' = IF p.failed THEN wrong ELSE wrong \cup faults

Straight == ~Block(o).poly
Room == Straight /\ Height(o) + Len(o.blocks) <= NumLocals + MaxLoad

(* The operands are on the stack, above those of the enclosing block. *)
Has(types) ==
  /\ Straight
  /\ Height(o) - Len(types) >= Block(o).init
  /\ \A k \in DOMAIN types : o.stack[Height(o) - Len(types) + k].type = types[k]

-------------------------------------------------------------------------------
(* Constants, variables and memory.  Where looking for the entries that name a *)
(* local is costly, its outcome is bound by \E over the one value: TLC then     *)
(* evaluates it once, and a LET at every use.                                  *)

Const(t, word) ==
  /\ Room
  /\ LET p == PushConst(o, t, word)
         e == Entry(p, 0)
         shared == e.loc < o.first
     IN Compiled(p, Fault(shared => \A c \in Extent(e.loc, t) : p.consts[c] = word[c - e.loc + 1],
                          "operand")
                    \cup Fault(Holds(p, Kept(Height(o)) \o
                                        IF shared THEN <<ValueIn(Identity, e)>> ELSE Fresh(t)), "entry"))

GetLocal(i) ==
  /\ Room
  /\ LET p == Push(o, o.stack[i].type, o.stack[i].loc)
     IN Compiled(p, Fault(Holds(p, Append(Kept(Height(o)), Was(i))), "entry"))

(* Known of the program, for what the copy of a local that is saved gets wrong: it   *)
(* has the type of some other entry, or only half of it counts how often it is used. *)
SavedRightly(p, slot) ==
  LET t == CopyType(p, slot)
      refs == References(p, slot)
  IN /\ "mistyped" \in Avoid => \A i \in refs : Words(p.stack[i].type) = Words(t)
     /\ "halved" \in Avoid => Words(t) = 1 \/ Cardinality(refs) <= 1

\* Bug: the old value is not saved for the entries that name the local.
SetLocalUnsaved(i, tee) ==
  /\ Has(<<o.stack[i].type>>)
  /\ LET set == Move(o, o.stack[i].loc, Entry(o, 0).loc, Entry(o, 0).type)
         p == IF tee THEN set ELSE Pop(set)
     IN Compiled(p, Fault(Holds(p, [Kept(Height(p)) EXCEPT ![i] = Was(Height(o))]), "entry"))

SetLocal(i, tee) ==
  /\ Has(<<o.stack[i].type>>)
  /\ SavedRightly(o, o.stack[i].loc)
  /\ \E f \in {FindReferencedLocalWithinCurrentBlock(o, o.stack[i].loc)} :
     LET local == o.stack[i].loc
         e == Entry(f.o, 0)
         saved == IF f.slot = local THEN f.o ELSE Move(f.o, f.slot, local, e.type)
         set == Move(saved, local, e.loc, e.type)
     IN \E p \in {IF tee THEN set ELSE Pop(set)} :
        Compiled(p, Fault(Holds(p, [Kept(Height(p)) EXCEPT ![i] = Was(Height(o))]), "entry"))

GetGlobal(t) ==
  /\ Room
  /\ LET p == Result(PushAllocatedSlot(o, t))
     IN Compiled(p, Fault(Holds(p, Kept(Height(o)) \o Fresh(t)), "entry"))

SetGlobal(t) == Has(<<t>>) /\ Compiled(Pop(o), {})

Drop == Straight /\ Height(o) > Block(o).init /\ Compiled(Pop(o), {})

(* The number of pages goes to the register, whatever that holds. *)
MemoryCurrent ==
  /\ Room
  /\ "size" \in Avoid => o.reg[R0] = 0
  /\ LET p == Result(PushRegister(o, "i32"))
     IN Compiled(p, Fault(Holds(p, Kept(Height(o)) \o Fresh("i32")), "entry"))

MemoryGrow ==
  /\ Has(<<"i32">>)
  /\ LET q == MoveStackTopToRegister(o)
         p == Result(PushRegister(Pop(q), "i32"))
     IN Compiled(p, Fault(Reads(q.frame, Top(q, 1)), "operand")
                    \cup Fault(Holds(p, Kept(Height(o) - 1) \o Fresh("i32")), "entry"))

-------------------------------------------------------------------------------
(* Operators: the types of the operands and of the result of each             *)

Arithmetic ==
  {<< <<t, t>>, t>> : t \in ValueTypes} \cup {<< <<t>>, t>> : t \in ValueTypes}

Comparisons ==
  {<< <<t, t>>, "i32">> : t \in ValueTypes} \cup {<< <<t>>, "i32">> : t \in ValueTypes \cap {"i32", "i64"}}

(* Wrapping, extending, demoting and promoting: in the same register. *)
Widths ==
  {<< <<from>>, to>> : from, to \in ValueTypes} \cap
  {<< <<p[1]>>, p[2]>> : p \in {<<"i32", "i64">>, <<"i64", "i32">>, <<"f32", "f64">>, <<"f64", "f32">>}}

(* Truncating, converting and reinterpreting: from one register to the other. *)
Converts == {c \in ValueTypes \X ValueTypes : IsFp(c[1]) # IsFp(c[2])}

Loads == {<< <<"i32">>, t>> : t \in ValueTypes}

Stores == {<< <<"i32", t>>, None>> : t \in ValueTypes}

Operators == Arithmetic \cup Comparisons \cup Widths \cup Loads \cup Stores

(* An operation whose operands are read, popped and replaced by a result. *)
Operation(q, operands, t, inSlot) ==
  LET popped == PopTo(q, Height(o) - operands)
      pushed == IF inSlot THEN PushAllocatedSlot(popped, t) ELSE PushRegister(popped, t)
      p == IF t = None THEN popped ELSE Result(pushed)
  IN Compiled(p, Fault(Reads(q.frame, Top(q, operands)), "operand")
                 \cup Fault(Holds(p, Kept(Height(o) - operands) \o
                                     IF t = None THEN <<>> ELSE Fresh(t)), "entry"))

(* The result goes to the register of its type; the value in there is saved first, *)
(* unless it is an operand.  A load is an operator on the address, and a store one *)
(* without a result.                                                               *)
Operator(operands, t) ==
  /\ Has(operands)
  /\ LET isLoad == IsFp(t) /\ operands = <<"i32">>
         loaded == IF isLoad THEN PreserveRegisterIfOccupied(o, FP0) ELSE o
         compared == IF IsFp(Entry(o, 0).type) /\ t \in {"i32", "i64"}
                     THEN PreserveRegisterIfOccupied(loaded, R0) ELSE loaded
         inRegister == \E k \in 0 .. Len(operands) - 1 : InRegister(compared, k)
     IN Operation(IF inRegister THEN compared ELSE PreserveRegisterIfOccupied(compared, RegisterOf(t)),
                  Len(operands), t, FALSE)

(* Between the two kinds of numbers: into a slot if the register is taken. *)
Convert(from, to) == Has(<<from>>) /\ Operation(o, 1, to, o.reg[RegisterOf(to)] # 0)

Select(t) ==
  /\ Has(<<t, t, "i32">>)
  /\ LET kept == IF IsFp(t) THEN {1, 2} ELSE {0, 1, 2}
         q == IF \E k \in kept : InRegister(o, k) THEN o
              ELSE PreserveRegisterIfOccupied(o, RegisterOf(t))
     IN Operation(q, 3, t, FALSE)

-------------------------------------------------------------------------------
(* Calls: the arguments are copied to the callee's frame, above every slot in *)
(* use, where it leaves its result; of the result one slot is marked.         *)

Call(args, t, indirect) ==
  LET operands == IF indirect THEN Append(args, "i32") ELSE args
      q == IF indirect /\ InRegister(o, 0) THEN PreserveRegisterIfOccupied(o, R0) ELSE o
      used == GetMaxUsedSlotPlusOne(q)
      topSlot == IF used = 0 THEN 2 ELSE used + (used % 2)
      argsOf == IF indirect THEN PopTo(q, Height(q) - 1) ELSE q
      copied == FoldLeft(LAMBDA p, k : Move(p, topSlot + 2 * (k - 1),
                                             Entry(argsOf, Len(args) - k).loc, args[k]),
                         argsOf, [k \in 1 .. Len(args) |-> Len(args) + 1 - k])
      read == [k \in 1 .. Len(operands) |->
                 IF k <= Len(args) THEN [type |-> args[k], loc |-> topSlot + 2 * (k - 1)]
                 ELSE Entry(q, 0)]
      popped == PopTo(copied, Height(o) - Len(operands))
      called == [popped EXCEPT !.frame = [c \in Cells |->
                   IF c \in topSlot .. NumSlots - 1 THEN Lost ELSE @[c]]]
      p == IF t = None THEN called
           ELSE Result(Push([called EXCEPT !.slots[topSlot] = 1], t, topSlot))
  IN /\ Has(operands)
     /\ topSlot + 2 * Len(args) + 1 < NumSlots
     /\ "wide" \in Avoid => Words(t) = 1
     /\ Compiled(p, Fault(Reads(copied.frame, read), "operand")
                    \cup Fault(Holds(p, Kept(Height(o) - Len(operands)) \o
                                        IF t = None THEN <<>> ELSE Fresh(t)), "entry"))

-------------------------------------------------------------------------------
(* Blocks                                                                    *)

Opened(p, opcode, t) ==
  [p EXCEPT !.blocks = Append(@, [opcode |-> opcode, type |-> t, init |-> Height(p),
                                  poly |-> FALSE, entry |-> p.stack, arrivals |-> {}])]

(* What a block begins with names no local, if q is the compilation before the locals *)
(* are saved and p the one after: those are missed whose slot is no local's number.   *)
LocalsSaved(q, p) ==
  /\ "unsaved" \in Avoid => \A i \in 1 .. NumLocals : References(p, o.stack[i].loc) = {}
  /\ \A i \in 1 .. NumLocals : SavedRightly(q, i - 1)

(* All operands are in slots before a block begins, and none names a local. *)
LoopOrBlock(opcode, t) ==
  /\ Room
  /\ \E r \in {PreserveRegisters(o)} : \E q \in {PreserveArgsAndLocals(r)} :
       /\ LocalsSaved(r, q)
       /\ LET p == Opened(q, opcode, t) IN Compiled(p, Fault(Holds(p, Kept(Height(o))), "entry"))

\* Bug: what is in a register stays there while an arm is compiled.
IfAtOnce(t) ==
  /\ Has(<<"i32">>)
  /\ LET q == PreserveArgsAndLocals(o)
         p == Opened(Pop(q), "if", t)
     IN Compiled(p, Fault(Reads(q.frame, Top(q, 1)), "operand")
                    \cup Fault(Holds(p, Kept(Height(o) - 1)), "entry"))

If(t) ==
  /\ Has(<<"i32">>)
  /\ \E r \in {PreserveNonTopRegisters(o)} : \E q \in {PreserveArgsAndLocals(r)} :
       LET p == Opened(Pop(q), "if", t)
       IN /\ LocalsSaved(r, Pop(q))
          /\ Compiled(p, Fault(Reads(q.frame, Top(q, 1)), "operand")
                         \cup Fault(Holds(p, Kept(Height(o) - 1)), "entry"))

(* The block leaves nothing, or its value. *)
Ends ==
  \/ Block(o).poly
  \/ /\ Height(o) = Block(o).init + IF Block(o).type = None THEN 0 ELSE 1
     /\ Block(o).type # None => Entry(o, 0).type = Block(o).type

\* Bug: the value is left where it is.
BlockEndInPlace ==
  CASE Block(o).type = None -> UnwindBlockStack(o)
    [] Block(o).type # None /\ Block(o).poly -> PushRegister(UnwindBlockStack(o), Block(o).type)
    [] OTHER -> o

(* At the end of a block its value is in the register. *)
BlockEnd ==
  CASE Block(o).type = None -> UnwindBlockStack(o)
    [] Block(o).type # None /\ Block(o).poly -> PushRegister(UnwindBlockStack(o), Block(o).type)
    [] OTHER -> MoveStackTopToRegister(o)

Reached(p) == IF Block(o).poly THEN {} ELSE {p.stack}

Else ==
  /\ Len(o.blocks) > 1 /\ Block(o).opcode = "if" /\ Ends
  /\ LET p == BlockEnd
         q == IF Block(o).type = None THEN p ELSE Pop(p)
         b == [Block(o) EXCEPT !.opcode = "else", !.init = Height(q), !.poly = FALSE,
                               !.arrivals = @ \cup Reached(p)]
     IN Compiled([q EXCEPT !.blocks[Len(q.blocks)] = b],
                 Fault(Straight => Holds(p, Kept(Height(o))), "entry")
                 \cup Fault(q.stack = Block(o).entry, "join"))

End ==
  /\ Len(o.blocks) > 1 /\ Ends
  /\ Block(o).opcode = "if" => Block(o).type = None
  /\ LET p == BlockEnd
         b == Block(o)
         arrivals == b.arrivals \cup IF b.opcode = "if" THEN {b.entry} ELSE {}
     IN Compiled([p EXCEPT !.blocks = Front(@)],
                 Fault(Straight => Holds(p, Kept(Height(o))), "entry")
                 \cup Fault(\A a \in arrivals : a = p.stack, "join"))

(* The result of the function goes to the frame's first slot. *)
ReturnStackTop(p) ==
  IF Entry(p, 0).loc = 0 THEN p ELSE Move(p, 0, Entry(p, 0).loc, Entry(p, 0).type)

Returned == Straight /\ ReturnType # None =>
  ValueIn(ReturnStackTop(o).frame, [type |-> ReturnType, loc |-> 0]) = Was(Height(o))

(* Branches to the end of the function bring their value in the register. *)
FunctionEnd ==
  /\ Len(o.blocks) = 1 /\ Ends
  /\ o' = Start(ReturnType)
  /\ wrong' = wrong \cup Fault(Returned, "operand")
                    \cup Fault(\A a \in Block(o).arrivals :
                                 ReturnType # None => Last(a).loc = RegisterOf(ReturnType), "join")

(* Returns, and traps: what follows is not reached. *)
Polymorphic(p) == [p EXCEPT !.blocks[Len(p.blocks)].poly = TRUE]

Return ==
  /\ IF ReturnType = None THEN Straight ELSE Has(<<ReturnType>>)
  /\ Compiled(Polymorphic(IF ReturnType = None THEN o ELSE Pop(ReturnStackTop(o))),
              Fault(Returned, "operand"))

Unreachable == Straight /\ Compiled(Polymorphic(o), {})

-------------------------------------------------------------------------------
(* Branches                                                                  *)

Target(depth) == Len(o.blocks) - depth

LabelType(j) == IF o.blocks[j].opcode = "loop" THEN None ELSE o.blocks[j].type

Carries(j) == IF LabelType(j) = None THEN Straight ELSE Has(<<LabelType(j)>>)

(* A branch out of a block arrives at its end with the value in the register; one *)
(* to a loop, at its head, with what there was.                                   *)
Arrives(p, J) ==
  [p EXCEPT !.blocks = [j \in DOMAIN @ |->
     IF j \in J /\ @[j].opcode # "loop"
     THEN [@[j] EXCEPT !.arrivals = @ \cup
             {SubSeq(p.stack, 1, o.blocks[j].init) \o
              IF LabelType(j) = None THEN <<>>
              ELSE <<[type |-> LabelType(j), loc |-> RegisterOf(LabelType(j))]>>}]
     ELSE @[j]]]

HeadsAgree(p, J) ==
  \A j \in J : o.blocks[j].opcode = "loop" =>
    SubSeq(p.stack, 1, o.blocks[j].init) = o.blocks[j].entry

(* A value of a floating-point type that has to go to the register while another *)
(* is in there: the other one is moved to a slot that is free.                   *)
Evicts(p) ==
  /\ Height(p) > Block(p).init /\ ~InRegister(p, 0) /\ IsFp(Entry(p, 0).type)
  /\ p.reg[FP0] # 0

Branch(depth) ==
  LET j == Target(depth)
      p == IF LabelType(j) = None THEN o ELSE MoveStackTopToRegister(o)
  IN /\ Carries(j)
     /\ Compiled(Polymorphic(Arrives(p, {j})),
                 Fault(Holds(p, Kept(Height(o))), "entry") \cup Fault(HeadsAgree(p, {j}), "join"))

(* To a loop, if the condition holds. *)
ContinueIf(depth) ==
  LET j == Target(depth)
      q == MoveStackTopToRegister(o)
  IN /\ Has(<<"i32">>) /\ o.blocks[j].opcode = "loop"
     /\ Compiled(Pop(q), Fault(Reads(q.frame, Top(q, 1)), "operand")
                         \cup Fault(Holds(Pop(q), Kept(Height(o) - 1)), "entry")
                         \cup Fault(HeadsAgree(q, {j}), "join"))

(* The condition is popped, its slot free, before the value is moved; an integer *)
(* is left where it is, and moved if the branch is taken.                        *)
BranchIf(depth) ==
  LET j == Target(depth)
      popped == Pop(o)
      p == IF IsFp(LabelType(j)) THEN MoveStackTopToRegister(popped) ELSE popped
  IN /\ o.blocks[j].opcode # "loop"
     /\ Has(IF LabelType(j) = None THEN <<"i32">> ELSE <<LabelType(j), "i32">>)
     /\ "evict" \in Avoid /\ IsFp(LabelType(j)) => ~Evicts(popped)
     /\ Compiled(Arrives(p, {j}), Fault(Reads(p.frame, Top(o, 1)), "operand")
                                  \cup Fault(Holds(p, Kept(Height(o) - 1)), "entry"))

\* Bug: the index stays in the register that the value of the label needs.
BranchTableInRegister(depths) ==
  LET J == {Target(d) : d \in depths}
      popped == Pop(o)
      p == IF Height(popped) > Block(o).init THEN MoveStackTopToRegister(popped) ELSE popped
  IN /\ \A j \in J : Has(IF LabelType(j) = None THEN <<"i32">> ELSE <<LabelType(j), "i32">>)
     /\ \A j, k \in J : LabelType(j) = LabelType(k)
     /\ "evict" \in Avoid => ~Evicts(popped)
     /\ Compiled(Polymorphic(Arrives(p, J)), Fault(Reads(p.frame, Top(o, 1)), "operand"))

(* The index is moved to a slot, and the slot is free before the value is moved. *)
BranchTable(depths) ==
  LET J == {Target(d) : d \in depths}
      q == PreserveRegisterIfOccupied(o, R0)
      popped == Pop(q)
      p == IF Height(popped) > Block(o).init THEN MoveStackTopToRegister(popped) ELSE popped
  IN /\ \A j \in J : Has(IF LabelType(j) = None THEN <<"i32">> ELSE <<LabelType(j), "i32">>)
     /\ \A j, k \in J : LabelType(j) = LabelType(k)
     /\ "evict" \in Avoid => ~Evicts(popped)
     /\ Compiled(Polymorphic(Arrives(p, J)),
                 Fault(Reads(p.frame, Top(q, 1)), "operand")
                 \cup Fault(Holds(p, Kept(Height(o) - 1)), "entry") \cup Fault(HeadsAgree(p, J), "join"))

-------------------------------------------------------------------------------
Init == o = Start(ReturnType) /\ wrong = {}

Data ==
  \/ \E t \in ValueTypes : \E word \in [1 .. Words(t) -> Bits] : Const(t, word)
  \/ \E t \in ValueTypes : GetGlobal(t) \/ SetGlobal(t) \/ Select(t)
  \/ \E i \in 1 .. NumLocals : GetLocal(i) \/ SetLocal(i, TRUE) \/ SetLocal(i, FALSE)
  \/ Drop \/ MemoryCurrent \/ MemoryGrow
  \/ \E op \in Operators : Operator(op[1], op[2])
  \/ \E c \in Converts : Convert(c[1], c[2])
  \/ \E s \in Signatures : Call(s[1], s[2], FALSE) \/ Call(s[1], s[2], TRUE)

Control ==
  \/ \E t \in ValueTypes \cup {None} : LoopOrBlock("block", t) \/ LoopOrBlock("loop", t) \/ If(t)
  \/ Else \/ End \/ FunctionEnd \/ Return \/ Unreachable
  \/ \E d \in 0 .. Len(o.blocks) - 1 : Branch(d) \/ ContinueIf(d) \/ BranchIf(d)
  \/ \E D \in SUBSET (0 .. Len(o.blocks) - 1) \ {{}} : BranchTable(D)

Next == Data \/ Control

Spec == Init /\ [][Next]_vars

-------------------------------------------------------------------------------
(* Every instruction of the emitted code works on the operands that the program *)
(* gives it: the condition of a branch, the index of a table, the arguments of a *)
(* call, both operands of a subtraction.                                        *)
RightOperands == "operand" \notin wrong

(* After every instruction, each value of WebAssembly's stack and each local is *)
(* where the compiler thinks it is, however often it was moved.                 *)
RightEntries == "entry" \notin wrong

(* A label is reached with the values in the same places from everywhere: from *)
(* the code before it, by every branch, from both arms of an if, and from the   *)
(* end of a loop's body.                                                        *)
RightJoins == "join" \notin wrong

(* A register holds one value, that of the entry the compiler has noted for it, and *)
(* a slot's usage count is the number of entries that need it: none is taken from   *)
(* an entry, and none is lost to the function.                                      *)
SlotsAreCounted ==
  /\ \A r \in Registers : {i \in 1 .. Height(o) : o.stack[i].loc = r} = {o.reg[r]} \ {0}
  /\ \A c \in o.first .. NumSlots - 1 :
       o.slots[c] = Cardinality({i \in 1 .. Height(o) : c \in Extent(o.stack[i].loc, o.stack[i].type)})

(* Nothing that is compiled inside a loop or an arm of an if moves a value that was *)
(* on the stack before it: the code after it, and the next round, find it there.    *)
OuterEntriesStay ==
  [][Len(o.blocks') >= Len(o.blocks) /\ Len(o.blocks) > 1 =>
       \A i \in 1 .. StartIndex(o) : o'.stack[i] = o.stack[i]]_vars
===============================================================================
