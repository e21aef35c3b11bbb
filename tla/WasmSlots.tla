------------------------------ MODULE WasmSlots -------------------------------
(***************************************************************************)
(* Where the single-pass compiler of the interpreter keeps the operands of *)
(* WebAssembly's stack (m3_compile.c): in 32-bit slots of the function's   *)
(* frame, with a usage count each, or in one of two registers.  The        *)
(* operators take the compilation, a record, and return what it becomes.   *)
(*                                                                         *)
(* A compilation also carries the frame of one execution of the code it    *)
(* emits: cell c of the frame holds the value that cell frame[c] held      *)
(* before the instruction, or New, the result of the instruction, or Lost. *)
(* The registers are the four cells above the slots, two words each.       *)
(***************************************************************************)
EXTENDS Integers, Sequences, FiniteSets, SequencesExt

CONSTANTS
  ArgTypes,   \* types of the function's arguments
  VarTypes,   \* types of its other locals
  NumConsts,  \* slots reserved for constants
  NumSlots    \* bound: slots of a frame; 4000 in the code (d_m3MaxFunctionSlots)

ASSUME NumSlotsAssumption == NumSlots \in Nat /\ NumSlots > 0 /\ NumConsts \in Nat

Types == {"i32", "i64", "f32", "f64"}
None == "none"

IsFp(t) == t \in {"f32", "f64"}

(* A 64-bit value takes two slots, the first of them even (d_m3Use32BitSlots). *)
Words(t) == IF t \in {"i64", "f64"} THEN 2 ELSE 1

R0 == NumSlots
FP0 == NumSlots + 2
Registers == {R0, FP0}
Cells == 0 .. NumSlots + 3
New == -1
Lost == -2

RegisterOf(t) == IF IsFp(t) THEN FP0 ELSE R0

NumLocals == Len(ArgTypes) + Len(VarTypes)

Identity == [c \in Cells |-> c]

Extent(loc, t) == loc .. loc + Words(t) - 1

(* A value is a sequence of words; one is stored at consecutive places. *)
Put(f, at, value) ==
  IF Len(value) = 1 THEN [f EXCEPT ![at] = value[1]]
  ELSE [f EXCEPT ![at] = value[1], ![at + 1] = value[2]]

Each(t, word) == IF Words(t) = 1 THEN <<word>> ELSE <<word, word>>

(* The value of an entry of the stack in a frame. *)
ValueIn(frame, e) ==
  IF Words(e.type) = 1 THEN <<frame[e.loc]>> ELSE <<frame[e.loc], frame[e.loc + 1]>>

-------------------------------------------------------------------------------
(* The code that is emitted, by what it does to the frame                    *)

(* CopySlot, SetSlot and SetRegister: one value, from one location to another. *)
Move(o, to, from, t) ==
  [o EXCEPT !.frame = Put(@, to, ValueIn(@, [type |-> t, loc |-> from]))]

-------------------------------------------------------------------------------
(* Slots                                                                     *)

(* The places of a range where a value of a type fits; none, and the function *)
(* cannot be compiled.                                                        *)
Free(o, t, first, end) ==
  {s \in first .. end - Words(t) : s % Words(t) = 0 /\ \A c \in Extent(s, t) : o.slots[c] = 0}

Lowest(S) == CHOOSE s \in S : \A r \in S : s <= r

AllocateSlots(o, t) ==
  LET free == Free(o, t, o.first, NumSlots)
  IN IF free = {} THEN [slot |-> 0, o |-> [o EXCEPT !.failed = TRUE]]
     ELSE [slot |-> Lowest(free), o |-> [o EXCEPT !.slots = Put(@, Lowest(free), Each(t, 1))]]

(* The highest slot in use: the frame of a called function begins above it. *)
GetMaxUsedSlotPlusOne(o) ==
  LET used == {c \in o.first .. NumSlots - 1 : o.slots[c] > 0}
  IN IF used = {} THEN o.first ELSE 1 + CHOOSE c \in used : \A d \in used : d <= c

-------------------------------------------------------------------------------
(* The stack                                                                 *)

Height(o) == Len(o.stack)
Block(o) == o.blocks[Len(o.blocks)]
Entry(o, depth) == o.stack[Height(o) - depth]   \* 0 is the top
InRegister(o, depth) == Entry(o, depth).loc \in Registers

Push(o, t, loc) ==
  LET p == [o EXCEPT !.stack = Append(@, [type |-> t, loc |-> loc])]
  IN IF loc \in Registers THEN [p EXCEPT !.reg[loc] = Height(o) + 1] ELSE p

PushRegister(o, t) == Push(o, t, RegisterOf(t))

PushAllocatedSlot(o, t) ==
  LET a == AllocateSlots(o, t) IN Push(a.o, t, a.slot)

(* The counts are bytes: one that is lowered below zero becomes 255. *)
Pop(o) ==
  LET e == Entry(o, 0)
      p == [o EXCEPT !.stack = Front(@)]
      counts == ValueIn(o.slots, e)
  IN CASE e.loc \in Registers -> [p EXCEPT !.reg[e.loc] = 0]
       [] e.loc \in o.first .. NumSlots - 1 ->
            [p EXCEPT !.slots = Put(@, e.loc, [k \in DOMAIN counts |-> (counts[k] - 1) % 256])]
       [] OTHER -> p

PopTo(o, height) ==
  LET from[h \in height .. Height(o)] == IF h = Height(o) THEN o ELSE Pop(from[h + 1])
  IN from[height]

UnwindBlockStack(o) == PopTo(o, Block(o).init)

(* A value in a register moves to a slot, so that the register can be used. *)
PreserveRegisterIfOccupied(o, r) ==
  IF o.reg[r] = 0 THEN o
  ELSE LET e == o.stack[o.reg[r]]
           a == AllocateSlots(o, e.type)
       IN Move([a.o EXCEPT !.stack[o.reg[r]].loc = a.slot, !.reg[r] = 0], a.slot, r, e.type)

PreserveRegisters(o) == PreserveRegisterIfOccupied(PreserveRegisterIfOccupied(o, FP0), R0)

PreserveNonTopRegisters(o) ==
  LET below(p, r) == IF p.reg[r] = Height(o) THEN p ELSE PreserveRegisterIfOccupied(p, r)
  IN below(below(o, R0), FP0)

MoveStackTopToRegister(o) ==
  IF InRegister(o, 0) THEN o
  ELSE LET t == Entry(o, 0).type
           p == PreserveRegisterIfOccupied(o, RegisterOf(t))
       IN PushRegister(Pop(Move(p, RegisterOf(t), Entry(p, 0).loc, t)), t)

-------------------------------------------------------------------------------
(* Locals: `local.get` copies nothing, its entry names the slot of the local; *)
(* an assignment first saves the value for the entries that still name it.    *)

(* The entries from which a preserved copy must be reached: those of the current *)
(* block, and of the blocks around it up to a loop, an if, or the function.      *)
StartIndex(o) ==
  LET stops == {k \in 1 .. Len(o.blocks) : o.blocks[k].opcode # "block"}
  IN o.blocks[CHOOSE k \in stops : \A j \in stops : j <= k].init

References(o, slot) == {i \in StartIndex(o) + 1 .. Height(o) : o.stack[i].loc = slot}

(* The type of the copy is that of the stack entry whose index is the slot's number. *)
CopyType(o, slot) == IF slot < Height(o) THEN o.stack[slot + 1].type ELSE None

Renamed(o, entries, slot) ==
  [o EXCEPT !.stack = [i \in DOMAIN @ |-> IF i \in entries THEN [@[i] EXCEPT !.loc = slot] ELSE @[i]]]

\* Bug: the copy counts one reference, however many entries need it.
FindReferencedLocalUncounted(o, slot) ==
  LET a == AllocateSlots(o, CopyType(o, slot))
  IN IF References(o, slot) = {} THEN [slot |-> slot, o |-> o]
     ELSE [slot |-> a.slot, o |-> Renamed(a.o, References(o, slot), a.slot)]

(* Only the first slot of the copy counts its further references. *)
FindReferencedLocalWithinCurrentBlock(o, slot) ==
  LET refs == References(o, slot)
      a == AllocateSlots(o, CopyType(o, slot))
  IN IF refs = {} THEN [slot |-> slot, o |-> o]
     ELSE [slot |-> a.slot,
           o |-> Renamed([a.o EXCEPT !.slots[a.slot] = Cardinality(refs)], refs, a.slot)]

(* Before a block: entries that name a local get a copy of it, as the block may *)
(* assign to the local.  The local's number is used for the slot it is kept in. *)
PreserveLocal(o, i) ==
  LET p == FindReferencedLocalWithinCurrentBlock(o, i - 1)
  IN IF p.slot = i - 1 THEN p.o ELSE Move(p.o, p.slot, i - 1, o.stack[i].type)

PreserveArgsAndLocals(o) ==
  IF Height(o) = NumLocals THEN o
  ELSE FoldLeft(PreserveLocal, o, [i \in 1 .. NumLocals |-> i])

-------------------------------------------------------------------------------
(* Constants have slots of their own, as long as there are any left, and equal *)
(* ones share them.                                                            *)

ConstSlots(o, t) ==
  {s \in o.first - NumConsts .. o.first - Words(t) : s % Words(t) = 0}

PushConst(o, t, word) ==
  LET held == {s \in ConstSlots(o, t) : \A c \in Extent(s, t) :
                 o.slots[c] > 0 /\ o.consts[c] = word[c - s + 1]}
      free == {s \in ConstSlots(o, t) : \A c \in Extent(s, t) : o.slots[c] = 0}
      s == Lowest(free)
      a == AllocateSlots(o, t)
  IN CASE held # {} -> Push(o, t, Lowest(held))
       [] held = {} /\ free # {} ->
            Push([o EXCEPT !.slots = Put(@, s, Each(t, 1)), !.consts = Put(@, s, word)], t, s)
       [] OTHER -> Push([a.o EXCEPT !.frame = Put(@, a.slot, Each(t, New))], t, a.slot)

-------------------------------------------------------------------------------
(* The start of a function                                                   *)

Blank ==
  [stack |-> <<>>, slots |-> [c \in 0 .. NumSlots - 1 |-> 0], reg |-> [r \in Registers |-> 0],
   consts |-> [c \in 0 .. NumSlots - 1 |-> 0], first |-> 0, blocks |-> <<>>, frame |-> Identity,
   failed |-> FALSE]

(* Arguments are aligned to 64 bits; the last one takes its natural width. *)
PushArg(o, i) ==
  [PushAllocatedSlot(o, ArgTypes[i])
     EXCEPT !.first = @ + IF i < Len(ArgTypes) THEN 2 ELSE Words(ArgTypes[i])]

CompileLocals(o) == FoldLeft(PushAllocatedSlot, o, VarTypes)

(* The entries of the locals stay at the bottom of the stack; the constants'   *)
(* slots come after them, and then those the compiler allocates.               *)
Start(returnType) ==
  LET o == CompileLocals(FoldLeft(PushArg, Blank, [i \in 1 .. Len(ArgTypes) |-> i]))
  IN [o EXCEPT !.first = GetMaxUsedSlotPlusOne(o) + NumConsts,
               !.blocks = <<[opcode |-> "function", type |-> returnType, init |-> NumLocals,
                             poly |-> FALSE, entry |-> <<>>, arrivals |-> {}]>>]
===============================================================================
