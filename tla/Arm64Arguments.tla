---------------------------- MODULE Arm64Arguments ----------------------------
(***************************************************************************)
(* Where an argument of a call is put on arm64 (ffi_arm64.c): by libffi    *)
(* when it calls, by libffi when a closure is called, and by the compiler  *)
(* of the other side.  All three number the registers that are taken and   *)
(* the bytes of stack in use, [ngrn, nsrn, nsaa]; each argument moves them *)
(* on and gets a location.                                                 *)
(***************************************************************************)
EXTENDS FFITypes

CONSTANTS
  XRegs,  \* N_X_ARG_REG
  VRegs   \* N_V_ARG_REG

ArgInit == [ngrn |-> 0, nsrn |-> 0, nsaa |-> 0]

Registers(file, first, count) == [in |-> file, at |-> first, count |-> count, indirect |-> FALSE]
OnStack(at) == [in |-> "stack", at |-> at, count |-> 0, indirect |-> FALSE]
Nowhere == Registers("none", 0, 0)  \* of void
ByReference(location) == [location EXCEPT !.indirect = TRUE]

Placed(state, location) == [state |-> state, at |-> location]

-------------------------------------------------------------------------------
(* libffi                                                                    *)

\* The first scalar of a struct.
RECURSIVE IsHFA0(_)
IsHFA0(ty) == IF Head(ty.elements).type = "struct" THEN IsHFA0(Head(ty.elements)) ELSE Head(ty.elements).type

RECURSIVE IsHFA1(_, _)
IsHFA1(ty, candidate) ==
  \A i \in DOMAIN ty.elements :
     IF ty.elements[i].type = "struct" THEN IsHFA1(ty.elements[i], candidate)
     ELSE ty.elements[i].type = candidate

Width(candidate) == IF candidate = "float" THEN 4 ELSE 8

\* Bug: only the first scalar is looked at.
FirstDecides(ty) ==
  CASE ty.type \in {"int", "void"} -> 0
    [] ty.type \in {"float", "double"} -> 1
    [] OTHER -> LET candidate == IsHFA0(ty)
                    count == ty.size \div Width(candidate)
                IN IF /\ candidate \in {"float", "double"}
                      /\ ty.size = count * Width(candidate)
                      /\ count <= 4
                   THEN count ELSE 0

\* The vector registers that hold the type, 0 when it does not go there.
IsVFPType(ty) ==
  CASE ty.type \in {"int", "void"} -> 0
    [] ty.type \in {"float", "double"} -> 1
    [] OTHER -> LET candidate == IsHFA0(ty)
                    count == ty.size \div Width(candidate)
                IN IF /\ ty.size \in 4..64
                      /\ candidate \in {"float", "double"}
                      /\ ty.size = count * Width(candidate)
                      /\ count <= 4
                      /\ IsHFA1(ty, candidate)
                   THEN count ELSE 0

AllocateToStack(state, alignment, size) ==
  LET at == Aligned(state.nsaa, alignment)
  IN Placed([state EXCEPT !.nsaa = at + size], OnStack(at))

AllocateIntToRegOrStack(state, alignment, size) ==
  IF state.ngrn < XRegs
  THEN Placed([state EXCEPT !.ngrn = @ + 1], Registers("x", state.ngrn, 1))
  ELSE AllocateToStack(state, alignment, size)

AllocateVector(state, ty, count) ==
  IF state.nsrn + count <= VRegs
  THEN Placed([state EXCEPT !.nsrn = @ + count], Registers("v", state.nsrn, count))
  ELSE AllocateToStack([state EXCEPT !.nsrn = VRegs], ty.alignment, ty.size)

AllocateStruct(state, ty) ==
  LET n == (ty.size + 7) \div 8 IN
  IF state.ngrn + n <= XRegs
  THEN Placed([state EXCEPT !.ngrn = @ + n], Registers("x", state.ngrn, n))
  ELSE AllocateToStack([state EXCEPT !.ngrn = XRegs], ty.alignment, ty.size)

Referenced(placed) == [placed EXCEPT !.at = ByReference(@)]

\* One turn of the loop of ffi_call_int.  A pointer to a copy is aligned like
\* what it points to.
CallArgument(state, ty) ==
  LET count == IsVFPType(ty) IN
  IF ty.type = "void" THEN Placed(state, Nowhere)
  ELSE IF count > 0 THEN AllocateVector(state, ty, count)
  ELSE IF ty.type = "int" THEN AllocateIntToRegOrStack(state, ty.alignment, ty.size)
  ELSE IF ty.size > 16 THEN Referenced(AllocateIntToRegOrStack(state, ty.alignment, 8))
  ELSE AllocateStruct(state, ty)

\* One turn of the loop of ffi_closure_SYSV_inner.
ClosureArgument(state, ty) ==
  LET count == IsVFPType(ty) IN
  IF ty.type = "void" THEN Placed(state, Nowhere)
  ELSE IF count > 0 THEN AllocateVector(state, ty, count)
  ELSE IF ty.type = "int" THEN AllocateIntToRegOrStack(state, ty.size, ty.size)
  ELSE IF ty.size > 16 THEN Referenced(AllocateIntToRegOrStack(state, 8, 8))
  ELSE AllocateStruct(state, ty)

\* Bug: an argument that does not fill a word is not counted.
WholeWordsCore(bytes, ty) == bytes + 8 * (ty.size \div 8)

\* The stack that ffi_prep_cif_core sets aside: every argument counts, also one
\* that a register will hold.
CoreBytes(bytes, ty) == Aligned(bytes, ty.alignment) + Aligned(ty.size, 8)

\* Where a value comes back: in registers, or through a pointer.
ReturnFlags(ty) ==
  LET count == IsVFPType(ty) IN
  IF ty.type = "void" THEN Nowhere
  ELSE IF count > 0 THEN Registers("v", 0, count)
  ELSE IF ty.type = "struct" /\ ty.size > 16 THEN ByReference(Registers("x", 8, 1))
  ELSE Registers("x", 0, (ty.size + 7) \div 8)

\* A struct leaves room for the pointer to it, one that is returned in memory twice.
ReturnBytes(ty) ==
  (IF ty.type = "struct" THEN 8 ELSE 0) + (IF ReturnFlags(ty).indirect THEN 8 ELSE 0)

CifBytes(bytes) == Aligned(bytes, 16)

-------------------------------------------------------------------------------
(* The compiler: the procedure call standard as Apple's platforms have it    *)

\* One to four floating-point scalars of one kind, and nothing else.
HomogeneousAggregate(ty) ==
  LET leaves == Leaves(ty, 0) IN
  /\ Len(leaves) <= 4
  /\ leaves[1].type \in {"float", "double"}
  /\ \A i \in DOMAIN leaves : leaves[i].type = leaves[1].type

\* On the stack a scalar, and a homogeneous aggregate, takes its own size, and
\* any other small struct whole words.
CompilerArgument(state, ty) ==
  LET leaves == Len(Leaves(ty, 0))
      words == Aligned(ty.size, 8) \div 8
      Stack(s, alignment, size) ==
        LET at == Aligned(s.nsaa, alignment) IN Placed([s EXCEPT !.nsaa = at + size], OnStack(at))
      General(n, alignment, size) ==
        IF state.ngrn + n <= XRegs
        THEN Placed([state EXCEPT !.ngrn = @ + n], Registers("x", state.ngrn, n))
        ELSE Stack([state EXCEPT !.ngrn = XRegs], alignment, size)
  IN CASE HomogeneousAggregate(ty) /\ state.nsrn + leaves <= VRegs ->
            Placed([state EXCEPT !.nsrn = @ + leaves], Registers("v", state.nsrn, leaves))
       [] HomogeneousAggregate(ty) /\ state.nsrn + leaves > VRegs ->
            Stack([state EXCEPT !.nsrn = VRegs], ty.alignment, ty.size)
       [] ty.type = "int" -> General(1, ty.size, ty.size)
       [] ty.type = "struct" /\ ~HomogeneousAggregate(ty) /\ ty.size > 16 -> Referenced(General(1, 8, 8))
       [] OTHER -> General(words, 8, 8 * words)

CompilerReturn(ty) ==
  CASE ty.type = "void" -> Nowhere
    [] HomogeneousAggregate(ty) -> Registers("v", 0, Len(Leaves(ty, 0)))
    [] ty.type # "void" /\ ~HomogeneousAggregate(ty) /\ ty.size > 16 -> ByReference(Registers("x", 8, 1))
    [] OTHER -> Registers("x", 0, Aligned(ty.size, 8) \div 8)
===============================================================================
