---------------------------- MODULE ArgumentPassing ----------------------------
(***************************************************************************)
(* A call through libffi: from invoke_block to a block the compiler made,  *)
(* and from compiled code to a replacement or to a block of the patch.     *)
(* libffi and the compiler never see each other; each works out alone      *)
(* where every argument and the result are.  One step is one argument,     *)
(* taken in turn by prep_cif, by ffi_call, by a closure and by the         *)
(* compiler, so that each state is a whole signature.  The compiler knows  *)
(* the type, libffi what the library read in its encoding.                 *)
(***************************************************************************)
EXTENDS MethodSignature

CONSTANTS
  Arch,              \* subset of {"arm64", "x86_64"}: what the library is built for
  Arguments,         \* arguments, each a type and its part of an encoding
  Results,           \* and results
  XRegs, VRegs, MaxGPR, MaxSSE,
  MaxStack,          \* bound: bytes of arguments on the stack
  Avoid              \* guards, see Allowed

VARIABLES
  arch,
  call, closure, abi, \* what ffi_call, a closure and the compiler have given out
  bytes,              \* the stack that prep_cif counts
  at                  \* where each of the three has the latest argument, or result;
                      \* libffi, what the library took to be its parts

vars == <<arch, call, closure, abi, bytes, at>>

A == INSTANCE Arm64Arguments
X == INSTANCE X64Arguments

At(inCall, inClosure, inABI) == [call |-> inCall, closure |-> inClosure, abi |-> inABI]

\* A struct or array that begins within a word and goes on in the next.
RECURSIVE Straddles(_)
Straddles(ty) ==
  /\ ty.type = "struct"
  /\ LET offsets == Offsets(ty.elements, 0) IN
     \E i \in DOMAIN offsets :
        LET e == ty.elements[i] IN
        \/ e.type = "struct" /\ offsets[i] % 8 # 0 /\ (offsets[i] % 8) + e.size > 8
        \/ Straddles(e)

\* What the library reads, one type when it reads right.
Read == [p \in Arguments \cup Results |-> FFIArgumentTypes(p.encoding)]

\* Where the types that were read go, one after the other.  A null type that gets
\* here is read through: it has no place.
Passed(Argument(_, _), state, types) ==
  LET Pass(s, ty) == LET p == Argument(s.state, ty) IN [state |-> p.state, at |-> Append(s.at, p.at)]
  IN IF Null \in Range(types) THEN [state |-> state, at |-> <<>>]
     ELSE FoldLeft(Pass, [state |-> state, at |-> <<>>], types)

\* The first type is the result's.  What else was read is an argument.
InitArm64(result) ==
  LET rtype == Head(Read[result])
      c == Passed(A!CallArgument, A!ArgInit, Tail(Read[result]))
      l == Passed(A!ClosureArgument, A!ArgInit, Tail(Read[result]))
  IN /\ arch = "arm64"
     /\ call = c.state /\ closure = l.state /\ abi = A!ArgInit
     /\ bytes = FoldLeft(A!CoreBytes, A!ReturnBytes(rtype), Tail(Read[result]))
     /\ at = At(<<A!ReturnFlags(rtype)>> \o c.at, <<A!ReturnFlags(rtype)>> \o l.at,
                A!CompilerReturn(result.type))

InitX64(result) ==
  LET rtype == Head(Read[result])
      c == Passed(X!CallArgument, X!ArgInit(rtype), Tail(Read[result]))
      l == Passed(X!ClosureArgument, X!ArgInit(rtype), Tail(Read[result]))
  IN /\ arch = "x86_64"
     /\ "straddle" \in Avoid => ~Straddles(rtype)
     /\ call = c.state /\ closure = l.state
     /\ abi = X!CompilerInit(result.type)
     /\ bytes = c.state.stack
     /\ at = At(<<X!ReturnFlags(rtype)>> \o c.at, <<X!ReturnFlags(rtype)>> \o l.at,
                X!CompilerReturn(result.type))

\* An encoding that is read as what it is.
ReadWhole(p) == Len(Read[p]) = 1 /\ Null \notin Range(Read[p])

Init ==
  /\ arch \in Arch
  /\ \E result \in Results :
       /\ "split" \in Avoid => ReadWhole(result)
       /\ InitArm64(result) \/ InitX64(result)

-------------------------------------------------------------------------------

\* What the host's signatures stay clear of, where libffi and the compiler are
\* known to disagree:
\*   "split"     an encoding that the library reads as several, as it does a const
\*               void pointer and a pointer to a struct
\*   "packed"    a small struct that does not fill whole words on arm64's stack
\*   "reference" a large struct of small scalars, passed by reference there
\*   "straddle"  a nested struct across a word boundary, on x86_64
\*   "overrun"   a struct of an integer and a floating-point word when one general
\*               and fewer than all vector registers are left
Allowed(p) ==
  LET ty == p.type IN
  /\ "split" \in Avoid => ReadWhole(p)
  /\ arch = "arm64" /\ ty.type = "struct" /\ ~A!HomogeneousAggregate(ty) =>
       /\ "packed" \in Avoid /\ ty.size <= 16 /\ abi.ngrn + 2 > XRegs => ty.alignment = 8
       /\ "reference" \in Avoid /\ ty.size > 16 /\ abi.ngrn = XRegs => ty.alignment = 8
  /\ arch = "x86_64" =>
       /\ "straddle" \in Avoid => ~Straddles(ty)
       /\ "overrun" \in Avoid => ~(X!WritesPastGPR(call, X!Classes(ty)) /\ call.sse > 0)

\* Where ffi_call, a closure and the compiler have put an argument.
Given(c, l, a) ==
  /\ call' = c.state /\ closure' = l.state /\ abi' = a.state
  /\ at' = At(c.at, l.at, a.at)

PassArm64(p) ==
  /\ arch = "arm64"
  /\ abi.nsaa < MaxStack
  /\ Given(Passed(A!CallArgument, call, Read[p]), Passed(A!ClosureArgument, closure, Read[p]),
           A!CompilerArgument(abi, p.type))
  /\ bytes' = FoldLeft(A!CoreBytes, bytes, Read[p])

PassX64(p) ==
  /\ arch = "x86_64"
  /\ abi.stack < MaxStack
  /\ Given(Passed(X!CallArgument, call, Read[p]), Passed(X!ClosureArgument, closure, Read[p]),
           X!CompilerArgument(abi, p.type))
  /\ bytes' = Passed(X!CifArgument, [call EXCEPT !.stack = bytes], Read[p]).state.stack

Next ==
  /\ \E p \in Arguments : Allowed(p) /\ (PassArm64(p) \/ PassX64(p))
  /\ UNCHANGED arch

Spec == Init /\ [][Next]_vars

-------------------------------------------------------------------------------

\* Every argument that ffi_call passes, and every result it fetches, is where the
\* called block looks for it, and stays there while the others are placed.
CallMatchesCompiler ==
  IF arch = "arm64" THEN at.call = <<at.abi>>
  ELSE /\ ~call.spoilt
       /\ Len(at.call) = 1 /\ X!Covers(at.call[1], at.abi)

\* A closure reads every argument, and leaves its result, where the caller has it.
ClosureMatchesCompiler ==
  IF arch = "arm64" THEN at.closure = <<at.abi>>
  ELSE Len(at.closure) = 1 /\ X!Covers(at.closure[1], at.abi)

\* What ffi_call writes fits the stack that prep_cif had it set aside.
ArgumentsFit ==
  IF arch = "arm64" THEN call.nsaa <= A!CifBytes(bytes) ELSE call.stack <= X!CifBytes(bytes)
===============================================================================
