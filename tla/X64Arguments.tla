----------------------------- MODULE X64Arguments -----------------------------
(***************************************************************************)
(* Where an argument of a call is put on x86_64 (ffi64_x86_64.c), which is *)
(* what the simulator and the Mac run: by libffi when it calls, by libffi  *)
(* when a closure is called, and by the compiler of the other side.  All   *)
(* three number the registers that are taken and the bytes of stack in     *)
(* use, [gpr, sse, stack], and note in [spoilt] whether an argument that   *)
(* already had its place was written over.  The location of an argument    *)
(* says for each of its words which register has it and how many bytes of  *)
(* it are moved, or where it is on the stack.                              *)
(***************************************************************************)
EXTENDS FFITypes, FiniteSets

CONSTANTS
  MaxGPR,  \* MAX_GPR_REGS
  MaxSSE   \* MAX_SSE_REGS

Word == 8

Memory == <<>>  \* the classes of an argument that goes in memory

IntegerClass == {"INTEGER", "INTEGERSI"}
SSEClass == {"SSE", "SSESF", "SSEDF"}

WordsOf(size) == (size + Word - 1) \div Word

\* A second class of NO_CLASS stands for an eightbyte that was never classified.
MergeClasses(class1, class2) ==
  CASE class1 = class2 -> class1
    [] class1 # class2 /\ class1 = "NO_CLASS" -> class2
    [] class1 # class2 /\ class2 = "NO_CLASS" -> class1
    [] {class1, class2} = {"INTEGERSI", "SSESF"} -> "INTEGERSI"
    [] /\ class1 # class2 /\ "NO_CLASS" \notin {class1, class2}
       /\ {class1, class2} # {"INTEGERSI", "SSESF"}
       /\ {class1, class2} \cap IntegerClass # {} -> "INTEGER"
    [] OTHER -> "SSE"

ScalarClass(ty, offset) ==
  CASE ty.type = "int" -> IF offset + ty.size <= 4 THEN "INTEGERSI" ELSE "INTEGER"
    [] ty.type = "float" -> IF offset = 0 THEN "SSESF" ELSE "SSE"
    [] ty.type = "double" -> "SSEDF"
    [] OTHER -> "NO_CLASS"

\* The classes of the words of a type that starts at an offset in its first
\* word.  A struct has the words of its size, whatever the offset, and what its
\* elements put behind them is lost.
RECURSIVE ClassifyArgument(_, _)

ClassifyElement(s, e) ==
  LET at == Aligned(s.offset, e.alignment)
      subclasses == ClassifyArgument(e, at % Word)
      Here(i) == i - (at \div Word) \in DOMAIN subclasses
  IN IF s.memory \/ subclasses = Memory THEN [s EXCEPT !.memory = TRUE]
     ELSE [s EXCEPT !.offset = at + e.size,
                    !.classes = [i \in DOMAIN @ |->
                       IF Here(i) THEN MergeClasses(subclasses[i - (at \div Word)], @[i]) ELSE @[i]]]

ClassifyArgument(ty, offset) ==
  IF ty.type # "struct" THEN <<ScalarClass(ty, offset)>>
  ELSE LET words == WordsOf(ty.size)
           start == [offset |-> offset, classes |-> [i \in 1..words |-> "NO_CLASS"], memory |-> FALSE]
           s == FoldLeft(ClassifyElement, start, ty.elements)
       IN IF ty.size > 32 \/ s.memory \/ words > 2 THEN Memory ELSE s.classes

Classes(ty) == ClassifyArgument(ty, 0)

\* The classes among some that take registers of a kind.
Among(classes, kind) == Cardinality({i \in DOMAIN classes : classes[i] \in kind})

\* Whether an argument goes in memory: no class, or too few registers for all of it.
InMemory(state, classes) ==
  \/ classes = Memory
  \/ state.gpr + Among(classes, IntegerClass) > MaxGPR
  \/ state.sse + Among(classes, SSEClass) > MaxSSE

Greater(m, n) == IF m > n THEN m ELSE n

OnStack(at) == [stack |-> at, words |-> <<>>]
InRegisters(words) == [stack |-> 0, words |-> words]
NoRegister == <<"none", 0, 0>>
Placed(state, location) == [state |-> state, at |-> location]

AllocateToStack(state, ty) ==
  LET at == Aligned(state.stack, Greater(ty.alignment, 8))
  IN Placed([state EXCEPT !.stack = at + ty.size], OnStack(at))

\* The register of word j, counting those of its kind before it.
WordOf(state, classes, j) ==
  LET before(kind) == Among(SubSeq(classes, 1, j - 1), kind) IN
  CASE classes[j] \in IntegerClass -> <<"gpr", state.gpr + before(IntegerClass), 8>>
    [] classes[j] \in SSEClass -> <<"sse", state.sse + before(SSEClass),
                                    IF classes[j] = "SSESF" THEN 4 ELSE 8>>
    [] OTHER -> NoRegister

TakenBy(state, classes) ==
  [state EXCEPT !.gpr = @ + Among(classes, IntegerClass), !.sse = @ + Among(classes, SSEClass)]

\* All that is left of a struct is copied to the register of an integer word:
\* past the last one it lands in the first vector register.
WritesPastGPR(state, classes) ==
  /\ Len(classes) = 2
  /\ classes[1] \in IntegerClass
  /\ classes[2] \notin IntegerClass
  /\ state.gpr = MaxGPR - 1

\* One turn of the loop of ffi_call_int.
CallArgument(state, ty) ==
  LET classes == Classes(ty) IN
  IF InMemory(state, classes) THEN AllocateToStack(state, ty)
  ELSE Placed([TakenBy(state, classes) EXCEPT !.spoilt =
                 @ \/ (WritesPastGPR(state, classes) /\ state.sse > 0)],
              InRegisters([j \in DOMAIN classes |-> WordOf(state, classes, j)]))

\* Bug: two words are read from two neighbouring registers, whatever their kinds.
ClosureArgumentNeighbours(state, ty) ==
  LET classes == Classes(ty) IN
  IF InMemory(state, classes) THEN AllocateToStack(state, ty)
  ELSE Placed(TakenBy(state, classes),
              InRegisters([j \in DOMAIN classes |->
                 IF classes[1] \in SSEClass THEN <<"sse", state.sse + j - 1, 8>>
                 ELSE <<"gpr", state.gpr + j - 1, 8>>]))

\* One turn of the loop of ffi_closure_unix64_inner: the value is read where the
\* registers were saved, or put together word by word, and a word of no vector
\* class is then taken for an integer's.
ClosureArgument(state, ty) ==
  LET classes == Classes(ty)
      n == Len(classes)
      vector(j) == classes[j] \in SSEClass
      before(j) == Cardinality({k \in 1..(j - 1) : vector(k)})
      consecutive == n = 1 \/ \A j \in 1..n : ~vector(j)
      count == Cardinality({j \in 1..n : vector(j)})
  IN IF InMemory(state, classes) THEN AllocateToStack(state, ty)
     ELSE Placed([state EXCEPT !.gpr = @ + n - count, !.sse = @ + count],
                 InRegisters([j \in 1..n |->
                    IF vector(j) THEN <<"sse", state.sse + before(j), 8>>
                    ELSE <<"gpr", state.gpr + j - 1 - before(j), 8>>]))

\* One turn of the loop of ffi_prep_cif_machdep, which counts stack and registers.
CifArgument(state, ty) ==
  IF InMemory(state, Classes(ty)) THEN AllocateToStack(state, ty)
  ELSE Placed(TakenBy(state, Classes(ty)), OnStack(0))

CifBytes(bytes) == Aligned(bytes, 8)

\* Where a value comes back: the registers of its words, each kind from its
\* first, or the memory that the caller's pointer, then the first argument, names.
ReturnFlags(ty) ==
  LET classes == Classes(ty)
      vector(j) == classes[j] \in SSEClass
      before(j) == Cardinality({k \in 1..(j - 1) : vector(k)})
  IN IF ty.type = "void" THEN InRegisters(<<NoRegister>>)
     ELSE IF classes = Memory THEN OnStack(0)
     ELSE InRegisters([j \in DOMAIN classes |->
            IF vector(j) THEN <<"sse", before(j), IF ty.size = 4 THEN 4 ELSE 8>>
            ELSE <<"gpr", j - 1 - before(j), 8>>])

ArgInit(rtype) == [gpr |-> IF Classes(rtype) = Memory THEN 1 ELSE 0, sse |-> 0, stack |-> 0,
                   spoilt |-> FALSE]

-------------------------------------------------------------------------------
(* The compiler: the calling convention of the System V ABI                  *)

\* The scalars of a word.
LeavesOf(ty, j) ==
  LET leaves == Leaves(ty, 0)
  IN {leaves[i] : i \in {k \in DOMAIN leaves : leaves[k].offset \div Word = j - 1}}

CompilerClasses(ty) ==
  IF ty.size > 2 * Word THEN <<"memory">>
  ELSE [j \in 1..WordsOf(ty.size) |->
          IF \E l \in LeavesOf(ty, j) : l.type = "int" THEN "gpr" ELSE "sse"]

\* The bytes of a word that hold something.
Used(ty, j) ==
  LET ends == {l.offset + l.size - Word * (j - 1) : l \in LeavesOf(ty, j)}
  IN CHOOSE n \in ends : \A m \in ends : m <= n

CompilerArgument(state, ty) ==
  LET classes == CompilerClasses(ty)
      count(kind, n) == Cardinality({j \in 1..n : classes[j] = kind})
      n == Len(classes)
      at == Aligned(state.stack, Greater(ty.alignment, 8))
  IN IF \/ classes = <<"memory">>
        \/ state.gpr + count("gpr", n) > MaxGPR
        \/ state.sse + count("sse", n) > MaxSSE
     THEN Placed([state EXCEPT !.stack = at + Aligned(ty.size, 8)], OnStack(at))
     ELSE Placed([state EXCEPT !.gpr = @ + count("gpr", n), !.sse = @ + count("sse", n)],
                 InRegisters([j \in 1..n |->
                    <<classes[j], (IF classes[j] = "gpr" THEN state.gpr ELSE state.sse)
                                  + count(classes[j], j - 1), Used(ty, j)>>]))

CompilerInit(rtype) ==
  [gpr |-> IF rtype.type # "void" /\ CompilerClasses(rtype) = <<"memory">> THEN 1 ELSE 0,
   sse |-> 0, stack |-> 0, spoilt |-> FALSE]

CompilerReturn(ty) ==
  IF ty.type = "void" THEN InRegisters(<<NoRegister>>)
  ELSE IF CompilerClasses(ty) = <<"memory">> THEN OnStack(0)
  ELSE CompilerArgument([gpr |-> 0, sse |-> 0, stack |-> 0], ty).at

\* A location has everything of a value that another one has.
Covers(location, other) ==
  /\ location.stack = other.stack
  /\ Len(location.words) = Len(other.words)
  /\ \A j \in DOMAIN location.words :
       /\ SubSeq(location.words[j], 1, 2) = SubSeq(other.words[j], 1, 2)
       /\ location.words[j][3] >= other.words[j][3]
===============================================================================
