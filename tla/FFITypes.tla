------------------------------- MODULE FFITypes -------------------------------
(***************************************************************************)
(* The types libffi is told about (types.c, and initialize_aggregate of    *)
(* prep_cif.c).  A type is a tree that carries its size and alignment: a   *)
(* scalar has no elements, an array has become a struct of equal elements  *)
(* and a union a struct of integers (wap_objc_struct.h), so that nothing   *)
(* else exists.  Signedness is left out.                                   *)
(***************************************************************************)
EXTENDS Naturals, Sequences, SequencesExt

Aligned(n, alignment) == ((n + alignment - 1) \div alignment) * alignment

Scalar(kind, size) == [type |-> kind, size |-> size, alignment |-> size, elements |-> <<>>]

Integer(size) == Scalar("int", size)
Float == Scalar("float", 4)
Double == Scalar("double", 8)
Void == Scalar("void", 1)

Struct(elements) ==
  LET Place(s, e) == [size |-> Aligned(s.size, e.alignment) + e.size,
                      alignment |-> IF s.alignment > e.alignment THEN s.alignment ELSE e.alignment]
      s == FoldLeft(Place, [size |-> 0, alignment |-> 0], elements)
  IN [type |-> "struct", size |-> Aligned(s.size, s.alignment), alignment |-> s.alignment,
      elements |-> elements]

-------------------------------------------------------------------------------
(* What the compiler makes of a type: the scalars it holds, each at its      *)
(* offset.                                                                   *)

\* The offset of each element of a struct.
RECURSIVE Offsets(_, _)
Offsets(elements, from) ==
  IF elements = <<>> THEN <<>>
  ELSE LET at == Aligned(from, Head(elements).alignment)
       IN <<at>> \o Offsets(Tail(elements), at + Head(elements).size)

RECURSIVE Leaves(_, _)
Leaves(ty, offset) ==
  IF ty.type # "struct" THEN <<[type |-> ty.type, size |-> ty.size, offset |-> offset]>>
  ELSE LET at == Offsets(ty.elements, 0)
       IN FlattenSeq([i \in DOMAIN at |-> Leaves(ty.elements[i], offset + at[i])])
===============================================================================
