----------------------------- MODULE StructLayout -----------------------------
(***************************************************************************)
(* How WasmPatch lays out a struct that is passed by value, from nothing   *)
(* but its type encoding (wap_objc_struct.h).  Two descriptions are made   *)
(* and have to agree with the compiler's: the libffi type that copies the  *)
(* value, and the size of the bytes the library holds for it, taken from   *)
(* Foundation, or, when a bit-field makes Foundation give up, computed.    *)
(*                                                                         *)
(* A type is a tree.  An encoding is the same tree, without the storage    *)
(* units of the bit-fields; names and qualifiers, which the parsers skip,  *)
(* are left out.  Only the recursive descent is modelled, not the scanning *)
(* of characters.                                                          *)
(***************************************************************************)
EXTENDS Naturals, Sequences, SequencesExt

CONSTANTS
  Scalar,      \* sizes of scalars; on the 64-bit platforms a scalar is aligned to its size
  BitField,    \* bit-fields, as <<width, bytes of the storage unit>>
  MaxMembers,  \* bound: members of a struct
  MaxDepth,    \* bound: structs and unions within each other
  LayoutAvoid  \* what the structs of a patch are known not to be; see Tame

VARIABLE type  \* the type that is described

Value == [kind : {"scalar"}, size : Scalar]

Unit == Value \cup [kind : {"array"}, count : {2}, element : Value] \cup
        {[kind |-> "bits", width |-> b[1], unit |-> b[2]] : b \in BitField}

AlignedTo(off, align) == ((off + align - 1) \div align) * align

Of(size, align) == [size |-> size, align |-> align]

-------------------------------------------------------------------------------
(* What the compiler does                                                    *)

RECURSIVE CLayout(_)

CPlaced(s, m) ==
  IF m.kind = "bits"
  THEN LET unit == 8 * m.unit
           start == IF (s.bit % unit) + m.width > unit THEN AlignedTo(s.bit, unit) ELSE s.bit
       IN [bit |-> start + m.width, align |-> Max({s.align, m.unit})]
  ELSE LET l == CLayout(m)
       IN [bit |-> AlignedTo(s.bit, 8 * l.align) + 8 * l.size, align |-> Max({s.align, l.align})]

COverlaid(s, m) ==
  LET l == IF m.kind = "bits" THEN Of(m.unit, m.unit) ELSE CLayout(m)
  IN [bit |-> Max({s.bit, 8 * l.size}), align |-> Max({s.align, l.align})]

CMembers(t) ==
  LET s == IF t.kind = "union" THEN FoldLeft(COverlaid, [bit |-> 0, align |-> 1], t.members)
           ELSE FoldLeft(CPlaced, [bit |-> 0, align |-> 1], t.members)
  IN Of(AlignedTo(s.bit, 8 * s.align) \div 8, s.align)

CLayout(t) ==
  CASE t.kind = "scalar" -> Of(t.size, t.size)
    [] t.kind = "array" -> LET e == CLayout(t.element) IN Of(t.count * e.size, e.align)
    [] OTHER -> CMembers(t)

-------------------------------------------------------------------------------
(* What the library computes                                                 *)

RECURSIVE HasBits(_)
HasBits(t) ==
  CASE t.kind = "bits" -> TRUE
    [] t.kind = "scalar" -> FALSE
    [] t.kind = "array" -> HasBits(t.element)
    [] OTHER -> \E i \in DOMAIN t.members : HasBits(t.members[i])

RECURSIVE NextMemberLayout(_)

\* Bits that were met are flushed, in whole bytes, before the next member that
\* is none, and at the end.
Flushed(s) == [s EXCEPT !.off = @ + ((s.bits + 7) \div 8), !.bits = 0]

\* Bug: a member stands where the one before it ends.
UnalignedStep(s, m) ==
  LET l == NextMemberLayout(m) IN
  IF s.stop THEN s
  ELSE IF l.bits > 0 THEN [s EXCEPT !.bits = @ + l.bits]
  ELSE IF l.size = 0 THEN [s EXCEPT !.stop = TRUE]
  ELSE [Flushed(s) EXCEPT !.off = @ + l.size, !.align = Max({@, l.align})]

StructStep(s, m) ==
  LET l == NextMemberLayout(m) IN
  IF s.stop THEN s
  ELSE IF l.bits > 0 THEN [s EXCEPT !.bits = @ + l.bits]
  ELSE IF l.size = 0 THEN [s EXCEPT !.stop = TRUE]
  ELSE [Flushed(s) EXCEPT !.off = AlignedTo(@, l.align) + l.size, !.align = Max({@, l.align})]

UnionStep(s, m) ==
  LET l == NextMemberLayout(m) IN
  IF s.stop THEN s
  ELSE IF l.bits > 0 THEN [s EXCEPT !.bits = @ + l.bits]
  ELSE IF l.size = 0 THEN [s EXCEPT !.stop = TRUE]
  ELSE [s EXCEPT !.off = Max({@, l.size}), !.align = Max({@, l.align})]

\* With nothing that is aligned, the alignment is guessed from the size.
GuessedAlign(s) ==
  IF s.align = 1 /\ s.off > 1
  THEN CHOOSE p \in {2, 4, 8} : (p >= s.off \/ p = 8) /\ p \div 2 < s.off
  ELSE s.align

TokenLayout(t) ==
  LET start == [off |-> 0, align |-> 1, bits |-> 0, stop |-> FALSE]
      s == Flushed(IF t.kind = "union" THEN FoldLeft(UnionStep, start, t.members)
                   ELSE FoldLeft(StructStep, start, t.members))
  IN Of(AlignedTo(s.off, GuessedAlign(s)), GuessedAlign(s))

NextMemberLayout(m) ==
  LET With(l, bits) == [size |-> l.size, align |-> l.align, bits |-> bits] IN
  CASE m.kind = "bits" -> With(Of(0, 1), m.width)
    [] m.kind = "scalar" -> With(Of(m.size, m.size), 0)
    [] m.kind = "array" -> LET e == NextMemberLayout(m.element) IN With(Of(m.count * e.size, e.align), 0)
    [] OTHER -> With(TokenLayout(m), 0)

\* NSGetSizeAndAlignment, which throws at a bit-field, or the manual layout.
EncodingSize(t) == IF HasBits(t) THEN TokenLayout(t).size ELSE CLayout(t).size

\* As libffi lays out the elements of a struct type.
RECURSIVE FFIType(_)

FFIPlaced(s, m) ==
  LET l == FFIType(m) IN Of(AlignedTo(s.size, l.align) + l.size, Max({s.align, l.align}))

\* As many of the widest integers as make up the size.
Blob(size) == Of(size, CHOOSE w \in {1, 2, 4, 8} : size % w = 0 /\ (w = 8 \/ size % (2 * w) # 0))

Aggregate(t) ==
  IF t.kind = "union" \/ \E i \in DOMAIN t.members : t.members[i].kind = "bits"
  THEN Blob(EncodingSize(t))
  ELSE LET s == FoldLeft(FFIPlaced, Of(0, 1), t.members) IN Of(AlignedTo(s.size, s.align), s.align)

FFIType(t) ==
  CASE t.kind = "scalar" -> Of(t.size, t.size)
    [] t.kind = "array" -> LET e == FFIType(t.element) IN Of(t.count * e.size, e.align)
    [] OTHER -> Aggregate(t)

-------------------------------------------------------------------------------
(* The types there are: a struct gets members, and goes into others.         *)

RECURSIVE Depth(_)
Depth(t) ==
  CASE t.kind \in {"scalar", "bits"} -> 0
    [] t.kind = "array" -> Depth(t.element)
    [] OTHER -> 1 + Max({0} \cup {Depth(t.members[i]) : i \in DOMAIN t.members})

Init == type \in [kind : {"struct", "union"}, members : {<<>>}]

AddMember(m) ==
  /\ Len(type.members) < MaxMembers
  /\ type' = [type EXCEPT !.members = Append(@, m)]

\* The type becomes a member, the last so far.
Enclose(kind, before) ==
  /\ type.members # <<>>
  /\ Depth(type) < MaxDepth
  /\ type' = [kind |-> kind, members |-> Append(before, type)]

Next ==
  \/ \E m \in Unit : AddMember(m)
  \/ \E kind \in {"struct", "union"} :
        \E before \in {<<>>} \cup {<<m>> : m \in Unit} : Enclose(kind, before)

Spec == Init /\ [][Next]_type

-------------------------------------------------------------------------------

\* The structs and unions that a type is made of.
RECURSIVE Within(_)
Within(t) ==
  CASE t.kind \in {"scalar", "bits"} -> {}
    [] t.kind = "array" -> Within(t.element)
    [] OTHER -> {t} \cup UNION {Within(t.members[i]) : i \in DOMAIN t.members}

FieldsOfBits(t) == {t.members[i] : i \in {j \in DOMAIN t.members : t.members[j].kind = "bits"}}

\* Bit-fields that follow each other share units, and what they leave of one is none.
Filling(s, m) ==
  CASE m.kind # "bits" -> [s EXCEPT !.ok = @ /\ s.left = 0]
    [] m.kind = "bits" /\ s.left = 0 -> [ok |-> s.ok, left |-> 8 * m.unit - m.width, unit |-> m.unit]
    [] OTHER -> [ok |-> s.ok /\ m.unit = s.unit /\ m.width <= s.left,
                 left |-> Max({0, s.left - m.width}), unit |-> s.unit]

Filled(t) ==
  IF t.kind = "union" THEN \A m \in FieldsOfBits(t) : m.width = 8 * m.unit
  ELSE LET s == FoldLeft(Filling, [ok |-> TRUE, left |-> 0, unit |-> 1], t.members)
       IN s.ok /\ s.left = 0

\* Types whose bit-fields fill their units, without those that the library is known to
\* take for others (LayoutAvoid):
\*   "union"  described as integers of its size, larger than it is aligned; or with
\*            bit-fields, which are laid behind the other members
\*   "words"  a struct with bit-fields, described as integers of its size, that is larger
\*            than it is aligned: several units, or other members as well
\*   "bytes"  a struct of several bytes only, in a type with bit-fields: nothing in it is
\*            aligned, and its alignment is guessed from its size
Tame(t) ==
  LET Square(s) == CLayout(s).size = CLayout(s).align
  IN \A s \in Within(t) :
       /\ Filled(s)
       /\ "union" \in LayoutAvoid /\ s.kind = "union" => Square(s) /\ ~HasBits(s)
       /\ "words" \in LayoutAvoid /\ s.kind = "struct" /\ FieldsOfBits(s) # {} => Square(s)
       /\ "bytes" \in LayoutAvoid /\ HasBits(t) => CLayout(s).align > 1 \/ CLayout(s).size <= 1

Bridged == type.kind = "struct" /\ type.members # <<>>

\* The bytes the library holds for a struct whose bit-fields fill their units, and the
\* libffi type that copies them, have the layout of the compiler, at any nesting
\* ("correct when the bitfields fill their storage unit"), but for what LayoutAvoid names.
TameMatchesC ==
  Bridged /\ Tame(type) => EncodingSize(type) = CLayout(type).size /\ FFIType(type) = CLayout(type)
===============================================================================
