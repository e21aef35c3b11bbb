----------------------------- MODULE StructFields -----------------------------
(***************************************************************************)
(* How a patch reads and writes structs that it passes by value.           *)
(*                                                                         *)
(* The four geometry structs are held in an NSValue, made and read by      *)
(* exports of their own.  Any other is held as bytes, in an NSMutableData  *)
(* that alloc_struct made for an encoding or in the NSData that was made   *)
(* of an argument or a result, and the patch reaches its members by        *)
(* offset: those the compiler gives them (StructLayout), because the author*)
(* takes them from a C header.                                             *)
(*                                                                         *)
(* A value is not a number here: every bit tells where it came from, which *)
(* is nobody (zeroed), the struct that was given, at the same place, or the*)
(* patch, as the i-th bit of what it set a member to.                      *)
(*                                                                         *)
(* What is assumed of authors, each because a member would read, or        *)
(* arrive, as something else:                                              *)
(*   "received"  no member is set of a struct that was received: its bytes *)
(*               are an NSData, and setting is silently ignored            *)
(*   "family"    alloc_struct is not used for a geometry struct, which is  *)
(*               only taken out of an NSValue                              *)
(*   "range"     no NSRange is looked into: it is an NSValue without       *)
(*               accessors                                                 *)
(*   "kind"      a geometry struct is passed where one of its kind is      *)
(*               expected: StructUnwrapBytes does not compare, and copies  *)
(*               a CGRect over the two words of a CGPoint                  *)
(***************************************************************************)
EXTENDS StructLayout, FiniteSets, TLC

CONSTANTS
  MaxFields,   \* bound: scalars and bit-fields of a type that values are made of
  MaxSets,     \* bound: members that are set after one another
  FieldsAvoid  \* what authors of patches are assumed not to do, see below

VARIABLES
  geometry,    \* the StructKind of the type, or "none"
  value,       \* the object that the patch holds
  set          \* the members it has set, in this order

fieldsVars == <<type, geometry, value, set>>

\* Those that alloc_cg... makes and cg..._get_... reads: there are none for NSRange.
Helped == {"cgpoint", "cgsize", "cgrect"}

Words(n) == [kind |-> "struct", members |-> [i \in 1 .. n |-> [kind |-> "scalar", size |-> 8]]]

GeometryType ==
  [cgpoint |-> Words(2), cgsize |-> Words(2), nsrange |-> Words(2),
   cgrect |-> [kind |-> "struct", members |-> <<Words(2), Words(2)>>]]

-------------------------------------------------------------------------------
(* The members, by the bits at which the compiler puts them                  *)

CWidth(m) == IF m.kind = "bits" THEN m.width ELSE 8 * CLayout(m).size

CStart(t, i) ==
  IF t.kind = "union" THEN 0
  ELSE LET before == FoldLeft(CPlaced, [bit |-> 0, align |-> 1], SubSeq(t.members, 1, i - 1))
       IN CPlaced(before, t.members[i]).bit - CWidth(t.members[i])

\* Scalars and bit-fields, in the order of the declaration.
RECURSIVE FieldsAt(_, _)
FieldsAt(t, bit) ==
  CASE t.kind \in {"scalar", "bits"} -> << [bit |-> bit, width |-> CWidth(t)] >>
    [] t.kind = "array" ->
         FlattenSeq([i \in 1 .. t.count |-> FieldsAt(t.element, bit + (i - 1) * CWidth(t.element))])
    [] OTHER ->
         FlattenSeq([i \in DOMAIN t.members |-> FieldsAt(t.members[i], bit + CStart(t, i))])

Fields == ToSet(FieldsAt(type, 0))

BitsOf(f) == f.bit .. f.bit + f.width - 1

Overlap(f, g) == BitsOf(f) \cap BitsOf(g) # {}

-------------------------------------------------------------------------------
(* Objects                                                                   *)

NoObject == [tag |-> "", encoding |-> type, class |-> "nil", bits |-> <<>>]

Object(tag, encoding, class, bits) ==
  [tag |-> tag, encoding |-> encoding, class |-> class, bits |-> bits]

HoldsBytes(v) == v.class \in {"NSData", "NSMutableData"}

Size(v) == Cardinality(DOMAIN v.bits) \div 8

Zero == <<"zero">>
Given(i) == <<"given", i>>
SetTo(f, i) == <<"set", f, i>>

\* The geometry helpers: one word of the value, when it has their tag.
ReadStruct(v, kind, f) ==
  [i \in 0 .. 63 |-> IF v.tag = kind THEN v.bits[f.bit + i] ELSE Zero]

\* struct_get_int32, _int64, _float, _double: all the bytes, or zero.
StructReadPtr(v, off, width) == HoldsBytes(v) /\ off + width <= Size(v)

StructGet(v, off, width) ==
  [i \in 0 .. 8 * width - 1 |-> IF StructReadPtr(v, off, width) THEN v.bits[8 * off + i] ELSE Zero]

\* struct_get_bits: as many as there are.
StructGetBits(v, off, width) ==
  [i \in 0 .. width - 1 |->
     IF HoldsBytes(v) /\ width \in 1 .. 64 /\ off + i < 8 * Size(v) THEN v.bits[off + i] ELSE Zero]

StructWritePtr(v, off, width) == v.class = "NSMutableData" /\ off + width <= Size(v)

StructSet(v, off, width, f) ==
  IF StructWritePtr(v, off, width)
  THEN [v EXCEPT !.bits = [i \in 8 * off .. 8 * (off + width) - 1 |-> SetTo(f, i - 8 * off)] @@ @]
  ELSE v

\* Bug: whole bytes are written.
SetWholeBytes(v, off, width, f) ==
  LET n == 8 * ((off + width + 7) \div 8)
      some == (8 * (off \div 8) .. n - 1) \cap DOMAIN v.bits
  IN IF v.class = "NSMutableData" /\ width \in 1 .. 64
     THEN [v EXCEPT !.bits = [i \in some |-> IF i \in off .. off + width - 1 THEN SetTo(f, i - off)
                                             ELSE Zero] @@ @]
     ELSE v

StructSetBits(v, off, width, f) ==
  IF v.class = "NSMutableData" /\ width \in 1 .. 64
  THEN [v EXCEPT !.bits =
          [i \in (off .. off + width - 1) \cap DOMAIN @ |-> SetTo(f, i - off)] @@ @]
  ELSE v

\* The accessors an author takes: there is none for a char or a short but the one
\* for bits.
InWords(f) == f.width \in {32, 64} /\ f.bit % 8 = 0

Get(f) ==
  IF geometry \in Helped /\ value.class = "NSValue" THEN ReadStruct(value, geometry, f)
  ELSE IF InWords(f) THEN StructGet(value, f.bit \div 8, f.width \div 8)
  ELSE StructGetBits(value, f.bit, f.width)

StructWrapBytes(kind) ==
  Object(kind, GeometryType[kind], "NSValue",
         [i \in 0 .. 8 * CLayout(GeometryType[kind]).size - 1 |-> Given(i)])

GenericWrapBytes(t) ==
  Object("struct", t, "NSData", [i \in 0 .. 8 * EncodingSize(t) - 1 |-> Given(i)])

\* All of an NSValue, whatever it holds.
StructUnwrapBytes(v) == IF v.class = "NSValue" THEN v.bits ELSE <<>>

GenericUnwrapBytes(v, size) ==
  IF HoldsBytes(v) /\ Size(v) >= size THEN [i \in 0 .. 8 * size - 1 |-> v.bits[i]] ELSE <<>>

\* What arrives in Objective-C where a struct of the type is expected.
Unwrapped ==
  IF geometry # "none" THEN StructUnwrapBytes(value)
  ELSE GenericUnwrapBytes(value, EncodingSize(type))

-------------------------------------------------------------------------------

FieldsInit ==
  /\ \/ Init /\ geometry = "none"
     \/ geometry \in DOMAIN GeometryType /\ type = GeometryType[geometry]
  /\ value = NoObject
  /\ set = <<>>

\* A struct that the library describes as the compiler does.
Usable ==
  \/ geometry # "none"
  \/ /\ Bridged
     /\ Len(FieldsAt(type, 0)) <= MaxFields
     /\ Tame(type)

Declare ==
  /\ geometry = "none" /\ value.class = "nil"
  /\ Next
  /\ value' = [NoObject EXCEPT !.encoding = type']
  /\ UNCHANGED <<geometry, set>>

\* The encoding may lack the last member.
AllocStruct ==
  /\ value.class = "nil" /\ Usable
  /\ \E t \in {type, [type EXCEPT !.members = Front(@)]} :
       /\ EncodingSize(t) > 0
       /\ value' = Object("struct", t, "NSMutableData", [i \in 0 .. 8 * EncodingSize(t) - 1 |-> Zero])
  /\ "family" \in FieldsAvoid => geometry = "none"
  /\ UNCHANGED <<type, geometry, set>>

\* alloc_cgpoint, alloc_cgsize, alloc_cgrect: all members are set.
MakeStructObject(kind) ==
  /\ value.class = "nil" /\ geometry # "none"
  /\ "kind" \in FieldsAvoid => kind = geometry
  /\ LET fields == FieldsAt(GeometryType[kind], 0) IN
       /\ value' = Object(kind, GeometryType[kind], "NSValue",
                          [i \in 0 .. 8 * CLayout(GeometryType[kind]).size - 1 |->
                             SetTo(fields[1 + i \div 64], i % 64)])
       /\ set' = fields
  /\ UNCHANGED <<type, geometry>>

\* An argument of a replaced method, or a result of a method that was called.
Receive ==
  /\ value.class = "nil" /\ Usable
  /\ "range" \in FieldsAvoid => geometry # "nsrange"
  /\ value' = IF geometry # "none" THEN StructWrapBytes(geometry) ELSE GenericWrapBytes(type)
  /\ UNCHANGED <<type, geometry, set>>

SetField(f) ==
  /\ HoldsBytes(value) /\ Len(set) < MaxSets
  /\ "received" \in FieldsAvoid => value.class # "NSData"
  /\ value' = IF InWords(f) THEN StructSet(value, f.bit \div 8, f.width \div 8, f)
              ELSE StructSetBits(value, f.bit, f.width, f)
  /\ set' = Append(set, f)
  /\ UNCHANGED <<type, geometry>>

FieldsNext ==
  \/ Declare
  \/ AllocStruct
  \/ \E kind \in Helped : MakeStructObject(kind)
  \/ Receive
  \/ \E f \in Fields : SetField(f)

FieldsSpec == FieldsInit /\ [][FieldsNext]_fieldsVars

-------------------------------------------------------------------------------

\* What the bits of a member have to be: the last it was set to, or what the value
\* was made with; when another member of a union was set after it, anything.
Holds(f, bits) ==
  LET touched == SelectSeq(set, LAMBDA g : Overlap(f, g))
      made(i) == IF value.class = "NSMutableData" THEN Zero ELSE Given(f.bit + i)
  IN IF touched = <<>> THEN \A i \in 0 .. f.width - 1 : bits[i] = made(i)
     ELSE Last(touched) = f => \A i \in 0 .. f.width - 1 : bits[i] = SetTo(f, i)

\* Every member that the value has room for reads as what was last set through it,
\* whatever other members were set; and when the value is passed on, Objective-C
\* finds the same in the compiler's struct, and nothing is written behind it.
FieldsReadBack ==
  value.class # "nil" =>
    /\ \A f \in Fields : f.bit + f.width <= 8 * Size(value) => Holds(f, Get(f))
    /\ value.encoding = type =>
         /\ DOMAIN Unwrapped = 0 .. 8 * CLayout(type).size - 1
         /\ \A f \in Fields : Holds(f, [i \in 0 .. f.width - 1 |-> Unwrapped[f.bit + i]])
    /\ DOMAIN Unwrapped \subseteq 0 .. 8 * CLayout(type).size - 1
===============================================================================
