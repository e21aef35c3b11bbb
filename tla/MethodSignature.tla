---------------------------- MODULE MethodSignature ----------------------------
(***************************************************************************)
(* What WasmPatch makes of the type encoding of a method or block: the     *)
(* arguments it is split into (wap_objc_method_signature.mm) and the       *)
(* libffi type each of them is taken for (the same file, and               *)
(* wap_objc_struct.h).  An encoding is a sequence of characters, a name    *)
(* being one.  Unions and bit-fields are StructLayout's matter.            *)
(***************************************************************************)
EXTENDS FFITypes

Digits == <<"1", "2", "3", "4", "5", "6", "7", "8", "9">>

-------------------------------------------------------------------------------
(* The scanner                                                               *)

\* How deep the scanner is in each kind of bracket, where the outermost brace
\* was, whether the next character is part of the latest argument, and the
\* arguments.
ScanStart == [quoted |-> FALSE, angles |-> 0, braces |-> 0, open |-> 0, skip |-> FALSE, args |-> <<>>]

\* One turn of parse's loop.
Scan(encoding, s, i) ==
  LET c == encoding[i]
      quoted == s.quoted # (c = "\"")
      angles == s.angles + (IF c = "<" THEN 1 ELSE 0)
      braces == s.braces + (IF c = "{" THEN 1 ELSE IF s.braces > 0 /\ c = "}" THEN -1 ELSE 0)
      open == IF s.braces = 0 THEN i ELSE s.open
      two == SubSeq(encoding, i, IF i < Len(encoding) THEN i + 1 ELSE i)
  IN CASE s.skip -> [s EXCEPT !.skip = FALSE]
       [] ~s.skip /\ (quoted \/ c \in Range(Digits) \cup {"0", "\""}) -> [s EXCEPT !.quoted = quoted]
       [] ~s.skip /\ angles > 0 -> [s EXCEPT !.angles = IF c = ">" THEN angles - 1 ELSE angles]
       [] ~s.skip /\ braces > 0 -> [s EXCEPT !.braces = braces, !.open = open]
       [] c = "}" /\ s.braces > 0 -> [s EXCEPT !.braces = 0, !.args = Append(@, SubSeq(encoding, s.open, i))]
       [] c = "^" \/ (c = "r" /\ Len(two) = 2) -> [s EXCEPT !.skip = TRUE, !.args = Append(@, two)]
       [] c = "?" -> [s EXCEPT !.args = Append(Front(@), SubSeq(encoding, i - 1, i))]
       [] OTHER -> [s EXCEPT !.args = Append(@, <<c>>)]

\* The arguments in an encoding.
ArgumentTypes(encoding) ==
  FoldLeftDomain(LAMBDA s, i : Scan(encoding, s, i), ScanStart, encoding).args

-------------------------------------------------------------------------------
(* The types                                                                 *)

\* Wherever the library finds no type it uses a null pointer.
Null == Scalar("null", 0)

ScalarFFIType(c) ==
  CASE c \in {"c", "C", "B"} -> Integer(1)
    [] c \in {"s", "S"} -> Integer(2)
    [] c \in {"i", "I"} -> Integer(4)
    [] c \in {"l", "L", "q", "Q", "*", "^", "@", "#", ":"} -> Integer(8)
    [] c = "f" -> Float
    [] c = "d" -> Double
    [] OTHER -> Null

\* Four structs are known by name.
KnownStruct(name) ==
  CASE name \in {"CGPoint", "CGSize"} -> Struct(<<Double, Double>>)
    [] name = "CGRect" -> Struct(<<Double, Double, Double, Double>>)
    [] name \in {"_NSRange", "NSRange"} -> Struct(<<Integer(8), Integer(8)>>)
    [] OTHER -> Null

\* The last position of the bracket that opens at i.
BalancedEnd(s, i) ==
  LET count(set, j) == Cardinality({k \in i..j : s[k] \in set})
      closed == {j \in i..Len(s) : count({"{", "("}, j) = count({"}", ")"}, j)}
  IN IF closed = {} THEN Len(s) ELSE Min(closed)

\* The type at a position, and the position after it.
RECURSIVE FFITypeForEncoding(_, _), Members(_, _)

After(s, i, c) == Min({j \in i..Len(s) : s[j] = c} \cup {Len(s)}) + 1

\* The members of a struct, up to its end or to one that has no type.
Members(token, i) ==
  IF i > Len(token) \/ token[i] = "}" THEN <<>>
  ELSE IF token[i] = "\"" THEN Members(token, After(token, i + 1, "\""))
  ELSE LET m == FFITypeForEncoding(token, i)
       IN <<m.type>> \o (IF m.type = Null THEN <<>> ELSE Members(token, m.next))

\* A struct, unless one of its members has no type.
Aggregate(members) == IF Null \in Range(members) THEN Null ELSE Struct(members)

\* Its members stand behind the "=", if it has one.
AggregateFFIType(token) ==
  LET start == Min({j \in 2..Len(token) : token[j] \in {"=", "}"}} \cup {Len(token) + 1})
  IN Aggregate(Members(token, IF start <= Len(token) /\ token[start] = "=" THEN start + 1 ELSE start))

Parsed(type, next) == [type |-> type, next |-> next]

StructAt(s, i, end) == Parsed(AggregateFFIType(SubSeq(s, i, end)), end + 1)

\* An array is a struct of equal members; a count has one digit.
ArrayOf(s, count, element) ==
  Parsed(Aggregate([k \in 1..count |-> element.type]),
         IF element.next <= Len(s) /\ s[element.next] = "]" THEN element.next + 1 ELSE element.next)

ScalarAt(type, i) == Parsed(type, IF type = Null THEN i ELSE i + 1)

\* The type that begins with the character at a position.
FFITypeAt(s, i) ==
  CASE i > Len(s) -> Parsed(Null, i)
    [] i <= Len(s) /\ s[i] = "{" -> StructAt(s, i, BalancedEnd(s, i))
    [] i <= Len(s) /\ s[i] = "[" ->
         ArrayOf(s, CHOOSE n \in DOMAIN Digits : Digits[n] = s[i + 1], FFITypeForEncoding(s, i + 2))
    [] i <= Len(s) /\ s[i] = "^" -> Parsed(Integer(8), FFITypeForEncoding(s, i + 1).next)
    [] i < Len(s) /\ s[i] = "@" -> Parsed(Integer(8), IF s[i + 1] = "\"" THEN After(s, i + 2, "\"") ELSE i + 1)
    [] OTHER -> ScalarAt(ScalarFFIType(s[i]), i)

\* Qualifiers are passed over.
FFITypeForEncoding(s, from) ==
  FFITypeAt(s, Min({j \in from..Len(s) : s[j] \notin {"r", "n", "N", "o", "O", "R", "V"}} \cup {Len(s) + 1}))

OrElse(type, other) == IF type = Null THEN other ELSE type

TypeOf(c) ==
  CASE c[1] = "v" -> Void
    [] c[1] = "F" -> Double
    [] c[1] = "{" -> OrElse(KnownStruct(c[2]), OrElse(AggregateFFIType(c), Integer(8)))
    [] OTHER -> ScalarFFIType(c[1])

\* The type of an argument or a result, by the first character that is not const.
FFITypeFromTypeEncoding(arg) == TypeOf(IF arg[1] = "r" /\ Len(arg) > 1 THEN Tail(arg) ELSE arg)

\* What parse and mallocFFIArgumentTypes make of a part of a signature.
FFIArgumentTypes(encoding) ==
  LET args == ArgumentTypes(encoding) IN [i \in DOMAIN args |-> FFITypeFromTypeEncoding(args[i])]
===============================================================================
