--------------------------- MODULE MCArgumentPassing ---------------------------
(* Scalars, every struct of one or two of them, longer ones, nested ones and   *)
(* pointers of all kinds, each with the encoding the compiler gives it.        *)
EXTENDS ArgumentPassing

Scalars == {Integer(1), Integer(4), Integer(8), Float, Double}

Pairs == {Struct(<<a, b>>) : a, b \in Scalars}

Structs ==
  {Struct(<<s>>) : s \in Scalars} \cup Pairs
  \cup {Struct(<<s, s, s>>) : s \in Scalars \ {Integer(8)}}
  \cup {Struct(<<a, p>>) : a \in {Integer(4), Double}, p \in {Struct(<<s, s>>) : s \in {Integer(1), Float, Double}}}
  \cup {Struct(<<Float, Struct(<<s, s>>)>>) : s \in {Integer(4), Float}}
  \cup {Struct(<<s, s, s, s, s>>) : s \in {Integer(4), Float}}

RECURSIVE Encode(_)
Encode(ty) ==
  CASE ty.type = "float" -> <<"f">>
    [] ty.type = "double" -> <<"d">>
    [] ty.type = "int" -> <<CASE ty.size = 1 -> "c" [] ty.size = 4 -> "i" [] OTHER -> "q">>
    [] OTHER -> <<"{", "Foo", "=">> \o FlattenSeq([i \in DOMAIN ty.elements |-> Encode(ty.elements[i])]) \o <<"}">>

\* In a method's encoding an offset follows.
Param(ty) == [encoding |-> Append(Encode(ty), "8"), type |-> ty]

Pointers == {[encoding |-> e, type |-> Integer(8)] : e \in {
  <<"@", "0">>, <<"@", "\"", "Foo", "\"">>, <<"@", "?", "0">>, <<"@", "?", "<", "v", "@", "?", "@", ">">>,
  <<":", "8">>, <<"#">>, <<"*">>, <<"r", "*">>, <<"^", "v">>, <<"^", "@">>, <<"^", "?">>}}

Split == {[encoding |-> e, type |-> Integer(8)] : e \in {
  <<"r", "^", "v">>, <<"^", "^", "v">>, <<"^", "{", "Foo", "=", "i", "}">>, <<"N", "^", "@">>}}

\* Structs that hold pointers and arrays, that have named fields, and that are known.
Fields ==
  {[encoding |-> <<"{", "Foo", "=", "[", "3", "f", "]", "}">>, type |-> Struct(<<Struct(<<Float, Float, Float>>)>>)],
   [encoding |-> <<"{", "Foo", "=", "^", "{", "Bar", "=", "i", "}", "d", "}">>, type |-> Struct(<<Integer(8), Double>>)],
   [encoding |-> <<"{", "Foo", "=", "\"", "bar", "\"", "@", "\"", "Bar", "\"", "\"", "n", "\"", "i", "}">>,
    type |-> Struct(<<Integer(8), Integer(4)>>)],
   [encoding |-> <<"{", "CGRect", "=", "{", "CGPoint", "=", "d", "d", "}", "{", "CGSize", "=", "d", "d", "}", "}">>,
    type |-> Struct(<<Struct(<<Double, Double>>), Struct(<<Double, Double>>)>>)],
   [encoding |-> <<"{", "_NSRange", "=", "Q", "Q", "}">>, type |-> Struct(<<Integer(8), Integer(8)>>)]}

MCArguments == {Param(ty) : ty \in Scalars \cup Structs} \cup Pointers \cup Split \cup Fields

MCResults == MCArguments \cup {[encoding |-> <<"v">>, type |-> Void]}
===============================================================================
