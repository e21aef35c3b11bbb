----------------------------- MODULE MCWasmModule ------------------------------
(* Small instance of WasmModule. *)
EXTENDS WasmModule

(* LEB128 as tools write it: as short as it can be, or, where a linker has filled it in, *)
(* in five bytes.  Bound: numbers of at most 21 bits.                                    *)
Digit(n, i) == (n \div 128 ^ i) % 128
Bits(d) == {b \in 0 .. 6 : (d \div 2 ^ b) % 2 = 1}
Bytes(n, size) ==
  [i \in 1 .. size |-> Bits(Digit(n, Min({i - 1, 3}))) \cup (IF i < size THEN {Follows} ELSE {})]
Short(n) == Bytes(n, Min({i \in 1 .. 3 : n >= -(2 ^ (7 * i - 1)) /\ n < 2 ^ (7 * i - 1)}))
Long(n) == Bytes(n, 5)

Const(n) == [op |-> "const", bytes |-> Short(n), value |-> n]
Filled(n) == [op |-> "const", bytes |-> Long(n), value |-> n]
Global(i) == [op |-> "global", index |-> i]

I32 == <<{0, 1, 2, 3, 4, 5, 6}>>
I64 == <<{1, 2, 3, 4, 5, 6}>>
F64 == <<{2, 3, 4, 5, 6}>>
NotAType == <<{0, 1}>>

(* 0 is the type of entry, 1 that of print_object, 2 that of alloc_double. *)
Types == << [args |-> <<>>, ret |-> I32], [args |-> <<I64>>, ret |-> I32],
            [args |-> <<F64>>, ret |-> I64] >>
OddType == <<[args |-> <<I32, NotAType>>, ret |-> <<>>]>>

Function(field, type) == [kind |-> "function", field |-> field, type |-> type]
Memory(n, max) == [kind |-> "memory", pages |-> n, max |-> max]
GlobalOf(type) == [kind |-> "global", type |-> type]
PrintObject == Function("print_object", 1)

Export(name, index) == [name |-> name, index |-> index]
Body(id, calls) == [id |-> id, calls |-> calls]
Element(offset, funcs) == [offset |-> offset, funcs |-> [k \in DOMAIN funcs |-> Short(funcs[k])],
                           meant |-> funcs]
Segment(offset, bytes) == [offset |-> offset, bytes |-> bytes]
Initial(type, init) == [type |-> type, init |-> init]

(* Custom, Type, Import, Function, Table, Memory, Global, Export, Start, Element, Code,   *)
(* Data, DataCount.                                                                       *)
ByNumber ==
  << {Types, OddType},
     {<<PrintObject>>, <<Memory(1, 2), PrintObject, GlobalOf(I32)>>, <<PrintObject, Function("alloc_double", 1)>>},
     {<<0>>, <<0, 1>>, <<5>>},
     {<<>>},
     {<<Memory(1, 0)>>, <<Memory(2, 1)>>, <<Memory(1, 1), Memory(1, 1)>>},
     {<<Initial(I32, Filled(3)), Initial(I32, Global(0))>>, <<Initial(I32, Const(-1))>>},
     {<<Export("entry", 1)>>, <<Export("entry", 0), Export("step", 1)>>,
      <<Export("entry", 1), Export("main", 1)>>, <<Export("print_object", 1)>>},
     {<<1>>},
     {<<Element(Const(1), <<1, 0>>), Element(Const(2), <<1>>)>>,
      <<Element(Const(1), <<1, 0>>), Element(Const(0), <<0>>)>>, <<Element(Const(1), <<>>)>>},
     {<<Body(1, {})>>, <<Body(1, {0})>>, <<Body(1, {}), Body(2, {0, 1})>>},
     {<<Segment(Const(64), <<"a", "b">>), Segment(Filled(65), <<"c">>)>>,
      <<Segment(Global(0), <<"a">>)>>, <<Segment(Const(-2), <<"a">>)>>},
     {<<>>} >>
Names == {<<[index |-> 1, name |-> "helper"], [index |-> 0, name |-> "entry"]>>}
Sections == [id \in 0 .. 12 |-> IF id = 0 THEN Names ELSE ByNumber[id]]

Host(name, ret, args, type) == [name |-> name, ret |-> ret, args |-> args, type |-> type]
Linked == << Host("alloc_double", "u64", <<"f64">>, [args |-> <<4>>, ret |-> 2]),
             Host("print_object", "u32", <<"u64">>, [args |-> <<2>>, ret |-> 1]) >>
===============================================================================
