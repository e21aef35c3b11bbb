------------------------------ MODULE WasmModule -------------------------------
(***************************************************************************)
(* How a patch becomes a module of the interpreter: its sections are read  *)
(* one after the other (m3_parse.c, m3_module.c), the module is given its  *)
(* memory, globals, data, table and start function (m3_env.c), and the     *)
(* bridge's functions are linked to its imports (m3_bind.c, wap_wasm.hpp,  *)
(* initRuntime of wap_objc_runtime.mm).                                    *)
(*                                                                         *)
(* A section is its number, its items, and whether it is cut off.          *)
(* `binary` remembers what has been read, for the properties: they compare *)
(* the module with what the sections say, in whatever order and encoding.  *)
(* Indices count from 0 in a patch and from 1 in the sequences here.       *)
(***************************************************************************)
EXTENDS WasmBytes, SequencesExt

CONSTANTS
  Contents,   \* what a section may hold: a set of sequences of items for every number
  Bridge,     \* the functions that the bridge links, in order, with their C types
  PageBytes,  \* 65536 in the code
  Avoid       \* what patches are known not to contain; see Admitted

VARIABLES
  binary,       \* the sections read
  module,       \* M3Module
  previous,     \* the number of the last section that is not a custom one
  memory,       \* M3Memory: its size, and the bytes that were written
  phase,        \* what is to be done next
  linked        \* how many functions of the bridge were linked

vars == <<binary, module, previous, memory, phase, linked>>

NoName == ""
NoBody == [id |-> 0, calls |-> {}]
NoMemory == [there |-> FALSE, length |-> 0, bytes |-> <<>>, fails |-> FALSE]

Empty == [types |-> <<>>, functions |-> <<>>, numImports |-> 0, globals |-> <<>>,
          initPages |-> 0, maxPages |-> 0, memoryImported |-> FALSE, startFunction |-> -1,
          elements |-> <<>>, data |-> <<>>, table |-> <<>>, failed |-> FALSE]

Failed(m) == [m EXCEPT !.failed = TRUE]
Each(f(_, _), m, items) ==
  FoldLeft(LAMBDA n, item : IF n.failed THEN n ELSE f(n, item), m, items)

-------------------------------------------------------------------------------
(* The sections                                                              *)

FuncType(item) ==
  [args |-> [a \in DOMAIN item.args |-> ReadType(item.args[a])],
   ret |-> IF item.ret = <<>> THEN None ELSE ReadType(item.ret)]

WrongType(type) == type.ret = InvalidType \/ InvalidType \in {type.args[a] : a \in DOMAIN type.args}

(* Types are equal or not; that the environment keeps one of equal ones is left out. *)
ParseSection_Type(m, s) ==
  LET types == [k \in DOMAIN s.items |-> FuncType(s.items[k])]
  IN IF s.cut \/ \E k \in DOMAIN types : WrongType(types[k]) THEN Failed(m)
     ELSE [m EXCEPT !.types = types]

Module_AddFunction(m, typeIndex, field) ==
  IF typeIndex >= Len(m.types) THEN Failed(m)
  ELSE [m EXCEPT !.functions =
          Append(@, [type |-> m.types[typeIndex + 1], field |-> field, name |-> field,
                     body |-> NoBody, module |-> FALSE, compiled |-> NoName])]

Module_AddGlobal(m, type, init) ==
  IF ReadType(type) = InvalidType THEN Failed(m)
  ELSE [m EXCEPT !.globals = Append(@, [type |-> ReadType(type), init |-> init, value |-> 0])]

ParseType_Memory(m, type) == [m EXCEPT !.initPages = type.pages, !.maxPages = type.max]

NoInit == [op |-> "none"]

Import(m, i) ==
  CASE i.kind = "function" ->
         [Module_AddFunction(m, i.type, i.field) EXCEPT !.numImports = @ + 1]
    [] i.kind = "memory" -> [ParseType_Memory(m, i) EXCEPT !.memoryImported = TRUE]
    [] i.kind = "global" -> Module_AddGlobal(m, i.type, NoInit)

ParseSection_Import(m, s) == Each(Import, m, s.items)

ParseSection_Function(m, s) ==
  Each(LAMBDA n, typeIndex : Module_AddFunction(n, typeIndex, NoName), m, s.items)

ParseSection_Memory(m, s) ==
  IF Len(s.items) # 1 THEN Failed(m) ELSE ParseType_Memory(m, s.items[1])

(* Compiling an initialiser, to find its end, fails when it reads no global. *)
Parse_InitExpr(m, e) == IF e.op = "global" /\ e.index >= Len(m.globals) THEN Failed(m) ELSE m

ParseSection_Global(m, s) ==
  Each(LAMBDA n, g : Parse_InitExpr(Module_AddGlobal(n, g.type, g.init), g.init), m, s.items)

(* A function has the first name that it is given. *)
Named(m, index, name) ==
  IF m.functions[index + 1].name # NoName THEN m
  ELSE [m EXCEPT !.functions[index + 1].name = name]

ParseSection_Export(m, s) == Each(LAMBDA n, e : Named(n, e.index, e.name), m, s.items)

ParseSection_Start(m, s) ==
  IF s.items[1] >= Len(m.functions) THEN Failed(m) ELSE [m EXCEPT !.startFunction = s.items[1]]

(* Read when the module is loaded. *)
ParseSection_Element(m, s) == [m EXCEPT !.elements = s.items]

(* Bodies are those of the functions behind the imports. *)
ParseSection_Code(m, s) ==
  IF Len(s.items) # Len(m.functions) - m.numImports THEN Failed(m)
  ELSE [m EXCEPT !.functions =
          [f \in DOMAIN @ |-> IF f <= m.numImports THEN @[f]
                              ELSE [@[f] EXCEPT !.body = s.items[f - m.numImports],
                                                !.module = TRUE]]]

ParseSection_Data(m, s) ==
  Each(LAMBDA n, d : Parse_InitExpr(n, d.offset), [m EXCEPT !.data = s.items], s.items)

\* Bug: the name section renames exports.
RenamesAll(m, s) ==
  Each(LAMBDA n, e : IF e.index < Len(n.functions)
                     THEN [n EXCEPT !.functions[e.index + 1].name = e.name] ELSE n, m, s.items)

ParseSection_Custom(m, s) ==
  Each(LAMBDA n, e : IF e.index < Len(n.functions) THEN Named(n, e.index, e.name) ELSE n,
       m, s.items)

ParseModuleSection(m, s) ==
  CASE s.id = 0 -> ParseSection_Custom(m, s)
    [] s.id = 1 -> ParseSection_Type(m, s)
    [] s.id = 2 -> ParseSection_Import(m, s)
    [] s.id = 3 -> ParseSection_Function(m, s)
    [] s.id = 5 -> ParseSection_Memory(m, s)
    [] s.id = 6 -> ParseSection_Global(m, s)
    [] s.id = 7 -> ParseSection_Export(m, s)
    [] s.id = 8 -> ParseSection_Start(m, s)
    [] s.id = 9 -> ParseSection_Element(m, s)
    [] s.id = 10 -> ParseSection_Code(m, s)
    [] s.id = 11 -> ParseSection_Data(m, s)
    [] OTHER -> m   \* tables and data counts are skipped

\* Bug: custom sections have their place, too.
OrderStrict(id) == id > previous

(* A data count, of number 12, has its place before the code, of number 10; the        *)
(* conditions that are to allow for it are `section == 12 and section == 9` and         *)
(* `section == 10 and section == 12`.                                                   *)
Order(id) == id > previous \/ id = 0

-------------------------------------------------------------------------------
(* Instantiation                                                             *)

(* A constant, or a global that was initialised before; an imported one is 0. *)
EvaluateExpression(m, e) ==
  IF e.op = "const" THEN ReadLEB_i32(e.bytes) ELSE m.globals[e.index + 1].value

ResizeMemory(mem, pages, max) ==
  IF pages > max THEN [mem EXCEPT !.fails = TRUE]
  ELSE [mem EXCEPT !.there = TRUE, !.length = pages * PageBytes]

InitialPages == IF module.maxPages = 0 THEN 65536 ELSE module.maxPages

InitGlobals(m) ==
  FoldLeft(LAMBDA n, g : IF n.globals[g].init.op = "none" THEN n
                         ELSE [n EXCEPT !.globals[g].value = EvaluateExpression(n, n.globals[g].init)],
           m, [g \in DOMAIN m.globals |-> g])

(* The end of the segment is computed in the width of an address: a negative one is a *)
(* very large one, but a negative offset alone is not noticed.                        *)
Overflows(mem, offset, segment) ==
  ~mem.there \/ offset + Len(segment.bytes) \notin 0 .. mem.length

\* Bug: a segment does not replace what is there.
CopyUnder(mem, m, segment) ==
  LET offset == EvaluateExpression(m, segment.offset)
  IN IF Overflows(mem, offset, segment) THEN [mem EXCEPT !.fails = TRUE]
     ELSE [mem EXCEPT !.bytes = @ @@ [a \in offset .. offset + Len(segment.bytes) - 1 |->
                                        segment.bytes[a - offset + 1]]]

CopySegment(mem, m, segment) ==
  LET offset == EvaluateExpression(m, segment.offset)
  IN IF Overflows(mem, offset, segment) THEN [mem EXCEPT !.fails = TRUE]
     ELSE [mem EXCEPT !.bytes = [a \in offset .. offset + Len(segment.bytes) - 1 |->
                                   segment.bytes[a - offset + 1]] @@ @]

InitDataSegments(mem, m) ==
  FoldLeft(LAMBDA n, segment : IF n.fails THEN n ELSE CopySegment(n, m, segment), mem, m.data)

NoElement == -1
At(table, i) == IF i \in DOMAIN table THEN table[i] ELSE NoElement

(* The table ends where the segment ends, even if it was longer.  Its entries are     *)
(* the indices of functions.  For a negative offset there is no memory: the table has *)
(* more than two thousand million entries.                                            *)
InitElement(m, segment) ==
  LET offset == EvaluateExpression(m, segment.offset)
      funcs == [k \in DOMAIN segment.funcs |-> ReadLEB_u32(segment.funcs[k])]
      end == offset + Len(funcs)
  IN IF funcs = <<>> \/ offset < 0 \/ \E k \in DOMAIN funcs : funcs[k] >= Len(m.functions)
     THEN Failed(m)
     ELSE [m EXCEPT !.table = [i \in 1 .. end |-> IF i > offset THEN funcs[i - offset]
                                                  ELSE At(@, i)]]

InitElements(m) == Each(InitElement, m, m.elements)

(* A call of a function fails when one that it calls, or that these call, is neither   *)
(* of the patch nor linked: compiling its caller fails.                                *)
Runs(m, f) ==
  LET F == DOMAIN m.functions
      Closed(S) == \A g \in S : \A c \in m.functions[g].body.calls : c + 1 \in S
  IN \E S \in SUBSET F : f + 1 \in S /\ Closed(S) /\ \A g \in S : m.functions[g].module

-------------------------------------------------------------------------------
(* Linking                                                                   *)

(* The characters of a signature, and the types that they stand for. *)
TypeChar == [i32 |-> "i", u32 |-> "i", int |-> "i", chars |-> "i", pointer |-> "*",
             i64 |-> "I", u64 |-> "I", f32 |-> "f", f64 |-> "F", void |-> "v"]

GetTypeSignature(f) ==
  <<TypeChar[f.ret], "(">> \o [a \in DOMAIN f.args |-> TypeChar[f.args[a]]] \o <<")">>

ConvertTypeCharToTypeId == [v |-> None, i |-> 1, I |-> 2, f |-> 3, F |-> 4, p |-> 1]
TypeOfChar(c) == IF c = "*" THEN ConvertTypeCharToTypeId["p"] ELSE ConvertTypeCharToTypeId[c]

(* The result, and the arguments from the bracket on. *)
SignatureToFuncType(signature) ==
  LET open == SelectInSeq(signature, LAMBDA c : c = "(")
      close == SelectInSeq(signature, LAMBDA c : c = ")")
  IN [ret |-> TypeOfChar(signature[1]),
      args |-> [a \in 1 .. close - open - 1 |-> TypeOfChar(signature[open + a])]]

AreFuncTypesEqual(a, b) == a.ret = b.ret /\ a.args = b.args

\* Bug: linked by name alone.
LinkByName(m, f) ==
  [m EXCEPT !.functions =
     [g \in DOMAIN @ |-> IF @[g].field = f.name
                         THEN [@[g] EXCEPT !.compiled = f.name, !.module = TRUE] ELSE @[g]]]

(* The imports of that name are linked, in order, up to one of another type. *)
FindAndLinkFunction(m, f) ==
  LET type == SignatureToFuncType(GetTypeSignature(f))
      Wrong(g) == m.functions[g].field = f.name /\ ~AreFuncTypesEqual(m.functions[g].type, type)
  IN [m EXCEPT !.functions =
        [g \in DOMAIN @ |->
           IF @[g].field = f.name /\ \A h \in 1 .. g : ~Wrong(h)
           THEN [@[g] EXCEPT !.compiled = f.name, !.module = TRUE] ELSE @[g]]]

(* Names are looked up in the order of the functions, imports among them. *)
FindFunction(m, name) == SelectInSeq(m.functions, LAMBDA f : f.name = name)

-------------------------------------------------------------------------------
(* What the sections say, to the tools that wrote them                       *)

Has(b, id) == \E k \in DOMAIN b : b[k].id = id
Items(b, id) == LET k == SelectInSeq(b, LAMBDA s : s.id = id)
                IN IF k = 0 THEN <<>> ELSE b[k].items

OfKind(b, kind) == SelectSeq(Items(b, 2), LAMBDA i : i.kind = kind)
Imports(b) == OfKind(b, "function")

(* Functions: the imported ones and then the defined ones, of type `type`. *)
Functions(b) ==
  [k \in 1 .. Len(Imports(b)) |-> Imports(b)[k].type] \o Items(b, 3)

Place(id) == IF id = 12 THEN 19 ELSE 2 * id   \* between 9 and 10
InOrder(b) ==
  LET known == SelectSeq(b, LAMBDA s : s.id # 0)
  IN \A j, k \in DOMAIN known : j < k => Place(known[j].id) < Place(known[k].id)

(* The type section writes i32, i64, f32 and f64 as 0x7f, 0x7e, 0x7d and 0x7c. *)
TypeByte == << {0, 1, 2, 3, 4, 5, 6}, {1, 2, 3, 4, 5, 6}, {0, 2, 3, 4, 5, 6}, {2, 3, 4, 5, 6} >>
IsType(bytes) == Len(bytes) = 1 /\ bytes[1] \in Range(TypeByte)
TypeOf(bytes) == CHOOSE t \in 1 .. 4 : TypeByte[t] = bytes[1]
Declared(item) == [args |-> [a \in DOMAIN item.args |-> TypeOf(item.args[a])],
                   ret |-> IF item.ret = <<>> THEN None ELSE TypeOf(item.ret)]

GlobalInits(b) ==
  [k \in 1 .. Len(OfKind(b, "global")) |-> NoInit]
    \o [k \in DOMAIN Items(b, 6) |-> Items(b, 6)[k].init]

(* The number that an encoding was written for; a global that is read here is       *)
(* imported, and 0, or has a constant.                                              *)
Meant(b, e) ==
  CASE e.op = "const" -> e.value
    [] e.op = "none" -> 0
    [] OTHER -> LET g == GlobalInits(b)[e.index + 1] IN IF g.op = "const" THEN g.value ELSE 0

(* A number for whose encoding the globals that it reads are there. *)
Readable(b, e) == e.op = "global" => e.index < Len(GlobalInits(b))

Inits(b) == Range(GlobalInits(b)) \cup {s.offset : s \in Range(Items(b, 9) \o Items(b, 11))}

Covers(b, segment, size, a) ==
  a \in Meant(b, segment.offset) .. Meant(b, segment.offset) + size - 1

(* The position in its section of the last segment that covers an address, or 0. *)
LastCover(b, segments, Size(_), a) ==
  SelectLastInSeq(segments, LAMBDA s : Covers(b, s, Size(s), a))

Size(segment) == Len(segment.bytes)
Width(segment) == Len(segment.funcs)

TableEnd(b) == Max({0} \cup {Meant(b, s.offset) + Width(s) : s \in Range(Items(b, 9))})

Exports(b) == Range(Items(b, 7))
Pages(b) == IF Has(b, 5) /\ Items(b, 5) # <<>> THEN Items(b, 5)[1].pages ELSE 0

(* The patch is one that a tool writes, for this host: data is for its own memory,   *)
(* and what a start function needs is its own or the bridge's.                       *)
IsPatch(b) ==
  LET own == Len(Imports(b)) .. Len(Functions(b)) - 1
      linkable == {k \in 1 .. Len(Imports(b)) :
                     \E f \in Range(Bridge) : Imports(b)[k].field = f.name}
  IN /\ InOrder(b)
     /\ \A k \in DOMAIN b : ~b[k].cut
     /\ \A t \in Range(Items(b, 1)) : \A a \in Range(t.args) \cup ({t.ret} \ {<<>>}) : IsType(a)
     /\ \A f \in Range(Functions(b)) : f < Len(Items(b, 1))
     /\ OfKind(b, "memory") # <<>> => ~Has(b, 5)
     /\ Has(b, 5) => /\ Len(Items(b, 5)) = 1
                     /\ Items(b, 5)[1].max = 0 \/ Pages(b) <= Items(b, 5)[1].max
     /\ \A g \in Range(Items(b, 6)) : IsType(g.type)
     /\ \A e \in Exports(b) : e.index < Len(Functions(b))
     /\ Len(Items(b, 10)) = Len(Items(b, 3))
     /\ \A s \in Range(Items(b, 9)) : \A f \in Range(s.meant) : f < Len(Functions(b))
     /\ \A i \in Inits(b) : Readable(b, i)
     /\ \A s \in Range(Items(b, 11)) :
          Meant(b, s.offset) \in 0 .. Pages(b) * PageBytes - Size(s)
     /\ Has(b, 8) => Items(b, 8)[1] < Len(Functions(b))
     /\ Has(b, 8) => \A c \in {Items(b, 8)[1]} \cup UNION {f.calls : f \in Range(Items(b, 10))} :
                       c \in own \/ c + 1 \in linkable

(* What patches are known not to contain. *)
Admitted(b) ==
  /\ "dataCount" \in Avoid => ~Has(b, 12)
  /\ "start" \in Avoid /\ Has(b, 8) =>
       \A c \in {Items(b, 8)[1]} \cup UNION {f.calls : f \in Range(Items(b, 10))} :
         c >= Len(Imports(b))
  /\ "empty" \in Avoid => \A s \in Range(Items(b, 9)) : s.funcs # <<>>
  /\ "descending" \in Avoid =>
       \A j, k \in DOMAIN Items(b, 9) : j < k =>
         Meant(b, Items(b, 9)[j].offset) + Width(Items(b, 9)[j])
           <= Meant(b, Items(b, 9)[k].offset) + Width(Items(b, 9)[k])
  /\ "alias" \in Avoid =>
       \A e \in Exports(b) : /\ e.index >= Len(Imports(b))
                             /\ \A f \in Exports(b) : f.index = e.index => f = e
  /\ "shadow" \in Avoid =>
       \A e \in Exports(b) :
         /\ \A i \in Range(Imports(b)) : i.field # e.name
         /\ \A n \in Range(Items(b, 0)) : n.name = e.name => n.index = e.index
  /\ "early" \in Avoid /\ Has(b, 0) =>
       \A n \in Range(Items(b, 0)) : \A e \in Exports(b) : n.index = e.index =>
         SelectInSeq(b, LAMBDA s : s.id = 7) < SelectInSeq(b, LAMBDA s : s.id = 0)
  /\ "before" \in Avoid =>
       \A s \in Range(Items(b, 11)) : Readable(b, s.offset) =>
         Meant(b, s.offset) >= 0 \/ Meant(b, s.offset) + Size(s) < 0

-------------------------------------------------------------------------------
(* m3_ParseModule, m3_LoadModule and initRuntime                             *)

Init ==
  /\ binary = <<>>
  /\ module = Empty
  /\ previous = 0
  /\ memory = NoMemory
  /\ phase = "sections"
  /\ linked = 0

Refuse ==
  /\ phase' = "refused"
  /\ UNCHANGED <<memory, linked>>

(* A section, of any kind, in its place or not.  A module that fails is freed. *)
ReadSection(id, items, cut) ==
  LET s == [id |-> id, items |-> items, cut |-> cut]
      m == ParseModuleSection(module, s)
      b == Append(binary, s)
  IN /\ phase = "sections"
     /\ s.id = 0 => ~Has(binary, 0)   \* bound: one section of names
     /\ s.id = 7 => \A e \in Range(s.items) : e.index < Len(module.functions)   \* not checked
     /\ Admitted(b)
     /\ binary' = b
     /\ previous' = IF s.id = 0 THEN previous ELSE s.id
     /\ \/ /\ Order(s.id) /\ ~m.failed
           /\ module' = m
           /\ UNCHANGED <<memory, phase, linked>>
        \/ /\ ~Order(s.id) \/ m.failed
           /\ module' = Empty
           /\ Refuse

EndOfPatch ==
  /\ phase = "sections"
  /\ phase' = "memory"
  /\ UNCHANGED <<binary, module, previous, memory, linked>>

(* A step of m3_LoadModule gives a module and a memory; the module stays as it is   *)
(* when the step fails, for the interpreter keeps it.                               *)
Step(from, to, m, mem) ==
  /\ phase = from
  /\ UNCHANGED <<binary, previous, linked>>
  /\ module' = m
  /\ memory' = mem
  /\ phase' = IF m.failed \/ mem.fails THEN "refused" ELSE to

InitMemory ==
  Step("memory", "globals", module,
       IF module.memoryImported THEN memory
       ELSE ResizeMemory(memory, module.initPages, InitialPages))

Globals == Step("globals", "data", InitGlobals(module), memory)
Data == Step("data", "elements", module, InitDataSegments(memory, module))
Elements == Step("elements", "start", InitElements(module), memory)

InitStartFunc ==
  Step("start", "link",
       IF module.startFunction < 0 \/ Runs(module, module.startFunction) THEN module
       ELSE Failed(module), memory)

(* RT_LINK, once for every function of the bridge, whatever comes of it. *)
Link ==
  /\ phase = "link" /\ linked < Len(Bridge)
  /\ linked' = linked + 1
  /\ module' = FindAndLinkFunction(module, Bridge[linked + 1])
  /\ phase' = IF linked' = Len(Bridge) THEN "ready" ELSE "link"
  /\ UNCHANGED <<binary, previous, memory>>

(* Only type sections are cut off. *)
Cuts(id) == IF id = 1 THEN BOOLEAN ELSE {FALSE}

Next ==
  \/ \E id \in DOMAIN Contents : \E items \in Contents[id], cut \in Cuts(id) :
       ReadSection(id, items, cut)
  \/ EndOfPatch \/ InitMemory \/ Globals \/ Data \/ Elements \/ InitStartFunc \/ Link

Spec == Init /\ [][Next]_vars

-------------------------------------------------------------------------------
(* Properties                                                                *)

(* A patch as the tools write it is not refused, wherever its custom sections are   *)
(* (the order of sections, the counts and the bounds that m3_parse.c and m3_env.c   *)
(* check are those of WebAssembly).                                                 *)
NoPatchRefused == phase = "refused" => ~IsPatch(binary)

(* A function that the patch exports is the one that is found under that name       *)
(* (names of imports, exports and the name section share M3Function.name).          *)
ExportsAreFound ==
  phase = "ready" /\ IsPatch(binary) =>
    \A e \in Exports(binary) : FindFunction(module, e.name) = e.index + 1

(* Every function, imported or defined, has the type and the body that the patch    *)
(* gives it, and an import has the bridge's function of its name if and only if it  *)
(* has its type (numImports, the offset of bodies, FindAndLinkFunction).            *)
FunctionsMatch ==
  phase = "ready" /\ IsPatch(binary) =>
    LET n == Len(Imports(binary))
    IN /\ Len(module.functions) = Len(Functions(binary))
       /\ \A f \in DOMAIN module.functions :
            /\ module.functions[f].type = Declared(Items(binary, 1)[Functions(binary)[f] + 1])
            /\ f > n => module.functions[f].body = Items(binary, 10)[f - n]
            /\ f <= n => (module.functions[f].compiled # NoName <=>
                 \E h \in Range(Bridge) : /\ h.name = Imports(binary)[f].field
                                          /\ h.type = module.functions[f].type)

(* Globals, memory and table are what the patch's initialisers say, segment after   *)
(* segment, however their numbers are encoded, and no segment is written outside of  *)
(* memory (InitGlobals, InitDataSegments, InitElements, ReadLebSigned).             *)
InstanceMatches ==
  phase = "ready" =>
    /\ \A g \in DOMAIN module.globals :
         module.globals[g].value = Meant(binary, GlobalInits(binary)[g])
    /\ \A a \in 0 .. memory.length - 1 :
         LET k == LastCover(binary, Items(binary, 11), Size, a)
             s == Items(binary, 11)[k]
         IN IF k = 0 THEN a \notin DOMAIN memory.bytes
            ELSE memory.bytes[a] = s.bytes[a - Meant(binary, s.offset) + 1]
    /\ DOMAIN memory.bytes \subseteq 0 .. memory.length - 1
    /\ Len(module.table) = TableEnd(binary)
    /\ \A i \in DOMAIN module.table :
         LET k == LastCover(binary, Items(binary, 9), Width, i - 1)
             s == Items(binary, 9)[k]
         IN IF k = 0 THEN module.table[i] = NoElement
            ELSE module.table[i] = s.meant[i - Meant(binary, s.offset)]
===============================================================================
