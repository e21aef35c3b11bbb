----------------------------- MODULE WasmRuntime ------------------------------
(***************************************************************************)
(* The interpreter under the bridge: patches are loaded into it            *)
(* (wap_wasm.hpp, m3_env.c, m3_bind.c), functions are compiled when they   *)
(* are first called into pages of code that are filled, bridged and        *)
(* listed (m3_code.c, m3_emit.c, m3_env.c, m3_compile.c), and the code is  *)
(* run from page to page, operation by operation (m3_exec.c, m3_exec.h).   *)
(* It implements WasmMachine.                                              *)
(*                                                                         *)
(* A word of code is an operation or an operand.  An operation also says,  *)
(* for the refinement alone, which instruction of which function it is of. *)
(* Which slots the operands name is the subject of WasmCompile.            *)
(***************************************************************************)
EXTENDS Integers, Sequences, SequencesExt, FiniteSets, TLC

CONSTANTS Payload, Exports, MaxModules, MaxFrames, MaxCalls,   \* see WasmMachine
  Lines,     \* lines of a page of code; 4096 bytes in the code (m3_config.h:16)
  MaxPages,  \* bound: the bridge calls nothing when there are more; every compilation that
             \* fails uses up some lines, and the code sets no limit
  Avoid      \* what the bridge is known not to do; see the guards

VARIABLES
  code,     \* the pages, their lists (M3Runtime, M3Environment), and the compilation in them
  modules,  \* the patches, oldest first, with the address of each compiled function
  buffer,   \* m_buffer: which module's bytes are in it, or 0
  frames    \* the functions being run: program counter, loops they are in, whether the
            \* bridge called them, and whether memory moved since they looked

vars == <<code, modules, buffer, frames>>

Threshold == 6   \* d_m3CodePageFreeLinesThreshold
NotCompiled == <<>>

Map(f, g(_)) == [k \in DOMAIN f |-> g(f[k])]

IsList(s) == Len(s) \in Nat /\ DOMAIN s = 1 .. Len(s)

(* An operation has at most four operands (m3_core.h:165).  The arms of an if end where *)
(* it does, and an if inside an arm ends before that.                                   *)
IsInstruction(p, body, i) ==
  /\ body[i].op \in {"op", "grow", "trap", "call", "callIndirect", "loop", "block", "branchIf",
                     "if", "continueIf", "table", "else", "end"}
  /\ body[i].op = "op" => body[i].words \in 0 .. 4
  /\ body[i].op = "call" => body[i].func \in DOMAIN p.code \cup p.imports
  /\ body[i].op = "table" => IsList(body[i].to)
  /\ body[i].op = "else" =>
       /\ body[i].to \in i + 1 .. Len(body) /\ body[body[i].to].op = "end"
       /\ \A j \in i + 1 .. body[i].to : body[j].op = "else" => body[j].to < body[i].to

IsPayload(p) ==
  /\ p.table \subseteq DOMAIN p.code /\ DOMAIN p.code \cap p.imports = {}
  /\ \A f \in DOMAIN p.code :
       IsList(p.code[f]) /\ \A i \in DOMAIN p.code[f] : IsInstruction(p, p.code[f], i)

ASSUME PayloadAssumption == \A p \in Payload : IsPayload(p)
ASSUME ExportsAssumption == IsList(Exports)
ASSUME LinesAssumption == Lines \in Nat \ {0}

-------------------------------------------------------------------------------
(* Pages                                                                     *)

FreeLines(c, k) == c.pages[k].lines - Len(c.pages[k].words)

(* The address of the next word of the page that is being written. *)
PC(c) == <<c.page, Len(c.pages[c.page].words) + 1>>

FirstOfCapacity(c, list, n) == SelectInSeq(list, LAMBDA k : FreeLines(c, k) >= n)

NewPage(n) == [lines |-> Lines * ((n + Lines - 1) \div Lines), words |-> <<>>]

\* Bug: the page stays in the list it is taken from.
TakeShared(c, n, i, j) ==
  IF i > 0 THEN [c EXCEPT !.page = c.open[i]]
  ELSE IF j > 0 THEN [c EXCEPT !.page = c.released[j], !.count = @ + 1]
  ELSE [c EXCEPT !.page = Len(c.pages) + 1, !.count = @ + 1, !.pages = Append(@, NewPage(n))]

(* An open page of the runtime, the i-th, else one that the environment got back, the *)
(* j-th, else a new one.                                                              *)
TakePage(c, n, i, j) ==
  IF i > 0 THEN [c EXCEPT !.page = c.open[i], !.open = RemoveAt(@, i)]
  ELSE IF j > 0 THEN [c EXCEPT !.page = c.released[j], !.released = RemoveAt(@, j), !.count = @ + 1]
  ELSE [c EXCEPT !.page = Len(c.pages) + 1, !.count = @ + 1, !.pages = Append(@, NewPage(n))]

AcquireCodePage(c, n) ==
  TakePage([c EXCEPT !.active = @ + 1], n, FirstOfCapacity(c, c.open, n), FirstOfCapacity(c, c.released, n))

ReleaseCodePage(c, k) ==
  IF FreeLines(c, k) < Threshold THEN [c EXCEPT !.active = @ - 1, !.full = <<k>> \o @]
  ELSE [c EXCEPT !.active = @ - 1, !.open = <<k>> \o @]

-------------------------------------------------------------------------------
(* Emission                                                                  *)

Operand(a) == [to |-> a]
Operation(op, of, at, size) == [op |-> op, of |-> of, at |-> at, size |-> size]
Slots(n) == [k \in 1 .. n |-> Operand(<<0, 0>>)]   \* slots, offsets and constants

EmitWords(c, words) == [c EXCEPT !.pages[c.page].words = @ \o words]

(* The page k ends in a jump to the one that is written now. *)
EmitBridge(c, k) ==
  ReleaseCodePage([c EXCEPT !.pages[k].words = @ \o <<Operation("Branch", c.of, 0, 1), Operand(PC(c))>>], k)

(* A page without the room for n words, and for a jump behind them, is left. *)
EnsureCodePageNumLines(c, n) ==
  IF FreeLines(c, c.page) >= n + 2 THEN c ELSE EmitBridge(AcquireCodePage(c, n + 2), c.page)

EmitOp(c, at, op, operands) ==
  EmitWords(EnsureCodePageNumLines(c, Threshold),
            <<Operation(op, c.of, at, Len(operands))>> \o operands)

(* The last k-th word is to become the address behind instruction i. *)
Reserve(c, k, i) ==
  [c EXCEPT !.patches = @ \cup {<<c.page, Len(c.pages[c.page].words) + 1 - k, i>>}]

Patched(c, i, patches) ==
  LET word(k, l) == IF <<k, l, i>> \in patches THEN Operand(PC(c)) ELSE c.pages[k].words[l]
      page(k) == [lines |-> c.pages[k].lines, words |-> [l \in DOMAIN c.pages[k].words |-> word(k, l)]]
  IN [c EXCEPT !.patches = {p \in @ : p[3] # i}, !.pages = [k \in DOMAIN @ |-> page(k)]]

\* Bug: of the branches to a label, only those on the page that is being written.
PatchThisPage(c, i) == Patched(c, i, {p \in c.patches : p[1] = c.page})

PatchBranches(c, i) == Patched(c, i, c.patches)

(* The else arm is written on another page; the first arm goes on behind the if. *)
CompileElseBlock(c, i, body) ==
  LET first == PatchBranches(c, body[i].to)
      a == AcquireCodePage(first, Threshold)
  IN [PatchBranches(a, i) EXCEPT !.saved = Append(@, [page |-> c.page, end |-> body[i].to])]

(* An else arm returns to the page of the first one. *)
LeaveElse(c, i, back) ==
  LET e == EmitOp(c, i, "Branch", <<Operand(PC([c EXCEPT !.page = back]))>>)
  IN [ReleaseCodePage(e, e.page) EXCEPT !.page = back, !.saved = Front(@)]

(* The labels of what ends here are set. *)
BlockEnd(c, i) ==
  IF c.saved # <<>> /\ Last(c.saved).end = i
  THEN LeaveElse(PatchBranches(c, i), i, Last(c.saved).page)
  ELSE PatchBranches(c, i)

(* An entry of a table: a label, or an operation on another page that continues a loop. *)
TableEntry(c, at, to) ==
  IF to \notin DOMAIN c.heads THEN Reserve(EmitWords(c, Slots(1)), 1, to)
  ELSE LET a == AcquireCodePage(c, Threshold)
           w == EmitWords([a EXCEPT !.page = c.page], <<Operand(PC(a))>>)
           e == EmitOp([w EXCEPT !.page = a.page], at, "ContinueLoop", <<Operand(c.heads[to])>>)
       IN [ReleaseCodePage(e, e.page) EXCEPT !.page = c.page]

TableHead(c, i, n) ==
  EmitWords(EnsureCodePageNumLines(c, Threshold),
            <<Operation("BranchTable", c.of, i, n + 2)>> \o Slots(2))

\* Bug: room is made for the operation alone.
CompileBranchTableUnensured(c, i, to) ==
  FoldLeft(LAMBDA b, t : TableEntry(b, i, t), TableHead(c, i, Len(to)), to)

CompileBranchTable(c, i, to) ==
  LET e == EnsureCodePageNumLines(c, Len(to) + 3)
  IN FoldLeft(LAMBDA b, t : TableEntry(b, i, t), TableHead(e, i, Len(to)), to)

(* A function that is not compiled yet is when it is called; an import that the   *)
(* bridge did not link fails the compilation.  `of` is the function, its module's *)
(* functions are `compiled`.                                                      *)
CompileCall(c, i, g, compiled) ==
  IF g \in DOMAIN compiled /\ compiled[g] # NotCompiled
  THEN EmitOp(c, i, "Call", <<Operand(compiled[g]), Operand(<<0, 0>>)>>)
  ELSE IF g \in DOMAIN compiled /\ g \notin modules[c.of[1]].patch.imports
  THEN EmitOp(c, i, "Compile", <<[func |-> g], Operand(<<0, 0>>)>>)
  ELSE [c EXCEPT !.failed = TRUE]

(* A loop is continued behind its own operation. *)
Headed(c, i) == [c EXCEPT !.heads = @ @@ (i :> PC(c))]

CompileInstruction(c, i, body, compiled) ==
  LET ins == body[i]
  IN IF c.failed THEN c
     ELSE CASE ins.op = "op" -> EmitOp(c, i, "Op", Slots(ins.words))
            [] ins.op = "grow" -> EmitOp(c, i, "MemGrow", <<>>)
            [] ins.op = "trap" -> EmitOp(c, i, "Unreachable", <<>>)
            [] ins.op = "call" -> CompileCall(c, i, ins.func, compiled)
            [] ins.op = "callIndirect" -> EmitOp(c, i, "CallIndirect", Slots(4))
            [] ins.op = "loop" -> Headed(EmitOp(c, i, "Loop", <<>>), i)
            [] ins.op = "block" -> c
            [] ins.op \in {"branchIf", "if"} ->   \* an if jumps when its condition does not hold
                 Reserve(EmitOp(c, i, "BranchIf", Slots(2)), 1, ins.to)
            [] ins.op = "continueIf" -> EmitOp(c, i, "ContinueLoopIf", <<Operand(c.heads[ins.to])>>)
            [] ins.op = "table" -> CompileBranchTable(c, i, ins.to)
            [] ins.op = "else" -> CompileElseBlock(c, i, body)
            [] ins.op = "end" -> BlockEnd(c, i)

CompileBlockStatements(c, body, compiled) ==
  FoldLeftDomain(LAMBDA a, i : CompileInstruction(a, i, body, compiled), c, body)

Cleared(c) ==
  [c EXCEPT !.page = 0, !.of = <<0, "none">>, !.heads = <<>>, !.patches = {},
            !.saved = <<>>, !.failed = FALSE]

Closed(c) == Cleared(ReleaseCodePage(c, c.page))

(* The body of a function has been compiled from an address on, or has failed to be. *)
(* The pages are used either way.                                                    *)
Ended(c, at, pc) ==
  IF c.failed THEN [code |-> Closed(c), pc |-> NotCompiled]
  ELSE [code |-> Closed(EmitOp(c, at, "Return", <<>>)), pc |-> pc]

(* All of a function, on the page that was acquired for it. *)
CompileOn(start, body, compiled) ==
  Ended(CompileBlockStatements(EmitOp(start, 0, "Entry", Slots(1)), body, compiled),
        Len(body) + 1, PC(start))

CompileFunction(m, f, body) ==
  CompileOn(AcquireCodePage([Cleared(code) EXCEPT !.of = <<m, f>>], Threshold), body, modules[m].compiled)

(* The bytes of a function are those of its module while they are in the buffer, *)
(* and then whatever has taken their place.                                      *)
Texts(m, f) ==
  IF buffer = m THEN {modules[m].patch.code[f]}
  ELSE UNION {{p.code[g] : g \in DOMAIN p.code} : p \in Payload}

(* The address of a function, compiled now if it is not, and the pages after that. *)
Addresses(m, f) ==
  IF modules[m].compiled[f] # NotCompiled THEN {[code |-> code, pc |-> modules[m].compiled[f]]}
  ELSE {CompileFunction(m, f, body) : body \in Texts(m, f)}

-------------------------------------------------------------------------------
Init ==
  /\ code = [pages |-> <<>>, open |-> <<>>, full |-> <<>>, released |-> <<>>, count |-> 0,
             active |-> 0, page |-> 0, of |-> <<0, "none">>, heads |-> <<>>, patches |-> {},
             saved |-> <<>>, failed |-> FALSE]
  /\ modules = <<>> /\ buffer = 0 /\ frames = <<>>

(* What is at address 0, or where no operation was written, does nothing. *)
HasOperation(pc) ==
  /\ pc[1] \in DOMAIN code.pages /\ pc[2] \in DOMAIN code.pages[pc[1]].words
  /\ "op" \in DOMAIN code.pages[pc[1]].words[pc[2]]

Word(pc) == IF HasOperation(pc) THEN code.pages[pc[1]].words[pc[2]]
            ELSE Operation("Data", <<0, "none">>, 0, 0)

Behind(pc) == <<pc[1], pc[2] + 1 + Word(pc).size>>
Nth(pc, k) == code.pages[pc[1]].words[pc[2] + k]

Top == Last(frames)
Running(ops) == frames # <<>> /\ Word(Top.pc).op \in ops
Waiting == frames = <<>> \/ Running({"Raw"})

Moved(F) == Map(F, LAMBDA fr : [fr EXCEPT !.moved = TRUE])

-------------------------------------------------------------------------------
(* Loading a patch                                                           *)

\* Bug: the temporary runtime takes a page of the runtime that it stands in for.
EvaluateOnOpenPage(c) ==
  IF c.open = <<>> THEN c
  ELSE [c EXCEPT !.released = <<c.open[1]>> \o @, !.open = Tail(@), !.count = @ - 1,
                 !.pages[c.open[1]].words = <<>>]

(* The offsets of data and the values of globals are computed by a temporary runtime, *)
(* whose page, emptied, goes to the environment.                                      *)
EvaluateExpression(c) ==
  LET a == AcquireCodePage([c EXCEPT !.open = <<>>], Threshold)
  IN [a EXCEPT !.page = 0, !.open = c.open, !.count = c.count, !.active = c.active,
               !.released = <<a.page>> \o @]

LinkRawFunction(c, m, x) ==
  LET a == AcquireCodePage(c, 2)
      e == EmitWords(a, <<Operation("Raw", <<m, x>>, 0, 1)>> \o Slots(1))
  IN [ReleaseCodePage(e, e.page) EXCEPT !.page = 0]

(* The imports of the bridge's exports are linked one by one, each on the first page *)
(* with room for its two words.                                                     *)
Links(c, m, p) ==
  LET done[k \in 0 .. Len(Exports)] ==
        IF k = 0 THEN c
        ELSE IF Exports[k] \in p.imports THEN LinkRawFunction(done[k - 1], m, Exports[k])
        ELSE done[k - 1]
      at(x) == PC(AcquireCodePage(done[(CHOOSE k \in DOMAIN Exports : Exports[k] = x) - 1], 2))
  IN [code |-> done[Len(Exports)],
      compiled |-> [f \in DOMAIN p.code \cup p.imports |->
        IF f \in p.imports \cap Range(Exports) THEN at(f) ELSE NotCompiled]]

(* An arm behind an else that cannot be compiled: the page of the first arm, saved in a *)
(* local of CompileElseBlock, is in no list any more.                                  *)
LosesPage(p) ==
  \E f \in DOMAIN p.code : \E i, j \in DOMAIN p.code[f] :
    /\ p.code[f][i].op = "else" /\ p.code[f][j].op = "call"
    /\ j \in i .. p.code[f][i].to /\ p.code[f][j].func \in p.imports \ Range(Exports)

(* loadData, and initRuntime if it succeeds.  The buffer is overwritten first, and *)
(* memory resized before a module can fail to load.                                *)
LoadPatch(p) ==
  /\ Waiting /\ Len(modules) < MaxModules
  /\ "stale" \in Avoid =>
       \A m \in DOMAIN modules : \A f \in DOMAIN modules[m].patch.code :
         modules[m].compiled[f] # NotCompiled
  /\ "lost" \in Avoid => ~LosesPage(p)
  /\ buffer' = IF p.fails = "never" THEN Len(modules) + 1 ELSE 0
  /\ frames' = IF p.fails = "parse" THEN frames ELSE Moved(frames)
  /\ LET evaluated == IF p.fails = "parse" \/ ~p.inits THEN code ELSE EvaluateExpression(code)
         l == Links(evaluated, Len(modules) + 1, p)
     IN IF p.fails = "never"
        THEN code' = l.code /\ modules' = Append(modules, [patch |-> p, compiled |-> l.compiled])
        ELSE code' = evaluated /\ UNCHANGED modules

(* The runtime and its environment are freed. *)
Reset ==
  /\ frames = <<>>
  /\ modules' = <<>> /\ buffer' = 0 /\ UNCHANGED frames
  /\ code' = [Cleared(code) EXCEPT !.pages = <<>>, !.open = <<>>, !.full = <<>>,
                                   !.released = <<>>, !.count = 0, !.active = 0]

-------------------------------------------------------------------------------
(* Calls                                                                     *)

Frame(pc, host, moved) == [pc |-> pc, loops |-> <<>>, host |-> host, moved |-> moved]

(* After a compilation that failed, a call site keeps the function where a call has *)
(* its address.                                                                     *)
Spoilt ==
  \E k \in DOMAIN code.pages : \E l \in DOMAIN code.pages[k].words :
    /\ "op" \in DOMAIN code.pages[k].words[l] /\ code.pages[k].words[l].op = "Call"
    /\ "func" \in DOMAIN code.pages[k].words[l + 1]

(* The newest patch that has the function, or 0. *)
FindFunction(f) ==
  SelectLastInSeq(modules, LAMBDA m : f \in DOMAIN m.patch.code)

(* call: the function is found, compiled if it is not, and run. *)
CallFunction(f) ==
  LET m == FindFunction(f)
  IN /\ Waiting /\ m # 0 /\ Len(code.pages) <= MaxPages
     /\ Cardinality({k \in DOMAIN frames : frames[k].host}) < MaxCalls
     /\ "spoilt" \in Avoid => ~Spoilt
     /\ \E r \in Addresses(m, f) :
          /\ code' = r.code
          /\ modules' = [modules EXCEPT ![m].compiled[f] = r.pc]
          /\ frames' = IF r.pc = NotCompiled THEN frames
                       ELSE Append(frames, Frame(r.pc, TRUE, FALSE))
     /\ UNCHANGED buffer

(* The innermost function goes on elsewhere. *)
Goto(pc) ==
  /\ frames' = [frames EXCEPT ![Len(frames)].pc = pc]
  /\ UNCHANGED <<code, modules, buffer>>

(* A function returns 0 and its caller looks where memory is, or anything else and *)
(* so does the caller, up to the bridge.                                           *)
Trapped(F) == SubSeq(F, 1, SelectLastInSeq(F, LAMBDA fr : fr.host) - 1)
Trap == frames' = Trapped(frames)

\* Bug: the caller goes on with the memory it knew.
ReturnUnrefreshed ==
  /\ Running({"Return", "Raw"})
  /\ frames' = Front(frames)
  /\ UNCHANGED <<code, modules, buffer>>

Return ==
  /\ Running({"Return", "Raw"})
  /\ frames' = IF Top.host THEN Front(frames)
               ELSE [Front(frames) EXCEPT ![Len(frames) - 1].moved = FALSE]
  /\ UNCHANGED <<code, modules, buffer>>

Called(pc) ==
  Append([frames EXCEPT ![Len(frames)].pc = Behind(Top.pc)], Frame(pc, FALSE, Top.moved))

Call ==
  /\ Running({"Call"})
  /\ LET callee == Nth(Top.pc, 1)
     IN frames' = Called(IF "to" \in DOMAIN callee THEN callee.to ELSE <<0, 0>>)
  /\ UNCHANGED <<code, modules, buffer>>

(* op_Compile turns into a call, compiles the function if nobody has, and calls it. *)
Compile ==
  /\ Running({"Compile"})
  /\ LET site == Top.pc
         m == Word(site).of[1]
         f == Nth(site, 1).func
     IN \E r \in Addresses(m, f) :
          LET rewritten == [r.code EXCEPT !.pages[site[1]].words[site[2]].op = "Call"]
          IN /\ modules' = [modules EXCEPT ![m].compiled[f] = r.pc]
             /\ IF r.pc = NotCompiled THEN code' = rewritten /\ Trap
                ELSE /\ code' = [rewritten EXCEPT !.pages[site[1]].words[site[2] + 1] = Operand(r.pc)]
                     /\ frames' = Called(r.pc)
  /\ UNCHANGED buffer

(* A function of the table, if its type is the right one, compiled if it is not. *)
CallIndirect ==
  /\ Running({"CallIndirect"})
  /\ UNCHANGED buffer
  /\ LET m == Word(Top.pc).of[1]
     IN \/ Trap /\ UNCHANGED <<code, modules>>
        \/ \E f \in modules[m].patch.table : \E r \in Addresses(m, f) :
             /\ code' = r.code
             /\ modules' = [modules EXCEPT ![m].compiled[f] = r.pc]
             /\ IF r.pc = NotCompiled THEN Trap ELSE frames' = Called(r.pc)

(* Each call by the bridge begins at the bottom of the stack. *)
Entry ==
  /\ Running({"Entry"})
  /\ IF Len(frames) - Len(Trapped(frames)) > MaxFrames
     THEN Trap /\ UNCHANGED <<code, modules, buffer>>
     ELSE Goto(Behind(Top.pc))

-------------------------------------------------------------------------------
(* Operations                                                                *)

Op == Running({"Op"}) /\ Goto(Behind(Top.pc))

(* Memory is allocated anew; this function has the new address. *)
MemGrow ==
  /\ Running({"MemGrow"})
  /\ frames' = [Moved(frames) EXCEPT ![Len(frames)] =
                 [Top EXCEPT !.pc = Behind(Top.pc), !.moved = FALSE]]
  /\ UNCHANGED <<code, modules, buffer>>

Unreachable == Running({"Unreachable"}) /\ Trap /\ UNCHANGED <<code, modules, buffer>>

Branch == Running({"Branch"}) /\ Goto(Nth(Top.pc, 1).to)

BranchIf ==
  Running({"BranchIf"}) /\ (Goto(Behind(Top.pc)) \/ Goto(Nth(Top.pc, 2).to))

BranchTable ==
  Running({"BranchTable"}) /\ \E k \in 3 .. Word(Top.pc).size : Goto(Nth(Top.pc, k).to)

(* op_Loop calls the code behind it, and again whenever that returns its own address. *)
Loop ==
  /\ Running({"Loop"})
  /\ frames' = [frames EXCEPT ![Len(frames)].pc = Behind(Top.pc),
                              ![Len(frames)].loops = Append(@, Behind(Top.pc))]
  /\ UNCHANGED <<code, modules, buffer>>

(* The loops inside the one with this address return; one that nobody runs is a trap. *)
Continue(head) ==
  /\ LET k == SelectLastInSeq(Top.loops, LAMBDA h : h = head)
     IN IF k = 0 THEN Trap
        ELSE frames' = [frames EXCEPT ![Len(frames)].pc = head, ![Len(frames)].moved = FALSE,
                                      ![Len(frames)].loops = SubSeq(@, 1, k)]
  /\ UNCHANGED <<code, modules, buffer>>

ContinueLoop == Running({"ContinueLoop"}) /\ Continue(Nth(Top.pc, 1).to)

ContinueLoopIf ==
  Running({"ContinueLoopIf"}) /\ (Goto(Behind(Top.pc)) \/ Continue(Nth(Top.pc, 1).to))

-------------------------------------------------------------------------------
Names == UNION {DOMAIN p.code : p \in Payload}

Bridge ==
  \/ \E p \in Payload : LoadPatch(p)
  \/ \E f \in Names : CallFunction(f)
  \/ Reset

Run ==
  \/ Entry \/ Op \/ MemGrow \/ Unreachable \/ Branch \/ BranchIf \/ BranchTable
  \/ Loop \/ ContinueLoop \/ ContinueLoopIf \/ Call \/ Compile \/ CallIndirect \/ Return

Next == Bridge \/ Run

Spec == Init /\ [][Next]_vars

-------------------------------------------------------------------------------
(* A page is in one list, once, and the runtime's count of its pages is right: two *)
(* compilations never write the same lines, and no page is lost when one fails.    *)
(* Nor is anything written behind the end of a page: an operation, its operands    *)
(* and a jump behind them fit in the lines it was made sure there are.             *)
PagesOwnedOnce ==
  LET listed == code.open \o code.full \o code.released
  IN /\ \A k \in DOMAIN code.pages :
          /\ Cardinality({i \in DOMAIN listed : listed[i] = k}) = 1
          /\ FreeLines(code, k) >= 0
     /\ Len(code.open) + Len(code.full) + code.active = code.count

(* The function that runs knows where memory is, though a function it called, or a *)
(* patch that was loaded out of one, may have moved it.                            *)
MemoryIsCurrent == frames # <<>> /\ ~Running({"Raw"}) => ~Top.moved

(* Code that was written stays, apart from a call that finds its function: whoever *)
(* runs it is not affected by what is compiled or loaded meanwhile.                *)
CodeStays ==
  [][modules' # <<>> =>
       \A k \in DOMAIN code.pages : \A l \in DOMAIN code.pages[k].words :
         \/ l \in DOMAIN code'.pages[k].words /\ code'.pages[k].words[l] = code.pages[k].words[l]
         \/ "func" \in DOMAIN code.pages[k].words[l]
         \/ "op" \in DOMAIN code.pages[k].words[l] /\ code.pages[k].words[l].op = "Compile"]_vars

Places == {<<0, 0>>} \cup UNION {{k} \X DOMAIN code.pages[k].words : k \in DOMAIN code.pages}

(* An address stands for the instruction where jumps from there end. *)
Landing[pc \in Places] ==
  IF Word(pc).op \in {"Branch", "ContinueLoop"} THEN Landing[Nth(pc, 1).to] ELSE Word(pc)

M == INSTANCE WasmMachine WITH
  loaded <- Map(modules, LAMBDA m : m.patch),
  stack <- Map(frames, LAMBDA fr :
             LET w == Landing[fr.pc]
             IN [module |-> w.of[1], func |-> w.of[2], at |-> w.at, host |-> fr.host])

(* The code does what the program says, function by function and instruction by     *)
(* instruction, on whatever pages it is and whenever its functions are compiled.    *)
ImplementsMachine == M!Spec
===============================================================================
