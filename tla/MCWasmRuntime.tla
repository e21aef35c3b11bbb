----------------------------- MODULE MCWasmRuntime ------------------------------
(* Small instance of WasmRuntime. *)
EXTENDS WasmRuntime

Straight(n) == [op |-> "op", words |-> n]
Plain(k) == [op |-> k]
CallTo(f) == [op |-> "call", func |-> f]
To(k, i) == [op |-> k, to |-> i]

(* A loop around an if with both arms, one of them calling a function of the patch *)
(* and the other an export; a table that leaves a block or continues a loop in it; *)
(* calls through the table, one function calling the other.                        *)
LoopBody == <<Plain("loop"), To("if", 5), CallTo("step"), Plain("grow"), To("else", 7),
              CallTo("print"), Plain("end"), To("continueIf", 1), Plain("end")>>
StepBody == <<Plain("block"), Plain("loop"), Straight(0), To("branchIf", 7),
              To("table", <<2, 7, 7, 2, 7, 7>>), Plain("end"), Plain("end"), Plain("callIndirect")>>

Whole == [code |-> [entry |-> LoopBody, step |-> StepBody], imports |-> {"print"},
          table |-> {"entry"}, inits |-> TRUE, fails |-> "never"]

(* A patch that imports what the bridge does not export. *)
Partial == [code |-> [entry |-> <<To("if", 3), CallTo("other"), Plain("end"), Plain("trap")>>,
                      other |-> <<Straight(3), CallTo("missing")>>],
            imports |-> {"missing"}, table |-> {}, inits |-> FALSE, fails |-> "never"]

Losing == [Partial EXCEPT !.code =
  [entry |-> <<To("if", 2), To("else", 4), CallTo("missing"), Plain("end")>>]]

Patches == {Whole, Partial, Losing, [Whole EXCEPT !.fails = "data"], [Whole EXCEPT !.fails = "parse"]}
Linkage == <<"other", "print">>
===============================================================================
