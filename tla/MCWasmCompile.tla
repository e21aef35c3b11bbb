---------------------------- MODULE MCWasmCompile -----------------------------
(* A small instance of WasmCompile for TLC. *)
EXTENDS WasmCompile

MCSignatures == {<< <<"f64">>, "i32">>, << <<"i32">>, "f64">>}

(* The second argument is kept in slot 2, the variable in slot 3. *)
TwoArgs == <<"f64", "i32">>

OneVar == <<"i32">>
===============================================================================
