---------------------------- MODULE MCStructLayout ----------------------------
(* Scalars and arrays of two sizes; bit-fields of char and int that fill their *)
(* unit, alone or together, or do not.                                         *)
EXTENDS StructFields

MCBitField == {<<8, 1>>, <<4, 4>>, <<28, 4>>, <<32, 4>>}
===============================================================================
