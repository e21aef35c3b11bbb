------------------------------- MODULE WasmBytes -------------------------------
(***************************************************************************)
(* How wasm3 reads the numbers of a patch (m3_core.c): LEB128, seven bits  *)
(* of the number in a byte, the lowest first, and the eighth bit set when  *)
(* another byte follows.  A byte is the set of its bits that are set, and  *)
(* so is a number of 64 bits.                                              *)
(***************************************************************************)
EXTENDS Integers, Sequences, FiniteSets, FiniteSetsExt

Follows == 7   \* the bit that says that another byte follows
Sign == 6      \* the bit of the last byte that is copied into the rest of a signed number

(* Where the reading stops: at the last byte of the number, or where a number of    *)
(* `max` bits is full.                                                              *)
Stops(max, bytes) == {n \in DOMAIN bytes : Follows \notin bytes[n] \/ 7 * n >= max}

Payload(bytes, n) ==
  {i \in 0 .. 63 : i < 7 * n /\ i % 7 \in bytes[1 + i \div 7]}

(* The number and how many bytes it takes; not `ok` when the bytes end first, or the *)
(* number does not.                                                                  *)
ReadLebUnsigned(max, bytes) ==
  IF Stops(max, bytes) = {} THEN [ok |-> FALSE, value |-> Payload(bytes, Len(bytes)),
                                  size |-> Len(bytes)]
  ELSE LET n == Min(Stops(max, bytes))
       IN [ok |-> Follows \notin bytes[n], value |-> Payload(bytes, n), size |-> n]

ReadLebSigned(max, bytes) ==
  LET u == ReadLebUnsigned(max, bytes)
      extend == u.ok /\ Sign \in bytes[u.size] /\ 7 * u.size < 64
  IN IF extend THEN [u EXCEPT !.value = @ \cup 7 * u.size .. 63] ELSE u

(* The bits as a number of `width` of them, and as a signed one. *)
Unsigned(bits, width) == MapThenSumSet(LAMBDA b : 2 ^ b, bits \cap 0 .. width - 1)
Signed(bits, width) ==
  IF width - 1 \in bits THEN -1 - Unsigned(0 .. width - 2 \ bits, width)
  ELSE Unsigned(bits, width)

(* Numbers of 32 bits are below 2^31 here; see Bound in MCWasmModule. *)
ReadLEB_u32(bytes) == Unsigned(ReadLebUnsigned(32, bytes).value, 32)
ReadLEB_i32(bytes) == Signed(ReadLebSigned(32, bytes).value, 32)
ReadLEB_i7(bytes) == Signed(ReadLebSigned(7, bytes).value, 8)

(* The types of wasm3: none, i32, i64, f32, f64.  A type is written as a negative     *)
(* number, -64 meaning none; any other number is an error.                            *)
None == 0
InvalidType == 99
NormalizeType(n) ==
  IF (-n) % 256 = 64 THEN None ELSE IF (-n) % 256 \in 1 .. 4 THEN -n ELSE InvalidType

ReadType(bytes) == NormalizeType(ReadLEB_i7(bytes))
===============================================================================
