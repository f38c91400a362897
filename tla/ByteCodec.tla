------------------------------ MODULE ByteCodec ------------------------------
(***************************************************************************)
(* The integers of the byte encoding, as buf.c of rpeg/runtime writes and  *)
(* reads them: ints of four bytes and shorts of two, low byte first, in    *)
(* two's complement.  A byte has Radix values, 256 in the code.            *)
(***************************************************************************)
EXTENDS Integers, Sequences

CONSTANT Radix

(* A byte is one sign bit and some others. *)
ASSUME RadixAssumption == Radix \in Nat \ {0} /\ Radix % 2 = 0

Bytes  == 0 .. Radix - 1
Short  == Radix * Radix
Int4   == Short * Short
Ints   == -(Int4 \div 2) .. (Int4 \div 2) - 1
Shorts == -(Short \div 2) .. (Short \div 2) - 1

(* An unsigned number of a type with n values, read as a signed one.       *)
Signed(u, n) == IF u < n \div 2 THEN u ELSE u - n

int_to_string(i) ==
  LET u == i % Int4
  IN  << u % Radix, (u \div Radix) % Radix, (u \div Short) % Radix,
         (u \div (Radix * Short)) % Radix >>

string_to_int(d) ==
  Signed(d[1] + Radix * d[2] + Short * d[3] + Radix * Short * d[4], Int4)

short_to_string(i) ==
  LET u == i % Short IN << u % Radix, u \div Radix >>

(* buf_peekshort ors the first byte, a signed char, with the second one    *)
(* shifted: where the first is negative, its sign bits hide the second.    *)
buf_peekshort(d) ==
  IF d[1] < Radix \div 2 THEN Signed(d[1] + Radix * d[2], Short)
                         ELSE d[1] - Radix

(* The shorts that are read back as they were written.                     *)
ReadBack(i) == i % Radix < Radix \div 2 \/ i \in -(Radix \div 2) .. -1
==============================================================================
