------------------------------- MODULE Words -------------------------------
(***************************************************************************)
(* Fixed-width integers of the emulator: register8 (uint8_t), register16   *)
(* (uint16_t), and the C conversions between them.  Bit operations are     *)
(* written out over the eight bits of a byte, so that modules using them   *)
(* stay within reach of the SMT backend.                                   *)
(***************************************************************************)
EXTENDS Integers

Byte == {n \in Nat : n < 256}
Word == {n \in Nat : n < 65536}

\* Conversion of an int to uint8_t and to uint16_t.
U8(n)  == n % 256
U16(n) == n % 65536

Low(w)      == w % 256
High(w)     == (w \div 256) % 256
Pair(hi, lo) == 256 * hi + lo

\* Reinterpretation of a byte as int8_t.
Signed8(b) == IF b < 128 THEN b ELSE b - 256

Flag(p) == IF p THEN 1 ELSE 0

\* The bit of x of weight w, a power of two.
Bit(x, w) == (x \div w) % 2

\* The byte whose bits are op of the corresponding bits of x and y.
Bitwise8(op(_, _), x, y) ==
  LET b(w) == op(Bit(x, w), Bit(y, w))
  IN  b(1) + 2 * b(2) + 4 * b(4) + 8 * b(8)
      + 16 * b(16) + 32 * b(32) + 64 * b(64) + 128 * b(128)

And8(x, y) == Bitwise8(LAMBDA p, q : IF p = 1 /\ q = 1 THEN 1 ELSE 0, x, y)
Or8(x, y)  == Bitwise8(LAMBDA p, q : IF p = 1 \/ q = 1 THEN 1 ELSE 0, x, y)
Xor8(x, y) == Bitwise8(LAMBDA p, q : IF p = q THEN 0 ELSE 1, x, y)

\* v & (m - 1), where m is a power of two.
LowBits(v, m) == v % m

\* 1 << n, for the shift counts that leave a byte.
ShiftOne(n) == <<1, 2, 4, 8, 16, 32, 64, 128>>[n + 1]
=============================================================================
