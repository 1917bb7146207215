-------------------------------- MODULE Sm83 --------------------------------
(***************************************************************************)
(* sm83_operations.c: the arithmetic of the CPU.  An operation takes its   *)
(* operands and the flag register F, and yields its result and the new F.  *)
(* F is the low byte of AF: zero is bit 0, subtraction bit 1, half_carry   *)
(* bit 2, carry bit 3, and four unused bits.                               *)
(***************************************************************************)
EXTENDS Words

Zero(F)  == Bit(F, 1)
Carry(F) == Bit(F, 8)

\* The register with all four flags assigned: the unused bits stay.
SetFlags(F, zero, subtraction, half_carry, carry) ==
  16 * (F \div 16) + zero + 2 * subtraction + 4 * half_carry + 8 * carry

ClearCarry(F) == F - 8 * Carry(F)

Outcome(value, F) == [value |-> value, F |-> F]

\* Adds the carry flag, too.  The sum is kept in eight bits before the carry
\* is derived from it.
sm83_add8(x, y, F) ==
  LET result == U8(x + y + Carry(F))
  IN  Outcome(result,
        SetFlags(F, Flag(result = 0), 0, Flag((x % 16) + (y % 16) > 15),
                 Flag(U16(result) > 255)))

\* Mutant: the carry is derived after the difference was cut to eight bits.
sm83_sub8_narrow(x, y, F) ==
  Outcome(U8(x - y), SetFlags(F, Flag(U8(x - y) = 0), 1, 0, Flag(U8(x - y) > 255)))

\* The difference of two nibbles, an int, is never above 15.
sm83_sub8(x, y, F) ==
  Outcome(U8(x - y),
    SetFlags(F, Flag(U8(x - y) = 0), 1, Flag((x % 16) - (y % 16) > 15),
             Flag(U16(x - y) > 255)))

\* Leaves the zero flag alone.
sm83_add16(x, y, F) ==
  Outcome(U16(x + y),
    SetFlags(F, Zero(F), 0, Flag((x % 4096) + (y % 4096) > 4095),
             Flag(x + y > 65535)))

Logical(result, half_carry, F) ==
  Outcome(result, SetFlags(F, Flag(result = 0), 0, half_carry, 0))

sm83_and8(x, y, F) == Logical(And8(x, y), 1, F)
sm83_xor8(x, y, F) == Logical(Xor8(x, y), 0, F)
sm83_or8(x, y, F)  == Logical(Or8(x, y), 0, F)

Rotated(result, carry, F) ==
  Outcome(result, SetFlags(F, Flag(result = 0), 0, 0, carry))

\* The new carry is the bit that goes in at the other end, bit 0.
sm83_rotate_left(reg, F) ==
  Rotated(U8(2 * reg) + Carry(F), reg % 2, F)

\* The carry is taken from the rotated value, whose bit 0 was bit 7.
sm83_rotate_left_copy(reg, F) ==
  LET result == U8(2 * reg) + (reg \div 128) IN Rotated(result, result % 2, F)

\* Mutant: the carry flag is set before it is shifted in.
sm83_rotate_right_late(reg, F) ==
  Rotated(128 * (reg % 2) + (reg \div 2), reg % 2, F)

sm83_rotate_right(reg, F) ==
  Rotated(128 * Carry(F) + (reg \div 2), reg % 2, F)

\* The carry is taken from the rotated value, whose bit 0 was bit 1.
sm83_rotate_right_copy(reg, F) ==
  LET result == U8(128 * reg) + (reg \div 2) IN Rotated(result, result % 2, F)

\* Mutant: the upper half is not cut off.
sm83_swap_wide(x, F) == Rotated(16 * x + (x \div 16), 0, F)

sm83_swap(x, F) == Rotated(U8(16 * x) + (x \div 16), 0, F)
=============================================================================
