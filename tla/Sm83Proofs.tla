----------------------------- MODULE Sm83Proofs -----------------------------
(***************************************************************************)
(* What the operations of Sm83 return: a byte, and a flag register whose   *)
(* unused half is the one they were given.                                 *)
(***************************************************************************)
EXTENDS Sm83, TLAPS

\* o is a result and new flags for an operation that was given the flags F.
IsOutcome(o, F) ==
  o.value \in Byte /\ o.F \in Byte /\ o.F \div 16 = F \div 16

LEMMA FlagType == ASSUME NEW p PROVE Flag(p) \in {0, 1}
BY DEF Flag

LEMMA BitType == ASSUME NEW x \in Nat, NEW w \in Nat, w > 0 PROVE Bit(x, w) \in {0, 1}
<1>1. x \div w \in Nat
  OBVIOUS
<1> QED BY <1>1 DEF Bit

LEMMA U8Type == ASSUME NEW n \in Int PROVE U8(n) \in Byte
BY DEF U8, Byte

LEMMA SetFlagsType ==
  ASSUME NEW F \in Byte, NEW z \in {0, 1}, NEW s \in {0, 1}, NEW h \in {0, 1},
         NEW c \in {0, 1}
  PROVE  /\ SetFlags(F, z, s, h, c) \in Byte
         /\ SetFlags(F, z, s, h, c) \div 16 = F \div 16
         /\ Zero(SetFlags(F, z, s, h, c)) = z
         /\ Carry(SetFlags(F, z, s, h, c)) = c
<1> DEFINE u == F \div 16
           low == z + 2 * s + 4 * h + 8 * c
<1>1. u \in Nat /\ u < 16
  BY DEF Byte
<1>0. z \in Nat /\ s \in Nat /\ h \in Nat /\ c \in Nat
  OBVIOUS
<1>2. low \in Nat /\ low < 16
  OBVIOUS
<1>3. SetFlags(F, z, s, h, c) = 16 * u + low
  BY <1>0, <1>1 DEF SetFlags
<1>4. (16 * u + low) \div 16 = u
  <2> HIDE DEF u, low
  <2> QED BY <1>1, <1>2
<1>5. (16 * u + low) % 2 = z
  <2>1. 16 * u + low = 2 * (8 * u + s + 2 * h + 4 * c) + z
    BY <1>0, <1>1
  <2>2. 8 * u + s + 2 * h + 4 * c \in Nat
    BY <1>0, <1>1
  <2> HIDE DEF u, low
  <2> QED BY <2>1, <2>2
<1>6. ((16 * u + low) \div 8) % 2 = c
  <2>1. 16 * u + low = 8 * (2 * u + c) + (z + 2 * s + 4 * h)
    BY <1>0, <1>1
  <2> HIDE DEF u, low
  <2>2. (16 * u + low) \div 8 = 2 * u + c
    BY <1>1, <2>1
  <2> QED BY <1>1, <2>2
<1>7. 16 * u + low \in Byte
  BY <1>1, <1>2 DEF Byte
<1>8. (16 * u + low) \div 1 = 16 * u + low
  BY <1>7 DEF Byte
<1> HIDE DEF u, low
<1> QED BY <1>3, <1>4, <1>5, <1>6, <1>7, <1>8 DEF Zero, Carry, Bit, u

LEMMA CarryType ==
  ASSUME NEW F \in Byte PROVE Carry(F) \in {0, 1} /\ Zero(F) \in {0, 1}
BY BitType DEF Carry, Zero, Byte

LEMMA ClearCarryType ==
  ASSUME NEW F \in Byte
  PROVE  /\ ClearCarry(F) \in Byte /\ ClearCarry(F) \div 16 = F \div 16
         /\ Carry(ClearCarry(F)) = 0
<1> DEFINE q == F \div 16
           r == F % 8
           c == (F \div 8) % 2
<1>1. q \in Nat /\ q < 16 /\ r \in Nat /\ r < 8 /\ c \in {0, 1}
  BY DEF Byte
<1>2. F = 16 * q + 8 * c + r
  BY DEF Byte
<1>3. ClearCarry(F) = 16 * q + r
  BY <1>1, <1>2 DEF ClearCarry, Carry, Bit
<1> HIDE DEF q, r, c
<1>4. (16 * q + r) \div 16 = q /\ (16 * q + r) \div 8 = 2 * q /\ (2 * q) % 2 = 0
  BY <1>1
<1>5. 16 * q + r \in Byte
  BY <1>1 DEF Byte
<1> QED BY <1>3, <1>4, <1>5 DEF Carry, Bit, q

-----------------------------------------------------------------------------
(* The operations.                                                         *)

LEMMA AddType ==
  ASSUME NEW x \in Byte, NEW y \in Byte, NEW F \in Byte
  PROVE  IsOutcome(sm83_add8(x, y, F), F)
<1>1. U8(x + y + Carry(F)) \in Byte
  BY CarryType, U8Type DEF Byte
<1> QED BY <1>1, SetFlagsType, FlagType DEF sm83_add8, Outcome, IsOutcome

LEMMA SubtractType ==
  ASSUME NEW x \in Byte, NEW y \in Byte, NEW F \in Byte
  PROVE  IsOutcome(sm83_sub8(x, y, F), F)
<1>1. U8(x - y) \in Byte
  BY U8Type DEF Byte
<1> QED BY <1>1, SetFlagsType, FlagType DEF sm83_sub8, Outcome, IsOutcome

LEMMA Add16Type ==
  ASSUME NEW x \in Word, NEW y \in Word, NEW F \in Byte
  PROVE  /\ sm83_add16(x, y, F).value \in Word
         /\ sm83_add16(x, y, F).F \in Byte
<1>1. U16(x + y) \in Word
  BY DEF U16, Word
<1> QED BY <1>1, SetFlagsType, FlagType, CarryType DEF sm83_add16, Outcome

LEMMA BitwiseType ==
  ASSUME NEW x, NEW y
  PROVE  And8(x, y) \in Byte /\ Or8(x, y) \in Byte /\ Xor8(x, y) \in Byte
<1>1. And8(x, y) \in Byte
  BY DEF And8, Bitwise8, Byte
<1>2. Or8(x, y) \in Byte
  BY DEF Or8, Bitwise8, Byte
<1>3. Xor8(x, y) \in Byte
  BY DEF Xor8, Bitwise8, Byte
<1> QED BY <1>1, <1>2, <1>3

LEMMA LogicalType ==
  ASSUME NEW x, NEW y, NEW F \in Byte
  PROVE  /\ IsOutcome(sm83_and8(x, y, F), F)
         /\ IsOutcome(sm83_or8(x, y, F), F)
         /\ IsOutcome(sm83_xor8(x, y, F), F)
<1>1. ASSUME NEW r \in Byte, NEW h \in {0, 1} PROVE IsOutcome(Logical(r, h, F), F)
  BY SetFlagsType, FlagType DEF Logical, Outcome, IsOutcome
<1> QED BY <1>1, BitwiseType DEF sm83_and8, sm83_or8, sm83_xor8

LEMMA RotatedType ==
  ASSUME NEW r \in Byte, NEW c \in {0, 1}, NEW F \in Byte
  PROVE  IsOutcome(Rotated(r, c, F), F)
BY SetFlagsType, FlagType DEF Rotated, Outcome, IsOutcome

LEMMA RotateType ==
  ASSUME NEW x \in Byte, NEW F \in Byte
  PROVE  /\ IsOutcome(sm83_rotate_left_copy(x, F), F)
         /\ IsOutcome(sm83_rotate_right(x, F), F)
         /\ IsOutcome(sm83_swap(x, F), F)
         /\ IsOutcome(Outcome(x \div 2, F), F)
<1>1. U8(2 * x) + (x \div 128) \in Byte
  BY DEF U8, Byte
<1>2. (U8(2 * x) + (x \div 128)) % 2 \in {0, 1}
  BY <1>1 DEF Byte
<1>3. 128 * Carry(F) + (x \div 2) \in Byte /\ x % 2 \in {0, 1}
  BY CarryType DEF Byte
<1>4. U8(16 * x) + (x \div 16) \in Byte
  BY DEF U8, Byte
<1>5. x \div 2 \in Byte
  BY DEF Byte
<1> QED BY <1>1, <1>2, <1>3, <1>4, <1>5, RotatedType
        DEF sm83_rotate_left_copy, sm83_rotate_right, sm83_swap, Outcome, IsOutcome

\* Zero says equal, carry says less: the difference of two bytes is cut to
\* sixteen bits before the carry is derived.
LEMMA SubtractCompares ==
  ASSUME NEW x \in Byte, NEW y \in Byte, NEW F \in Byte
  PROVE  /\ Zero(sm83_sub8(x, y, F).F) = Flag(x = y)
         /\ Carry(sm83_sub8(x, y, F).F) = Flag(x < y)
<1>1. /\ Zero(sm83_sub8(x, y, F).F) = Flag(U8(x - y) = 0)
      /\ Carry(sm83_sub8(x, y, F).F) = Flag(U16(x - y) > 255)
  BY SetFlagsType, FlagType DEF sm83_sub8, Outcome
<1>2. U8(x - y) = 0 <=> x = y
  BY DEF U8, Byte
<1>3. U16(x - y) > 255 <=> x < y
  BY DEF U16, Byte
<1> QED BY <1>1, <1>2, <1>3 DEF Flag

\* The carry of an addition is never set.
LEMMA AddClearsCarry ==
  ASSUME NEW x \in Byte, NEW y \in Byte, NEW F \in Byte
  PROVE  Carry(sm83_add8(x, y, F).F) = 0
<1> DEFINE r == U8(x + y + Carry(F))
<1>1. r \in Byte
  BY CarryType, U8Type DEF Byte
<1>2. U16(r) = r
  BY <1>1 DEF Byte, U16
<1> HIDE DEF r
<1>3. ~(U16(r) > 255)
  BY <1>1, <1>2 DEF Byte
<1> QED BY <1>3, SetFlagsType, FlagType DEF sm83_add8, Outcome, r, Flag
=============================================================================
