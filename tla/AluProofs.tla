------------------------------ MODULE AluProofs ------------------------------
(***************************************************************************)
(* Theorems about Alu, for all operands, accumulators and flags.           *)
(***************************************************************************)
EXTENDS Alu, Sm83Proofs

LEMMA NextType == TypeOK /\ [Next]_alu => TypeOK'
<1> SUFFICES ASSUME TypeOK, [Next]_alu PROVE TypeOK'
  OBVIOUS
<1> USE DEF TypeOK
<1>1. ASSUME NEW o, IsOutcome(o, F), Apply(o)
      PROVE  TypeOK'
  BY <1>1 DEF IsOutcome, Apply
<1>2. \A y \in Operands : y \in Byte
  BY OperandsAssumption
<1>3. ASSUME NEW o, IsOutcome(o, ClearCarry(F)) PROVE IsOutcome(o, F)
  BY <1>3, ClearCarryType DEF IsOutcome
<1>4. ASSUME NEW y \in Operands, Add(y) PROVE TypeOK'
  BY <1>1, <1>2, <1>3, <1>4, AddType, ClearCarryType DEF Add
<1>5. ASSUME NEW y \in Operands, AddCarry(y) PROVE TypeOK'
  BY <1>1, <1>2, <1>5, AddType DEF AddCarry
<1>6. ASSUME NEW y \in Operands, Subtract(y) PROVE TypeOK'
  BY <1>1, <1>2, <1>3, <1>6, SubtractType, ClearCarryType DEF Subtract
<1>7. ASSUME NEW y \in Operands, Compare(y) PROVE TypeOK'
  BY <1>2, <1>7, SubtractType DEF Compare, IsOutcome
<1>8. ASSUME NEW y \in Operands, And(y) \/ Or(y) \/ Xor(y)
      PROVE  TypeOK'
  BY <1>1, <1>8, LogicalType DEF And, Or, Xor
<1>9. CASE RotateLeftCopy \/ RotateRight \/ Swap
  BY <1>1, <1>9, RotateType DEF RotateLeftCopy, RotateRight, Swap
<1>10. CASE UNCHANGED alu
  BY <1>10 DEF alu
<1> QED BY <1>4, <1>5, <1>6, <1>7, <1>8, <1>9, <1>10 DEF Next

\* Accumulator and flags stay bytes.
THEOREM TypeCorrect == Spec => []TypeOK
<1>1. Init => TypeOK
  BY OperandsAssumption DEF Init, TypeOK
<1> QED BY <1>1, NextType, PTL DEF Spec

\* sm83_sub8 orders its operands, after any sequence of operations.
THEOREM ComparisonsOrder == Spec => []CompareOrders
<1>1. TypeOK => CompareOrders
  BY OperandsAssumption, SubtractCompares, ClearCarryType DEF TypeOK, CompareOrders
<1> QED BY <1>1, TypeCorrect, PTL

LEMMA StepsUndoStep ==
  ASSUME TypeOK PROVE StepsUndoEachOther
<1> DEFINE down == sm83_sub8(A, 1, F)
           up   == sm83_add8(A, 1, F)
<1>1. A \in Byte /\ F \in Byte /\ 1 \in Byte
  BY DEF TypeOK, Byte
<1>2. /\ down.value = U8(A - 1) /\ down.F \in Byte
      /\ Carry(down.F) = Flag(A < 1)
  BY <1>1, SubtractType, SubtractCompares DEF sm83_sub8, Outcome, IsOutcome
<1>3. up.value = U8(A + 1 + Carry(F))
  BY DEF sm83_add8, Outcome
<1> HIDE DEF down, up
<1>4. sm83_add8(down.value, 1, down.F).value = U8(U8(A - 1) + 1 + Flag(A < 1))
  BY <1>2 DEF sm83_add8, Outcome
<1>5. U8(U8(A - 1) + 1 + Flag(A < 1)) = IF A = 0 THEN 1 ELSE A
  BY <1>1 DEF U8, Flag, Byte
<1>6. sm83_sub8(up.value, 1, up.F).value = U8(U8(A + 1 + Carry(F)) - 1)
  BY <1>3 DEF sm83_sub8, Outcome
<1>7. U8(U8(A + 1 + Carry(F)) - 1) = U8(A + Carry(F))
  <2>1. ASSUME NEW k \in Nat PROVE U8(U8(k + 1) - 1) = U8(k)
    BY DEF U8
  <2>2. A + Carry(F) \in Nat /\ A + 1 + Carry(F) = (A + Carry(F)) + 1
    BY <1>1, CarryType DEF Byte
  <2> QED BY <2>1, <2>2
<1> QED BY <1>4, <1>5, <1>6, <1>7 DEF StepsUndoEachOther, down, up

\* When INC and DEC undo each other, and when they do not.
THEOREM StepsUndo == Spec => []StepsUndoEachOther
<1>1. TypeOK => StepsUndoEachOther
  BY StepsUndoStep
<1> QED BY <1>1, TypeCorrect, PTL
\* The value whose bits, from the lowest, are b0 to b7.
Bits(b0, b1, b2, b3, b4, b5, b6, b7) ==
  b0 + 2 * b1 + 4 * b2 + 8 * b3 + 16 * b4 + 32 * b5 + 64 * b6 + 128 * b7

\* The outcome o holds the value of these bits and the carry c.
Holds(o, b0, b1, b2, b3, b4, b5, b6, b7, c) ==
  /\ o.value = Bits(b0, b1, b2, b3, b4, b5, b6, b7)
  /\ o.F \in Byte
  /\ Carry(o.F) = c

LEMMA ByteHasBits ==
  ASSUME NEW x \in Byte
  PROVE  \E b0, b1, b2, b3, b4, b5, b6, b7 \in {0, 1} :
           x = Bits(b0, b1, b2, b3, b4, b5, b6, b7)
<1>1. \A n \in Nat : n % 2 \in {0, 1} /\ n \div 2 \in Nat /\ n = 2 * (n \div 2) + (n % 2)
  OBVIOUS
<1> DEFINE x1 == x \div 2
           x2 == x1 \div 2
           x3 == x2 \div 2
           x4 == x3 \div 2
           x5 == x4 \div 2
           x6 == x5 \div 2
           x7 == x6 \div 2
<1>2. x \in Nat /\ x < 256
  BY DEF Byte
<1>3. /\ x1 \in Nat /\ x1 < 128 /\ x2 \in Nat /\ x2 < 64
      /\ x3 \in Nat /\ x3 < 32 /\ x4 \in Nat /\ x4 < 16
  BY <1>2
<1>4. /\ x5 \in Nat /\ x5 < 8 /\ x6 \in Nat /\ x6 < 4 /\ x7 \in {0, 1}
  BY <1>3
<1>5. /\ x = 2 * x1 + (x % 2) /\ x1 = 2 * x2 + (x1 % 2)
      /\ x2 = 2 * x3 + (x2 % 2) /\ x3 = 2 * x4 + (x3 % 2)
  BY <1>1, <1>2, <1>3
<1>6. /\ x4 = 2 * x5 + (x4 % 2) /\ x5 = 2 * x6 + (x5 % 2) /\ x6 = 2 * x7 + (x6 % 2)
  BY <1>1, <1>3, <1>4
<1>7. /\ x % 2 \in {0, 1} /\ x1 % 2 \in {0, 1} /\ x2 % 2 \in {0, 1}
      /\ x3 % 2 \in {0, 1} /\ x4 % 2 \in {0, 1} /\ x5 % 2 \in {0, 1}
      /\ x6 % 2 \in {0, 1}
  BY <1>1, <1>2, <1>3, <1>4
<1> HIDE DEF x1, x2, x3, x4, x5, x6, x7
<1>8. x = Bits(x % 2, x1 % 2, x2 % 2, x3 % 2, x4 % 2, x5 % 2, x6 % 2, x7)
  BY <1>2, <1>3, <1>4, <1>5, <1>6, <1>7 DEF Bits
<1> QED BY <1>4, <1>7, <1>8

LEMMA RightMovesBits ==
  ASSUME NEW b0 \in {0, 1}, NEW b1 \in {0, 1}, NEW b2 \in {0, 1}, NEW b3 \in {0, 1},
         NEW b4 \in {0, 1}, NEW b5 \in {0, 1}, NEW b6 \in {0, 1}, NEW b7 \in {0, 1},
         NEW c \in {0, 1},
         NEW o, Holds(o, b0, b1, b2, b3, b4, b5, b6, b7, c)
  PROVE  Holds(sm83_rotate_right(o.value, o.F), b1, b2, b3, b4, b5, b6, b7, c, b0)
<1> DEFINE v == o.value
           r == 128 * c + (v \div 2)
<1>1. /\ v \in Nat /\ v % 2 = b0
      /\ v \div 2 = b1 + 2 * b2 + 4 * b3 + 8 * b4 + 16 * b5 + 32 * b6 + 64 * b7
  BY DEF Holds, Bits
<1>2. sm83_rotate_right(v, o.F) = Rotated(r, b0, o.F)
  BY <1>1 DEF sm83_rotate_right, Holds
<1>3. r = Bits(b1, b2, b3, b4, b5, b6, b7, c)
  BY <1>1 DEF Bits
<1>4. Holds(Rotated(r, b0, o.F), b1, b2, b3, b4, b5, b6, b7, c, b0)
  BY <1>3, FlagType, SetFlagsType DEF Holds, Rotated, Outcome
<1> QED BY <1>2, <1>4

LEMMA LeftMovesBits ==
  ASSUME NEW b0 \in {0, 1}, NEW b1 \in {0, 1}, NEW b2 \in {0, 1}, NEW b3 \in {0, 1},
         NEW b4 \in {0, 1}, NEW b5 \in {0, 1}, NEW b6 \in {0, 1}, NEW b7 \in {0, 1},
         NEW c,
         NEW o, Holds(o, b0, b1, b2, b3, b4, b5, b6, b7, c)
  PROVE  Holds(sm83_rotate_left_copy(o.value, o.F),
               b7, b0, b1, b2, b3, b4, b5, b6, b7)
<1> DEFINE v == o.value
           r == U8(2 * v) + (v \div 128)
<1>1. /\ v \in Nat /\ v \div 128 = b7
      /\ (2 * v) % 256 =
           2 * b0 + 4 * b1 + 8 * b2 + 16 * b3 + 32 * b4 + 64 * b5 + 128 * b6
  BY DEF Holds, Bits
<1>2. r = Bits(b7, b0, b1, b2, b3, b4, b5, b6) /\ r % 2 = b7
  <2> DEFINE k == b0 + 2 * b1 + 4 * b2 + 8 * b3 + 16 * b4 + 32 * b5 + 64 * b6
  <2>1. k \in Nat /\ U8(2 * v) = 2 * k
    BY <1>1 DEF U8
  <2>2. r = b7 + 2 * k
    BY <1>1, <2>1
  <2>3. Bits(b7, b0, b1, b2, b3, b4, b5, b6) = b7 + 2 * k
    BY DEF Bits
  <2> HIDE DEF k, r
  <2>4. r % 2 = b7
    BY <2>1, <2>2
  <2> QED BY <2>2, <2>3, <2>4
<1>3. sm83_rotate_left_copy(v, o.F) = Rotated(r, b7, o.F)
  BY <1>2 DEF sm83_rotate_left_copy
<1>4. Holds(Rotated(r, b7, o.F), b7, b0, b1, b2, b3, b4, b5, b6, b7)
  BY <1>2, FlagType, SetFlagsType DEF Holds, Rotated, Outcome
<1> QED BY <1>3, <1>4

\* Another rotation of an outcome.
Right(o) == sm83_rotate_right(o.value, o.F)
Left(o)  == sm83_rotate_left_copy(o.value, o.F)

LEMMA NineRightRotations ==
  ASSUME NEW x \in Byte, NEW f \in Byte
  PROVE  LET nine == Right(Right(Right(Right(Right(Right(
                       Right(Right(Right(Outcome(x, f))))))))))
         IN  nine.value = x /\ Carry(nine.F) = Carry(f)
<1> DEFINE c  == Carry(f)
           o0 == Outcome(x, f)
           o1 == Right(o0)
           o2 == Right(o1)
           o3 == Right(o2)
           o4 == Right(o3)
           o5 == Right(o4)
           o6 == Right(o5)
           o7 == Right(o6)
           o8 == Right(o7)
           o9 == Right(o8)
<1>1. PICK b0, b1, b2, b3, b4, b5, b6, b7 \in {0, 1} :
        x = Bits(b0, b1, b2, b3, b4, b5, b6, b7)
  BY ByteHasBits
<1>2. c \in {0, 1}
  BY CarryType
<1>3. Holds(o0, b0, b1, b2, b3, b4, b5, b6, b7, c)
  BY <1>1 DEF Holds, Outcome
<1> HIDE DEF c, o0, o1, o2, o3, o4, o5, o6, o7, o8, o9
<1>5. Holds(o1, b1, b2, b3, b4, b5, b6, b7, c, b0)
  BY <1>2, <1>3, RightMovesBits DEF o1, Right
<1>6. Holds(o2, b2, b3, b4, b5, b6, b7, c, b0, b1)
  BY <1>2, <1>5, RightMovesBits DEF o2, Right
<1>7. Holds(o3, b3, b4, b5, b6, b7, c, b0, b1, b2)
  BY <1>2, <1>6, RightMovesBits DEF o3, Right
<1>8. Holds(o4, b4, b5, b6, b7, c, b0, b1, b2, b3)
  BY <1>2, <1>7, RightMovesBits DEF o4, Right
<1>9. Holds(o5, b5, b6, b7, c, b0, b1, b2, b3, b4)
  BY <1>2, <1>8, RightMovesBits DEF o5, Right
<1>10. Holds(o6, b6, b7, c, b0, b1, b2, b3, b4, b5)
  BY <1>2, <1>9, RightMovesBits DEF o6, Right
<1>11. Holds(o7, b7, c, b0, b1, b2, b3, b4, b5, b6)
  BY <1>2, <1>10, RightMovesBits DEF o7, Right
<1>12. Holds(o8, c, b0, b1, b2, b3, b4, b5, b6, b7)
  BY <1>2, <1>11, RightMovesBits DEF o8, Right
<1>13. Holds(o9, b0, b1, b2, b3, b4, b5, b6, b7, c)
  BY <1>2, <1>12, RightMovesBits DEF o9, Right
<1> QED BY <1>1, <1>13 DEF Holds, c, o0, o1, o2, o3, o4, o5, o6, o7, o8, o9

LEMMA EightLeftRotations ==
  ASSUME NEW x \in Byte, NEW f \in Byte
  PROVE  Left(Left(Left(Left(Left(Left(Left(Left(Outcome(x, f))))))))).value = x
<1> DEFINE o0 == Outcome(x, f)
           o1 == Left(o0)
           o2 == Left(o1)
           o3 == Left(o2)
           o4 == Left(o3)
           o5 == Left(o4)
           o6 == Left(o5)
           o7 == Left(o6)
           o8 == Left(o7)
<1>1. PICK b0, b1, b2, b3, b4, b5, b6, b7 \in {0, 1} :
        x = Bits(b0, b1, b2, b3, b4, b5, b6, b7)
  BY ByteHasBits
<1>2. Holds(o0, b0, b1, b2, b3, b4, b5, b6, b7, Carry(f))
  BY <1>1 DEF Holds, Outcome
<1> HIDE DEF o0, o1, o2, o3, o4, o5, o6, o7, o8
<1>4. Holds(o1, b7, b0, b1, b2, b3, b4, b5, b6, b7)
  BY <1>2, LeftMovesBits DEF o1, Left
<1>5. Holds(o2, b6, b7, b0, b1, b2, b3, b4, b5, b6)
  BY <1>4, LeftMovesBits DEF o2, Left
<1>6. Holds(o3, b5, b6, b7, b0, b1, b2, b3, b4, b5)
  BY <1>5, LeftMovesBits DEF o3, Left
<1>7. Holds(o4, b4, b5, b6, b7, b0, b1, b2, b3, b4)
  BY <1>6, LeftMovesBits DEF o4, Left
<1>8. Holds(o5, b3, b4, b5, b6, b7, b0, b1, b2, b3)
  BY <1>7, LeftMovesBits DEF o5, Left
<1>9. Holds(o6, b2, b3, b4, b5, b6, b7, b0, b1, b2)
  BY <1>8, LeftMovesBits DEF o6, Left
<1>10. Holds(o7, b1, b2, b3, b4, b5, b6, b7, b0, b1)
  BY <1>9, LeftMovesBits DEF o7, Left
<1>11. Holds(o8, b0, b1, b2, b3, b4, b5, b6, b7, b0)
  BY <1>10, LeftMovesBits DEF o8, Left
<1> QED BY <1>1, <1>11 DEF Holds, o0, o1, o2, o3, o4, o5, o6, o7, o8

LEMMA TwoSwaps ==
  ASSUME NEW x \in Byte, NEW f
  PROVE  LET once == sm83_swap(x, f)
         IN  sm83_swap(once.value, once.F).value = x
<1> DEFINE h == x \div 16
           l == x % 16
           y == U8(16 * x) + (x \div 16)
<1>1. h \in Nat /\ h < 16 /\ l \in Nat /\ l < 16 /\ x = 16 * h + l
  BY DEF Byte
<1>2. y = 16 * l + h
  <2> HIDE DEF h, l
  <2>1. U8(16 * x) = 16 * l
    BY <1>1 DEF U8
  <2> QED BY <2>1 DEF h
<1>3. sm83_swap(x, f).value = y
  BY DEF sm83_swap, Rotated, Outcome
<1>4. U8(16 * y) + (y \div 16) = x
  <2> HIDE DEF h, l, y
  <2>1. U8(16 * y) = 16 * h /\ y \div 16 = l
    BY <1>1, <1>2 DEF U8
  <2> QED BY <1>1, <2>1
<1>5. \A F0 : sm83_swap(y, F0).value = U8(16 * y) + (y \div 16)
  BY DEF sm83_swap, Rotated, Outcome
<1> QED BY <1>3, <1>4, <1>5

\* After any sequence of operations, no rotation or swap loses a bit of the
\* accumulator, and the rotation through the carry keeps the carry.
THEOREM RotationsKeepBits == Spec => []RotationsLoseNoBit
<1>1. ASSUME TypeOK PROVE RotationsLoseNoBit
  <2>1. A \in Byte /\ F \in Byte
    BY <1>1 DEF TypeOK
  <2>2. LET nine == NineTimes(Right, Outcome(A, F))
        IN  nine.value = A /\ Carry(nine.F) = Carry(F)
    BY <2>1, NineRightRotations DEF NineTimes, Thrice
  <2>3. Left(Left(Thrice(Left, Thrice(Left, Outcome(A, F))))).value = A
    BY <2>1, EightLeftRotations DEF Thrice
  <2>4. LET once == sm83_swap(A, F)
        IN  sm83_swap(once.value, once.F).value = A
    BY <2>1, TwoSwaps
  <2> QED
    BY <2>2, <2>3, <2>4 DEF RotationsLoseNoBit, NineTimes, Thrice, Right, Left, Outcome
<1> QED BY <1>1, TypeCorrect, PTL
=============================================================================
