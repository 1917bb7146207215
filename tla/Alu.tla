-------------------------------- MODULE Alu --------------------------------
(***************************************************************************)
(* An accumulator on which the operations of sm83_operations.c are applied *)
(* one after the other, in any order: the flags one of them leaves behind  *)
(* are what the next one starts from.                                      *)
(***************************************************************************)
EXTENDS Sm83

CONSTANTS Operands,   \* bytes an operation can take as its second operand
          Start       \* <<accumulator, flags>> pairs to start from

ASSUME OperandsAssumption ==
  Operands \subseteq Byte /\ Start \subseteq Byte \X Byte

VARIABLES A, F

alu == <<A, F>>

Init == \E s \in Start : A = s[1] /\ F = s[2]

Apply(outcome) == A' = outcome.value /\ F' = outcome.F

Add(y)      == Apply(sm83_add8(A, y, ClearCarry(F)))
AddCarry(y) == Apply(sm83_add8(A, y, F))
Subtract(y) == Apply(sm83_sub8(A, y, ClearCarry(F)))
Compare(y)  == A' = A /\ F' = sm83_sub8(A, y, F).F
And(y)      == Apply(sm83_and8(A, y, F))
Xor(y)      == Apply(sm83_xor8(A, y, F))
Or(y)       == Apply(sm83_or8(A, y, F))
RotateLeftCopy == Apply(sm83_rotate_left_copy(A, F))
RotateRight    == Apply(sm83_rotate_right(A, F))
Swap           == Apply(sm83_swap(A, F))

Next ==
  \/ \E y \in Operands : Add(y)
  \/ \E y \in Operands : AddCarry(y)
  \/ \E y \in Operands : Subtract(y)
  \/ \E y \in Operands : Compare(y)
  \/ \E y \in Operands : And(y)
  \/ \E y \in Operands : Xor(y)
  \/ \E y \in Operands : Or(y)
  \/ RotateLeftCopy
  \/ RotateRight
  \/ Swap

Spec == Init /\ [][Next]_alu

-----------------------------------------------------------------------------
\* Type invariant.
TypeOK == A \in Byte /\ F \in Byte

\* Whatever flags earlier operations left, sm83_sub8 orders its operands: zero
\* says equal, carry says less.  Every conditional jump after a SUB, or after a
\* CP with a register, depends on it.  CP A, u8 does not call it, has flags of
\* its own (CompareImmediate) and does not order: it never sets the carry.
CompareOrders ==
  \A y \in Operands :
    \A flags \in {F, ClearCarry(F)} :
      LET after == sm83_sub8(A, y, flags).F
      IN  /\ Zero(after) = Flag(A = y)
          /\ Carry(after) = Flag(A < y)

\* INC adds the carry flag, and DEC sets it when it borrows.  So a DEC and an
\* INC give the value back unless it was 0, which becomes 1, and an INC and a
\* DEC do so only when the carry was clear before.
StepsUndoEachOther ==
  LET down == sm83_sub8(A, 1, F)
      up   == sm83_add8(A, 1, F)
  IN  /\ sm83_add8(down.value, 1, down.F).value = IF A = 0 THEN 1 ELSE A
      /\ sm83_sub8(up.value, 1, up.F).value = U8(A + Carry(F))

\* op applied three times, and nine times.
Thrice(op(_), o) == op(op(op(o)))
NineTimes(op(_), o) == Thrice(LAMBDA x : Thrice(op, x), o)

\* No rotation that the CPU calls loses a bit: nine sm83_rotate_right (RRA, RR),
\* through the carry, eight sm83_rotate_left_copy (RLCA) and two sm83_swap each
\* give the value back, and the nine give the carry back.  sm83_rotate_left,
\* which loses bit 7, is not among them: nothing calls it.
RotationsLoseNoBit ==
  LET start == Outcome(A, F)
      right(o)  == sm83_rotate_right(o.value, o.F)
      left(o)   == sm83_rotate_left_copy(o.value, o.F)
      swap(o)   == sm83_swap(o.value, o.F)
      nine == NineTimes(right, start)
  IN  /\ nine.value = A /\ Carry(nine.F) = Carry(F)
      /\ left(left(Thrice(left, Thrice(left, start)))).value = A
      /\ swap(swap(start)).value = A

\* The carry says whether the sum of two bytes is above 0xFF.
AddReportsCarry ==
  \A y \in Operands :
    Carry(sm83_add8(A, y, ClearCarry(F)).F) = Flag(A + y > 255)
=============================================================================
