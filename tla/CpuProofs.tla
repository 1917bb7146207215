------------------------------ MODULE CpuProofs ------------------------------
(***************************************************************************)
(* Theorems about Cpu, for every program.                                  *)
(***************************************************************************)
EXTENDS Cpu, BusProofs, Sm83Proofs, WellFoundedInduction

\* The registers, the memories and the status are what they should be.
StateOK == cpu \in CpuState /\ Sound(machine)

\* What the end of an instruction leaves behind.
StepOK ==
  /\ cpu' \in CpuState
  /\ Kept(machine', bus)
  /\ status' \in {"running", "stopped", "crashed"}

-----------------------------------------------------------------------------
(* Fetching and operands.                                                  *)

LEMMA FlushKeeps == ASSUME StateOK PROVE Kept(bus, machine)
<1>1. 65282 \in Word /\ 0 \in Byte
  BY DEF Word, Byte
<1> QED BY <1>1, WriteKeepsMachine DEF StateOK, bus, SerialFlush, Kept

LEMMA FetchType ==
  ASSUME StateOK
  PROVE  /\ opcode \in Byte /\ imm8 \in Byte /\ imm16 \in Word
         /\ next_pc \in Word
         /\ \A a : Read8(bus, a) \in Byte /\ Read16(bus, a) \in Word
<1>1. \A a : Read8(bus, a) \in Byte /\ Read16(bus, a) \in Word
  BY FlushKeeps, ReadType DEF Kept
<1>2. next_pc \in Word
  BY U16Type DEF next_pc, StateOK, CpuState, Word
<1> QED BY <1>1, <1>2 DEF opcode, imm8, imm16

LEMMA U16OfInt == ASSUME NEW n \in Int PROVE U16(n) \in Word
BY DEF U16, Word

LEMMA AdvanceType ==
  ASSUME StateOK, NEW n \in Nat
  PROVE  Advance(n) \in CpuState /\ Advance(n).PC = U16(cpu.PC + n)
<1>1. U16(cpu.PC + n) \in Word
  BY U16OfInt DEF StateOK, CpuState, Word
<1> QED BY <1>1 DEF StateOK, CpuState, Advance

LEMMA PairsType ==
  ASSUME StateOK PROVE BC \in Word /\ DE \in Word /\ HL \in Word /\ AF \in Word
BY PairType DEF StateOK, CpuState, BC, DE, HL, AF

LEMMA OperandType ==
  ASSUME StateOK, NEW i \in Nat, i < 8 PROVE Operand(i) \in Byte
<1>1. CASE i = 6
  BY <1>1, FetchType DEF Operand
<1>2. CASE i # 6
  <2>1. Registers[i + 1] \in {"B", "C", "D", "E", "H", "L", "A"}
    BY <1>2 DEF Registers
  <2> QED BY <1>2, <2>1 DEF Operand, StateOK, CpuState
<1> QED BY <1>1, <1>2

LEMMA BecomeOK ==
  ASSUME StateOK, NEW c \in CpuState, NEW m, Kept(m, bus), Become(c, m)
  PROVE  StepOK
BY DEF Become, StepOK

LEMMA BusKept == ASSUME StateOK PROVE Kept(bus, bus)
BY FlushKeeps DEF Kept

LEMMA KeepOK == ASSUME StateOK, NEW c \in CpuState, Keep(c) PROVE StepOK
BY BusKept DEF Keep, Become, StepOK

LEMMA StoppingOK == ASSUME StateOK, NEW c \in CpuState, Stopping(c) PROVE StepOK
BY BusKept DEF Stopping, StepOK

LEMMA Store8OK ==
  ASSUME StateOK, NEW c \in CpuState, NEW a \in Word, NEW v \in Byte,
         Become(c, bus_write_8_bit(a, v, bus))
  PROVE  StepOK
<1>1. Sound(bus)
  BY FlushKeeps DEF Kept
<1>2. Kept(bus_write_8_bit(a, v, bus), bus)
  BY <1>1, WriteKeepsMachine
<1> QED BY <1>2, BecomeOK

LEMMA Store16OK ==
  ASSUME StateOK, NEW c \in CpuState, NEW a \in Word, NEW v \in Word,
         Become(c, bus_write_16_bit(a, v, bus))
  PROVE  StepOK
<1>1. Sound(bus)
  BY FlushKeeps DEF Kept
<1>2. Kept(bus_write_16_bit(a, v, bus), bus)
  BY <1>1, Write16KeepsMachine
<1> QED BY <1>2, BecomeOK

LEMMA SetOperandOK ==
  ASSUME StateOK, NEW c \in CpuState, NEW i \in Nat, i < 8, NEW v \in Byte,
         SetOperand(c, i, v)
  PROVE  StepOK
<1>1. CASE i = 6
  BY <1>1, Store8OK, PairsType DEF SetOperand
<1>2. CASE i # 6
  <2>1. Registers[i + 1] \in {"B", "C", "D", "E", "H", "L", "A"}
    BY <1>2 DEF Registers
  <2>2. ASSUME NEW r \in {"B", "C", "D", "E", "H", "L", "A"}
        PROVE  [c EXCEPT ![r] = v] \in CpuState
    BY DEF CpuState
  <2> QED BY <1>2, <2>1, <2>2, KeepOK DEF SetOperand
<1> QED BY <1>1, <1>2

LEMMA HalvesType == ASSUME NEW w \in Word PROVE High(w) \in Byte /\ Low(w) \in Byte
BY DEF High, Low, Word, Byte

LEMMA SetPairType ==
  ASSUME NEW c \in CpuState, NEW i \in Nat, i < 4, NEW w \in Word
  PROVE  SetPair(c, i, w) \in CpuState
<1>1. CASE i = 0
  BY <1>1, HalvesType DEF SetPair, CpuState
<1>2. CASE i = 1
  BY <1>2, HalvesType DEF SetPair, CpuState
<1>3. CASE i = 2
  BY <1>3, HalvesType DEF SetPair, CpuState
<1>4. CASE i = 3
  BY <1>4 DEF SetPair, CpuState
<1> QED BY <1>1, <1>2, <1>3, <1>4

LEMMA PairValueType ==
  ASSUME StateOK, NEW i \in Nat, i < 4 PROVE PairValue(i) \in Word
<1>1. cpu.SP \in Word
  BY DEF StateOK, CpuState
<1> QED BY <1>1, PairsType DEF PairValue
-----------------------------------------------------------------------------
(* The groups of instructions.                                             *)

LEMMA LoadsOK ==
  ASSUME StateOK,
         Nop \/ LoadPairImmediate \/ LoadImmediate \/ LoadRegister
           \/ StoreStackPointer
  PROVE  StepOK
<1>1. CASE Nop
  BY <1>1, AdvanceType, KeepOK DEF Nop
<1>2. CASE LoadPairImmediate
  <2>1. opcode \div 16 \in Nat /\ opcode \div 16 < 4
    BY <1>2 DEF LoadPairImmediate
  <2>2. SetPair(Advance(3), opcode \div 16, imm16) \in CpuState
    BY <2>1, AdvanceType, FetchType, SetPairType
  <2> QED BY <1>2, <2>2, KeepOK DEF LoadPairImmediate
<1>3. CASE LoadImmediate
  <2>1. opcode \div 8 \in Nat /\ opcode \div 8 < 8
    BY <1>3 DEF LoadImmediate
  <2> QED BY <1>3, <2>1, AdvanceType, FetchType, SetOperandOK DEF LoadImmediate
<1>4. CASE LoadRegister
  <2>1. opcode \in Nat
    BY FetchType DEF Byte
  <2>2. /\ (opcode \div 8) % 8 \in Nat /\ (opcode \div 8) % 8 < 8
        /\ opcode % 8 \in Nat /\ opcode % 8 < 8
    BY <2>1
  <2> QED BY <1>4, <2>2, AdvanceType, OperandType, SetOperandOK DEF LoadRegister
<1>5. CASE StoreStackPointer
  BY <1>5, AdvanceType, FetchType, Store16OK
     DEF StoreStackPointer, StateOK, CpuState
<1> QED BY <1>1, <1>2, <1>3, <1>4, <1>5

\* HL moved by one, and the registers that result.
LEMMA MovedPair ==
  ASSUME StateOK, NEW i \in Nat, i < 4
  PROVE  /\ SetPair(Advance(1), i, U16(PairValue(i) + 1)) \in CpuState
         /\ SetPair(Advance(1), i, U16(PairValue(i) - 1)) \in CpuState
<1>1. U16(PairValue(i) + 1) \in Word /\ U16(PairValue(i) - 1) \in Word
  BY PairValueType, U16OfInt DEF Word
<1> QED BY <1>1, AdvanceType, SetPairType

LEMMA AccumulatorOK ==
  ASSUME StateOK, StoreAccumulator \/ LoadAccumulator PROVE StepOK
<1>1. /\ Advance(1) \in CpuState /\ Advance(2) \in CpuState
      /\ Advance(3) \in CpuState
  BY AdvanceType
<1>2. /\ SetPair(Advance(1), 2, U16(HL + 1)) \in CpuState
      /\ SetPair(Advance(1), 2, U16(HL - 1)) \in CpuState
  <2>1. PairValue(2) = HL
    BY DEF PairValue
  <2> QED BY <2>1, MovedPair
<1>3. cpu.A \in Byte /\ HL \in Word /\ DE \in Word /\ imm16 \in Word
      /\ 65280 + imm8 \in Word
  BY FetchType, PairsType DEF StateOK, CpuState, Byte, Word
<1>4. CASE StoreAccumulator
  <2>1. CASE opcode = 18 /\ Become(Advance(1), bus_write_8_bit(DE, cpu.A, bus))
    BY <1>1, <1>3, <2>1, Store8OK
  <2>2. CASE Become(SetPair(Advance(1), 2, U16(HL + 1)),
                    bus_write_8_bit(HL, cpu.A, bus))
    BY <1>2, <1>3, <2>2, Store8OK
  <2>3. CASE Become(SetPair(Advance(1), 2, U16(HL - 1)),
                    bus_write_8_bit(HL, cpu.A, bus))
    BY <1>2, <1>3, <2>3, Store8OK
  <2>4. CASE Become(Advance(2), bus_write_8_bit(65280 + imm8, cpu.A, bus))
    BY <1>1, <1>3, <2>4, Store8OK
  <2>5. CASE Become(Advance(3), bus_write_8_bit(imm16, cpu.A, bus))
    BY <1>1, <1>3, <2>5, Store8OK
  <2> QED BY <1>4, <2>1, <2>2, <2>3, <2>4, <2>5 DEF StoreAccumulator
<1>5. CASE LoadAccumulator
  <2>1. ASSUME NEW c \in CpuState, NEW a, Keep([c EXCEPT !.A = Read8(bus, a)])
        PROVE  StepOK
    <3>1. [c EXCEPT !.A = Read8(bus, a)] \in CpuState
      BY FetchType DEF CpuState
    <3> QED BY <2>1, <3>1, KeepOK
  <2> QED BY <1>1, <1>2, <1>5, <2>1 DEF LoadAccumulator
<1> QED BY <1>4, <1>5

LEMMA StepPairOK == ASSUME StateOK, StepPair PROVE StepOK
<1>1. opcode \div 16 \in Nat /\ opcode \div 16 < 4
  BY DEF StepPair
<1>2. /\ SetPair(Advance(1), opcode \div 16, U16(PairValue(opcode \div 16) + 1))
           \in CpuState
      /\ SetPair(Advance(1), opcode \div 16, U16(PairValue(opcode \div 16) - 1))
           \in CpuState
  BY <1>1, MovedPair
<1> QED BY <1>2, KeepOK DEF StepPair

LEMMA FlagsType == ASSUME StateOK PROVE cpu.A \in Byte /\ cpu.F \in Byte
BY DEF StateOK, CpuState

LEMMA WithFlags ==
  ASSUME NEW c \in CpuState, NEW f \in Byte, NEW a \in Byte
  PROVE  /\ [c EXCEPT !.F = f] \in CpuState
         /\ [c EXCEPT !.A = a, !.F = f] \in CpuState
BY DEF CpuState

LEMMA StepOneOK == ASSUME StateOK, StepRegister \/ StepMemory PROVE StepOK
<1>1. 1 \in Byte
  BY DEF Byte
<1>2. ASSUME NEW x \in Byte
      PROVE  /\ IsOutcome(sm83_add8(x, 1, cpu.F), cpu.F)
             /\ IsOutcome(sm83_sub8(x, 1, cpu.F), cpu.F)
  BY <1>1, FlagsType, AddType, SubtractType
<1>3. CASE StepRegister
  <2> DEFINE i == opcode \div 8
  <2>1. i \in Nat /\ i < 8
    BY <1>3 DEF StepRegister
  <2> DEFINE sum == sm83_add8(Operand(i), 1, cpu.F)
             difference == sm83_sub8(Operand(i), 1, cpu.F)
  <2>2. IsOutcome(sum, cpu.F) /\ IsOutcome(difference, cpu.F)
    BY <1>2, <2>1, OperandType
  <2>3. \/ SetOperand([Advance(1) EXCEPT !.F = sum.F], i, sum.value)
        \/ SetOperand([Advance(1) EXCEPT !.F = difference.F], i, difference.value)
    BY <1>3 DEF StepRegister
  <2> HIDE DEF i, sum, difference
  <2>4. /\ [Advance(1) EXCEPT !.F = sum.F] \in CpuState
        /\ [Advance(1) EXCEPT !.F = difference.F] \in CpuState
        /\ sum.value \in Byte /\ difference.value \in Byte
    BY <2>2, AdvanceType DEF CpuState, IsOutcome
  <2> QED BY <2>1, <2>3, <2>4, SetOperandOK
<1>4. CASE StepMemory
  <2>1. PICK r : /\ IsOutcome(r, cpu.F)
                 /\ Become([Advance(3) EXCEPT !.F = r.F],
                           bus_write_8_bit(imm16, r.value, bus))
    BY <1>2, <1>4, FetchType DEF StepMemory
  <2>2. [Advance(3) EXCEPT !.F = r.F] \in CpuState
    BY <2>1, AdvanceType DEF CpuState, IsOutcome
  <2> QED BY <2>1, <2>2, FetchType, Store8OK DEF IsOutcome
<1> QED BY <1>3, <1>4

LEMMA RotateOK == ASSUME StateOK, RotateAccumulator PROVE StepOK
<1>1. PICK r : /\ IsOutcome(r, cpu.F)
               /\ Keep([Advance(1) EXCEPT !.A = r.value, !.F = r.F])
  BY FlagsType, RotateType DEF RotateAccumulator
<1>2. [Advance(1) EXCEPT !.A = r.value, !.F = r.F] \in CpuState
  BY <1>1, AdvanceType, WithFlags DEF IsOutcome
<1> QED BY <1>1, <1>2, KeepOK

LEMMA AddPairOK == ASSUME StateOK, AddPair \/ LoadStackOffset PROVE StepOK
<1>1. U16(Signed8(imm8)) \in Word
  BY FetchType, U16OfInt DEF Signed8, Byte
<1>2. ASSUME NEW n \in Nat, NEW x \in Word, NEW y \in Word,
             SumToHL(sm83_add16(x, y, cpu.F), n)
      PROVE  StepOK
  <2> DEFINE sum == sm83_add16(x, y, cpu.F)
  <2>1. sum.value \in Word /\ sum.F \in Byte
    BY FlagsType, Add16Type
  <2> HIDE DEF sum
  <2>2. SetPair(Advance(n), 2, sum.value) \in CpuState
    BY <2>1, AdvanceType, SetPairType
  <2>3. [SetPair(Advance(n), 2, sum.value) EXCEPT !.F = sum.F] \in CpuState
    BY <2>1, <2>2 DEF CpuState
  <2> QED BY <1>2, <2>3, KeepOK DEF SumToHL, sum
<1>3. cpu.SP \in Word
  BY DEF StateOK, CpuState
<1> QED BY <1>1, <1>2, <1>3, PairsType DEF AddPair, LoadStackOffset

LEMMA ArithmeticOK ==
  ASSUME StateOK, RegisterArithmetic \/ ImmediateArithmetic PROVE StepOK
<1> DEFINE kind == (opcode \div 8) % 8
<1>1. opcode \in Nat
  BY FetchType DEF Byte
<1>2. kind \in {0, 1, 2, 4, 5, 6, 7}
  BY <1>1 DEF RegisterArithmetic, ImmediateArithmetic
<1>3. ASSUME NEW c \in CpuState, NEW y \in Byte, Accumulate(c, y) PROVE StepOK
  <2> DEFINE r == Arithmetic(kind, y)
  <2>1. r.value \in Byte /\ r.F \in Byte
    <3>1. /\ IsOutcome(sm83_add8(cpu.A, y, ClearCarry(cpu.F)), ClearCarry(cpu.F))
          /\ IsOutcome(sm83_add8(cpu.A, y, cpu.F), cpu.F)
          /\ IsOutcome(sm83_sub8(cpu.A, y, cpu.F), cpu.F)
      BY FlagsType, ClearCarryType, AddType, SubtractType
    <3>2. /\ IsOutcome(sm83_and8(cpu.A, y, cpu.F), cpu.F)
          /\ IsOutcome(sm83_or8(cpu.A, y, cpu.F), cpu.F)
          /\ IsOutcome(sm83_xor8(cpu.A, y, cpu.F), cpu.F)
      BY FlagsType, LogicalType
    <3>3. /\ [sm83_sub8(cpu.A, y, cpu.F) EXCEPT !.value = cpu.A].value = cpu.A
          /\ [sm83_sub8(cpu.A, y, cpu.F) EXCEPT !.value = cpu.A].F
               = sm83_sub8(cpu.A, y, cpu.F).F
      BY DEF sm83_sub8, Outcome
    <3> HIDE DEF kind
    <3> QED BY <1>2, <3>1, <3>2, <3>3, FlagsType DEF Arithmetic, IsOutcome
  <2>2. Keep([c EXCEPT !.A = r.value, !.F = r.F])
    BY <1>3 DEF Accumulate
  <2> HIDE DEF r
  <2> QED BY <2>1, <2>2, WithFlags, KeepOK
<1>4. opcode % 8 \in Nat /\ opcode % 8 < 8
  BY <1>1
<1> HIDE DEF kind
<1>5. CASE RegisterArithmetic
  BY <1>3, <1>4, <1>5, AdvanceType, OperandType DEF RegisterArithmetic
<1>6. CASE ImmediateArithmetic
  BY <1>3, <1>6, AdvanceType, FetchType DEF ImmediateArithmetic
<1> QED BY <1>5, <1>6

LEMMA CompareImmediateOK == ASSUME StateOK, CompareImmediate PROVE StepOK
<1>1. PICK z \in {0, 1}, h \in {0, 1} :
        Keep([Advance(2) EXCEPT !.F = SetFlags(@, z, 1, h, 0)])
  BY FlagType DEF CompareImmediate
<1>2. Advance(2) \in CpuState /\ Advance(2).F \in Byte
  BY AdvanceType DEF CpuState
<1>3. [Advance(2) EXCEPT !.F = SetFlags(@, z, 1, h, 0)] \in CpuState
  BY <1>2, SetFlagsType DEF CpuState
<1> QED BY <1>1, <1>3, KeepOK

\* The registers with another program counter.
LEMMA Goes ==
  ASSUME StateOK, NEW n \in Int
  PROVE  [cpu EXCEPT !.PC = U16(n)] \in CpuState
BY U16OfInt DEF StateOK, CpuState

LEMMA JumpsOK == ASSUME StateOK, JumpRelative \/ Jump \/ JumpToHL PROVE StepOK
<1>1. next_pc \in Int /\ Signed8(imm8) \in Int
  BY FetchType DEF Byte, Word, Signed8
<1>2. CASE JumpRelative
  <2>1. CASE UnsequencedJump
    <3>1. PICK base \in {next_pc, next_pc + 1} :
            Keep([cpu EXCEPT !.PC = U16(base + Signed8(imm8))])
      BY <2>1 DEF UnsequencedJump
    <3>2. base + Signed8(imm8) \in Int
      BY <1>1, <3>1
    <3> QED BY <3>1, <3>2, Goes, KeepOK
  <2>2. CASE Keep([cpu EXCEPT !.PC = U16(next_pc + 1 + Signed8(imm8))])
    <3>1. next_pc + 1 + Signed8(imm8) \in Int
      BY <1>1
    <3> QED BY <2>2, <3>1, Goes, KeepOK
  <2>3. CASE Keep(Advance(2)) \/ Keep(Advance(1))
    BY <2>3, AdvanceType, KeepOK
  <2> QED BY <1>2, <2>1, <2>2, <2>3 DEF JumpRelative
<1>3. CASE Jump \/ JumpToHL
  <2>1. /\ [cpu EXCEPT !.PC = imm16] \in CpuState
        /\ [cpu EXCEPT !.PC = HL] \in CpuState
    BY FetchType, PairsType DEF StateOK, CpuState
  <2> QED BY <1>3, <2>1, AdvanceType, KeepOK DEF Jump, JumpToHL
<1> QED BY <1>2, <1>3

LEMMA PushWordOK ==
  ASSUME StateOK, NEW c \in CpuState, NEW w \in Word, PushWord(c, w) PROVE StepOK
<1>1. U16(cpu.SP - 2) \in Word
  BY U16OfInt DEF StateOK, CpuState, Word
<1>2. [c EXCEPT !.SP = U16(cpu.SP - 2)] \in CpuState
  BY <1>1 DEF CpuState
<1> QED BY <1>1, <1>2, Store16OK DEF PushWord

LEMMA CallOK == ASSUME StateOK, Call PROVE StepOK
<1>1. [cpu EXCEPT !.PC = imm16] \in CpuState
  BY FetchType DEF StateOK, CpuState
<1>2. Advance(3) \in CpuState /\ Advance(3).PC \in Word
  BY AdvanceType DEF CpuState
<1> QED BY <1>1, <1>2, PushWordOK, KeepOK DEF Call

LEMMA PoppedType ==
  ASSUME NEW c \in CpuState PROVE Popped(c) \in CpuState
<1>1. U16(c.SP + 2) \in Word
  BY U16OfInt DEF CpuState, Word
<1> QED BY <1>1 DEF Popped, CpuState

LEMMA StackOK == ASSUME StateOK, Return \/ Push \/ Pop PROVE StepOK
<1>0. opcode \in Nat
  BY FetchType DEF Byte
<1>1. /\ cpu \in CpuState /\ Top \in Word
      /\ (opcode \div 16) % 4 \in Nat /\ (opcode \div 16) % 4 < 4
  BY <1>0, FetchType DEF StateOK, Top
<1>2. Popped(cpu) \in CpuState /\ Popped(Advance(1)) \in CpuState
  BY <1>1, AdvanceType, PoppedType
<1>3. CASE Return
  <2>1. [Popped(cpu) EXCEPT !.PC = Top] \in CpuState
    BY <1>1, <1>2 DEF CpuState
  <2> QED BY <1>3, <2>1, AdvanceType, KeepOK DEF Return
<1>4. CASE Push
  BY <1>1, <1>4, AdvanceType, PairValueType, PairsType, PushWordOK DEF Push
<1>5. CASE Pop
  <2>1. [Popped(Advance(1)) EXCEPT !.A = High(Top), !.F = Low(Top)] \in CpuState
    BY <1>1, <1>2, HalvesType, WithFlags
  <2>2. SetPair(Popped(Advance(1)), (opcode \div 16) % 4, Top) \in CpuState
    BY <1>1, <1>2, SetPairType
  <2> QED BY <1>5, <2>1, <2>2, KeepOK DEF Pop
<1> QED BY <1>3, <1>4, <1>5

LEMMA PrefixedOK == ASSUME StateOK, Prefixed PROVE StepOK
<1> DEFINE i == imm8 % 8
           x == Operand(i)
<1>1. i \in Nat /\ i < 8
  BY FetchType DEF Byte
<1>2. x \in Byte
  BY <1>1, OperandType
<1>3. /\ IsOutcome(sm83_rotate_right(x, cpu.F), cpu.F)
      /\ IsOutcome(sm83_swap(x, cpu.F), cpu.F)
      /\ IsOutcome(Outcome(x \div 2, cpu.F), cpu.F)
  BY <1>2, FlagsType, RotateType
<1>4. PICK r : /\ r \in {sm83_rotate_right(x, cpu.F), sm83_swap(x, cpu.F),
                         Outcome(x \div 2, cpu.F)}
               /\ SetOperand([Advance(2) EXCEPT !.F = r.F], i, r.value)
  <2>1. imm8 \in 24 .. 29 \/ imm8 \in 48 .. 55 \/ imm8 \in 56 .. 63
    BY DEF Prefixed, PrefixedOpcodes
  <2> QED BY <2>1 DEF Prefixed
<1> HIDE DEF i, x
<1>5. r.value \in Byte /\ r.F \in Byte
  BY <1>3, <1>4 DEF IsOutcome
<1>6. [Advance(2) EXCEPT !.F = r.F] \in CpuState
  BY <1>5, AdvanceType DEF CpuState
<1> QED BY <1>1, <1>4, <1>5, <1>6, SetOperandOK

LEMMA ControlOK ==
  ASSUME StateOK, DisableInterrupts \/ EnableInterrupts \/ Stop \/ Illegal
  PROVE  StepOK
<1>1. Advance(1) \in CpuState /\ Advance(2) \in CpuState
  BY AdvanceType
<1>2. /\ [Advance(1) EXCEPT !.IME = 0] \in CpuState
      /\ [Advance(1) EXCEPT !.IME = 255] \in CpuState
  BY <1>1 DEF CpuState, Byte
<1> QED BY <1>1, <1>2, KeepOK, StoppingOK
        DEF DisableInterrupts, EnableInterrupts, Stop, Illegal

LEMMA ExecuteOK == ASSUME StateOK, Execute PROVE StepOK
BY LoadsOK, AccumulatorOK, StepPairOK, StepOneOK, RotateOK, AddPairOK,
   ArithmeticOK, CompareImmediateOK, JumpsOK, CallOK, StackOK, PrefixedOK,
   ControlOK DEF Execute

-----------------------------------------------------------------------------
(* The clock.                                                              *)

\* Without a program at hand, the copy of IME is what is left to say: while
\* an instruction waits, the last cycle has made it.
CopyMade == executing => Read8(machine, 65535) = cpu.IME

IInv ==
  /\ StateOK
  /\ status \in {"running", "stopped", "crashed"}
  /\ executing \in BOOLEAN
  /\ executing => remaining \in Nat /\ remaining > 0 /\ remaining < 6
  /\ ~executing => remaining = 0
  /\ CopyMade

LEMMA CyclesTable ==
  /\ \A i \in 1 .. 64 : LowCycles[i] \in 1 .. 6
  /\ \A i \in 1 .. 64 : HighCycles[i] \in 1 .. 6
<1>1. \A i \in 1 .. 64 : LowCycles[i] \in 1 .. 6
  BY DEF LowCycles
<1>2. \A i \in 1 .. 64 : HighCycles[i] \in 1 .. 6
  BY DEF HighCycles
<1> QED BY <1>1, <1>2

LEMMA OpcodeCyclesType == ASSUME NEW op \in Byte PROVE opcode_cycles(op) \in 1 .. 6
<1>1. CASE op < 64
  BY <1>1, CyclesTable DEF opcode_cycles, Byte
<1>2. CASE op >= 192
  BY <1>2, CyclesTable DEF opcode_cycles, Byte
<1>3. CASE op >= 64 /\ op < 192
  BY <1>3 DEF opcode_cycles, Byte
<1> QED BY <1>1, <1>2, <1>3 DEF Byte

LEMMA LeastElement ==
  ASSUME NEW T, T \subseteq Nat, T # {}
  PROVE  \E x \in T : \A y \in T : x <= y
<1>1. PICK x \in T : \A y \in T : ~ (<<y, x>> \in OpToRel(<, Nat))
  BY WFMin, NatLessThanWellFounded
<1>2. \A y \in T : ~(y < x)
  BY <1>1 DEF OpToRel
<1> QED BY <1>2

LEMMA TimeType == ASSUME StateOK PROVE get_execution_time \in 1 .. 6
<1> DEFINE op == Read8(machine, cpu.PC)
           reached == {j \in DOMAIN ConditionalTimes :
                         /\ \E e \in 1 .. j : EntersAt(op, e)
                         /\ Condition(ConditionalTimes[j][2])}
           first == CHOOSE j \in reached : \A k \in reached : j <= k
<1>1. op \in Byte
  BY ReadType DEF StateOK
<1>2. \A j \in DOMAIN ConditionalTimes : ConditionalTimes[j][3] \in 1 .. 6
  BY DEF ConditionalTimes
<1>3. CASE reached = {}
  BY <1>1, <1>3, OpcodeCyclesType DEF get_execution_time
<1>4. CASE reached # {}
  <2>1. \E j \in reached : \A k \in reached : j <= k
    <3>1. DOMAIN ConditionalTimes = 1 .. 12
      BY DEF ConditionalTimes
    <3>2. reached \subseteq Nat
      BY <3>1
    <3> HIDE DEF reached
    <3> QED BY <1>4, <3>2, LeastElement
  <2>2. first \in reached
    BY <2>1
  <2>3. get_execution_time = ConditionalTimes[first][3]
    BY <1>4 DEF get_execution_time
  <2> QED BY <1>2, <2>2, <2>3
<1> QED BY <1>3, <1>4

LEMMA CyclesLeftType ==
  ASSUME IInv
  PROVE  /\ CyclesLeft \in Nat /\ CyclesLeft < 6
         /\ CyclesLeft = IF executing THEN remaining - 1 ELSE get_execution_time - 1
<1>1. CASE executing
  <2>1. remaining \in Nat /\ remaining > 0 /\ remaining < 6
    BY <1>1 DEF IInv
  <2> QED BY <1>1, <2>1 DEF CyclesLeft, U8
<1>2. CASE ~executing
  <2>1. get_execution_time \in 1 .. 6
    BY TimeType DEF IInv
  <2> QED BY <1>2, <2>1 DEF CyclesLeft, U8
<1> QED BY <1>1, <1>2

LEMMA WaitOK == ASSUME IInv, WaitCycle PROVE IInv' /\ Kept(machine', machine)
<1>1. /\ 65535 \in Word /\ ~OnCartridge(65535)
      /\ cpu.IME \in Byte /\ Sound(machine)
  BY DEF IInv, StateOK, CpuState, Word, OnCartridge, bus_address_in_rom,
         bus_address_in_external_ram
<1>2. Kept(machine', machine)
  BY <1>1, WriteKeepsMachine DEF WaitCycle
<1>3. Read8(machine, 65535)' = cpu'.IME
  BY <1>1, WritePlain DEF WaitCycle
<1>4. CyclesLeft \in Nat /\ CyclesLeft > 0 /\ CyclesLeft < 6
  BY CyclesLeftType DEF WaitCycle
<1> QED BY <1>2, <1>3, <1>4 DEF WaitCycle, IInv, StateOK, CopyMade, Kept

LEMMA FinalOK == ASSUME IInv, FinalCycle PROVE IInv' /\ Kept(machine', machine)
<1>1. StepOK
  BY ExecuteOK DEF IInv, FinalCycle
<1>2. StateOK'
  BY <1>1 DEF StepOK, StateOK, Kept
<1>3. status' \in {"running", "stopped", "crashed"} /\ Kept(machine', machine)
  BY <1>1, FlushKeeps DEF StepOK, Kept, IInv
<1>4. executing' \in BOOLEAN /\ ~executing' /\ remaining' = 0
  BY DEF FinalCycle
<1> QED BY <1>2, <1>3, <1>4 DEF IInv, CopyMade

LEMMA InitInvariant ==
  Init => IInv /\ machine.cartridge_rom \in Cartridges
<1> SUFFICES ASSUME Init PROVE IInv /\ machine.cartridge_rom \in Cartridges
  OBVIOUS
<1>1. Sound(machine) /\ machine.cartridge_rom \in Cartridges
  BY PowerOnSound, CartridgesAssumption DEF Init
<1>2. cpu \in CpuState
  BY DEF Init, InitialRegisters, CpuState, Byte, Word
<1>3. status = "running" /\ executing \in BOOLEAN /\ ~executing /\ remaining = 0
  BY DEF Init
<1> QED BY <1>1, <1>2, <1>3 DEF IInv, StateOK, CopyMade

LEMMA NextInvariant ==
  IInv /\ [Tick]_vars => IInv' /\ Kept(machine', machine)
<1> SUFFICES ASSUME IInv, [Tick]_vars PROVE IInv' /\ Kept(machine', machine)
  OBVIOUS
<1>1. CASE NullFetch
  BY <1>1 DEF NullFetch, IInv, StateOK, CopyMade, Kept
<1>2. CASE UNCHANGED vars
  BY <1>2 DEF vars, IInv, StateOK, CopyMade, Kept
<1> QED BY <1>1, <1>2, WaitOK, FinalOK DEF Tick

LEMMA Invariance == Spec => []IInv
<1>1. Init => IInv
  BY InitInvariant
<1>2. IInv /\ [Tick]_vars => IInv'
  BY NextInvariant
<1> QED BY <1>1, <1>2, PTL DEF Spec

-----------------------------------------------------------------------------
(* The theorems.                                                           *)

\* Whatever the program, the registers and memories keep to their widths.
THEOREM TypeCorrect == Spec => []TypeOK
<1>1. IInv => TypeOK
  BY DEF IInv, StateOK, Sound, Locked, TypeOK
<1> QED BY <1>1, Invariance, PTL

\* Whatever the program, each pointer the bus hands out can be dereferenced,
\* by a 16-bit read too, and the ROM's bank 0 stays where it is.
ReadsAreSafe ==
  machine.memory_controller # "NONE" =>
    \A addr \in Word :
      /\ InBounds(machine, bus_read(addr, machine))
      /\ addr < ROM_BANK_SIZE => Read8(machine, addr) = RomByte(machine, addr)

THEOREM ProgramsReadSafely == Spec => []ReadsAreSafe
<1>1. IInv => ReadsAreSafe
  BY PointersInBounds, ReadBelowWindow DEF IInv, StateOK, ReadsAreSafe
<1> QED BY <1>1, Invariance, PTL

\* The opcodes that read memory take more than one cycle.
LEMMA ReadersTakeTime ==
  /\ \A op \in ReadsMemory : op # 0 /\ opcode_cycles(op) # 1
  /\ \A j \in DOMAIN ConditionalTimes : ConditionalTimes[j][3] # 1
<1>1. ASSUME NEW op \in ReadsMemory PROVE op # 0 /\ opcode_cycles(op) # 1
  BY DEF ReadsMemory, opcode_cycles, LowCycles, HighCycles
<1>2. \A j \in DOMAIN ConditionalTimes : ConditionalTimes[j][3] # 1
  BY DEF ConditionalTimes
<1> QED BY <1>1, <1>2

LEMMA ReadersWaited ==
  ASSUME IInv, FinalCycle, opcode \in ReadsMemory PROVE executing
<1> SUFFICES ASSUME ~executing PROVE FALSE
  OBVIOUS
<1>1. get_execution_time = 1
  <2>1. get_execution_time \in 1 .. 6
    BY TimeType DEF IInv
  <2> QED BY <2>1, CyclesLeftType DEF FinalCycle
<1>2. Read8(machine, cpu.PC) = opcode
  <2>1. CASE bus = machine
    BY <2>1 DEF opcode
  <2>2. CASE bus # machine
    <3>1. bus = bus_write_8_bit(65282, 0, machine)
          /\ Read8(machine, 65282) = 129
      BY <2>2 DEF bus, SerialFlush
    <3>2. 65282 \in Word /\ ~OnCartridge(65282) /\ 0 \in Byte
      BY DEF Word, Byte, OnCartridge, bus_address_in_rom,
             bus_address_in_external_ram
    <3>3. opcode = IF cpu.PC = 65282 THEN 0 ELSE Read8(machine, cpu.PC)
      BY <3>1, <3>2, WritePlain DEF opcode, IInv, StateOK, CpuState
    <3> QED BY <3>3, ReadersTakeTime
  <2> QED BY <2>1, <2>2
<1> DEFINE reached == {j \in DOMAIN ConditionalTimes :
                         /\ \E e \in 1 .. j : EntersAt(opcode, e)
                         /\ Condition(ConditionalTimes[j][2])}
           first == CHOOSE j \in reached : \A k \in reached : j <= k
<1>3. CASE reached = {}
  <2>1. get_execution_time = opcode_cycles(opcode)
    BY <1>2, <1>3 DEF get_execution_time
  <2> QED BY <1>1, <2>1, ReadersTakeTime
<1>4. CASE reached # {}
  <2>1. get_execution_time = ConditionalTimes[first][3]
    BY <1>2, <1>4 DEF get_execution_time
  <2>2. first \in reached
    <3>1. DOMAIN ConditionalTimes = 1 .. 12
      BY DEF ConditionalTimes
    <3>2. reached \subseteq Nat
      BY <3>1
    <3> HIDE DEF reached
    <3> QED BY <1>4, <3>2, LeastElement
  <2> QED BY <1>1, <2>1, <2>2, ReadersTakeTime
<1> QED BY <1>3, <1>4

\* The registers and memories change as if there were no clock, for every
\* program.
THEOREM ClockIsInvisible == Spec => ImplementsUntimed
<1>1. Init => UntimedInit
  BY DEF Init, UntimedInit, Machines
<1>2. ASSUME IInv, [Tick]_vars PROVE [UntimedNext]_untimedVars
  <2>1. CASE NullFetch /\ status = "running"
    BY <2>1 DEF NullFetch, UntimedNext, Lost
  <2>2. CASE WaitCycle /\ status = "running"
    BY <2>2 DEF WaitCycle, UntimedNext, CopyIME
  <2>3. CASE FinalCycle /\ status = "running"
    <3>1. opcode \in ReadsMemory => Read8(machine, 65535) = cpu.IME
      BY <1>2, <2>3, ReadersWaited DEF IInv, CopyMade
    <3> QED BY <2>3, <3>1 DEF FinalCycle, UntimedNext, Instruction
  <2>4. CASE UNCHANGED vars
    BY <2>4 DEF vars, untimedVars
  <2> QED BY <1>2, <2>1, <2>2, <2>3, <2>4 DEF Tick
<1> QED BY <1>1, <1>2, Invariance, PTL DEF Spec, ImplementsUntimed, UntimedSpec

LEMMA OnlyLoads ==
  ASSUME Execute, opcode \in {26, 42, 126, 240, 250}
  PROVE  \/ opcode \in {26, 42, 240, 250} /\ LoadAccumulator
         \/ opcode = 126 /\ LoadRegister
<1>1. ~(Nop \/ LoadPairImmediate \/ LoadImmediate \/ StoreStackPointer
          \/ StoreAccumulator)
  BY DEF Nop, LoadPairImmediate, LoadImmediate, StoreStackPointer,
         StoreAccumulator
<1>2. ~(StepPair \/ StepRegister \/ StepMemory \/ RotateAccumulator \/ AddPair
          \/ LoadStackOffset)
  BY DEF StepPair, StepRegister, StepMemory, RotateAccumulator, AddPair,
         LoadStackOffset
<1>3. ~(RegisterArithmetic \/ ImmediateArithmetic \/ CompareImmediate)
  BY DEF RegisterArithmetic, ImmediateArithmetic, CompareImmediate
<1>4. ~(JumpRelative \/ Jump \/ JumpToHL \/ Call \/ Return \/ Push \/ Pop)
  BY DEF JumpRelative, Jump, JumpToHL, Call, Return, Push, Pop
<1>5. ~(Prefixed \/ DisableInterrupts \/ EnableInterrupts \/ Stop \/ Illegal)
  BY DEF Prefixed, DisableInterrupts, EnableInterrupts, Stop, Illegal,
         Unimplemented
<1>6. LoadAccumulator => opcode # 126
  BY DEF LoadAccumulator
<1>7. LoadRegister => opcode \notin {26, 42, 240, 250}
  BY DEF LoadRegister
<1> QED BY <1>1, <1>2, <1>3, <1>4, <1>5, <1>6, <1>7 DEF Execute

\* What such an instruction leaves in A.
LEMMA LoadedA ==
  ASSUME StateOK, Execute, opcode \in {26, 42, 126, 240, 250}
  PROVE  cpu'.A = Read8(bus, LoadAddress)
<1>1. ASSUME NEW c \in CpuState, NEW v, Keep([c EXCEPT !.A = v])
      PROVE  cpu'.A = v
  BY <1>1 DEF Keep, Become, CpuState
<1>2. CASE opcode \in {26, 42, 240, 250} /\ LoadAccumulator
  <2>1. /\ Advance(1) \in CpuState /\ Advance(2) \in CpuState
        /\ Advance(3) \in CpuState
    BY AdvanceType
  <2>2. SetPair(Advance(1), 2, U16(HL + 1)) \in CpuState
    <3>1. PairValue(2) = HL
      BY DEF PairValue
    <3> QED BY <3>1, MovedPair
  <2>3. CASE opcode = 26 /\ Keep([Advance(1) EXCEPT !.A = Read8(bus, DE)])
    BY <1>1, <2>1, <2>3 DEF LoadAddress
  <2>4. CASE opcode = 42 /\ Keep([SetPair(Advance(1), 2, U16(HL + 1))
                                    EXCEPT !.A = Read8(bus, HL)])
    BY <1>1, <2>2, <2>4 DEF LoadAddress
  <2>5. CASE opcode = 240 /\ Keep([Advance(2) EXCEPT !.A = Read8(bus, 65280 + imm8)])
    BY <1>1, <2>1, <2>5 DEF LoadAddress
  <2>6. CASE opcode = 250 /\ Keep([Advance(3) EXCEPT !.A = Read8(bus, imm16)])
    BY <1>1, <2>1, <2>6 DEF LoadAddress
  <2> QED BY <1>2, <2>3, <2>4, <2>5, <2>6 DEF LoadAccumulator
<1>3. CASE opcode = 126 /\ LoadRegister
  <2>1. (opcode \div 8) % 8 = 7 /\ opcode % 8 = 6
    BY <1>3
  <2>2. SetOperand(Advance(1), 7, Operand(6))
    BY <1>3, <2>1 DEF LoadRegister
  <2>3. Registers[8] = "A"
    BY DEF Registers
  <2>4. Keep([Advance(1) EXCEPT !.A = Read8(bus, HL)])
    BY <2>2, <2>3 DEF SetOperand, Operand
  <2> QED BY <1>1, <1>3, <2>4, AdvanceType DEF LoadAddress
<1> QED BY <1>2, <1>3, OnlyLoads

LEMMA LoadSeesIME ==
  ASSUME IInv, FinalCycle, opcode \in {26, 42, 126, 240, 250}, LoadAddress = 65535
  PROVE  cpu'.A = cpu.IME
<1>1. Read8(machine, 65535) = cpu.IME
  BY ReadersWaited DEF ReadsMemory, IInv, CopyMade
<1>2. Read8(bus, 65535) = Read8(machine, 65535)
  <2>1. /\ 65282 \in Word /\ ~OnCartridge(65282) /\ 0 \in Byte
        /\ 65535 \in Word
    BY DEF Word, Byte, OnCartridge, bus_address_in_rom,
           bus_address_in_external_ram
  <2> QED BY <2>1, WritePlain DEF bus, SerialFlush, IInv, StateOK
<1>3. cpu'.A = Read8(bus, LoadAddress)
  <2>1. StateOK /\ Execute
    BY DEF IInv, FinalCycle
  <2> QED BY <2>1, LoadedA
<1> QED BY <1>1, <1>2, <1>3

\* A program that loads the byte at 0xFFFF always gets IME.
THEOREM LoadsAlwaysSeeIME == Spec => LoadsSeeIME
<1> DEFINE A == FinalCycle /\ opcode \in {26, 42, 126, 240, 250}
                  /\ LoadAddress = 65535 => cpu'.A = cpu.IME
<1>1. IInv /\ [Tick]_vars => [A]_vars
  BY LoadSeesIME
<1> QED BY <1>1, Invariance, PTL DEF Spec, LoadsSeeIME

-----------------------------------------------------------------------------
(* How far an instruction goes.                                            *)

\* The program counter is past an instruction of n bytes.
Past(n) == cpu'.PC = U16(cpu.PC + n)

\* It is where an instruction that does not jump leads.
Skips == Past(IF EntersOperand(opcode) THEN 1 ELSE Length(opcode))

LEMMA PairKeepsCounter ==
  ASSUME NEW c \in CpuState, NEW i \in Nat, i < 4, NEW w
  PROVE  SetPair(c, i, w).PC = c.PC
BY DEF SetPair, CpuState

LEMMA AccumulatorKeepsCounter ==
  ASSUME NEW c \in CpuState, NEW a, NEW f
  PROVE  /\ [c EXCEPT !.A = a].PC = c.PC
         /\ [c EXCEPT !.F = f].PC = c.PC
         /\ [c EXCEPT !.A = a, !.F = f].PC = c.PC
BY DEF CpuState

LEMMA OperandKeepsCounter ==
  ASSUME NEW c \in CpuState, NEW i \in Nat, i < 8, NEW v, SetOperand(c, i, v)
  PROVE  cpu'.PC = c.PC
<1>1. CASE i = 6
  BY <1>1 DEF SetOperand, Become
<1>2. CASE i # 6
  <2>1. Registers[i + 1] \in {"B", "C", "D", "E", "H", "L", "A"}
    BY <1>2 DEF Registers
  <2>2. ASSUME NEW r \in {"B", "C", "D", "E", "H", "L", "A"}
        PROVE  [c EXCEPT ![r] = v].PC = c.PC
    BY DEF CpuState
  <2> QED BY <1>2, <2>1, <2>2 DEF SetOperand, Keep, Become
<1> QED BY <1>1, <1>2

LEMMA LoadsSkip ==
  ASSUME StateOK,
         Nop \/ LoadPairImmediate \/ LoadImmediate \/ LoadRegister
           \/ StoreStackPointer
  PROVE  Past(Length(opcode))
<1>0. \A n \in Nat : Advance(n) \in CpuState /\ Advance(n).PC = U16(cpu.PC + n)
  BY AdvanceType
<1>1. CASE Nop
  BY <1>0, <1>1 DEF Nop, Keep, Become, Past, Length
<1>2. CASE LoadPairImmediate
  <2>1. opcode \div 16 \in Nat /\ opcode \div 16 < 4 /\ Length(opcode) = 3
    BY <1>2 DEF LoadPairImmediate, Length
  <2> QED BY <1>0, <1>2, <2>1, PairKeepsCounter
          DEF LoadPairImmediate, Keep, Become, Past
<1>3. CASE LoadImmediate
  <2>1. opcode \div 8 \in Nat /\ opcode \div 8 < 8 /\ Length(opcode) = 2
    BY <1>3 DEF LoadImmediate, Length
  <2> QED BY <1>0, <1>3, <2>1, OperandKeepsCounter DEF LoadImmediate, Past
<1>4. CASE LoadRegister
  <2>1. opcode \in Nat
    BY FetchType DEF Byte
  <2>2. (opcode \div 8) % 8 \in Nat /\ (opcode \div 8) % 8 < 8
    BY <2>1
  <2>3. Length(opcode) = 1
    BY <1>4 DEF LoadRegister, Length
  <2> QED BY <1>0, <1>4, <2>2, <2>3, OperandKeepsCounter DEF LoadRegister, Past
<1>5. CASE StoreStackPointer
  BY <1>0, <1>5 DEF StoreStackPointer, Become, Past, Length
<1> QED BY <1>1, <1>2, <1>3, <1>4, <1>5

LEMMA MovesSkip ==
  ASSUME StateOK,
         StoreAccumulator \/ LoadAccumulator \/ StepPair \/ AddPair
           \/ LoadStackOffset
  PROVE  Past(Length(opcode))
<1>0. \A n \in Nat : Advance(n) \in CpuState /\ Advance(n).PC = U16(cpu.PC + n)
  BY AdvanceType
<1>1. \A n \in Nat, i \in Nat : \A w :
        i < 4 => SetPair(Advance(n), i, w).PC = U16(cpu.PC + n)
  BY <1>0, PairKeepsCounter
<1>2. CASE StoreAccumulator
  BY <1>0, <1>1, <1>2 DEF StoreAccumulator, Become, Past, Length
<1>3. CASE LoadAccumulator
  <2>1. ASSUME NEW c \in CpuState, NEW n \in Nat, c.PC = U16(cpu.PC + n), NEW v,
               Keep([c EXCEPT !.A = v])
        PROVE  Past(n)
    BY <2>1, AccumulatorKeepsCounter DEF Keep, Become, Past
  <2>2. SetPair(Advance(1), 2, U16(HL + 1)) \in CpuState
    <3>1. PairValue(2) = HL
      BY DEF PairValue
    <3> QED BY <3>1, MovedPair
  <2>3. opcode = 42 => Past(1)
    <3> SUFFICES ASSUME opcode = 42 PROVE Past(1)
      OBVIOUS
    <3> DEFINE c == SetPair(Advance(1), 2, U16(HL + 1))
    <3>1. Keep([c EXCEPT !.A = Read8(bus, HL)])
      BY <1>3 DEF LoadAccumulator
    <3>2. c.PC = U16(cpu.PC + 1)
      BY <1>1
    <3> HIDE DEF c
    <3>3. c \in CpuState
      BY <2>2 DEF c
    <3> QED BY <2>1, <3>1, <3>2, <3>3
  <2>4. opcode = 26 => Past(1)
    BY <1>0, <1>3, <2>1 DEF LoadAccumulator
  <2>5. opcode = 240 => Past(2)
    BY <1>0, <1>3, <2>1 DEF LoadAccumulator
  <2>6. opcode = 250 => Past(3)
    BY <1>0, <1>3, <2>1 DEF LoadAccumulator
  <2> QED BY <1>3, <2>3, <2>4, <2>5, <2>6 DEF LoadAccumulator, Length
<1>4. CASE StepPair
  <2>1. opcode \div 16 \in Nat /\ opcode \div 16 < 4 /\ Length(opcode) = 1
    BY <1>4 DEF StepPair, Length
  <2> QED BY <1>1, <1>4, <2>1 DEF StepPair, Keep, Become, Past
<1>5. CASE AddPair \/ LoadStackOffset
  <2>1. ASSUME NEW x \in Word, NEW y \in Word, NEW n \in Nat,
               SumToHL(sm83_add16(x, y, cpu.F), n)
        PROVE  Past(n)
    <3> DEFINE sum == sm83_add16(x, y, cpu.F)
    <3>1. sum.value \in Word
      BY FlagsType, Add16Type
    <3>2. cpu' = [SetPair(Advance(n), 2, sum.value) EXCEPT !.F = sum.F]
      BY <2>1 DEF SumToHL, Keep, Become
    <3> HIDE DEF sum
    <3>3. SetPair(Advance(n), 2, sum.value) \in CpuState
      BY <1>0, <3>1, SetPairType
    <3>4. SetPair(Advance(n), 2, sum.value).PC = U16(cpu.PC + n)
      BY <1>1
    <3>5. cpu'.PC = SetPair(Advance(n), 2, sum.value).PC
      BY <3>2, <3>3, AccumulatorKeepsCounter
    <3> QED BY <3>4, <3>5 DEF Past
  <2>2. /\ HL \in Word /\ DE \in Word /\ cpu.SP \in Word
        /\ U16(Signed8(imm8)) \in Word
    BY PairsType, FetchType, U16OfInt DEF StateOK, CpuState, Signed8, Byte
  <2>3. AddPair => opcode \in {25, 41} /\ Past(1)
    BY <2>1, <2>2 DEF AddPair
  <2>4. LoadStackOffset => opcode = 248 /\ Past(2)
    BY <2>1, <2>2 DEF LoadStackOffset
  <2> QED BY <1>5, <2>3, <2>4 DEF Length
<1> QED BY <1>2, <1>3, <1>4, <1>5

LEMMA ArithmeticSkips ==
  ASSUME StateOK,
         StepRegister \/ RotateAccumulator \/ RegisterArithmetic
           \/ ImmediateArithmetic \/ CompareImmediate \/ Prefixed
  PROVE  Past(Length(opcode))
<1>0. \A n \in Nat : Advance(n) \in CpuState /\ Advance(n).PC = U16(cpu.PC + n)
  BY AdvanceType
<1>1. CASE StepRegister
  <2>1. opcode \div 8 \in Nat /\ opcode \div 8 < 8 /\ Length(opcode) = 1
    BY <1>1 DEF StepRegister, Length
  <2>2. PICK o : SetOperand([Advance(1) EXCEPT !.F = o.F], opcode \div 8, o.value)
    BY <1>1 DEF StepRegister
  <2>3. /\ IsOutcome(sm83_add8(Operand(opcode \div 8), 1, cpu.F), cpu.F)
        /\ IsOutcome(sm83_sub8(Operand(opcode \div 8), 1, cpu.F), cpu.F)
    <3>1. 1 \in Byte
      BY DEF Byte
    <3> QED BY <2>1, <3>1, OperandType, FlagsType, AddType, SubtractType
  <2>4. PICK f \in Byte :
          \E v : SetOperand([Advance(1) EXCEPT !.F = f], opcode \div 8, v)
    BY <1>1, <2>3 DEF StepRegister, IsOutcome
  <2>5. [Advance(1) EXCEPT !.F = f] \in CpuState
        /\ [Advance(1) EXCEPT !.F = f].PC = U16(cpu.PC + 1)
    BY <1>0 DEF CpuState
  <2> QED BY <2>1, <2>4, <2>5, OperandKeepsCounter DEF Past
<1>2. ASSUME NEW n \in Nat, NEW a, NEW f,
             Keep([Advance(n) EXCEPT !.A = a, !.F = f])
      PROVE  Past(n)
  BY <1>0, <1>2, AccumulatorKeepsCounter DEF Keep, Become, Past
<1>3. CASE RotateAccumulator
  <2>1. Length(opcode) = 1 /\ 1 \in Nat
    BY <1>3 DEF RotateAccumulator, Length
  <2>2. PICK r : Keep([Advance(1) EXCEPT !.A = r.value, !.F = r.F])
    BY <1>3 DEF RotateAccumulator
  <2> QED BY <1>2, <2>1, <2>2
<1>4. CASE RegisterArithmetic
  <2>1. Length(opcode) = 1 /\ 1 \in Nat
    BY <1>4 DEF RegisterArithmetic, Length
  <2>2. PICK r : Keep([Advance(1) EXCEPT !.A = r.value, !.F = r.F])
    BY <1>4 DEF RegisterArithmetic, Accumulate
  <2> QED BY <1>2, <2>1, <2>2
<1>5. CASE ImmediateArithmetic
  <2>1. Length(opcode) = 2 /\ 2 \in Nat
    BY <1>5 DEF ImmediateArithmetic, Length
  <2>2. PICK r : Keep([Advance(2) EXCEPT !.A = r.value, !.F = r.F])
    BY <1>5 DEF ImmediateArithmetic, Accumulate
  <2> QED BY <1>2, <2>1, <2>2
<1>6. CASE CompareImmediate
  BY <1>0, <1>6 DEF CompareImmediate, Length, Keep, Become, Past, CpuState
<1>7. CASE Prefixed
  <2>1. imm8 % 8 \in Nat /\ imm8 % 8 < 8 /\ Length(opcode) = 2
    BY <1>7, FetchType DEF Prefixed, Length, Byte
  <2> DEFINE x == Operand(imm8 % 8)
  <2>2. /\ IsOutcome(sm83_rotate_right(x, cpu.F), cpu.F)
        /\ IsOutcome(sm83_swap(x, cpu.F), cpu.F)
        /\ IsOutcome(Outcome(x \div 2, cpu.F), cpu.F)
    BY <2>1, OperandType, FlagsType, RotateType
  <2>3. PICK r : /\ r \in {sm83_rotate_right(x, cpu.F), sm83_swap(x, cpu.F),
                           Outcome(x \div 2, cpu.F)}
                 /\ SetOperand([Advance(2) EXCEPT !.F = r.F], imm8 % 8, r.value)
    <3>1. imm8 \in 24 .. 29 \/ imm8 \in 48 .. 55 \/ imm8 \in 56 .. 63
      BY <1>7 DEF Prefixed, PrefixedOpcodes
    <3> QED BY <1>7, <3>1 DEF Prefixed
  <2>4. r.F \in Byte
    BY <2>2, <2>3 DEF IsOutcome
  <2>5. [Advance(2) EXCEPT !.F = r.F] \in CpuState
        /\ [Advance(2) EXCEPT !.F = r.F].PC = U16(cpu.PC + 2)
    BY <1>0, <2>4 DEF CpuState
  <2> QED BY <2>1, <2>3, <2>5, OperandKeepsCounter DEF Past
<1> QED BY <1>1, <1>3, <1>4, <1>5, <1>6, <1>7

LEMMA ControlSkips ==
  ASSUME StateOK, ~Jumps(opcode), status' = "running",
         StepMemory \/ Call \/ Return \/ Push \/ Pop
           \/ DisableInterrupts \/ EnableInterrupts
  PROVE  Past(Length(opcode))
<1>0. \A n \in Nat : Advance(n) \in CpuState /\ Advance(n).PC = U16(cpu.PC + n)
  BY AdvanceType
<1>1. ASSUME NEW n \in Nat, Keep(Advance(n)) PROVE Past(n)
  BY <1>0, <1>1 DEF Keep, Become, Past
<1>3. CASE StepMemory
  <2>1. ASSUME NEW f, NEW m, Become([Advance(3) EXCEPT !.F = f], m) PROVE Past(3)
    BY <1>0, <2>1, AccumulatorKeepsCounter DEF Become, Past
  <2> QED BY <1>3, <2>1 DEF StepMemory, Length
<1>4. CASE Call
  BY <1>1, <1>4 DEF Call, Jumps, Length
<1>5. CASE Return
  BY <1>1, <1>5 DEF Return, Jumps, Length
<1>6. CASE Push
  <2>1. ASSUME NEW w, PushWord(Advance(1), w) PROVE Past(1)
    BY <1>0, <2>1 DEF PushWord, Become, Past, CpuState
  <2> QED BY <1>6, <2>1 DEF Push, Length
<1>7. CASE Pop
  <2>1. Popped(Advance(1)) \in CpuState /\ Popped(Advance(1)).PC = U16(cpu.PC + 1)
    BY <1>0, PoppedType DEF Popped, CpuState
  <2>2. CASE opcode = 241
    <3>1. Length(opcode) = 1
      BY <2>2 DEF Length
    <3>2. cpu' = [Popped(Advance(1)) EXCEPT !.A = High(Top), !.F = Low(Top)]
      BY <1>7, <2>2 DEF Pop, Keep, Become
    <3> QED BY <2>1, <3>1, <3>2, AccumulatorKeepsCounter DEF Past
  <2>3. CASE opcode # 241
    <3>1. (opcode \div 16) % 4 \in Nat /\ (opcode \div 16) % 4 < 4
          /\ Length(opcode) = 1
      BY <1>7, <2>3 DEF Pop, Length
    <3> QED BY <1>7, <2>1, <2>3, <3>1, PairKeepsCounter DEF Pop, Keep, Become, Past
  <2> QED BY <2>2, <2>3
<1>8. CASE DisableInterrupts \/ EnableInterrupts
  BY <1>0, <1>8 DEF DisableInterrupts, EnableInterrupts, Keep, Become, Past,
                    Length, CpuState
<1> QED BY <1>3, <1>4, <1>5, <1>6, <1>7, <1>8

\* A jump that is not taken: the two that enter their operand are among them.
LEMMA JumpsSkip ==
  ASSUME StateOK, ~Jumps(opcode), JumpRelative \/ Jump \/ JumpToHL
  PROVE  Skips
<1>0. ASSUME NEW n \in Nat, Keep(Advance(n)) PROVE Past(n)
  BY <1>0, AdvanceType DEF Keep, Become, Past
<1>1. CASE JumpRelative
  <2>1. \/ opcode \in {32, 40, 48} /\ Keep(Advance(2))
        \/ opcode = 56 /\ Keep(Advance(1))
    BY <1>1 DEF JumpRelative, Jumps
  <2> QED BY <1>0, <2>1 DEF Skips, EntersOperand, Length
<1>2. CASE Jump
  <2>1. opcode = 194 /\ Keep(Advance(1))
    BY <1>2 DEF Jump, Jumps
  <2> QED BY <1>0, <2>1 DEF Skips, EntersOperand
<1>3. ~JumpToHL
  BY DEF JumpToHL, Jumps
<1> QED BY <1>1, <1>2, <1>3

\* No other instruction is one of those two.
LEMMA OthersSkip ==
  ASSUME Execute, ~(JumpRelative \/ Jump \/ JumpToHL), status' = "running"
  PROVE  ~EntersOperand(opcode)
<1> USE DEF EntersOperand
<1>1. ASSUME Nop \/ LoadPairImmediate \/ LoadImmediate \/ LoadRegister
               \/ StoreStackPointer \/ StoreAccumulator \/ LoadAccumulator
      PROVE  ~EntersOperand(opcode)
  BY <1>1 DEF Nop, LoadPairImmediate, LoadImmediate, LoadRegister,
              StoreStackPointer, StoreAccumulator, LoadAccumulator
<1>2. ASSUME StepPair \/ StepRegister \/ StepMemory \/ RotateAccumulator
               \/ AddPair \/ LoadStackOffset \/ RegisterArithmetic
               \/ ImmediateArithmetic \/ CompareImmediate \/ Prefixed
      PROVE  ~EntersOperand(opcode)
  BY <1>2 DEF StepPair, StepRegister, StepMemory, RotateAccumulator, AddPair,
              LoadStackOffset, RegisterArithmetic, ImmediateArithmetic,
              CompareImmediate, Prefixed
<1>3. ASSUME Call \/ Return \/ Push \/ Pop \/ DisableInterrupts
               \/ EnableInterrupts
      PROVE  ~EntersOperand(opcode)
  BY <1>3 DEF Call, Return, Push, Pop, DisableInterrupts, EnableInterrupts
<1>4. ~(Stop \/ Illegal)
  BY DEF Stop, Illegal, Stopping
<1> QED BY <1>1, <1>2, <1>3, <1>4 DEF Execute

LEMMA OperandSkipped ==
  ASSUME IInv, FinalCycle, status' = "running", ~Jumps(opcode)
  PROVE  cpu'.PC = U16(cpu.PC + (IF EntersOperand(opcode) THEN 1
                                                          ELSE Length(opcode)))
<1>1. StateOK /\ Execute
  BY DEF IInv, FinalCycle
<1>2. CASE JumpRelative \/ Jump \/ JumpToHL
  BY <1>1, <1>2, JumpsSkip DEF Skips, Past
<1>3. CASE ~(JumpRelative \/ Jump \/ JumpToHL)
  <2>1. ~(Stop \/ Illegal)
    BY DEF Stop, Illegal, Stopping
  <2>2. Past(Length(opcode))
    BY <1>1, <1>3, <2>1, LoadsSkip, MovesSkip, ArithmeticSkips, ControlSkips
       DEF Execute
  <2>3. ~EntersOperand(opcode)
    BY <1>1, <1>3, OthersSkip
  <2> QED BY <2>2, <2>3 DEF Past
<1> QED BY <1>2, <1>3

\* Whatever the program, it executes an operand behind JR C and JP NZ only.
THEOREM OthersNeverEnterOperands == Spec => OnlyTwoEnterOperands
<1> DEFINE A == FinalCycle /\ status' = "running" /\ ~Jumps(opcode)
                  => cpu'.PC = U16(cpu.PC + (IF EntersOperand(opcode) THEN 1
                                             ELSE Length(opcode)))
<1>1. IInv /\ [Tick]_vars => [A]_vars
  BY OperandSkipped
<1> QED BY <1>1, Invariance, PTL DEF Spec, OnlyTwoEnterOperands
=============================================================================
