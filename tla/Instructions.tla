---------------------------- MODULE Instructions ----------------------------
(***************************************************************************)
(* execute_switch and execute_prefix of cpu.c: what one instruction does   *)
(* to the registers and the memories, one action per group of opcodes.     *)
(*                                                                         *)
(* When an instruction executes is the business of Cpu.tla.                *)
(***************************************************************************)
EXTENDS Sm83, Bus

VARIABLES cpu,      \* the registers of cpu_state
          machine,  \* machine_state and controller_state
          status    \* "running", "stopped" (tick returned false) or "crashed"

\* The union of AF, BC, DE and HL with their bytes is modelled by the bytes.
CpuState ==
  [A : Byte, F : Byte, B : Byte, C : Byte, D : Byte, E : Byte, H : Byte,
   L : Byte, SP : Word, PC : Word, IME : Byte]
InitialRegisters ==
  [A |-> 0, F |-> 0, B |-> 0, C |-> 0, D |-> 0, E |-> 0, H |-> 0, L |-> 0,
   SP |-> 0, PC |-> 256, IME |-> 255]

-----------------------------------------------------------------------------
(* Fetching.                                                               *)

\* Mutant: the transfer is not acknowledged.
SerialFlushForgets(m) == m

\* Serial output, at the start of the cycle that executes an instruction:
\* the transfer request at 0xFF02 is printed and acknowledged.
SerialFlush(m) ==
  IF Read8(m, 65282) = 129 THEN bus_write_8_bit(65282, 0, m) ELSE m

bus    == SerialFlush(machine)
opcode == Read8(bus, cpu.PC)
next_pc == U16(cpu.PC + 1)
imm8   == Read8(bus, next_pc)
imm16  == Read16(bus, next_pc)

\* Without a memory controller there is no pointer to an opcode on the
\* cartridge.
Null8 == bus_read(cpu.PC, machine).object = "null"

\* The registers with the program counter past an instruction of n bytes.
Advance(n) == [cpu EXCEPT !.PC = U16(@ + n)]

Become(c, m) == cpu' = c /\ machine' = m /\ status' = "running"
Keep(c) == Become(c, bus)
Stopping(c) == cpu' = c /\ machine' = bus /\ status' = "stopped"

-----------------------------------------------------------------------------
(* Operands.  Opcodes number the 8-bit operands 0 to 7, of which 6 is the  *)
(* byte at HL, the register pairs 0 to 3, and the conditions 0 to 3.       *)

Registers == <<"B", "C", "D", "E", "H", "L", "(HL)", "A">>

BC == Pair(cpu.B, cpu.C)
DE == Pair(cpu.D, cpu.E)
HL == Pair(cpu.H, cpu.L)
AF == Pair(cpu.A, cpu.F)

Operand(i) == IF i = 6 THEN Read8(bus, HL) ELSE cpu[Registers[i + 1]]

\* The step that stores an 8-bit operand in the registers c.
SetOperand(c, i, value) ==
  IF i = 6 THEN Become(c, bus_write_8_bit(HL, value, bus))
  ELSE Keep([c EXCEPT ![Registers[i + 1]] = value])

PairValue(i) == <<BC, DE, HL, cpu.SP>>[i + 1]
SetPair(c, i, w) ==
  CASE i = 0 -> [c EXCEPT !.B = High(w), !.C = Low(w)]
    [] i = 1 -> [c EXCEPT !.D = High(w), !.E = Low(w)]
    [] i = 2 -> [c EXCEPT !.H = High(w), !.L = Low(w)]
    [] i = 3 -> [c EXCEPT !.SP = w]

Condition(i) == <<Zero(cpu.F) = 0, Zero(cpu.F) = 1,
                  Carry(cpu.F) = 0, Carry(cpu.F) = 1>>[i + 1]
ConditionHolds == Condition((opcode \div 8) % 4)

-----------------------------------------------------------------------------
(* Loads.                                                                  *)

Nop == opcode = 0 /\ Keep(Advance(1))

LoadPairImmediate ==
  /\ opcode \in {1, 17, 33, 49}
  /\ Keep(SetPair(Advance(3), opcode \div 16, imm16))

\* LD B, C, E, H or A with a byte; D, L and (HL) are not implemented.
LoadImmediate ==
  /\ opcode \in {6, 14, 30, 38, 62}
  /\ SetOperand(Advance(2), opcode \div 8, imm8)

\* LD r, r' with every operand; 118, which would be LD (HL), (HL), is HALT
\* and not implemented.
LoadRegister ==
  /\ opcode \in 64 .. 127 \ {118}
  /\ SetOperand(Advance(1), (opcode \div 8) % 8, Operand(opcode % 8))

StoreStackPointer ==
  /\ opcode = 8
  /\ Become(Advance(3), bus_write_16_bit(imm16, cpu.SP, bus))

\* LD (DE), A; LDI and LDD (HL), A; LD (0xFF00 + u8), A; LD (u16), A.
StoreAccumulator ==
  \/ opcode = 18 /\ Become(Advance(1), bus_write_8_bit(DE, cpu.A, bus))
  \/ /\ opcode = 34
     /\ Become(SetPair(Advance(1), 2, U16(HL + 1)),
               bus_write_8_bit(HL, cpu.A, bus))
  \/ /\ opcode = 50
     /\ Become(SetPair(Advance(1), 2, U16(HL - 1)),
               bus_write_8_bit(HL, cpu.A, bus))
  \/ opcode = 224 /\ Become(Advance(2), bus_write_8_bit(65280 + imm8, cpu.A, bus))
  \/ opcode = 234 /\ Become(Advance(3), bus_write_8_bit(imm16, cpu.A, bus))

\* LD A, (DE); LDI A, (HL); LD A, (0xFF00 + u8); LD A, (u16).
LoadAccumulator ==
  \/ opcode = 26 /\ Keep([Advance(1) EXCEPT !.A = Read8(bus, DE)])
  \/ /\ opcode = 42
     /\ Keep([SetPair(Advance(1), 2, U16(HL + 1)) EXCEPT !.A = Read8(bus, HL)])
  \/ opcode = 240 /\ Keep([Advance(2) EXCEPT !.A = Read8(bus, 65280 + imm8)])
  \/ opcode = 250 /\ Keep([Advance(3) EXCEPT !.A = Read8(bus, imm16)])

-----------------------------------------------------------------------------
(* Arithmetic.                                                             *)

StepPair ==
  \/ /\ opcode \in {3, 19, 35, 51}
     /\ LET i == opcode \div 16
        IN  Keep(SetPair(Advance(1), i, U16(PairValue(i) + 1)))
  \/ /\ opcode \in {11, 27, 43, 59}
     /\ LET i == opcode \div 16
        IN  Keep(SetPair(Advance(1), i, U16(PairValue(i) - 1)))

\* INC r adds 1 and the carry flag: sm83_add8 is called as it is.
StepRegister ==
  LET i == opcode \div 8
  IN  \/ /\ opcode \in {4, 12, 20, 28, 36, 44, 60}
         /\ LET sum == sm83_add8(Operand(i), 1, cpu.F)
            IN  SetOperand([Advance(1) EXCEPT !.F = sum.F], i, sum.value)
      \/ /\ opcode \in {5, 13, 21, 29, 37, 45, 61}
         /\ LET difference == sm83_sub8(Operand(i), 1, cpu.F)
            IN  SetOperand([Advance(1) EXCEPT !.F = difference.F], i,
                           difference.value)

\* INC (HL) and DEC (HL) take the address from the two bytes that follow.
StepMemory ==
  /\ opcode \in {52, 53}
  /\ LET byte == Read8(bus, imm16)
         result == IF opcode = 52 THEN sm83_add8(byte, 1, cpu.F)
                                  ELSE sm83_sub8(byte, 1, cpu.F)
     IN  Become([Advance(3) EXCEPT !.F = result.F],
                bus_write_8_bit(imm16, result.value, bus))

RotateAccumulator ==
  /\ opcode \in {7, 31}
  /\ LET result == IF opcode = 7 THEN sm83_rotate_left_copy(cpu.A, cpu.F)
                                 ELSE sm83_rotate_right(cpu.A, cpu.F)
     IN  Keep([Advance(1) EXCEPT !.A = result.value, !.F = result.F])

\* The step that leaves a sum and its flags in HL, past n bytes.
SumToHL(sum, n) == Keep([SetPair(Advance(n), 2, sum.value) EXCEPT !.F = sum.F])

\* Mutant: the case of ADD HL, DE is a copy of ADD HL, HL.
AddPairCopied == opcode \in {25, 41} /\ SumToHL(sm83_add16(HL, HL, cpu.F), 1)

\* ADD HL, DE; ADD HL, HL.
AddPair ==
  \/ opcode = 25 /\ SumToHL(sm83_add16(HL, DE, cpu.F), 1)
  \/ opcode = 41 /\ SumToHL(sm83_add16(HL, HL, cpu.F), 1)

\* LD HL, SP + i8.
LoadStackOffset ==
  /\ opcode = 248
  /\ SumToHL(sm83_add16(cpu.SP, U16(Signed8(imm8)), cpu.F), 2)

\* The eight operations on A, of which 3, SBC, is not implemented.  CP keeps
\* the flags of a subtraction only.
Arithmetic(kind, y) ==
  CASE kind = 0 -> sm83_add8(cpu.A, y, ClearCarry(cpu.F))
    [] kind = 1 -> sm83_add8(cpu.A, y, cpu.F)
    [] kind = 2 -> sm83_sub8(cpu.A, y, cpu.F)
    [] kind = 4 -> sm83_and8(cpu.A, y, cpu.F)
    [] kind = 5 -> sm83_xor8(cpu.A, y, cpu.F)
    [] kind = 6 -> sm83_or8(cpu.A, y, cpu.F)
    [] kind = 7 -> [sm83_sub8(cpu.A, y, cpu.F) EXCEPT !.value = cpu.A]

Accumulate(c, y) ==
  LET result == Arithmetic((opcode \div 8) % 8, y)
  IN  Keep([c EXCEPT !.A = result.value, !.F = result.F])

\* (HL) is an operand of AND, XOR and OR only.
RegisterArithmetic ==
  /\ opcode \in (128 .. 191) \ ((152 .. 159) \cup {134, 142, 150, 190})
  /\ Accumulate(Advance(1), Operand(opcode % 8))

ImmediateArithmetic ==
  /\ opcode \in {198, 206, 214, 230, 238, 246}
  /\ Accumulate(Advance(2), imm8)

\* CP A, u8.  A & 0xFF - v & 0xFF is A & (0xFF - v): the half carry says
\* whether A has a bit of the high nibble that v has not, and the carry is
\* never set.
CompareImmediate ==
  /\ opcode = 254
  /\ Keep([Advance(2) EXCEPT !.F =
             SetFlags(@, Flag(cpu.A = imm8), 1,
                      Flag(And8(cpu.A, 255 - imm8) > 15), 0)])

-----------------------------------------------------------------------------
(* Jumps, calls and the stack.                                             *)

\* PC += f(PC++): whether the sum starts from the counter before or after
\* the increment is not defined.
UnsequencedJump ==
  \E base \in {next_pc, next_pc + 1} :
    Keep([cpu EXCEPT !.PC = U16(base + Signed8(imm8))])

JumpRelative ==
  \/ opcode = 24 /\ UnsequencedJump
  \/ /\ opcode \in {32, 40, 48} /\ ConditionHolds
     /\ Keep([cpu EXCEPT !.PC = U16(next_pc + 1 + Signed8(imm8))])
  \/ opcode \in {32, 40, 48} /\ ~ConditionHolds /\ Keep(Advance(2))
  \/ opcode = 56 /\ ConditionHolds /\ UnsequencedJump
  \* JR C, not taken, leaves its operand to be executed.
  \/ opcode = 56 /\ ~ConditionHolds /\ Keep(Advance(1))

Jump ==
  \/ opcode = 195 /\ Keep([cpu EXCEPT !.PC = imm16])
  \/ opcode = 194 /\ ConditionHolds /\ Keep([cpu EXCEPT !.PC = imm16])
  \* JP NZ, not taken, leaves its operand to be executed.
  \/ opcode = 194 /\ ~ConditionHolds /\ Keep(Advance(1))

JumpToHL == opcode = 233 /\ Keep([cpu EXCEPT !.PC = HL])

\* Mutant: the stack pointer does not wrap.
PushWordNoWrap(c, w) ==
  Become([c EXCEPT !.SP = cpu.SP - 2], bus_write_16_bit(U16(cpu.SP - 2), w, bus))

\* The step that pushes w, continuing with the registers c.
PushWord(c, w) ==
  LET sp == U16(cpu.SP - 2)
  IN  Become([c EXCEPT !.SP = sp], bus_write_16_bit(sp, w, bus))

Call ==
  \/ /\ opcode = 205 \/ (opcode \in {196, 212} /\ ConditionHolds)
     /\ PushWord([cpu EXCEPT !.PC = imm16], Advance(3).PC)
  \/ opcode \in {196, 212} /\ ~ConditionHolds /\ Keep(Advance(3))

\* The word on top of the stack, and the registers once it is popped.
Top == Read16(bus, cpu.SP)
Popped(c) == [c EXCEPT !.SP = U16(@ + 2)]

Return ==
  \/ /\ opcode = 201 \/ (opcode \in {192, 200, 208, 216} /\ ConditionHolds)
     /\ Keep([Popped(cpu) EXCEPT !.PC = Top])
  \/ opcode \in {192, 200, 208, 216} /\ ~ConditionHolds /\ Keep(Advance(1))

Push ==
  \/ opcode \in {197, 213, 229}
     /\ PushWord(Advance(1), PairValue((opcode \div 16) % 4))
  \/ opcode = 245 /\ PushWord(Advance(1), AF)

Pop ==
  \/ opcode \in {193, 209, 225}
     /\ Keep(SetPair(Popped(Advance(1)), (opcode \div 16) % 4, Top))
  \/ opcode = 241
     /\ Keep([Popped(Advance(1)) EXCEPT !.A = High(Top), !.F = Low(Top)])

-----------------------------------------------------------------------------
(* The opcodes behind the prefix 0xCB.                                     *)

\* RR B to L, SWAP and SRL of any operand.
PrefixedOpcodes == 24 .. 29 \cup 48 .. 63

\* Mutant: the counter stays on the second byte.
PrefixedOneByte ==
  /\ opcode = 203 /\ imm8 \in PrefixedOpcodes
  /\ LET i == imm8 % 8
         x == Operand(i)
         result == CASE imm8 \in 24 .. 29 -> sm83_rotate_right(x, cpu.F)
                     [] imm8 \in 48 .. 55 -> sm83_swap(x, cpu.F)
                     [] imm8 \in 56 .. 63 -> Outcome(x \div 2, cpu.F)
     IN  SetOperand([Advance(1) EXCEPT !.F = result.F], i, result.value)

Prefixed ==
  /\ opcode = 203 /\ imm8 \in PrefixedOpcodes
  /\ LET i == imm8 % 8
         x == Operand(i)
         result == CASE imm8 \in 24 .. 29 -> sm83_rotate_right(x, cpu.F)
                     [] imm8 \in 48 .. 55 -> sm83_swap(x, cpu.F)
                     [] imm8 \in 56 .. 63 -> Outcome(x \div 2, cpu.F)
     IN  SetOperand([Advance(2) EXCEPT !.F = result.F], i, result.value)

-----------------------------------------------------------------------------
(* Control.                                                                *)

DisableInterrupts == opcode = 243 /\ Keep([Advance(1) EXCEPT !.IME = 0])
EnableInterrupts  == opcode = 251 /\ Keep([Advance(1) EXCEPT !.IME = 255])

Stop == opcode = 16 /\ Stopping(Advance(2))

Unimplemented ==
  {2, 9, 10, 15, 22, 23, 39, 46, 47, 54, 55, 57, 58, 63, 118, 134, 142, 150,
   190, 199, 202, 204, 207, 210, 211, 215, 217, 218, 219, 220, 221, 222, 223,
   226, 227, 228, 231, 232, 235, 236, 237, 239, 242, 244, 247, 249, 252, 253,
   255} \cup 152 .. 159

Illegal ==
  /\ \/ opcode \in Unimplemented
     \/ opcode = 203 /\ imm8 \notin PrefixedOpcodes
  /\ Stopping(Advance(1))

\* execute_switch, after the serial flush.
Execute ==
  \/ Nop \/ LoadPairImmediate \/ LoadImmediate \/ LoadRegister
  \/ StoreStackPointer \/ StoreAccumulator \/ LoadAccumulator
  \/ StepPair \/ StepRegister \/ StepMemory \/ RotateAccumulator
  \/ AddPair \/ LoadStackOffset
  \/ RegisterArithmetic \/ ImmediateArithmetic \/ CompareImmediate
  \/ JumpRelative \/ Jump \/ JumpToHL \/ Call \/ Return \/ Push \/ Pop
  \/ Prefixed \/ DisableInterrupts \/ EnableInterrupts \/ Stop \/ Illegal

=============================================================================
