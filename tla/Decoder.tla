------------------------------ MODULE Decoder ------------------------------
(***************************************************************************)
(* execute_decode of cpu.c: the second implementation of the opcodes below *)
(* 0x40, which takes an instruction apart by the bits of its opcode.  tick *)
(* calls execute_switch; this is what execute_decode, called in its place, *)
(* would leave behind.                                                     *)
(***************************************************************************)
EXTENDS Cpu

\* The fields of an opcode whose two highest bits, x, are 0.
Y == opcode \div 8
Z == opcode % 8
P == opcode \div 16
Q == Y % 2

Decoded(c, m) == [cpu |-> c, machine |-> m]
Ahead(n) == [cpu EXCEPT !.PC = U16(@ + n)]

\* Nothing moves PC past the opcode, so that what is read as the operand
\* behind it is the opcode itself.
operand8  == opcode
operand16 == Read16(bus, cpu.PC)

\* What stores a byte in operand y of the registers c.
Into(c, value) ==
  IF Y = 6 THEN Decoded(c, bus_write_8_bit(HL, value, bus))
  ELSE Decoded([c EXCEPT ![Registers[Y + 1]] = value], bus)

\* NOP, LD (nn), SP, STOP and JR.
DecodeJumps ==
  CASE Y = 1 -> Decoded(Ahead(2), bus_write_16_bit(operand16, cpu.SP, bus))
    [] Y = 2 -> Decoded(Ahead(1), bus)
    [] Y = 3 \/ (Y > 3 /\ Condition(Y - 4)) ->
         Decoded(Ahead(Signed8(operand8)), bus)
    [] OTHER -> Decoded(cpu, bus)

\* LD rp, nn and ADD HL, rp.
DecodePairs ==
  IF Q = 0 THEN Decoded(SetPair(Ahead(2), P, operand16), bus)
  ELSE LET sum == sm83_add16(HL, PairValue(P), cpu.F)
       IN  Decoded([SetPair(cpu, 2, sum.value) EXCEPT !.F = sum.F], bus)

\* A to and from the address in BC, DE, HL+ and HL-.
DecodeIndirect ==
  LET at == IF P < 2 THEN PairValue(P) ELSE HL
      after == CASE P < 2 -> cpu
                 [] P = 2 -> SetPair(cpu, 2, U16(HL + 1))
                 [] P = 3 -> SetPair(cpu, 2, U16(HL - 1))
  IN  IF Q = 0 THEN Decoded(after, bus_write_8_bit(at, cpu.A, bus))
      ELSE Decoded([after EXCEPT !.A = Read8(bus, at)], bus)

\* INC and DEC of a pair, and of any operand.
DecodeStepPair ==
  Decoded(SetPair(cpu, P, U16(IF Q = 0 THEN PairValue(P) + 1 ELSE PairValue(P) - 1)),
          bus)
DecodeStep(result) == Into([cpu EXCEPT !.F = result.F], result.value)

execute_decode ==
  CASE opcode > 63 \/ Z = 7 -> Decoded(cpu, bus)
    [] opcode < 64 /\ Z = 0 -> DecodeJumps
    [] opcode < 64 /\ Z = 1 -> DecodePairs
    [] opcode < 64 /\ Z = 2 -> DecodeIndirect
    [] opcode < 64 /\ Z = 3 -> DecodeStepPair
    [] opcode < 64 /\ Z = 4 -> DecodeStep(sm83_add8(Operand(Y), 1, cpu.F))
    [] opcode < 64 /\ Z = 5 -> DecodeStep(sm83_sub8(Operand(Y), 1, cpu.F))
    [] opcode < 64 /\ Z = 6 -> Into(Ahead(1), operand8)

-----------------------------------------------------------------------------
\* The opcodes below 0x40 without operand bytes that both implement, but for
\* INC (HL) and DEC (HL), which execute_switch has at another address.
Shared ==
  {opcode8 \in 0 .. 63 : opcode8 % 8 \in 2 .. 5 \/ opcode8 % 16 = 9}
    \ (Unimplemented \cup {52, 53})

\* The cases of the switch are written out one by one, the decoder computes
\* its operands: for a shared opcode they do the same to every register but
\* PC, and to every byte of memory.
DecoderAgrees ==
  [][FinalCycle /\ opcode \in Shared =>
       /\ machine' = execute_decode.machine
       /\ cpu' = [execute_decode.cpu EXCEPT !.PC = cpu'.PC]]_vars
=============================================================================
