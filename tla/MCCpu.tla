------------------------------- MODULE MCCpu -------------------------------
(***************************************************************************)
(* Small programs for Cpu.  Each starts at the entry point 0x100; behind   *)
(* it the ROM is filled with 0xFF, which is not an instruction, so that    *)
(* every program that reaches its end stops.                               *)
(***************************************************************************)
EXTENDS Cpu, TLC

Place(code, at) == [i \in at .. at + Len(code) - 1 |-> code[i - at + 1]]

\* A ROM of two banks with a program at the entry point.
File(hardware, code) ==
  [bytes |-> (327 :> hardware @@ 328 :> 0 @@ 329 :> 0) @@ Place(code, 256),
   size |-> 32768, padding |-> 255]

\* Prologues.  The zero and the carry flag take all four values; the stack is
\* where it is at the start, or below 0xFFF6.
Flags == {<<62, 5, 183>>,   \* LD A, 5; OR A, A: neither
          <<175>>,          \* XOR A, A: zero
          <<62, 3, 31>>,    \* LD A, 3; RRA: carry
          <<62, 1, 31>>}    \* LD A, 1; RRA: zero and carry
Stack(flags) == IF flags = <<62, 3, 31>> THEN <<49, 246, 255>> ELSE <<>>
\* LD A, 0x81; LD HL, 0xFFF4.
Registers81 == <<62, 129, 33, 244, 255>>

\* Every opcode, with the operand 0x04 or 0xFF04, and every implemented
\* opcode behind the prefix, in every prologue.
Single ==
  {File(1, flags \o Stack(flags) \o Registers81 \o i \o <<4, 255>>) :
     flags \in Flags,
     i \in {<<op>> : op \in 0 .. 255} \cup {<<203, op>> : op \in PrefixedOpcodes}}

\* Change IME or the byte at 0xFFFF, then load it, with DE and HL at 0xFFFF.
Change == {<<0>>, <<243>>, <<251>>, <<224, 255>>, <<243, 0, 34>>, <<243, 18, 251>>}
LoadIt == {<<240, 255>>, <<250, 255, 255>>, <<26>>, <<42>>, <<126>>}
Mirrored ==
  {File(25, <<62, 85, 17, 255, 255, 33, 255, 255>> \o c \o d \o l) :
     c, d \in Change, l \in LoadIt}

\* A cartridge without a memory controller has no entry point.
MCCartridges == Single \cup Mirrored \cup {File(0, <<0>>)}
=============================================================================
