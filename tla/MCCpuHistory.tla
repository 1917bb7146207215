---------------------------- MODULE MCCpuHistory ----------------------------
(***************************************************************************)
(* The programs of MCCpu, and programs for the history: all sequences of   *)
(* three out of a few stack, serial and jump instructions, with the stack  *)
(* in several places.                                                      *)
(***************************************************************************)
EXTENDS CpuHistory, Decoder, MCCpu

\* A subroutine at 0x0010: PUSH BC; POP HL; RET.
WithSubroutine(hardware, code) ==
  [bytes |-> (327 :> hardware @@ 328 :> 0 @@ 329 :> 0)
               @@ Place(<<197, 225, 201>>, 16) @@ Place(code, 256),
   size |-> 32768, padding |-> 255]

\* LD A, 0x81; LD BC, 0x003E: A asks for a transfer, and C is the opcode of
\* an instruction of two cycles.
Prologue == <<62, 129, 1, 62, 0>>

\* SP as it is at the start, in RAM, where the high byte of the word popped
\* or the word pushed is the serial request, and where a word lies half in
\* cartridge RAM.
Stacks == {<<>>, <<49, 244, 255>>, <<49, 3, 255>>, <<49, 1, 160>>}

Alphabet ==
  {<<197>>,           \* PUSH BC
   <<245>>,           \* PUSH AF
   <<209>>,           \* POP DE
   <<241>>,           \* POP AF
   <<205, 16, 0>>,    \* CALL 0x0010
   <<201>>,           \* RET
   <<51>>,            \* INC SP
   <<224, 2>>,        \* LD (0xFF02), A
   <<8, 242, 255>>,   \* LD (0xFFF2), SP
   <<195, 254, 255>>} \* JP 0xFFFE

\* The last instruction is one that can find what an earlier one left.  A RET
\* behind PUSH AF would run through the 8000 zero bytes from 0x8100 on.
Runs(a, b, c) ==
  /\ c \notin {<<197>>, <<245>>, <<51>>, <<8, 242, 255>>}
  /\ ~({<<245>>, <<201>>} \subseteq {a, b, c})

\* With an MBC1; and one cartridge without a memory controller.
MCPrograms ==
  {WithSubroutine(1, Prologue \o s \o i[1] \o i[2] \o i[3]) :
     s \in Stacks, i \in {t \in Alphabet \X Alphabet \X Alphabet : Runs(t[1], t[2], t[3])}}
    \cup {WithSubroutine(0, Prologue)} \cup MCCartridges
=============================================================================
