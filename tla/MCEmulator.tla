----------------------------- MODULE MCEmulator -----------------------------
(***************************************************************************)
(* ROM files of different length and for different controllers, with       *)
(* programs that stop, that loop, and that use the cartridge's RAM.        *)
(***************************************************************************)
EXTENDS Emulator, TLC

Place(code, at) == [i \in at .. at + Len(code) - 1 |-> code[i - at + 1]]

File(hardware, ram, code, n) ==
  [bytes |-> (327 :> hardware @@ 328 :> 0 @@ 329 :> ram) @@ Place(code, 256),
   size |-> n, padding |-> 255]

\* XOR A, A; JR NZ, 0 (not taken); JP 0x0101, for ever.
Loops == <<175, 32, 0, 195, 1, 1>>

\* LD A, 10; LD HL, 0x0106; LD (HL), A; LD A, (0xA000); LD (0xA000), A: what
\* should unlock the cartridge's RAM, to the address of the next instruction, a
\* load from it, and a store to it.
UsesRam == <<62, 10, 33, 6, 1, 119, 250, 0, 160, 234, 0, 160>>

\* 0xFF, which the rest is filled with, stops a program.
MCCartridges ==
  {File(1, 0, Loops, 352), File(3, 0, UsesRam, 340), File(3, 2, UsesRam, 352),
   File(0, 0, <<0>>, 352)}
    \cup {File(code, 0, <<0>>, 340) : code \in {5, 8, 11, 18, 26, 32, 34, 255}}
=============================================================================
