------------------------------ MODULE Untimed ------------------------------
(***************************************************************************)
(* What the CPU promises a program, with no clock in sight: instructions   *)
(* are executed one by one, each as a whole.  IME is copied to 0xFFFF at   *)
(* any time in between, and always before an instruction that reads more   *)
(* of the memory than its opcode.                                          *)
(***************************************************************************)
EXTENDS Instructions

CONSTANT Cartridges  \* the ROM files
ASSUME CartridgesAssumption == \A c \in Cartridges : IsCartridge(c)

untimedVars == <<cpu, machine, status>>

\* What run_machine can set up.
Machines == {PowerOn(file) : file \in Cartridges}

UntimedInit ==
  /\ cpu = InitialRegisters
  /\ machine \in Machines
  /\ status = "running"

\* The instructions that read an operand behind their opcode, the byte at HL
\* or DE, or the stack.  Those behind the prefix are not among them: they read
\* whatever has been copied, or stored there, before.
ReadsMemory ==
  {1, 6, 8, 14, 17, 24, 30, 32, 33, 38, 40, 48, 49, 52, 53, 56, 62,
   194, 195, 196, 198, 205, 206, 212, 214, 224, 230, 234, 238, 240, 246, 248,
   250, 254}
    \cup {26, 42, 70, 78, 86, 94, 102, 110, 126, 166, 174, 182}
    \cup {192, 193, 200, 201, 208, 209, 216, 225, 241}

CopyIME ==
  /\ status = "running"
  /\ machine' = bus_write_8_bit(65535, cpu.IME, machine)
  /\ UNCHANGED <<cpu, status>>

Instruction ==
  /\ status = "running"
  /\ opcode \in ReadsMemory => Read8(machine, 65535) = cpu.IME
  /\ Execute

\* There is nothing to fetch.
Lost ==
  /\ status = "running" /\ Null8
  /\ status' = "crashed" /\ UNCHANGED <<cpu, machine>>

UntimedNext == CopyIME \/ Instruction \/ Lost

UntimedSpec == UntimedInit /\ [][UntimedNext]_untimedVars
=============================================================================
