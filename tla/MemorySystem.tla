---------------------------- MODULE MemorySystem ----------------------------
(***************************************************************************)
(* The bus, the memory controller and the memories as a system driven by   *)
(* the CPU's reads and writes.  A read changes nothing, so only the writes *)
(* are steps; what reads return is in the properties.                      *)
(***************************************************************************)
EXTENDS Bus

CONSTANTS Cartridges,  \* the ROM files
          Inputs,      \* addresses written
          Values,      \* bytes written
          Probes       \* addresses the properties read

ASSUME CartridgesAssumption == \A c \in Cartridges : IsCartridge(c)
ASSUME InputsAssumption == Inputs \subseteq Word /\ Values \subseteq Byte
ASSUME ProbesAssumption == Probes \subseteq Word

VARIABLE machine

Init == \E c \in Cartridges : machine = PowerOn(c)

Write8(addr, value) == machine' = bus_write_8_bit(addr, value, machine)
Write16(addr, value) == machine' = bus_write_16_bit(addr, value, machine)

Next ==
  \/ \E addr \in Inputs, value \in Values : Write8(addr, value)
  \/ \E addr \in Inputs, low, high \in Values : Write16(addr, Pair(high, low))

Spec == Init /\ [][Next]_machine

-----------------------------------------------------------------------------
\* Type invariant: the machine is one, and its ROM stays the file it was
\* started with.
TypeOK == IsMachine(machine) /\ machine.cartridge_rom \in Cartridges

\* Whatever has been written, and however large the cartridge claims to be,
\* the lower half of the ROM area shows the first bytes of the file: the mode
\* register never remaps it (ZeroBankOffset shifts by whole multiples of 64
\* KiB), and no write reaches the copy in console memory.
BankZeroFixed ==
  machine.memory_controller # "NONE" =>
    \A addr \in Probes : addr < ROM_BANK_SIZE =>
      Read8(machine, addr) = RomByte(machine, addr)

\* A pointer bus_read hands out can be dereferenced, by a 16-bit read too,
\* even when the file is shorter than its header says: the 16-bit offset
\* keeps a bank that is not there within the slack behind the ROM.
ReadsInBounds ==
  machine.memory_controller # "NONE" =>
    \A addr \in Probes : InBounds(machine, bus_read(addr, machine))

\* Away from the seams, a 16-bit read through the pointer sees the bytes that
\* two 8-bit reads through the bus would.
SixteenBitReadsAgree ==
  machine.memory_controller = "MBC1" =>
    \A addr \in Probes : addr \notin Seams =>
      Read16(machine, addr) =
        Pair(Read8(machine, U16(addr + 1)), Read8(machine, addr))

-----------------------------------------------------------------------------
(* Refinement: the probed addresses as an AddressSpace.                    *)

ProbedWindow == {a \in Probes : a >= ROM_BANK_SIZE /\ bus_address_in_rom(a)}

\* What the window can show: one of the first four banks of the file or,
\* without an MBC1, what it shows already.
Banks ==
  IF machine.memory_controller = "MBC1"
  THEN {[a \in ProbedWindow |-> RomByte(machine, ROM_BANK_SIZE * k + a)] :
          k \in -1 .. 2}
  ELSE {[a \in ProbedWindow |-> Read8(machine, a)]}

AddressSpace ==
  INSTANCE AddressSpace
    WITH Plain  <- {a \in Probes : ~OnCartridge(a)},
         Fixed  <- {a \in Probes : OnCartridge(a) /\ a \notin ProbedWindow},
         Window <- ProbedWindow,
         memory <- [a \in Probes |-> Read8(machine, a)],
         banks  <- Banks

\* Every write the bus accepts is a write of the abstract address space: a
\* plain address is a cell of its own, the window always shows one bank as a
\* whole, and everything else on the cartridge reads the same for ever.
ImplementsAddressSpace == AddressSpace!Spec

-----------------------------------------------------------------------------
(* What the comments of machine.c, memory_controllers.c and bus.h say.     *)

\* When the file holds all the banks its header counts, the byte the window
\* shows lies inside the cartridge's ROM.
WindowInsideCartridge ==
  /\ machine.memory_controller = "MBC1"
  /\ machine.cartridge_rom.size = ROM_BANK_SIZE * machine.rom_bank_count
  =>
    \A addr \in ProbedWindow :
      HighBankOffset(machine, addr) < machine.cartridge_rom.size

\* Without an MBC1, the ROM area reads the first two banks of the ROM, which
\* run_machine copies to console memory.
FirstBanksCopied ==
  machine.memory_controller \notin {"NONE", "MBC1"} =>
    \A addr \in Probes : bus_address_in_rom(addr) =>
      Read8(machine, addr) = RomByte(machine, addr)

\* A program that writes 0x0A to the RAM enable register, then stores a byte
\* in the cartridge RAM, reads that byte back: the RAM is one of the sources
\* that bus_read reaches through the memory controller.
UnlockedRamReadsBack ==
  machine.memory_controller = "MBC1" /\ machine.ram_bank_count > 0 =>
    LET unlocked == bus_write_8_bit(0, 10, machine)
        stored   == bus_write_8_bit(40960, 1, unlocked)
    IN  Read8(stored, 40960) = 1
=============================================================================
