-------------------------------- MODULE Bus --------------------------------
(***************************************************************************)
(* bus.c: routes an address to the memory controller or to console memory, *)
(* and what a read through the returned pointer yields.                    *)
(***************************************************************************)
EXTENDS MemoryControllers

bus_address_in_rom(addr) == addr <= 32767
bus_address_in_external_ram(addr) == addr >= 40960 /\ addr <= 49151

\* The addresses the memory controller answers for; the rest is plain memory.
OnCartridge(addr) == bus_address_in_rom(addr) \/ bus_address_in_external_ram(addr)

bus_read(addr, m) ==
  IF ~OnCartridge(addr) THEN ConsolePointer(addr)
  ELSE IF m.memory_controller # "NONE" THEN controller_read(addr, m) ELSE Null

bus_write_8_bit(addr, value, m) ==
  IF ~OnCartridge(addr) THEN [m EXCEPT !.console_memory = Store(@, addr, value)]
  ELSE IF m.memory_controller # "NONE" THEN controller_write_8_bit(addr, value, m)
  ELSE m

\* Mutants: the second address does not wrap; the bytes change places.
bus_write_16_bit_no_wrap(addr, value, m) ==
  bus_write_8_bit(addr + 1, High(value), bus_write_8_bit(addr, Low(value), m))
bus_write_16_bit_swapped(addr, value, m) ==
  bus_write_8_bit(U16(addr + 1), Low(value), bus_write_8_bit(addr, High(value), m))

\* Low byte first; the second address is a uint16_t and wraps to 0.
bus_write_16_bit(addr, value, m) ==
  bus_write_8_bit(U16(addr + 1), High(value), bus_write_8_bit(addr, Low(value), m))

-----------------------------------------------------------------------------
(* Dereferencing.  run_machine copies the first 0x7FFF bytes of the ROM to *)
(* the console memory; everything else the block holds starts as 0.        *)

RomByte(m, i) == FileByte(m.cartridge_rom, i)

BlockByte(m, i) ==
  IF i \in DOMAIN m.console_memory THEN m.console_memory[i]
  ELSE IF i < 32767 THEN RomByte(m, i)
  ELSE IF i >= ConsoleBytes THEN RomByte(m, i - ConsoleBytes) ELSE 0

\* The byte a pointer points at.  invalid_data is eight bytes of 0xFF.
Load(m, object, offset) ==
  CASE object = "block"        -> BlockByte(m, offset)
    [] object = "external_ram" -> IF offset \in DOMAIN m.external_ram
                                  THEN m.external_ram[offset] ELSE 0
    [] OTHER -> 255

\* *bus_read(addr) and *(uint16_t*) bus_read(addr): the pointer is computed
\* once, and a 16-bit read takes the byte behind it, whatever that is.
Read8(m, addr) ==
  LET p == bus_read(addr, m) IN Load(m, p.object, p.offset)
Read16(m, addr) ==
  LET p == bus_read(addr, m)
  IN  Pair(Load(m, p.object, p.offset + 1), Load(m, p.object, p.offset))

\* The byte a pointer points at and the one behind it are in its object.
InBounds(m, p) ==
  /\ p.offset \in Nat
  /\ \/ p.object = "block" /\ p.offset + 1 < BlockBytes(m)
     \/ p.object = "external_ram"
        /\ p.offset + 1 < RAM_BANK_SIZE * m.ram_bank_count
     \/ p.object = "invalid_data" /\ p.offset + 1 < 8

\* The last addresses of the areas that are not contiguous in the host's
\* memory.  0xFFFF is not among them: it is followed by the ROM's first byte,
\* and address 0 reads that byte too.
Seams == {16383, 32767, 40959, 49151}

-----------------------------------------------------------------------------
(* run_machine up to the main loop: the machine for a ROM file.            *)

PowerOn(file) ==
  [console_memory    |-> <<>>,
   cartridge_rom     |-> file,
   external_ram      |-> <<>>,
   rom_bank_count    |-> RomBankCount(RomSizeCode(file)),
   ram_bank_count    |-> RamBankCount(RamSizeCode(file)),
   memory_controller |-> GetControllerType(GetCartHardware(HardwareCode(file))),
   controller_state  |-> [rom_bank |-> 0, ram_bank |-> 0, mode |-> 0,
                          ram_enabled |-> FALSE]]

-----------------------------------------------------------------------------
(* What a machine is, whatever has been written: the registers stay within *)
(* their bit fields, and the cells within the memories they belong to.     *)

MachineFields ==
  {"console_memory", "cartridge_rom", "external_ram", "rom_bank_count",
   "ram_bank_count", "memory_controller", "controller_state"}

ControllerState ==
  [rom_bank : 0 .. 31, ram_bank : 0 .. 3, mode : 0 .. 1, ram_enabled : BOOLEAN]

IsMachine(m) ==
  /\ DOMAIN m = MachineFields
  /\ IsCartridge(m.cartridge_rom)
  /\ IsCells(m.console_memory, ConsoleBytes)
  /\ IsCells(m.external_ram, CartRamBytes)
  /\ m.rom_bank_count \in {0, 2, 4, 8, 16, 32, 64, 128}
  /\ m.ram_bank_count \in {0, 1, 4, 8, 16}
  /\ m.memory_controller \in ControllerTypes
  /\ m.controller_state \in ControllerState
=============================================================================
