-------------------------- MODULE MemoryControllers --------------------------
(***************************************************************************)
(* memory_controllers.c: the cartridge memory controller behind the bus.   *)
(*                                                                         *)
(* Every operator takes the machine, a record that holds machine_state and *)
(* the file-level controller_state:                                        *)
(*   console_memory    the overwritten cells of the console's 64 KiB       *)
(*   cartridge_rom     the ROM file                                        *)
(*   external_ram      the written cells of the external RAM buffer        *)
(*   rom_bank_count, ram_bank_count, memory_controller                     *)
(*   controller_state  the four MBC1 registers                             *)
(*                                                                         *)
(* A uint8_t* is a pair of the object it points into and an offset.  The   *)
(* console memory, the ROM and 64 KiB of slack are ONE allocation, so a    *)
(* pointer into either has object "block": the console is at offset 0, the *)
(* ROM at offset 65536.                                                    *)
(***************************************************************************)
EXTENDS CartHeader

Pointer(object, offset) == [object |-> object, offset |-> offset]
Null == Pointer("null", 0)

\* 64 KiB of console memory in front of the ROM, 8 banks of slack behind it.
ConsoleBytes == 65536
CartRamBytes == 65536
BlockBytes(m) == ConsoleBytes + m.cartridge_rom.size + CartRamBytes

ConsolePointer(addr) == Pointer("block", addr)
RomPointer(offset)   == Pointer("block", ConsoleBytes + offset)
InvalidData          == Pointer("invalid_data", 0)

ROM_BANK_SIZE == 16384
RAM_BANK_SIZE == 8192

-----------------------------------------------------------------------------
(* The address ranges of the MBC1.  Each starts at the last address of the *)
(* one before it: the order of the tests decides.                          *)

InRange(value, low, high) == value >= low /\ value <= high

range_mbc1_enable_ram(addr) == InRange(addr, 0, 8191)
range_mbc1_rom_bank(addr)   == InRange(addr, 8191, 16383)
range_mbc1_ram_bank(addr)   == InRange(addr, 16383, 24575)
range_mbc1_mode_sel(addr)   == InRange(addr, 24575, 32767)
range_mbc1_ext_ram(addr)    == InRange(addr, 40960, 49151)
\* Mutant: bank 0 one address too long.
range_mbc1_rom_0_too_long(addr) == InRange(addr, 0, 16384)
range_mbc1_rom_0(addr)      == InRange(addr, 0, 16383)
range_mbc1_rom_high(addr)   == InRange(addr, 16383, 32767)

-----------------------------------------------------------------------------
(* Which bank a ROM address reads.                                         *)

zero_bank_number(rom_bank_count, ram_bank_count) ==
  CASE rom_bank_count <= 32 -> 0
    [] rom_bank_count > 32 /\ rom_bank_count <= 64  -> U8(16 * ram_bank_count)
    [] rom_bank_count > 64 /\ rom_bank_count <= 128 -> U8(32 * ram_bank_count)
    [] OTHER -> 0

\* The bank register, capped by the bank count and, for large cartridges,
\* ANDed with the bits 5 and 6 taken from the RAM bank COUNT.
high_bank_number(ctrl, rom_bank_count, ram_bank_count) ==
  LET base == IF ctrl.rom_bank > rom_bank_count THEN rom_bank_count
                                                ELSE ctrl.rom_bank
  IN  CASE rom_bank_count <= 32 -> base
        [] rom_bank_count > 32 /\ rom_bank_count <= 64 ->
             And8(base, 32 * LowBits(ram_bank_count, 2))
        [] rom_bank_count > 64 /\ rom_bank_count <= 128 ->
             And8(base, 32 * LowBits(ram_bank_count, 4))
        [] OTHER -> base

\* Mutant: the sum is not cut to 16 bits.
ZeroBankOffsetWide(m, addr) ==
  IF m.controller_state.mode # 0
  THEN addr + ROM_BANK_SIZE
                * zero_bank_number(m.rom_bank_count, m.ram_bank_count)
  ELSE addr

\* Offset into the ROM of an address in 0x0000-0x3FFF.  The sum is kept in
\* the uint16_t addr.
ZeroBankOffset(m, addr) ==
  IF m.controller_state.mode # 0
  THEN U16(addr + ROM_BANK_SIZE
                    * zero_bank_number(m.rom_bank_count, m.ram_bank_count))
  ELSE addr

\* Mutant: the offset is not cut to 16 bits.
HighBankOffsetWide(m, addr) ==
  LET bank == U8(high_bank_number(m.controller_state, m.rom_bank_count,
                                  m.ram_bank_count) + 1)
  IN  ROM_BANK_SIZE * bank + (addr - ROM_BANK_SIZE)

\* Offset into the ROM of an address in 0x4000-0x7FFF, a uint16_t as well.
HighBankOffset(m, addr) ==
  LET bank == U8(high_bank_number(m.controller_state, m.rom_bank_count,
                                  m.ram_bank_count) + 1)
  IN  U16(ROM_BANK_SIZE * bank + (addr - ROM_BANK_SIZE))

ExternalRamOffset(m, addr) ==
  (addr - 40960) + (IF m.controller_state.mode = 1
                    THEN RAM_BANK_SIZE * m.controller_state.ram_bank ELSE 0)

mbc1_read(addr, m) ==
  IF range_mbc1_rom_0(addr) THEN RomPointer(ZeroBankOffset(m, addr))
  ELSE IF range_mbc1_rom_high(addr) THEN RomPointer(HighBankOffset(m, addr))
  ELSE IF range_mbc1_ext_ram(addr) /\ m.controller_state.ram_enabled
    THEN Pointer("external_ram", U16(ExternalRamOffset(m, addr)))
  ELSE InvalidData

\* Any controller but the MBC1 reads the copy of the ROM in console memory.
controller_read(addr, m) ==
  IF m.memory_controller = "MBC1" THEN mbc1_read(addr, m)
                                  ELSE ConsolePointer(addr)

-----------------------------------------------------------------------------
(* Writes: below 0x8000 they set controller registers.                     *)

Store(cells, a, v) ==
  [i \in DOMAIN cells \cup {a} |-> IF i = a THEN v ELSE cells[i]]

\* (value | 0xF) == 0xA
RamEnableValue(value) == 16 * (value \div 16) + 15 = 10

\* value & (rom_bank_count - 1) & 0x1F, never 0.  A bank count is a power of
\* two or, having wrapped around, 0.
RomBankValue(value, rom_bank_count) ==
  LET bank == LowBits(value, IF rom_bank_count \in 1 .. 32 THEN rom_bank_count
                                                          ELSE 32)
  IN  IF bank = 0 THEN 1 ELSE bank

\* Mutant: the lock is not looked at.
WriteUnlockedRam(addr, value, m) ==
  [m EXCEPT !.external_ram = Store(@, ExternalRamOffset(m, addr), value)]

\* A write to the cartridge's RAM, which is lost while that is locked.
WriteExternalRam(addr, value, m) ==
  IF m.controller_state.ram_enabled
  THEN [m EXCEPT !.external_ram = Store(@, ExternalRamOffset(m, addr), value)]
  ELSE m

write_mbc1_8(addr, value, m) ==
  IF range_mbc1_enable_ram(addr) THEN
    [m EXCEPT !.controller_state.ram_enabled = RamEnableValue(value)]
  ELSE IF range_mbc1_rom_bank(addr) THEN
    [m EXCEPT !.controller_state.rom_bank = RomBankValue(value, m.rom_bank_count)]
  ELSE IF range_mbc1_ram_bank(addr) THEN
    [m EXCEPT !.controller_state.ram_bank = LowBits(value, 4)]
  ELSE IF range_mbc1_mode_sel(addr) THEN
    [m EXCEPT !.controller_state.mode = LowBits(value, 2)]
  ELSE IF range_mbc1_ext_ram(addr) THEN WriteExternalRam(addr, value, m) ELSE m

\* Mutant: a store goes where a read of the lower half of the ROM would.
write_through(addr, value, m) ==
  [m EXCEPT !.cartridge_rom.bytes = Store(@, addr, value)]

controller_write_8_bit(addr, value, m) ==
  IF m.memory_controller = "MBC1" THEN write_mbc1_8(addr, value, m) ELSE m
=============================================================================
