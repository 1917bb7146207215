------------------------------ MODULE BusProofs ------------------------------
(***************************************************************************)
(* What every read and write of the bus preserves, for any machine: the    *)
(* lemmas that the theorems about the memory system and the CPU rest on.   *)
(***************************************************************************)
EXTENDS Bus, TLAPS

\* No write has reached the part of the console memory behind the cartridge's
\* addresses, nor unlocked the cartridge RAM.
Locked(m) ==
  /\ \A a \in DOMAIN m.console_memory : ~OnCartridge(a)
  /\ m.controller_state.ram_enabled = FALSE

Sound(m) == IsMachine(m) /\ Locked(m)

\* What is left of the machine m once something has been written to it.
Kept(n, m) ==
  /\ Sound(n)
  /\ n.cartridge_rom = m.cartridge_rom
  /\ n.memory_controller = m.memory_controller
  /\ n.external_ram = m.external_ram
  /\ DOMAIN m.console_memory \subseteq DOMAIN n.console_memory

LockedRegisters ==
  [rom_bank : 0 .. 31, ram_bank : 0 .. 3, mode : 0 .. 1, ram_enabled : {FALSE}]

-----------------------------------------------------------------------------
(* Writing one cell, setting a register.                                   *)

LEMMA StoreCells ==
  ASSUME NEW f, NEW top \in Nat, IsCells(f, top),
         NEW a \in Nat, a < top, NEW v \in Byte
  PROVE  IsCells(Store(f, a, v), top) /\ DOMAIN Store(f, a, v) = DOMAIN f \cup {a}
BY DEF IsCells, Store

\* (value | 0xF) == 0xA holds for no byte: the low four bits are ones.
LEMMA NeverUnlocks == ASSUME NEW v \in Byte PROVE RamEnableValue(v) = FALSE
<1>1. 16 * (v \div 16) + 15 # 10
  BY DEF Byte
<1> QED BY <1>1 DEF RamEnableValue

LEMMA RomBankValueType ==
  ASSUME NEW v \in Byte, NEW n \in {0, 2, 4, 8, 16, 32, 64, 128}
  PROVE  RomBankValue(v, n) \in 0 .. 31
BY DEF Byte, RomBankValue, LowBits

LEMMA SetRegisters ==
  ASSUME NEW m, Sound(m), NEW r \in LockedRegisters,
         NEW n, n = [m EXCEPT !.controller_state = r]
  PROVE  Kept(n, m)
<1> USE DEF Sound, Kept
<1>1. DOMAIN n = MachineFields
  BY DEF IsMachine
<1>2. n.controller_state = r
  BY DEF IsMachine, MachineFields
<1>3. /\ n.console_memory = m.console_memory
      /\ n.cartridge_rom = m.cartridge_rom
      /\ n.external_ram = m.external_ram
      /\ n.rom_bank_count = m.rom_bank_count
      /\ n.ram_bank_count = m.ram_bank_count
      /\ n.memory_controller = m.memory_controller
  BY DEF IsMachine, MachineFields
<1>4. /\ r.ram_enabled = FALSE
      /\ r \in ControllerState
  BY DEF LockedRegisters, ControllerState
<1>5. IsMachine(n)
  BY <1>1, <1>2, <1>3, <1>4 DEF IsMachine
<1>6. Locked(n)
  BY <1>2, <1>3, <1>4 DEF Locked
<1> QED BY <1>3, <1>5, <1>6

\* The addresses that set the bank register.
SetsBank(addr) == addr > 8191 /\ addr <= 16383

\* A write of the MBC1 sets one register.
LEMMA MBC1WriteEffect ==
  ASSUME NEW m, Sound(m), NEW addr \in Word, NEW v \in Byte
  PROVE  \/ write_mbc1_8(addr, v, m) = m
         \/ \E r \in LockedRegisters :
              /\ write_mbc1_8(addr, v, m) = [m EXCEPT !.controller_state = r]
              /\ ~SetsBank(addr) => r.rom_bank = m.controller_state.rom_bank
<1> DEFINE c == m.controller_state
           w == write_mbc1_8(addr, v, m)
<1>0. c \in LockedRegisters
  BY DEF Sound, IsMachine, Locked, LockedRegisters, ControllerState
<1>1. CASE range_mbc1_enable_ram(addr)
  <2> DEFINE r == [c EXCEPT !.ram_enabled = FALSE]
  <2>1. w = [m EXCEPT !.controller_state = r]
    BY <1>1, NeverUnlocks DEF write_mbc1_8
  <2>3. /\ r \in LockedRegisters
        /\ r.rom_bank = c.rom_bank
    BY <1>0 DEF LockedRegisters
  <2> HIDE DEF r, w
  <2> QED BY <2>1, <2>3 DEF w
<1>2. CASE ~range_mbc1_enable_ram(addr) /\ range_mbc1_rom_bank(addr)
  <2> DEFINE b == RomBankValue(v, m.rom_bank_count)
  <2> DEFINE r == [c EXCEPT !.rom_bank = b]
  <2>1. w = [m EXCEPT !.controller_state = r]
    BY <1>2 DEF write_mbc1_8
  <2>2. b \in 0 .. 31
    BY RomBankValueType DEF Sound, IsMachine
  <2>3. r \in LockedRegisters
    BY <1>0, <2>2 DEF LockedRegisters
  <2>4. SetsBank(addr)
    BY <1>2 DEF range_mbc1_enable_ram, range_mbc1_rom_bank, InRange, Word,
       SetsBank
  <2> HIDE DEF r, w
  <2> QED BY <2>1, <2>3, <2>4 DEF w
<1>3. CASE /\ ~range_mbc1_enable_ram(addr) /\ ~range_mbc1_rom_bank(addr)
            /\ range_mbc1_ram_bank(addr)
  <2> DEFINE r == [c EXCEPT !.ram_bank = LowBits(v, 4)]
  <2>1. w = [m EXCEPT !.controller_state = r]
    BY <1>3 DEF write_mbc1_8
  <2>2. LowBits(v, 4) \in 0 .. 3
    BY DEF LowBits, Byte
  <2>3. /\ r \in LockedRegisters
        /\ r.rom_bank = c.rom_bank
    BY <1>0, <2>2 DEF LockedRegisters
  <2> HIDE DEF r, w
  <2> QED BY <2>1, <2>3 DEF w
<1>4. CASE /\ ~range_mbc1_enable_ram(addr) /\ ~range_mbc1_rom_bank(addr)
            /\ ~range_mbc1_ram_bank(addr) /\ range_mbc1_mode_sel(addr)
  <2> DEFINE r == [c EXCEPT !.mode = LowBits(v, 2)]
  <2>1. w = [m EXCEPT !.controller_state = r]
    BY <1>4 DEF write_mbc1_8
  <2>2. LowBits(v, 2) \in 0 .. 1
    BY DEF LowBits, Byte
  <2>3. /\ r \in LockedRegisters
        /\ r.rom_bank = c.rom_bank
    BY <1>0, <2>2 DEF LockedRegisters
  <2> HIDE DEF r, w
  <2> QED BY <2>1, <2>3 DEF w
<1>5. CASE /\ ~range_mbc1_enable_ram(addr) /\ ~range_mbc1_rom_bank(addr)
            /\ ~range_mbc1_ram_bank(addr) /\ ~range_mbc1_mode_sel(addr)
  BY <1>5 DEF write_mbc1_8, WriteExternalRam, Locked, Sound
<1> QED BY <1>1, <1>2, <1>3, <1>4, <1>5

LEMMA MBC1WriteKeepsMachine ==
  ASSUME NEW m, Sound(m), NEW addr \in Word, NEW v \in Byte
  PROVE  Kept(write_mbc1_8(addr, v, m), m)
BY MBC1WriteEffect, SetRegisters DEF Kept

LEMMA WriteKeepsMachine ==
  ASSUME NEW m, Sound(m), NEW addr \in Word, NEW v \in Byte
  PROVE  Kept(bus_write_8_bit(addr, v, m), m)
<1> USE DEF Sound
<1> DEFINE w == bus_write_8_bit(addr, v, m)
<1>1. CASE OnCartridge(addr)
  <2>1. w = m \/ w = write_mbc1_8(addr, v, m)
    BY <1>1 DEF bus_write_8_bit, controller_write_8_bit
  <2> QED BY <2>1, MBC1WriteKeepsMachine DEF Kept
<1>2. CASE ~OnCartridge(addr)
  <2> DEFINE cells == Store(m.console_memory, addr, v)
  <2>1. w = [m EXCEPT !.console_memory = cells]
    BY <1>2 DEF bus_write_8_bit
  <2>2. /\ IsCells(cells, ConsoleBytes)
        /\ DOMAIN cells = DOMAIN m.console_memory \cup {addr}
    <3>1. ConsoleBytes \in Nat /\ addr \in Nat /\ addr < ConsoleBytes
      BY DEF ConsoleBytes, Word
    <3>2. IsCells(m.console_memory, ConsoleBytes)
      BY DEF IsMachine
    <3> QED BY <3>1, <3>2, StoreCells
  <2> HIDE DEF cells, w
  <2>3. w.console_memory = cells
    BY <2>1 DEF IsMachine, MachineFields
  <2>4. /\ w.controller_state = m.controller_state
        /\ w.cartridge_rom = m.cartridge_rom
        /\ w.external_ram = m.external_ram
        /\ w.rom_bank_count = m.rom_bank_count
        /\ w.ram_bank_count = m.ram_bank_count
        /\ w.memory_controller = m.memory_controller
        /\ DOMAIN w = MachineFields
    BY <2>1 DEF IsMachine, MachineFields
  <2>5. IsMachine(w)
    BY <2>2, <2>3, <2>4 DEF IsMachine
  <2>6. Locked(w)
    BY <1>2, <2>2, <2>3, <2>4 DEF Locked
  <2> QED BY <2>2, <2>3, <2>4, <2>5, <2>6 DEF w, Kept
<1> QED BY <1>1, <1>2

LEMMA U16Type == ASSUME NEW n \in Nat PROVE U16(n) \in Word
BY SMTT(30) DEF U16, Word

LEMMA Write16KeepsMachine ==
  ASSUME NEW m, Sound(m), NEW addr \in Word, NEW v \in Word
  PROVE  Kept(bus_write_16_bit(addr, v, m), m)
<1>1. Low(v) \in Byte /\ High(v) \in Byte
  BY DEF Low, High, Byte, Word
<1>2. U16(addr + 1) \in Word
  <2>1. addr + 1 \in Nat
    BY DEF Word
  <2> QED BY <2>1, U16Type
<1> DEFINE first == bus_write_8_bit(addr, Low(v), m)
<1>3. Kept(first, m)
  BY <1>1, WriteKeepsMachine
<1> HIDE DEF first
<1>4. Kept(bus_write_8_bit(U16(addr + 1), High(v), first), first)
  BY <1>1, <1>2, <1>3, WriteKeepsMachine DEF Kept
<1> QED BY <1>3, <1>4 DEF bus_write_16_bit, first, Kept

-----------------------------------------------------------------------------
(* Starting.                                                               *)

LEMMA PowerOnSound ==
  ASSUME NEW c, IsCartridge(c)
  PROVE  Sound(PowerOn(c)) /\ PowerOn(c).cartridge_rom = c
<1>2. RomBankCount(RomSizeCode(c)) \in {0, 2, 4, 8, 16, 32, 64, 128}
  BY DEF IsCartridge, RomSizeCodes, RomBankCount, ShiftOne
<1>3. RamBankCount(RamSizeCode(c)) \in {0, 1, 4, 8, 16}
  BY DEF RamBankCount
<1>4. GetControllerType(GetCartHardware(HardwareCode(c))) \in ControllerTypes
  BY DEF GetControllerType, ControllerTypes
<1>5. /\ IsCells(<<>>, ConsoleBytes) /\ IsCells(<<>>, CartRamBytes)
      /\ DOMAIN <<>> = {}
  BY DEF IsCells
<1>6. IsMachine(PowerOn(c))
  BY <1>2, <1>3, <1>4, <1>5
     DEF PowerOn, IsMachine, MachineFields, ControllerState
<1>7. Locked(PowerOn(c))
  BY <1>5 DEF PowerOn, Locked
<1> QED BY <1>6, <1>7 DEF Sound, PowerOn

-----------------------------------------------------------------------------
(* Reading.                                                                *)

LEMMA FileByteType ==
  ASSUME NEW f, IsCartridge(f), NEW i
  PROVE  FileByte(f, i) \in Byte
BY DEF FileByte, IsCartridge, IsCells, Byte

LEMMA LoadType ==
  ASSUME NEW m, IsMachine(m), NEW o, NEW i
  PROVE  Load(m, o, i) \in Byte
<1>1. BlockByte(m, i) \in Byte
  <2>1. \A k : RomByte(m, k) \in Byte
    BY FileByteType DEF IsMachine, RomByte
  <2>2. i \in DOMAIN m.console_memory => m.console_memory[i] \in Byte
    BY DEF IsMachine, IsCells
  <2>3. 0 \in Byte
    BY DEF Byte
  <2> QED BY <2>1, <2>2, <2>3 DEF BlockByte
<1>2. i \in DOMAIN m.external_ram => m.external_ram[i] \in Byte
  BY DEF IsMachine, IsCells
<1>3. 0 \in Byte /\ 255 \in Byte
  BY DEF Byte
<1> QED BY <1>1, <1>2, <1>3 DEF Load

LEMMA PairType ==
  ASSUME NEW hi \in Byte, NEW lo \in Byte PROVE Pair(hi, lo) \in Word
BY DEF Pair, Byte, Word

LEMMA ReadType ==
  ASSUME NEW m, Sound(m), NEW addr
  PROVE  Read8(m, addr) \in Byte /\ Read16(m, addr) \in Word
<1>1. Read8(m, addr) \in Byte
  BY LoadType DEF Sound, Read8
<1>2. Read16(m, addr) \in Word
  BY LoadType, PairType DEF Sound, Read16
<1> QED BY <1>1, <1>2

\* zero_bank_number is a multiple of four, and four banks are 64 KiB.
LEMMA ZeroBankIsBankZero ==
  ASSUME NEW m, Sound(m), NEW addr \in Word, addr < ROM_BANK_SIZE
  PROVE  ZeroBankOffset(m, addr) = addr
<1> USE DEF Sound
<1> DEFINE z == zero_bank_number(m.rom_bank_count, m.ram_bank_count)
<1>1. z \in {0, 16, 32, 64, 128}
  BY DEF IsMachine, zero_bank_number, U8
<1>2. \A k \in {0, 16, 32, 64, 128} : U16(addr + ROM_BANK_SIZE * k) = addr
  BY DEF U16, ROM_BANK_SIZE, Word
<1> QED BY <1>1, <1>2 DEF ZeroBankOffset

LEMMA ReadBelowWindow ==
  ASSUME NEW m, Sound(m), m.memory_controller # "NONE",
         NEW addr \in Word, addr < ROM_BANK_SIZE
  PROVE  Read8(m, addr) = RomByte(m, addr)
<1> USE DEF Sound
<1>0. addr < 16384
  BY DEF ROM_BANK_SIZE
<1>1. OnCartridge(addr) /\ addr \notin DOMAIN m.console_memory
  <2>1. OnCartridge(addr)
    BY <1>0 DEF OnCartridge, bus_address_in_rom, Word
  <2> QED BY <2>1 DEF Locked
<1>2. CASE m.memory_controller = "MBC1"
  <2>1. bus_read(addr, m) = RomPointer(addr)
    <3>1. range_mbc1_rom_0(addr)
      BY <1>0 DEF range_mbc1_rom_0, InRange, Word
    <3> QED BY <1>1, <1>2, <3>1, ZeroBankIsBankZero
            DEF bus_read, controller_read, mbc1_read
  <2>2. ConsoleBytes + addr \notin DOMAIN m.console_memory
    BY DEF IsMachine, IsCells, ConsoleBytes, Word
  <2>3. BlockByte(m, ConsoleBytes + addr) = RomByte(m, addr)
    BY <1>0, <2>2 DEF BlockByte, ConsoleBytes, Word
  <2> QED BY <2>1, <2>3 DEF Read8, Load, RomPointer, Pointer
<1>3. CASE m.memory_controller # "MBC1"
  <2>1. bus_read(addr, m) = ConsolePointer(addr)
    BY <1>1, <1>3 DEF bus_read, controller_read
  <2>2. BlockByte(m, addr) = RomByte(m, addr)
    BY <1>0, <1>1 DEF BlockByte, Word
  <2> QED BY <2>1, <2>2 DEF Read8, Load, ConsolePointer, Pointer
<1> QED BY <1>2, <1>3

LEMMA And8Type == ASSUME NEW x, NEW y PROVE And8(x, y) \in Nat
BY DEF And8, Bitwise8

LEMMA WindowOffsetType ==
  ASSUME NEW m, Sound(m), NEW addr \in Word, addr >= ROM_BANK_SIZE
  PROVE  HighBankOffset(m, addr) \in Word
<1> USE DEF Sound
<1> DEFINE h == high_bank_number(m.controller_state, m.rom_bank_count,
                                 m.ram_bank_count)
<1>1. h \in Nat
  BY And8Type DEF high_bank_number, IsMachine, ControllerState
<1> HIDE DEF h
<1>2. U8(h + 1) \in Nat
  BY <1>1 DEF U8
<1>3. ROM_BANK_SIZE * U8(h + 1) + (addr - ROM_BANK_SIZE) \in Nat
  BY <1>2 DEF ROM_BANK_SIZE, Word
<1> QED BY <1>3, U16Type DEF HighBankOffset, h

LEMMA PointersInBounds ==
  ASSUME NEW m, Sound(m), m.memory_controller # "NONE",
         NEW addr \in Word
  PROVE  InBounds(m, bus_read(addr, m))
<1> USE DEF Sound
<1> DEFINE p == bus_read(addr, m)
<1>1. m.cartridge_rom.size \in Nat /\ m.cartridge_rom.size > 0
  BY DEF IsMachine, IsCartridge
<1>2. ASSUME NEW w \in Word
      PROVE  InBounds(m, ConsolePointer(w)) /\ InBounds(m, RomPointer(w))
  BY <1>1 DEF InBounds, ConsolePointer, RomPointer, Pointer, BlockBytes,
              ConsoleBytes, CartRamBytes, Word
<1>3. InBounds(m, InvalidData)
  BY DEF InBounds, InvalidData, Pointer
<1>4. \/ p = ConsolePointer(addr)
      \/ p = RomPointer(ZeroBankOffset(m, addr)) /\ range_mbc1_rom_0(addr)
      \/ p = RomPointer(HighBankOffset(m, addr)) /\ ~range_mbc1_rom_0(addr)
      \/ p = InvalidData
  BY DEF bus_read, controller_read, mbc1_read, Locked
<1>5. CASE p = RomPointer(ZeroBankOffset(m, addr)) /\ range_mbc1_rom_0(addr)
  <2>1. addr < ROM_BANK_SIZE
    BY <1>5 DEF range_mbc1_rom_0, InRange, ROM_BANK_SIZE, Word
  <2> QED BY <1>2, <1>5, <2>1, ZeroBankIsBankZero
<1>6. CASE p = RomPointer(HighBankOffset(m, addr)) /\ ~range_mbc1_rom_0(addr)
  <2>1. addr >= ROM_BANK_SIZE
    BY <1>6 DEF range_mbc1_rom_0, InRange, ROM_BANK_SIZE, Word
  <2> QED BY <1>2, <1>6, <2>1, WindowOffsetType
<1> QED BY <1>2, <1>3, <1>4, <1>5, <1>6

-----------------------------------------------------------------------------
(* Reading what was written.                                               *)

LEMMA ReadPlain ==
  ASSUME NEW m, NEW a, ~OnCartridge(a)
  PROVE  Read8(m, a) = BlockByte(m, a)
<1>1. bus_read(a, m) = ConsolePointer(a)
  BY DEF bus_read
<1> QED BY <1>1 DEF Read8, Load, ConsolePointer, Pointer

\* What an address on the cartridge points at is no plain cell of memory.
LEMMA PointsElsewhere ==
  ASSUME NEW m, Sound(m), NEW a \in Word, OnCartridge(a),
         NEW b \in Word, ~OnCartridge(b), bus_read(a, m).object = "block"
  PROVE  bus_read(a, m).offset # b
<1> DEFINE p == bus_read(a, m)
<1>1. \/ p = ConsolePointer(a)
      \/ p = RomPointer(ZeroBankOffset(m, a)) /\ range_mbc1_rom_0(a)
      \/ p = RomPointer(HighBankOffset(m, a)) /\ ~range_mbc1_rom_0(a)
      \/ p = InvalidData \/ p = Null
  BY DEF bus_read, controller_read, mbc1_read, Locked, Sound
<1>2. ASSUME NEW w \in Word PROVE RomPointer(w).offset # b
  BY DEF RomPointer, Pointer, ConsoleBytes, Word
<1>3. CASE p = ConsolePointer(a)
  BY <1>3 DEF ConsolePointer, Pointer
<1>4. CASE p = RomPointer(ZeroBankOffset(m, a)) /\ range_mbc1_rom_0(a)
  <2>1. a < ROM_BANK_SIZE
    BY <1>4 DEF range_mbc1_rom_0, InRange, ROM_BANK_SIZE, Word
  <2> QED BY <1>2, <1>4, <2>1, ZeroBankIsBankZero
<1>5. CASE p = RomPointer(HighBankOffset(m, a)) /\ ~range_mbc1_rom_0(a)
  <2>1. a >= ROM_BANK_SIZE
    BY <1>5 DEF range_mbc1_rom_0, InRange, ROM_BANK_SIZE, Word
  <2> QED BY <1>2, <1>5, <2>1, WindowOffsetType
<1>6. CASE p = InvalidData \/ p = Null
  BY <1>6 DEF InvalidData, Null, Pointer
<1> QED BY <1>1, <1>3, <1>4, <1>5, <1>6

\* A write to a plain address changes what that address reads, only.
LEMMA WritePlain ==
  ASSUME NEW m, Sound(m), NEW b \in Word, ~OnCartridge(b), NEW v \in Byte
  PROVE  \A a \in Word : Read8(bus_write_8_bit(b, v, m), a) =
                            IF a = b THEN v ELSE Read8(m, a)
<1> DEFINE w == bus_write_8_bit(b, v, m)
<1>1. w = [m EXCEPT !.console_memory = Store(m.console_memory, b, v)]
  BY DEF bus_write_8_bit
<1>2. /\ w.console_memory = Store(m.console_memory, b, v)
      /\ w.cartridge_rom = m.cartridge_rom
      /\ w.external_ram = m.external_ram
      /\ w.rom_bank_count = m.rom_bank_count
      /\ w.ram_bank_count = m.ram_bank_count
      /\ w.memory_controller = m.memory_controller
      /\ w.controller_state = m.controller_state
  BY <1>1 DEF Sound, IsMachine, MachineFields
<1> HIDE DEF w
<1>3. ASSUME NEW i PROVE BlockByte(w, i) = IF i = b THEN v ELSE BlockByte(m, i)
  BY <1>2 DEF BlockByte, Store, RomByte
<1>4. ASSUME NEW a \in Word, OnCartridge(a)
      PROVE  Read8(w, a) = IF a = b THEN v ELSE Read8(m, a)
  <2>1. bus_read(a, w) = bus_read(a, m)
    BY <1>2 DEF bus_read, controller_read, mbc1_read, ZeroBankOffset,
                HighBankOffset, ExternalRamOffset
  <2>2. bus_read(a, m).object = "block" => bus_read(a, m).offset # b
    BY <1>4, PointsElsewhere
  <2> HIDE DEF w
  <2> QED BY <1>2, <1>3, <1>4, <2>1, <2>2 DEF Read8, Load
<1>5. ASSUME NEW a \in Word, ~OnCartridge(a)
      PROVE  Read8(w, a) = IF a = b THEN v ELSE Read8(m, a)
  BY <1>3, <1>5, ReadPlain
<1> QED BY <1>4, <1>5 DEF w

\* A write to the cartridge changes what the window reads at most, and that
\* only when it sets the bank.
LEMMA WriteCartridge ==
  ASSUME NEW m, Sound(m), NEW b \in Word, OnCartridge(b), NEW v \in Byte,
         NEW a \in Word,
         SetsBank(b) => a < ROM_BANK_SIZE \/ a > 32767
  PROVE  Read8(bus_write_8_bit(b, v, m), a) = Read8(m, a)
<1> DEFINE w == bus_write_8_bit(b, v, m)
<1>1. \/ w = m
      \/ /\ m.memory_controller = "MBC1"
         /\ \E r \in LockedRegisters :
              /\ w = [m EXCEPT !.controller_state = r]
              /\ ~SetsBank(b) => r.rom_bank = m.controller_state.rom_bank
  BY MBC1WriteEffect DEF bus_write_8_bit, controller_write_8_bit
<1>2. CASE w = m
  BY <1>2
<1>3. ASSUME NEW r \in LockedRegisters, m.memory_controller = "MBC1",
             w = [m EXCEPT !.controller_state = r],
             ~SetsBank(b) => r.rom_bank = m.controller_state.rom_bank
      PROVE  Read8(w, a) = Read8(m, a)
  <2>1. /\ w.console_memory = m.console_memory
        /\ w.cartridge_rom = m.cartridge_rom
        /\ w.external_ram = m.external_ram
        /\ w.rom_bank_count = m.rom_bank_count
        /\ w.ram_bank_count = m.ram_bank_count
        /\ w.memory_controller = m.memory_controller
        /\ w.controller_state = r
    BY <1>3 DEF Sound, IsMachine, MachineFields
  <2>2. Sound(w)
    BY <1>3, SetRegisters DEF Kept
  <2> HIDE DEF w
  <2>3. \A i : BlockByte(w, i) = BlockByte(m, i)
    BY <2>1 DEF BlockByte, RomByte
  <2>4. CASE ~OnCartridge(a)
    BY <2>3, <2>4, ReadPlain
  <2>5. CASE a < ROM_BANK_SIZE
    <3>1. m.memory_controller # "NONE" /\ w.memory_controller # "NONE"
      BY <1>3, <2>1
    <3>2. Read8(w, a) = RomByte(w, a)
      BY <2>2, <2>5, <3>1, ReadBelowWindow
    <3>3. Read8(m, a) = RomByte(m, a)
      BY <2>5, <3>1, ReadBelowWindow
    <3> QED BY <2>1, <3>2, <3>3 DEF RomByte
  <2>6. CASE OnCartridge(a) /\ a >= ROM_BANK_SIZE /\ a <= 32767
    <3>1. ~SetsBank(b)
      BY <2>6 DEF ROM_BANK_SIZE, Word
    <3>2. HighBankOffset(w, a) = HighBankOffset(m, a)
      BY <1>3, <2>1, <3>1 DEF HighBankOffset, high_bank_number
    <3>3. ~range_mbc1_rom_0(a) /\ range_mbc1_rom_high(a)
      BY <2>6 DEF range_mbc1_rom_0, range_mbc1_rom_high, InRange, Word,
                  ROM_BANK_SIZE
    <3>4. bus_read(a, w) = bus_read(a, m)
          /\ bus_read(a, m) = RomPointer(HighBankOffset(m, a))
      BY <1>3, <2>1, <2>6, <3>2, <3>3 DEF bus_read, controller_read, mbc1_read
    <3> QED BY <2>3, <3>4 DEF Read8, Load, RomPointer, Pointer
  <2>7. CASE OnCartridge(a) /\ a > 32767
    <3>1. ~range_mbc1_rom_0(a) /\ ~range_mbc1_rom_high(a)
      BY <2>7 DEF range_mbc1_rom_0, range_mbc1_rom_high, InRange, Word
    <3>2. bus_read(a, w) = InvalidData /\ bus_read(a, m) = InvalidData
      BY <1>3, <2>1, <2>2, <2>7, <3>1
         DEF bus_read, controller_read, mbc1_read, Sound, Locked
    <3> QED BY <3>2 DEF Read8, Load, InvalidData, Pointer
  <2>8. a \in Nat
    BY DEF Word
  <2> QED BY <2>4, <2>5, <2>6, <2>7, <2>8 DEF ROM_BANK_SIZE
<1> QED BY <1>1, <1>2, <1>3

=============================================================================
