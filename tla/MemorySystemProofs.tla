------------------------- MODULE MemorySystemProofs -------------------------
(***************************************************************************)
(* Theorems about MemorySystem, for every set of cartridges, inputs and    *)
(* probed addresses.                                                       *)
(***************************************************************************)
EXTENDS MemorySystem, BusProofs

\* The inductive invariant.
IInv == Sound(machine) /\ machine.cartridge_rom \in Cartridges

LEMMA InitInvariant == Init => IInv
BY PowerOnSound, CartridgesAssumption DEF Init, IInv

LEMMA NextInvariant == IInv /\ [Next]_machine => IInv'
<1> SUFFICES ASSUME IInv, [Next]_machine PROVE IInv'
  OBVIOUS
<1>1. ASSUME NEW addr \in Inputs, NEW value \in Values, Write8(addr, value)
      PROVE  IInv'
  <2>1. addr \in Word /\ value \in Byte
    BY InputsAssumption
  <2> QED BY <1>1, <2>1, WriteKeepsMachine DEF Write8, IInv, Kept
<1>2. ASSUME NEW addr \in Inputs, NEW low \in Values, NEW high \in Values,
             Write16(addr, Pair(high, low))
      PROVE  IInv'
  <2>1. addr \in Word /\ low \in Byte /\ high \in Byte
    BY InputsAssumption
  <2>2. Pair(high, low) \in Word
    BY <2>1, PairType
  <2> QED BY <1>2, <2>1, <2>2, Write16KeepsMachine DEF Write16, IInv, Kept
<1>3. CASE UNCHANGED machine
  BY <1>3 DEF IInv
<1> QED BY <1>1, <1>2, <1>3 DEF Next

LEMMA Invariance == Spec => []IInv
<1> QED BY InitInvariant, NextInvariant, PTL DEF Spec

\* The type invariant holds in every reachable state.
THEOREM TypeCorrect == Spec => []TypeOK
<1>1. IInv => TypeOK
  BY DEF IInv, Sound, TypeOK
<1> QED BY <1>1, Invariance, PTL

\* The lower half of the ROM area always shows the first bytes of the file.
THEOREM BankZeroStaysFixed == Spec => []BankZeroFixed
<1>1. IInv => BankZeroFixed
  BY ReadBelowWindow, ProbesAssumption DEF IInv, BankZeroFixed
<1> QED BY <1>1, Invariance, PTL

\* Every pointer the bus hands out can be dereferenced, by 16-bit reads too.
THEOREM ReadsStayInBounds == Spec => []ReadsInBounds
<1>1. IInv => ReadsInBounds
  BY PointersInBounds, ProbesAssumption DEF IInv, ReadsInBounds
<1> QED BY <1>1, Invariance, PTL

-----------------------------------------------------------------------------
(* Sixteen bits at a time.                                                 *)

LEMMA ReadBlock ==
  ASSUME NEW m, NEW a, NEW i, bus_read(a, m) = Pointer("block", i)
  PROVE  /\ Read8(m, a) = BlockByte(m, i)
         /\ Read16(m, a) = Pair(BlockByte(m, i + 1), BlockByte(m, i))
BY DEF Read8, Read16, Load, Pointer

\* Within a bank, the offset of the next address is the next offset.
LEMMA NextOffset ==
  ASSUME NEW m, Sound(m), NEW a \in Word, a >= ROM_BANK_SIZE, a < 32767
  PROVE  HighBankOffset(m, a + 1) = HighBankOffset(m, a) + 1
<1> DEFINE h == U8(high_bank_number(m.controller_state, m.rom_bank_count,
                                    m.ram_bank_count) + 1)
<1>1. h \in Nat
  <2>1. high_bank_number(m.controller_state, m.rom_bank_count,
                         m.ram_bank_count) \in Nat
    BY And8Type DEF high_bank_number, IsMachine, ControllerState, Sound
  <2> QED BY <2>1 DEF U8
<1> HIDE DEF h
<1>2. a \in Nat /\ a >= 16384
  BY DEF ROM_BANK_SIZE, Word
<1>3. ASSUME NEW k \in Nat, NEW n \in Nat, n >= 16384, n < 32767
      PROVE  (16384 * k + (n + 1 - 16384)) % 65536
               = ((16384 * k + (n - 16384)) % 65536) + 1
  <2>1. PICK q \in Nat, r \in Nat : k = 4 * q + r /\ r < 4
    <3>1. k \div 4 \in Nat /\ k % 4 \in Nat /\ k % 4 < 4
      OBVIOUS
    <3>2. k = 4 * (k \div 4) + (k % 4)
      OBVIOUS
    <3> QED BY <3>1, <3>2
  <2> DEFINE x == 16384 * r + (n - 16384)
  <2>2. x \in Nat /\ x < 65535
    BY <1>3, <2>1
  <2>3. /\ 16384 * k + (n - 16384) = 65536 * q + x
        /\ 16384 * k + (n + 1 - 16384) = 65536 * q + (x + 1)
    BY <2>1
  <2> HIDE DEF x
  <2>4. (65536 * q + x) % 65536 = x /\ (65536 * q + (x + 1)) % 65536 = x + 1
    BY <2>2
  <2> QED BY <2>3, <2>4
<1> QED BY <1>1, <1>2, <1>3 DEF HighBankOffset, ROM_BANK_SIZE, U16, h

LEMMA SixteenBits ==
  ASSUME NEW m, Sound(m), m.memory_controller = "MBC1",
         NEW a \in Word, a \notin Seams
  PROVE  Read16(m, a) = Pair(Read8(m, U16(a + 1)), Read8(m, a))
<1>0. a \in Nat /\ a < 65536 /\ a # 16383 /\ a # 32767 /\ a # 40959 /\ a # 49151
  BY DEF Word, Seams
<1>1. m.memory_controller # "NONE"
  OBVIOUS
<1>2. \A i \in Nat : i >= 65536 => BlockByte(m, i) = RomByte(m, i - 65536)
  BY DEF BlockByte, Sound, IsMachine, IsCells, ConsoleBytes
<1>3. a # 65535 => U16(a + 1) = a + 1
  BY <1>0 DEF U16
<1>4. CASE a = 65535
  <2>1. Read16(m, a) = Pair(BlockByte(m, 65536), BlockByte(m, 65535))
        /\ Read8(m, a) = BlockByte(m, 65535)
    BY <1>4, ReadBlock DEF bus_read, OnCartridge, bus_address_in_rom,
                           bus_address_in_external_ram, ConsolePointer
  <2>2. U16(a + 1) = 0 /\ 0 \in Word
    BY <1>4 DEF U16, Word
  <2>3. Read8(m, 0) = RomByte(m, 0)
    BY <1>1, <2>2, ReadBelowWindow DEF ROM_BANK_SIZE
  <2>4. BlockByte(m, 65536) = RomByte(m, 0)
    BY <1>2
  <2> QED BY <2>1, <2>2, <2>3, <2>4
<1>5. CASE a < 16383
  <2>1. a + 1 \in Word /\ a < ROM_BANK_SIZE /\ a + 1 < ROM_BANK_SIZE
    BY <1>0, <1>5 DEF ROM_BANK_SIZE, Word
  <2>2. bus_read(a, m) = Pointer("block", ConsoleBytes + a)
    BY <1>1, <1>5, <2>1, ZeroBankIsBankZero
       DEF bus_read, OnCartridge, bus_address_in_rom, controller_read, mbc1_read,
           range_mbc1_rom_0, InRange, RomPointer, Word
  <2>3. Read8(m, a + 1) = BlockByte(m, ConsoleBytes + a + 1)
    BY <1>0, <1>1, <1>2, <2>1, ReadBelowWindow DEF ConsoleBytes
  <2> QED BY <1>0, <1>3, <1>5, <2>2, <2>3, ReadBlock DEF ConsoleBytes
<1>6. CASE a >= 16384 /\ a < 32767
  <2>1. ASSUME NEW b \in Word, b >= 16384, b <= 32767
        PROVE  bus_read(b, m) = Pointer("block", ConsoleBytes + HighBankOffset(m, b))
    BY <1>1, <2>1 DEF bus_read, OnCartridge, bus_address_in_rom, controller_read,
       mbc1_read, range_mbc1_rom_0, range_mbc1_rom_high, InRange, RomPointer, Word
  <2>2. a + 1 \in Word /\ a + 1 >= 16384 /\ a + 1 <= 32767
    BY <1>0, <1>6 DEF Word
  <2>3. HighBankOffset(m, a) \in Nat
    BY <1>6, WindowOffsetType DEF ROM_BANK_SIZE, Word
  <2>4. HighBankOffset(m, a + 1) = HighBankOffset(m, a) + 1
    BY <1>6, NextOffset DEF ROM_BANK_SIZE
  <2>5. Read8(m, a + 1) = BlockByte(m, ConsoleBytes + HighBankOffset(m, a) + 1)
    BY <2>1, <2>2, <2>3, <2>4, ReadBlock DEF ConsoleBytes
  <2>6. /\ Read8(m, a) = BlockByte(m, ConsoleBytes + HighBankOffset(m, a))
        /\ Read16(m, a) = Pair(BlockByte(m, ConsoleBytes + HighBankOffset(m, a) + 1),
                               BlockByte(m, ConsoleBytes + HighBankOffset(m, a)))
    BY <1>0, <1>6, <2>1, ReadBlock
  <2> QED BY <1>0, <1>3, <1>6, <2>5, <2>6
<1>7. CASE a >= 40960 /\ a < 49151
  <2>1. ASSUME NEW b \in Word, b >= 40960, b <= 49151
        PROVE  bus_read(b, m) = InvalidData
    BY <1>1, <2>1 DEF bus_read, OnCartridge, bus_address_in_rom, controller_read,
       bus_address_in_external_ram, mbc1_read, range_mbc1_rom_0,
       range_mbc1_rom_high, InRange, Word, Sound, Locked
  <2>2. a + 1 \in Word /\ a + 1 >= 40960 /\ a + 1 <= 49151
    BY <1>0, <1>7 DEF Word
  <2>3. InvalidData.object = "invalid_data"
    BY DEF InvalidData, Pointer
  <2>4. \A i : Load(m, InvalidData.object, i) = 255
    BY <2>3 DEF Load
  <2>5. bus_read(a, m) = InvalidData /\ bus_read(a + 1, m) = InvalidData
    BY <1>0, <1>7, <2>1, <2>2
  <2>6. Read8(m, a + 1) = 255 /\ Read8(m, a) = 255 /\ Read16(m, a) = Pair(255, 255)
    BY <2>4, <2>5 DEF Read8, Read16
  <2> QED BY <1>0, <1>3, <1>7, <2>6
<1>8. CASE (a > 32767 /\ a < 40959) \/ (a > 49151 /\ a < 65535)
  <2>1. ~OnCartridge(a) /\ ~OnCartridge(a + 1)
    BY <1>0, <1>8 DEF OnCartridge, bus_address_in_rom, bus_address_in_external_ram
  <2>2. bus_read(a, m) = Pointer("block", a)
        /\ bus_read(a + 1, m) = Pointer("block", a + 1)
    BY <2>1 DEF bus_read, ConsolePointer
  <2> QED BY <1>0, <1>3, <1>8, <2>2, ReadBlock
<1> QED BY <1>0, <1>4, <1>5, <1>6, <1>7, <1>8

\* Away from the seams, 16-bit reads see what two 8-bit reads would.
THEOREM SixteenBitReadsAlwaysAgree == Spec => []SixteenBitReadsAgree
<1>1. IInv => SixteenBitReadsAgree
  BY SixteenBits, ProbesAssumption DEF IInv, SixteenBitReadsAgree
<1> QED BY <1>1, Invariance, PTL
=============================================================================
