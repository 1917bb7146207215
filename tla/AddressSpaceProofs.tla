-------------------------- MODULE AddressSpaceProofs --------------------------
(***************************************************************************)
(* MemorySystem implements AddressSpace, for every set of cartridges,      *)
(* inputs and probed addresses: each write of the bus is a write of the    *)
(* abstract address space or leaves it alone.                              *)
(***************************************************************************)
EXTENDS MemorySystemProofs

ProbedPlain == {a \in Probes : ~OnCartridge(a)}

\* What the window shows of the machine m.
Shown(m) == [a \in ProbedWindow |-> Read8(m, a)]

-----------------------------------------------------------------------------
(* The window.                                                             *)

LEMMA Quotient ==
  ASSUME NEW h \in Nat
  PROVE  \E q \in Nat, r \in Nat : h = 4 * q + r /\ r < 4
<1>1. h \div 4 \in Nat /\ h % 4 \in Nat /\ h % 4 < 4
  OBVIOUS
<1>2. h = 4 * (h \div 4) + (h % 4)
  OBVIOUS
<1> QED BY <1>1, <1>2

\* The offset of the address n in bank h, cut to 16 bits, reaches the first
\* four banks only.
CutOffset(h, n) == U16(16384 * h + (n - 16384))

LEMMA BankOfOffset ==
  ASSUME NEW h \in Nat, NEW q \in Nat, NEW r \in Nat, h = 4 * q + r, r < 4,
         NEW n \in Nat, n >= 16384, n <= 32767
  PROVE  CutOffset(h, n) = 16384 * (r - 1) + n
<1> DEFINE x == 16384 * r + (n - 16384)
<1>1. x \in Nat /\ x < 65536
  OBVIOUS
<1>2. 16384 * h + (n - 16384) = 65536 * q + x
  OBVIOUS
<1>3. x = 16384 * (r - 1) + n
  OBVIOUS
<1> HIDE DEF x
<1>4. (65536 * q + x) % 65536 = x
  BY <1>1
<1> QED BY <1>2, <1>3, <1>4 DEF U16, CutOffset

LEMMA WindowShowsBank ==
  ASSUME NEW m, Sound(m), m.memory_controller = "MBC1"
  PROVE  \E r \in Nat :
           /\ r < 4
           /\ \A a \in Word : a >= 16384 /\ a <= 32767 =>
                Read8(m, a) = RomByte(m, 16384 * (r - 1) + a)
<1> DEFINE h == U8(high_bank_number(m.controller_state, m.rom_bank_count,
                                    m.ram_bank_count) + 1)
<1>1. h \in Nat
  <2>1. high_bank_number(m.controller_state, m.rom_bank_count,
                         m.ram_bank_count) \in Nat
    BY And8Type DEF high_bank_number, IsMachine, ControllerState, Sound
  <2> QED BY <2>1 DEF U8
<1>2. \A a : HighBankOffset(m, a) = CutOffset(h, a)
  BY DEF HighBankOffset, ROM_BANK_SIZE, CutOffset
<1> HIDE DEF h
<1>3. PICK q \in Nat, r \in Nat : h = 4 * q + r /\ r < 4
  BY <1>1, Quotient
<1>4. ASSUME NEW a \in Word, a >= 16384, a <= 32767
      PROVE  Read8(m, a) = RomByte(m, 16384 * (r - 1) + a)
  <2>1. m.memory_controller # "NONE"
    OBVIOUS
  <2>2. HighBankOffset(m, a) = 16384 * (r - 1) + a
    <3>1. a \in Nat
      BY DEF Word
    <3>2. CutOffset(h, a) = 16384 * (r - 1) + a
      BY <1>1, <1>3, <1>4, <3>1, BankOfOffset
    <3> QED BY <1>2, <3>2
  <2>3. HighBankOffset(m, a) \in Nat
    BY <1>4, WindowOffsetType DEF ROM_BANK_SIZE, Word
  <2>4. bus_read(a, m) = RomPointer(HighBankOffset(m, a))
    BY <1>4, <2>1 DEF bus_read, OnCartridge, bus_address_in_rom, controller_read,
       mbc1_read, range_mbc1_rom_0, range_mbc1_rom_high, InRange, Word
  <2>5. \A i \in Nat : i >= 65536 => BlockByte(m, i) = RomByte(m, i - 65536)
    BY DEF BlockByte, Sound, IsMachine, IsCells, ConsoleBytes
  <2>6. BlockByte(m, ConsoleBytes + HighBankOffset(m, a))
          = RomByte(m, HighBankOffset(m, a))
    BY <2>3, <2>5 DEF ConsoleBytes
  <2> QED BY <2>2, <2>4, <2>6 DEF Read8, Load, RomPointer, Pointer
<1> QED BY <1>3, <1>4

LEMMA WindowAddresses ==
  \A a \in ProbedWindow : /\ a \in Probes /\ a \in Word /\ OnCartridge(a)
                          /\ a >= 16384 /\ a <= 32767
BY ProbesAssumption DEF ProbedWindow, ROM_BANK_SIZE, bus_address_in_rom,
   OnCartridge

\* What a machine with an MBC1 shows is one of the banks.
LEMMA ShownIsABank ==
  ASSUME NEW m, Sound(m), m.memory_controller = "MBC1",
         machine.memory_controller = "MBC1",
         m.cartridge_rom = machine.cartridge_rom
  PROVE  Shown(m) \in Banks
<1>1. PICK r \in Nat :
        /\ r < 4
        /\ \A a \in Word : a >= 16384 /\ a <= 32767 =>
             Read8(m, a) = RomByte(m, 16384 * (r - 1) + a)
  BY WindowShowsBank
<1>2. Shown(m) = [a \in ProbedWindow |->
                    RomByte(machine, ROM_BANK_SIZE * (r - 1) + a)]
  BY <1>1, WindowAddresses DEF Shown, RomByte, ROM_BANK_SIZE
<1>3. r - 1 \in -1 .. 2
  BY <1>1
<1> QED BY <1>2, <1>3 DEF Banks

-----------------------------------------------------------------------------
(* One step.                                                               *)

\* Two machines of the same cartridge, before and after a step.
Follows ==
  /\ IInv /\ IInv'
  /\ machine'.cartridge_rom = machine.cartridge_rom
  /\ machine'.memory_controller = machine.memory_controller

LEMMA BecomeFromReads ==
  ASSUME Follows, NEW cells, DOMAIN cells \subseteq ProbedPlain,
         NEW b \in Banks,
         \A a \in Probes : Read8(machine, a)' =
            IF a \in ProbedWindow THEN b[a]
            ELSE IF a \in DOMAIN cells THEN cells[a] ELSE Read8(machine, a)
  PROVE  AddressSpace!Become(cells, b)
<1>1. Banks' = Banks
  <2>1. CASE machine.memory_controller = "MBC1"
    BY <2>1 DEF Follows, Banks, RomByte
  <2>2. CASE machine.memory_controller # "MBC1"
    <3>1. Banks = {Shown(machine)} /\ Banks' = {Shown(machine')}
      BY <2>2 DEF Follows, Banks, Shown
    <3>2. Shown(machine') = Shown(machine)
      BY <3>1, WindowAddresses DEF Shown
    <3> QED BY <3>1, <3>2
  <2> QED BY <2>1, <2>2
<1>2. \A a \in DOMAIN cells : a \in Probes /\ a \notin ProbedWindow
  BY WindowAddresses DEF ProbedPlain
<1> QED BY <1>1, <1>2 DEF AddressSpace!Become

LEMMA ShownNow == IInv => Shown(machine) \in Banks
<1> SUFFICES ASSUME IInv PROVE Shown(machine) \in Banks
  OBVIOUS
<1>1. CASE machine.memory_controller = "MBC1"
  BY <1>1, ShownIsABank DEF IInv
<1>2. CASE machine.memory_controller # "MBC1"
  BY <1>2 DEF Banks, Shown
<1> QED BY <1>1, <1>2

LEMMA ShownBankIsShown == AddressSpace!ShownBank = Shown(machine)
BY DEF AddressSpace!ShownBank, AddressSpace!Restrict, Shown, ProbedWindow

\* Nothing that is read has changed.
LEMMA NothingWritten ==
  ASSUME Follows, \A a \in Probes : Read8(machine, a)' = Read8(machine, a)
  PROVE  UNCHANGED AddressSpace!addressVars
<1>1. AddressSpace!Become(<<>>, Shown(machine))
  <2>1. DOMAIN <<>> = {}
    OBVIOUS
  <2>2. \A a \in ProbedWindow : Shown(machine)[a] = Read8(machine, a)
    BY DEF Shown
  <2> QED BY <2>1, <2>2, BecomeFromReads, ShownNow DEF Follows
<1>2. Banks' = Banks
  BY <1>1 DEF AddressSpace!Become
<1> QED BY <1>2 DEF AddressSpace!addressVars

LEMMA OneCellWritten ==
  ASSUME Follows, NEW b, ~OnCartridge(b), NEW v \in Values,
         \A a \in Probes :
            Read8(machine, a)' = IF a = b THEN v ELSE Read8(machine, a)
  PROVE  AddressSpace!Next \/ UNCHANGED AddressSpace!addressVars
<1>1. CASE b \in Probes
  <2> DEFINE cells == [a \in {b} |-> v]
  <2>1. DOMAIN cells \subseteq ProbedPlain
    BY <1>1 DEF ProbedPlain
  <2>2. \A a \in ProbedWindow : Shown(machine)[a] = Read8(machine, a) /\ a # b
    BY WindowAddresses DEF Shown
  <2>3. AddressSpace!Become(cells, Shown(machine))
    <3>1. \A a \in Probes : Read8(machine, a)' =
            IF a \in ProbedWindow THEN Shown(machine)[a]
            ELSE IF a \in DOMAIN cells THEN cells[a] ELSE Read8(machine, a)
      BY <2>2
    <3> HIDE DEF cells
    <3> QED BY <2>1, <3>1, BecomeFromReads, ShownNow DEF Follows
  <2>4. AddressSpace!Put(b, v)
    BY <2>3, ShownBankIsShown DEF AddressSpace!Put
  <2> QED BY <1>1, <2>4 DEF AddressSpace!Next
<1>2. CASE b \notin Probes
  BY <1>2, NothingWritten
<1> QED BY <1>1, <1>2

LEMMA TwoCellsWritten ==
  ASSUME Follows, NEW b \in Nat, ~OnCartridge(b), ~OnCartridge(b + 1),
         NEW low \in Values, NEW high \in Values,
         \A a \in Probes :
            Read8(machine, a)' = IF a = b + 1 THEN high
                                 ELSE IF a = b THEN low ELSE Read8(machine, a)
  PROVE  AddressSpace!Next \/ UNCHANGED AddressSpace!addressVars
<1>1. CASE b \in Probes /\ b + 1 \in Probes
  <2> DEFINE cells == [a \in {b, b + 1} |-> IF a = b THEN low ELSE high]
  <2>1. DOMAIN cells \subseteq ProbedPlain
    BY <1>1 DEF ProbedPlain
  <2>2. \A a \in ProbedWindow :
          Shown(machine)[a] = Read8(machine, a) /\ a # b /\ a # b + 1
    BY WindowAddresses DEF Shown
  <2>3. AddressSpace!Become(cells, Shown(machine))
    <3>1. b # b + 1
      OBVIOUS
    <3>2. \A a \in Probes : Read8(machine, a)' =
            IF a \in ProbedWindow THEN Shown(machine)[a]
            ELSE IF a \in DOMAIN cells THEN cells[a] ELSE Read8(machine, a)
      BY <2>2, <3>1
    <3> HIDE DEF cells
    <3> QED BY <2>1, <3>2, BecomeFromReads, ShownNow DEF Follows
  <2>4. AddressSpace!Put16(b, low, high)
    BY <2>3, ShownBankIsShown DEF AddressSpace!Put16
  <2> QED BY <1>1, <2>4 DEF AddressSpace!Next
<1>2. CASE b \notin Probes
  BY <1>2, OneCellWritten
<1>3. CASE b \in Probes /\ b + 1 \notin Probes
  BY <1>3, OneCellWritten
<1> QED BY <1>1, <1>2, <1>3

\* The window shows another bank, or the same.
LEMMA WindowMoved ==
  ASSUME Follows, machine.memory_controller = "MBC1",
         \A a \in Probes : a \notin ProbedWindow =>
            Read8(machine, a)' = Read8(machine, a)
  PROVE  AddressSpace!Next
<1> DEFINE b == Shown(machine')
<1>1. b \in Banks
  BY ShownIsABank DEF Follows, IInv
<1>2. \A a \in ProbedWindow : Read8(machine, a)' = b[a]
  BY DEF Shown
<1>3. DOMAIN <<>> = {}
  OBVIOUS
<1> HIDE DEF b
<1>4. AddressSpace!Become(<<>>, b)
  BY <1>1, <1>2, <1>3, BecomeFromReads
<1> QED BY <1>1, <1>4 DEF AddressSpace!Select, AddressSpace!Next

-----------------------------------------------------------------------------
(* What the writes do.                                                     *)

LEMMA WriteKeepsController ==
  ASSUME NEW m, Sound(m), NEW b \in Word, NEW v \in Byte
  PROVE  bus_write_8_bit(b, v, m).memory_controller = m.memory_controller
<1>1. DOMAIN m = MachineFields
  BY DEF Sound, IsMachine
<1>2. CASE OnCartridge(b)
  <2>1. \/ bus_write_8_bit(b, v, m) = m
        \/ bus_write_8_bit(b, v, m) = write_mbc1_8(b, v, m)
    BY <1>2 DEF bus_write_8_bit, controller_write_8_bit
  <2>2. write_mbc1_8(b, v, m).memory_controller = m.memory_controller
    BY <1>1, MBC1WriteEffect DEF MachineFields
  <2> QED BY <2>1, <2>2
<1>3. CASE ~OnCartridge(b)
  BY <1>1, <1>3 DEF bus_write_8_bit, MachineFields
<1> QED BY <1>2, <1>3

\* Without an MBC1, a write to the cartridge does nothing.
LEMMA OthersIgnoreWrites ==
  ASSUME NEW m, m.memory_controller # "MBC1", NEW b, OnCartridge(b), NEW v
  PROVE  bus_write_8_bit(b, v, m) = m
BY DEF bus_write_8_bit, controller_write_8_bit

LEMMA OutsideWindow ==
  \A a \in Probes : a \notin ProbedWindow =>
    a \in Word /\ (a < ROM_BANK_SIZE \/ a > 32767)
<1>1. \A a \in Word : a \in Nat
  BY DEF Word
<1> QED BY <1>1, ProbesAssumption DEF ProbedWindow, ROM_BANK_SIZE, bus_address_in_rom

LEMMA Write8Implements ==
  ASSUME IInv, NEW b \in Word, NEW v \in Values, Write8(b, v)
  PROVE  AddressSpace!Next \/ UNCHANGED AddressSpace!addressVars
<1>1. v \in Byte /\ Sound(machine)
  BY InputsAssumption DEF IInv
<1>2. Follows
  BY <1>1, WriteKeepsMachine, WriteKeepsController DEF Write8, IInv, Kept, Follows
<1>3. CASE ~OnCartridge(b)
  BY <1>1, <1>2, <1>3, WritePlain, OneCellWritten, ProbesAssumption DEF Write8
<1>4. CASE OnCartridge(b) /\ machine.memory_controller = "MBC1"
  BY <1>1, <1>2, <1>4, WriteCartridge, OutsideWindow, WindowMoved DEF Write8
<1>5. CASE OnCartridge(b) /\ machine.memory_controller # "MBC1"
  BY <1>2, <1>5, OthersIgnoreWrites, NothingWritten DEF Write8
<1> QED BY <1>3, <1>4, <1>5

LEMMA Halves ==
  ASSUME NEW low \in Byte, NEW high \in Byte
  PROVE  Low(Pair(high, low)) = low /\ High(Pair(high, low)) = high
BY DEF Low, High, Pair, Byte

LEMMA Write16Implements ==
  ASSUME IInv, NEW b \in Word, NEW low \in Values, NEW high \in Values,
         Write16(b, Pair(high, low))
  PROVE  AddressSpace!Next \/ UNCHANGED AddressSpace!addressVars
<1> DEFINE c == U16(b + 1)
           n == bus_write_8_bit(b, low, machine)
<1>1. low \in Byte /\ high \in Byte /\ Sound(machine)
  BY InputsAssumption DEF IInv
<1>2. c \in Word /\ b \in Nat /\ b < 65536
  BY U16Type DEF Word
<1>3. machine' = bus_write_8_bit(c, high, n)
  BY <1>1, Halves DEF Write16, bus_write_16_bit
<1>4. /\ Sound(n) /\ n.cartridge_rom = machine.cartridge_rom
      /\ n.memory_controller = machine.memory_controller
  BY <1>1, WriteKeepsMachine, WriteKeepsController DEF Kept
<1>5. /\ c = IF b = 65535 THEN 0 ELSE b + 1
      /\ OnCartridge(0)
  BY <1>2 DEF U16, OnCartridge, bus_address_in_rom
<1> HIDE DEF n, c
<1>6. Follows
  BY <1>1, <1>2, <1>3, <1>4, WriteKeepsMachine, WriteKeepsController
     DEF IInv, Kept, Follows
<1>7. CASE ~OnCartridge(b) /\ ~OnCartridge(c)
  <2>1. c = b + 1
    BY <1>5, <1>7
  <2>2. \A a \in Probes : Read8(n, a) = IF a = b THEN low ELSE Read8(machine, a)
    BY <1>1, <1>7, WritePlain, ProbesAssumption DEF n
  <2>3. \A a \in Probes : Read8(machine, a)' = IF a = c THEN high ELSE Read8(n, a)
    BY <1>1, <1>2, <1>3, <1>4, <1>7, WritePlain, ProbesAssumption
  <2> QED BY <1>2, <1>6, <1>7, <2>1, <2>2, <2>3, TwoCellsWritten
<1>8. CASE ~OnCartridge(b) /\ OnCartridge(c)
  <2>1. ~SetsBank(c)
    BY <1>2, <1>5, <1>8 DEF SetsBank, OnCartridge, bus_address_in_rom
  <2>2. \A a \in Probes : Read8(n, a) = IF a = b THEN low ELSE Read8(machine, a)
    BY <1>1, <1>8, WritePlain, ProbesAssumption DEF n
  <2>3. \A a \in Probes : Read8(machine, a)' = Read8(n, a)
    BY <1>1, <1>2, <1>3, <1>4, <1>8, <2>1, WriteCartridge, ProbesAssumption
  <2> QED BY <1>6, <1>8, <2>2, <2>3, OneCellWritten
<1>9. CASE OnCartridge(b) /\ ~OnCartridge(c)
  <2>1. ~SetsBank(b)
    BY <1>2, <1>5, <1>9 DEF SetsBank, OnCartridge, bus_address_in_rom
  <2>2. \A a \in Probes : Read8(n, a) = Read8(machine, a)
    BY <1>1, <1>9, <2>1, WriteCartridge, ProbesAssumption DEF n
  <2>3. \A a \in Probes : Read8(machine, a)' = IF a = c THEN high ELSE Read8(n, a)
    BY <1>1, <1>2, <1>3, <1>4, <1>9, WritePlain, ProbesAssumption
  <2> QED BY <1>6, <1>9, <2>2, <2>3, OneCellWritten
<1>10. CASE /\ OnCartridge(b) /\ OnCartridge(c)
            /\ machine.memory_controller = "MBC1"
  <2>1. \A a \in Probes : a \notin ProbedWindow =>
          Read8(n, a) = Read8(machine, a)
    BY <1>1, <1>10, WriteCartridge, OutsideWindow DEF n
  <2>2. ASSUME NEW a \in Probes, a \notin ProbedWindow
        PROVE  Read8(machine, a)' = Read8(n, a)
    <3>1. a \in Word /\ (a < ROM_BANK_SIZE \/ a > 32767)
      BY <2>2, OutsideWindow
    <3>2. Read8(bus_write_8_bit(c, high, n), a) = Read8(n, a)
      BY <1>1, <1>2, <1>4, <1>10, <3>1, WriteCartridge
    <3> QED BY <1>3, <3>2
  <2> QED BY <1>6, <1>10, <2>1, <2>2, WindowMoved
<1>11. CASE /\ OnCartridge(b) /\ OnCartridge(c)
            /\ machine.memory_controller # "MBC1"
  <2>1. machine' = machine
    BY <1>3, <1>11, OthersIgnoreWrites DEF n
  <2> QED BY <1>6, <2>1, NothingWritten
<1> QED BY <1>7, <1>8, <1>9, <1>10, <1>11

-----------------------------------------------------------------------------
(* The refinement.                                                         *)

LEMMA InitImplements == Init => AddressSpace!Init
<1> SUFFICES ASSUME Init PROVE AddressSpace!Init
  OBVIOUS
<1>1. IInv
  BY InitInvariant
<1>2. [a \in Probes |-> Read8(machine, a)] \in [Probes -> Byte]
  BY <1>1, ReadType DEF IInv
<1>3. Probes = ProbedPlain
                 \cup {a \in Probes : OnCartridge(a) /\ a \notin ProbedWindow}
                 \cup ProbedWindow
  BY DEF ProbedPlain, ProbedWindow
<1>4. AddressSpace!Restrict([a \in Probes |-> Read8(machine, a)], ProbedWindow)
        = Shown(machine)
  BY DEF AddressSpace!Restrict, Shown, ProbedWindow
<1>5. Shown(machine) \in Banks
  BY <1>1, ShownNow
<1>6. AddressSpace!Byte = Byte
  BY DEF AddressSpace!Byte, Byte
<1> QED BY <1>2, <1>3, <1>4, <1>5, <1>6 DEF AddressSpace!Init, ProbedPlain

LEMMA NextImplements ==
  IInv /\ [Next]_machine => [AddressSpace!Next]_AddressSpace!addressVars
<1> SUFFICES ASSUME IInv, [Next]_machine
             PROVE  AddressSpace!Next \/ UNCHANGED AddressSpace!addressVars
  OBVIOUS
<1>1. ASSUME NEW b \in Inputs, NEW v \in Values, Write8(b, v)
      PROVE  AddressSpace!Next \/ UNCHANGED AddressSpace!addressVars
  BY <1>1, InputsAssumption, Write8Implements
<1>2. ASSUME NEW b \in Inputs, NEW low \in Values, NEW high \in Values,
             Write16(b, Pair(high, low))
      PROVE  AddressSpace!Next \/ UNCHANGED AddressSpace!addressVars
  BY <1>2, InputsAssumption, Write16Implements
<1>3. CASE UNCHANGED machine
  BY <1>3 DEF AddressSpace!addressVars, Banks
<1> QED BY <1>1, <1>2, <1>3 DEF Next

\* Every write the bus accepts, of 8 bits or of 16, is one of a cell, of two
\* cells, or of the bank the window shows, whatever the cartridge.
THEOREM ImplementsTheAddressSpace == Spec => ImplementsAddressSpace
<1> QED BY InitImplements, NextImplements, Invariance, PTL
        DEF Spec, ImplementsAddressSpace, AddressSpace!Spec
=============================================================================
