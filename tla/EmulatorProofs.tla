--------------------------- MODULE EmulatorProofs ---------------------------
(***************************************************************************)
(* Proofs about Emulator, for all ROM files and however often they change. *)
(***************************************************************************)
EXTENDS Emulator, CpuProofs

-----------------------------------------------------------------------------
(* The inductive invariant.                                                *)

\* What main and run_machine keep track of.
ShellOK ==
  /\ stage \in Before \cup {"loop", "over", "killed"}
  /\ disk \subseteq Files
  /\ changes \in Nat /\ changes <= MaxChanges
  /\ rom_size \in Nat
  /\ rom_data.size \in {0, rom_size}
  /\ stage \in {"arguments", "exists", "size", "allocate"} => rom_data.size = 0
  /\ held \subseteq {"rom_data", "console_memory", "external_ram"}
  /\ exit_code \in {0, 1}

\* The stream is open for one call; the machine's memory is held from its
\* allocation to the end of the loop.
ResourcesOK ==
  /\ stage # "read" => stream = {}
  /\ stage \in {"setup", "loop"} => "console_memory" \in held
  /\ stage \notin {"setup", "loop", "killed"} => "console_memory" \notin held

\* What is known of the file f that is read, or has been.
Measured(f) == changes = 0 => disk = {f} /\ rom_size = f.size
Loaded(f) == rom_size > 0 /\ rom_size <= f.size /\ rom_data = Image(f, rom_size)

FilesOK ==
  /\ disk = {} \/ \E f \in Files : disk = {f}
  /\ stage = "size" /\ changes = 0 => disk # {}
  /\ stage \in {"allocate", "open"} => \E f \in Files : Measured(f)
  /\ stage = "read" => \E f \in Files : stream = {f} /\ Measured(f)
  /\ stage \in {"machine", "setup", "loop"} =>
       \E f \in Cartridges : Loaded(f) /\ Measured(f)

Idle ==
  /\ machine = ZeroMachine /\ cpu = InitialRegisters /\ status = "running"
  /\ executing \in BOOLEAN /\ ~executing /\ remaining = 0

\* What the machine keeps of how it was set up.
AsSetUp(m) ==
  /\ m.cartridge_rom = rom_data
  /\ m.external_ram = <<>>
  /\ m.memory_controller =
       GetControllerType(GetCartHardware(HardwareCode(rom_data)))

MachineOK ==
  /\ stage \in Before => Idle
  /\ stage = "loop" => IInv /\ AsSetUp(machine)
  /\ stage \in {"over", "killed"} => Idle \/ IInv

EInv == ShellOK /\ ResourcesOK /\ FilesOK /\ MachineOK

-----------------------------------------------------------------------------
(* ROM files and what is read from them.                                   *)

LEMMA ImageBytes ==
  ASSUME NEW f, NEW n \in Nat, n <= f.size, f.size \in Nat,
         NEW i \in Nat, i < n
  PROVE  FileByte(Image(f, n), i) = FileByte(f, i)
BY DEF FileByte, Image

LEMMA ImageCartridge ==
  ASSUME NEW f \in Cartridges, NEW n \in Nat, n > 0, n <= f.size
  PROVE  IsCartridge(Image(f, n)) /\ Image(f, n).size = n
<1>1. IsCartridge(f)
  BY CartridgesAssumption
<1>2. IsCells(Image(f, n).bytes, n) /\ Image(f, n).padding \in Byte
  BY <1>1 DEF Image, IsCells, IsCartridge
<1>3. RomSizeCode(Image(f, n)) \in RomSizeCodes
  BY <1>1 DEF IsCartridge, RomSizeCode, RomSizeCodes, FileByte, Image
<1> QED BY <1>2, <1>3 DEF IsCartridge, Image

LEMMA FilesType == ASSUME NEW f \in Files PROVE f.size \in Nat
BY CartridgesAssumption DEF Files, EmptyFile, IsCartridge

LEMMA NonEmptyFiles == ASSUME NEW f \in Files, f.size # 0 PROVE f \in Cartridges
BY DEF Files, EmptyFile

-----------------------------------------------------------------------------
(* The steps.                                                              *)

LEMMA InitE_EInv == InitE => EInv
<1> SUFFICES ASSUME InitE PROVE EInv
  OBVIOUS
<1>1. ShellOK
  BY MaxChangesAssumption DEF InitE, ShellOK, Before, Files, EmptyFile
<1>2. ResourcesOK
  BY DEF InitE, ResourcesOK
<1>3. FilesOK
  BY DEF InitE, FilesOK
<1>4. MachineOK
  BY DEF InitE, MachineOK, Idle
<1> QED BY <1>1, <1>2, <1>3, <1>4 DEF EInv

\* The steps before the main loop leave the machine as it is.
LEMMA StillIdle ==
  ASSUME MachineOK, UNCHANGED vars, stage \in Before,
         stage' \in Before \cup {"over"}
  PROVE  MachineOK'
<1>1. Idle /\ Idle'
  BY DEF MachineOK, Idle, vars
<1> QED BY <1>1 DEF MachineOK, Before

LEMMA LoadingOK ==
  ASSUME EInv, Arguments \/ file_exists \/ AllocateRom \/ OpenFile
  PROVE  EInv'
<1> USE DEF EInv, At, Exit
<1>0. MachineOK'
  <2>1. /\ UNCHANGED vars /\ stage \in Before
        /\ stage' \in Before \cup {"over"}
    BY DEF Arguments, file_exists, AllocateRom, OpenFile, Before
  <2> QED BY <2>1, StillIdle
<1>1. CASE Arguments
  BY <1>0, <1>1 DEF Arguments, ShellOK, ResourcesOK, FilesOK, Before
<1>2. CASE file_exists
  BY <1>0, <1>2 DEF file_exists, ShellOK, ResourcesOK, FilesOK, Before
<1>3. CASE AllocateRom
  <2>1. Zeroed(rom_size).size = rom_size
    BY DEF Zeroed, EmptyFile
  <2> QED BY <1>0, <1>3, <2>1
          DEF AllocateRom, ShellOK, ResourcesOK, FilesOK, Measured, Before
<1>4. CASE OpenFile
  <2>1. FilesOK'
    <3>1. CASE stage' = "read"
      <4>1. stream' = disk /\ disk # {} /\ UNCHANGED <<disk, changes, rom_size>>
        BY <1>4, <3>1 DEF OpenFile
      <4>2. PICK f \in Files : disk = {f}
        BY <4>1 DEF FilesOK
      <4>3. \E g \in Files : Measured(g)
        BY <1>4 DEF OpenFile, FilesOK
      <4>4. Measured(f)'
        BY <4>1, <4>2, <4>3 DEF Measured
      <4> QED BY <3>1, <4>1, <4>2, <4>4 DEF FilesOK
    <3>2. CASE stage' = "over"
      BY <1>4, <3>2 DEF OpenFile, FilesOK
    <3> QED BY <1>4, <3>1, <3>2 DEF OpenFile
  <2> QED BY <1>0, <1>4, <2>1 DEF OpenFile, ShellOK, ResourcesOK, Before
<1> QED BY <1>1, <1>2, <1>3, <1>4

LEMMA FileSizeOK == ASSUME EInv, file_size PROVE EInv'
<1> USE DEF EInv, At
<1>1. MachineOK'
  BY StillIdle DEF file_size, Before
<1>2. /\ rom_size' = IF disk = {} THEN 0 ELSE (CHOOSE f \in disk : TRUE).size
      /\ stage = "size" /\ stage' = "allocate"
      /\ UNCHANGED <<disk, changes, stream, rom_data, held, exit_code>>
  BY DEF file_size
<1>3. CASE disk = {}
  <2>1. changes # 0 /\ EmptyFile \in Files
    BY <1>2, <1>3 DEF FilesOK, Files
  <2> QED BY <1>1, <1>2, <1>3, <2>1
          DEF ShellOK, ResourcesOK, FilesOK, Measured, Before
<1>4. CASE disk # {}
  <2>1. PICK f \in Files : disk = {f}
    BY <1>4 DEF FilesOK
  <2>2. rom_size' = f.size /\ f.size \in Nat
    BY <1>2, <2>1, FilesType
  <2>3. Measured(f)'
    BY <1>2, <2>1, <2>2 DEF Measured
  <2>4. FilesOK'
    BY <1>2, <2>1, <2>3 DEF FilesOK
  <2>5. ShellOK'
    BY <1>2, <2>2 DEF ShellOK, Before
  <2> QED BY <1>1, <1>2, <2>4, <2>5 DEF ResourcesOK
<1> QED BY <1>3, <1>4

LEMMA ReadFileOK == ASSUME EInv, ReadFile PROVE EInv'
<1> USE DEF EInv, At, Exit
<1>1. MachineOK'
  BY StillIdle DEF ReadFile, Before
<1>2. /\ stage = "read" /\ stream' = {}
      /\ UNCHANGED <<disk, changes, rom_size, held>>
  BY DEF ReadFile
<1>3. CASE stage' = "machine"
  <2>1. PICK f \in stream : /\ rom_size > 0 /\ f.size >= rom_size
                            /\ rom_data' = Image(f, rom_size)
                            /\ UNCHANGED exit_code
    BY <1>3 DEF ReadFile
  <2>2. f \in Files /\ Measured(f) /\ rom_size \in Nat
    BY <1>2 DEF FilesOK, ShellOK
  <2>3. f \in Cartridges
    BY <2>1, <2>2, FilesType, NonEmptyFiles
  <2>4. Loaded(f)' /\ Measured(f)'
    BY <1>2, <2>1, <2>2, FilesType DEF Loaded, Measured
  <2>5. FilesOK'
    BY <1>2, <1>3, <2>3, <2>4 DEF FilesOK
  <2>6. rom_data'.size = rom_size
    BY <2>1 DEF Image
  <2>7. ShellOK'
    BY <1>2, <1>3, <2>1, <2>6 DEF ShellOK, Before
  <2> QED BY <1>1, <1>2, <1>3, <2>5, <2>7 DEF ResourcesOK
<1>4. CASE stage' = "over"
  BY <1>1, <1>2, <1>4 DEF ReadFile, ShellOK, ResourcesOK, FilesOK, Before
<1> QED BY <1>3, <1>4 DEF ReadFile

LEMMA AllocateMachineOK == ASSUME EInv, AllocateMachine PROVE EInv'
<1> USE DEF EInv, At, Exit
<1>1. MachineOK'
  BY StillIdle DEF AllocateMachine, Before
<1>2. ShellOK' /\ ResourcesOK'
  BY DEF AllocateMachine, ShellOK, ResourcesOK, Before
<1>3. FilesOK'
  BY DEF AllocateMachine, FilesOK, Loaded, Measured
<1> QED BY <1>1, <1>2, <1>3

LEMMA SetUpOK == ASSUME EInv, SetUp PROVE EInv'
<1> USE DEF EInv, At
<1>1. /\ stage = "setup" /\ stage' = "loop" /\ machine' = PowerOn(rom_data)
      /\ held' \in {held, held \cup {"external_ram"}}
      /\ UNCHANGED <<cpu, status, executing, remaining, disk, changes, stream,
                     rom_size, rom_data, exit_code>>
  BY DEF SetUp
<1>2. ShellOK' /\ ResourcesOK'
  BY <1>1 DEF ShellOK, ResourcesOK, Before
<1>3. FilesOK'
  BY <1>1 DEF FilesOK, Loaded, Measured
<1>4. Idle
  BY <1>1 DEF MachineOK, Before
<1>5. IsCartridge(rom_data)
  BY <1>1, ImageCartridge DEF FilesOK, Loaded, ShellOK
<1>6. Sound(machine') /\ AsSetUp(machine)'
  <2>1. /\ machine'.memory_controller =
             GetControllerType(GetCartHardware(HardwareCode(rom_data)))
        /\ machine'.external_ram = <<>>
    BY <1>1 DEF PowerOn
  <2> QED BY <1>1, <1>5, <2>1, PowerOnSound DEF AsSetUp
<1>7. IInv'
  <2>1. cpu' \in CpuState
    BY <1>1, <1>4 DEF Idle, InitialRegisters, CpuState, Byte, Word
  <2> QED BY <1>1, <1>4, <1>6, <2>1 DEF Idle, IInv, StateOK, CopyMade
<1> QED BY <1>1, <1>2, <1>3, <1>6, <1>7 DEF MachineOK, Before

LEMMA CycleOK == ASSUME EInv, Cycle PROVE EInv'
<1> USE DEF EInv
<1>1. stage = "loop" /\ Tick /\ UNCHANGED shell
  BY DEF Cycle
<1>2. ShellOK' /\ ResourcesOK' /\ FilesOK'
  BY <1>1 DEF ShellOK, ResourcesOK, FilesOK, Loaded, Measured, shell
<1>3. IInv /\ AsSetUp(machine)
  BY <1>1 DEF MachineOK
<1>4. IInv' /\ Kept(machine', machine)
  BY <1>1, <1>3, NextInvariant
<1>5. AsSetUp(machine)'
  BY <1>1, <1>3, <1>4 DEF AsSetUp, Kept, shell
<1> QED BY <1>1, <1>2, <1>4, <1>5 DEF MachineOK, shell, Before

\* An unchanged machine stays what it is.
LEMMA UnchangedOK ==
  ASSUME UNCHANGED vars PROVE (Idle => Idle') /\ (IInv => IInv')
BY DEF vars, Idle, IInv, StateOK, CopyMade

LEMMA EndOK == ASSUME EInv, Leave \/ Die PROVE EInv'
<1> USE DEF EInv, At, Exit
<1>1. /\ UNCHANGED vars /\ stage = "loop" /\ stage' \in {"over", "killed"}
      /\ stage' = "over" => "console_memory" \notin held'
  BY DEF Leave, Die
<1>2. MachineOK'
  BY <1>1, UnchangedOK DEF MachineOK, Before
<1>3. ShellOK' /\ ResourcesOK' /\ FilesOK'
  BY <1>1 DEF Leave, Die, ShellOK, ResourcesOK, FilesOK, Before
<1> QED BY <1>2, <1>3

LEMMA FileChangesOK == ASSUME EInv, FileChanges PROVE EInv'
<1> USE DEF EInv
<1>1. /\ changes' = changes + 1 /\ changes < MaxChanges
      /\ disk' \in {{}} \cup {{f} : f \in Files}
      /\ UNCHANGED <<vars, stage, stream, rom_size, rom_data, held, exit_code>>
  BY DEF FileChanges
<1>2. changes' # 0 /\ changes' \in Nat /\ changes' <= MaxChanges
  BY <1>1, MaxChangesAssumption DEF ShellOK
<1>3. ShellOK'
  BY <1>1, <1>2 DEF ShellOK
<1>4. \A f : Measured(f)' /\ (Loaded(f) => Loaded(f)')
  BY <1>1, <1>2 DEF Measured, Loaded
<1>5. FilesOK'
  BY <1>1, <1>2, <1>4 DEF FilesOK
<1>6. MachineOK'
  BY <1>1, UnchangedOK DEF MachineOK, AsSetUp, vars
<1> QED BY <1>1, <1>3, <1>5, <1>6 DEF ResourcesOK

LEMMA NextE_EInv == EInv /\ [NextE]_varsE => EInv'
<1> SUFFICES ASSUME EInv, [NextE]_varsE PROVE EInv'
  OBVIOUS
<1>1. CASE UNCHANGED varsE
  <2>1. UNCHANGED vars /\ UNCHANGED shell
    BY <1>1 DEF varsE
  <2>2. MachineOK'
    BY <2>1, UnchangedOK DEF EInv, MachineOK, AsSetUp, vars, shell
  <2>3. ShellOK' /\ ResourcesOK' /\ FilesOK'
    BY <2>1 DEF EInv, ShellOK, ResourcesOK, FilesOK, Measured, Loaded, shell
  <2> QED BY <2>2, <2>3 DEF EInv
<1> QED BY <1>1, LoadingOK, FileSizeOK, ReadFileOK, AllocateMachineOK, SetUpOK,
           CycleOK, EndOK, FileChangesOK DEF NextE, Process

LEMMA ProcessInvariance == SpecE => []EInv
<1> QED BY InitE_EInv, NextE_EInv, PTL DEF SpecE

-----------------------------------------------------------------------------
(* The theorems.                                                           *)

\* The machine that is set up is not the zeroed one.
LEMMA SetUpDiffers == ASSUME IInv PROVE machine # ZeroMachine
<1>1. machine.cartridge_rom.size > 0
  BY DEF IInv, StateOK, Sound, IsMachine, IsCartridge
<1>2. ZeroMachine.cartridge_rom.size = 0
  BY DEF ZeroMachine, PowerOn, EmptyFile
<1> QED BY <1>1, <1>2

\* The type invariant of the process, for all files and programs.
THEOREM ProcessTypeCorrect == SpecE => []ProcessTypeOK
<1>1. IInv => TypeOK
  BY DEF IInv, StateOK, Sound, Locked, TypeOK
<1>2. ASSUME EInv PROVE ProcessTypeOK
  <2>1. stream \subseteq Files
    BY <1>2 DEF EInv, ResourcesOK, FilesOK
  <2>2. CASE machine = ZeroMachine
    <3>1. ~IInv
      BY <2>2, SetUpDiffers
    <3>2. Idle /\ stage # "loop"
      BY <1>2, <3>1 DEF EInv, ShellOK, MachineOK
    <3> QED BY <1>2, <2>1, <2>2, <3>2 DEF EInv, ShellOK, Idle, ProcessTypeOK
  <2>3. CASE machine # ZeroMachine
    <3>1. stage \notin Before /\ IInv
      BY <1>2, <2>3 DEF EInv, ShellOK, MachineOK, Idle
    <3> QED BY <1>1, <1>2, <2>1, <2>3, <3>1 DEF EInv, ShellOK, ProcessTypeOK
  <2> QED BY <2>2, <2>3
<1> QED BY <1>2, ProcessInvariance, PTL

\* However the file changes while main loads it, the machine runs the first
\* rom_size bytes of one version of it.
THEOREM AlwaysRunsTheFile == SpecE => []RunsTheFile
<1>1. ASSUME EInv, stage = "loop" PROVE RunsTheFile
  <2>1. PICK f \in Cartridges : Loaded(f) /\ Measured(f)
    BY <1>1 DEF EInv, FilesOK
  <2>2. /\ machine.cartridge_rom = Image(f, rom_size)
        /\ rom_size \in Nat /\ rom_size > 0 /\ rom_size <= f.size
    BY <1>1, <2>1 DEF EInv, MachineOK, AsSetUp, Loaded, ShellOK
  <2>3. f \in Files /\ f.size \in Nat
    BY FilesType DEF Files
  <2>4. \A i \in 0 .. rom_size - 1 : RomByte(machine, i) = FileByte(f, i)
    BY <2>2, <2>3, ImageBytes DEF RomByte
  <2>5. machine.cartridge_rom.size = rom_size
    BY <2>2, ImageCartridge
  <2> QED BY <2>1, <2>2, <2>4, <2>5 DEF RunsTheFile, Measured
<1>2. EInv => RunsTheFile
  BY <1>1 DEF RunsTheFile
<1> QED BY <1>2, ProcessInvariance, PTL

\* Whatever call fails, the file is closed and the machine's memory released.
THEOREM NeverLeftOpen == SpecE => []NothingLeftOpen
<1>1. EInv => NothingLeftOpen
  BY DEF EInv, ResourcesOK, NothingLeftOpen
<1> QED BY <1>1, ProcessInvariance, PTL

\* No program stores to the cartridge's RAM or gets a pointer into it, so that
\* it does not matter that its allocation is not checked.
THEOREM CartRamNeverTouched == SpecE => []CartRamUntouched
<1>1. ASSUME EInv, stage = "loop", NEW addr \in RamAddresses
      PROVE  bus_read(addr, machine).object # "external_ram"
  <2>1. machine.controller_state.ram_enabled = FALSE
    BY <1>1 DEF EInv, MachineOK, IInv, StateOK, Sound, Locked
  <2>2. addr \in {40960, 49151}
    BY <1>1 DEF RamAddresses
  <2> QED BY <2>1, <2>2
          DEF bus_read, OnCartridge, bus_address_in_external_ram, controller_read,
              mbc1_read, range_mbc1_rom_0, range_mbc1_rom_high, InRange,
              range_mbc1_ext_ram, InvalidData, ConsolePointer, Pointer, Null
<1>2. ASSUME EInv, stage = "loop" PROVE machine.external_ram = <<>>
  BY <1>2 DEF EInv, MachineOK, AsSetUp
<1>3. EInv => CartRamUntouched
  BY <1>1, <1>2 DEF CartRamUntouched
<1> QED BY <1>3, ProcessInvariance, PTL

-----------------------------------------------------------------------------
(* The hardware code.                                                      *)

\* The codes of the cases down to MBC7, and those of them that get the MBC3.
MBCCodes == {5, 6} \cup {8, 9} \cup 11 .. 13 \cup 15 .. 19 \cup 25 .. 30 \cup {32, 34}
MBC3Codes == {8, 9} \cup 11 .. 13 \cup 15 .. 19

\* Where the enumerators stand in the switch, and how far down it a
\* controller's flag can be set.
LEMMA CasesInOrder ==
  /\ DOMAIN FallThrough = 1 .. 24
  /\ \A i \in 1 .. 24 :
       /\ FallThrough[i][1] \in MBC3Codes => i > 2
       /\ FallThrough[i][1] \in 25 .. 30 => i > 12
       /\ FallThrough[i][1] = 32 => i > 18
       /\ FallThrough[i][1] = 34 => i > 19
       /\ i < 21 => FallThrough[i][1] \in MBCCodes
       /\ "MBC1" \notin FallThrough[i][2]
       /\ "MBC2" \in FallThrough[i][2] => i < 3
       /\ "MBC3" \in FallThrough[i][2] => i < 13
       /\ "MBC5" \in FallThrough[i][2] => i < 19
       /\ "MBC6" \in FallThrough[i][2] => i < 20
       /\ "MBC7" \in FallThrough[i][2] => i < 21
<1>1. DOMAIN FallThrough = 1 .. 24
  BY DEF FallThrough
<1>2. ASSUME NEW i \in 1 .. 24
      PROVE  /\ FallThrough[i][1] \in MBC3Codes => i > 2
             /\ FallThrough[i][1] \in 25 .. 30 => i > 12
             /\ FallThrough[i][1] = 32 => i > 18
             /\ FallThrough[i][1] = 34 => i > 19
             /\ i < 21 => FallThrough[i][1] \in MBCCodes
  BY SMTT(30) DEF FallThrough, MBC3Codes, MBCCodes
<1>3. ASSUME NEW i \in 1 .. 24
      PROVE  /\ "MBC1" \notin FallThrough[i][2]
             /\ "MBC2" \in FallThrough[i][2] => i < 3
             /\ "MBC3" \in FallThrough[i][2] => i < 13
             /\ "MBC5" \in FallThrough[i][2] => i < 19
             /\ "MBC6" \in FallThrough[i][2] => i < 20
             /\ "MBC7" \in FallThrough[i][2] => i < 21
  BY SMTT(30) DEF FallThrough
<1> QED BY <1>1, <1>2, <1>3

\* The flag is set at the case of the code or further down.
FallsInto(code, flag) ==
  \E e \in 1 .. 24, i \in 1 .. 24 :
    e <= i /\ FallThrough[e][1] = code /\ flag \in FallThrough[i][2]

LEMMA FlagSet ==
  ASSUME NEW code, code \notin {1, 2, 3}, NEW flag
  PROVE  flag \in GetCartHardware(code) <=> FallsInto(code, flag)
BY CasesInOrder DEF GetCartHardware, FallsInto

\* Each of the codes comes to the flag of its controller, ROM_RAM and MMM01
\* to that of the MBC3.
LEMMA OwnFlags ==
  /\ \A code \in {5, 6}    : FallsInto(code, "MBC2")
  /\ \A code \in MBC3Codes : FallsInto(code, "MBC3")
  /\ \A code \in 25 .. 30  : FallsInto(code, "MBC5")
  /\ FallsInto(32, "MBC6") /\ FallsInto(34, "MBC7")
<1>1. ASSUME NEW code \in {5, 6} PROVE FallsInto(code, "MBC2")
  <2>1. /\ FallThrough[1][1] = 5 /\ FallThrough[2][1] = 6
        /\ "MBC2" \in FallThrough[2][2]
    BY DEF FallThrough
  <2> QED BY <2>1 DEF FallsInto
<1>2. ASSUME NEW code \in MBC3Codes PROVE FallsInto(code, "MBC3")
  <2>1. /\ FallThrough[3][1] = 8 /\ FallThrough[4][1] = 9
        /\ \A c \in 11 .. 13 : FallThrough[c - 6][1] = c
        /\ \A c \in 15 .. 19 : FallThrough[c - 7][1] = c
    BY DEF FallThrough
  <2>2. "MBC3" \in FallThrough[12][2]
    BY DEF FallThrough
  <2>3. \E e \in 1 .. 12 : FallThrough[e][1] = code
    <3>1. CASE code \in {8, 9}
      BY <2>1, <3>1
    <3>2. CASE code \in 11 .. 13
      <4>1. code - 6 \in 1 .. 12
        BY <3>2
      <4> QED BY <2>1, <3>2, <4>1
    <3>3. CASE code \in 15 .. 19
      <4>1. code - 7 \in 1 .. 12
        BY <3>3
      <4> QED BY <2>1, <3>3, <4>1
    <3> QED BY <3>1, <3>2, <3>3 DEF MBC3Codes
  <2> QED BY <2>2, <2>3 DEF FallsInto
<1>3. ASSUME NEW code \in 25 .. 30 PROVE FallsInto(code, "MBC5")
  <2>1. /\ \A c \in 25 .. 30 : FallThrough[c - 12][1] = c
        /\ "MBC5" \in FallThrough[18][2]
    BY DEF FallThrough
  <2>2. code - 12 \in 1 .. 18
    OBVIOUS
  <2> QED BY <2>1, <2>2 DEF FallsInto
<1>4. FallsInto(32, "MBC6") /\ FallsInto(34, "MBC7")
  <2>1. /\ FallThrough[19][1] = 32 /\ "MBC6" \in FallThrough[19][2]
        /\ FallThrough[20][1] = 34 /\ "MBC7" \in FallThrough[20][2]
    BY DEF FallThrough
  <2> QED BY <2>1 DEF FallsInto
<1> QED BY <1>1, <1>2, <1>3, <1>4

\* No code but those of the MBC1 and the MBC2 comes to a flag that is tested
\* before its own.
LEMMA EarlierFlags ==
  ASSUME NEW code \in Byte
  PROVE  /\ ~FallsInto(code, "MBC1")
         /\ FallsInto(code, "MBC2") => code \notin MBC3Codes \cup 25 .. 30 \cup {32, 34}
         /\ FallsInto(code, "MBC3") => code \notin 25 .. 30 \cup {32, 34}
         /\ FallsInto(code, "MBC5") => code \notin {32, 34}
         /\ FallsInto(code, "MBC6") => code # 34
         /\ \A type \in {"MBC2", "MBC3", "MBC5", "MBC6", "MBC7"} :
              FallsInto(code, type) => code \in MBCCodes
<1>1. ASSUME NEW e \in 1 .. 24, NEW i \in 1 .. 24, e <= i, FallThrough[e][1] = code
      PROVE  /\ "MBC1" \notin FallThrough[i][2]
             /\ "MBC2" \in FallThrough[i][2] =>
                  code \notin MBC3Codes \cup 25 .. 30 \cup {32, 34}
             /\ "MBC3" \in FallThrough[i][2] => code \notin 25 .. 30 \cup {32, 34}
             /\ "MBC5" \in FallThrough[i][2] => code \notin {32, 34}
             /\ "MBC6" \in FallThrough[i][2] => code # 34
             /\ \A type \in {"MBC2", "MBC3", "MBC5", "MBC6", "MBC7"} :
                  type \in FallThrough[i][2] => code \in MBCCodes
  BY <1>1, CasesInOrder
<1> QED BY <1>1 DEF FallsInto

\* What get_controller_type makes of the flags, for every hardware code.
LEMMA ControllerFound ==
  ASSUME NEW code \in Byte
  PROVE  GetControllerType(GetCartHardware(code)) = ControllerOf(code)
<1> DEFINE flags == GetCartHardware(code)
<1>1. CASE code \in {1, 2, 3}
  BY <1>1 DEF GetCartHardware, GetControllerType, ControllerOf
<1>2. CASE code \notin {1, 2, 3}
  <2>1. \A flag : flag \in flags <=> FallsInto(code, flag)
    BY <1>2, FlagSet
  <2> SUFFICES GetControllerType(flags) = ControllerOf(code)
    OBVIOUS
  <2> HIDE DEF flags
  <2>2. "MBC1" \notin flags
    BY <2>1, EarlierFlags
  <2>3. CASE code \in {5, 6}
    BY <2>1, <2>2, <2>3, OwnFlags DEF GetControllerType, ControllerOf
  <2>4. CASE code \in MBC3Codes
    <3>1. "MBC3" \in flags /\ "MBC2" \notin flags
      BY <2>1, <2>4, OwnFlags, EarlierFlags
    <3>2. ControllerOf(code) = "MBC3"
      BY <2>4 DEF ControllerOf, MBC3Codes
    <3> QED BY <2>2, <3>1, <3>2 DEF GetControllerType
  <2>5. CASE code \in 25 .. 30
    <3>1. "MBC5" \in flags /\ "MBC2" \notin flags /\ "MBC3" \notin flags
      BY <2>1, <2>5, OwnFlags, EarlierFlags
    <3>2. ControllerOf(code) = "MBC5"
      BY <2>5 DEF ControllerOf
    <3> QED BY <2>2, <3>1, <3>2 DEF GetControllerType
  <2>6. CASE code = 32
    <3>1. /\ "MBC6" \in flags /\ "MBC2" \notin flags /\ "MBC3" \notin flags
          /\ "MBC5" \notin flags
      BY <2>1, <2>6, OwnFlags, EarlierFlags
    <3> QED BY <2>2, <2>6, <3>1 DEF GetControllerType, ControllerOf
  <2>7. CASE code = 34
    <3>1. /\ "MBC7" \in flags /\ "MBC2" \notin flags /\ "MBC3" \notin flags
          /\ "MBC5" \notin flags /\ "MBC6" \notin flags
      BY <2>1, <2>7, OwnFlags, EarlierFlags
    <3> QED BY <2>2, <2>7, <3>1 DEF GetControllerType, ControllerOf
  <2>8. CASE code \notin MBCCodes
    <3>1. \A type \in {"MBC2", "MBC3", "MBC5", "MBC6", "MBC7"} : type \notin flags
      BY <2>1, <2>8, EarlierFlags
    <3>2. ControllerOf(code) = "NONE"
      BY <1>2, <2>8 DEF ControllerOf, MBCCodes
    <3> QED BY <2>2, <3>1, <3>2 DEF GetControllerType
  <2> QED BY <2>3, <2>4, <2>5, <2>6, <2>7, <2>8 DEF MBCCodes, MBC3Codes
<1> QED BY <1>1, <1>2

\* Whatever a program does, the machine keeps the controller of its hardware
\* code, which for five codes is that of another cartridge.
THEOREM ControllerAlwaysByCode == SpecE => []ControllerIsByCode
<1>1. ASSUME EInv, stage = "loop"
      PROVE  machine.memory_controller = ControllerOf(HardwareCode(machine.cartridge_rom))
  <2>1. AsSetUp(machine) /\ IsCartridge(machine.cartridge_rom)
    BY <1>1 DEF EInv, MachineOK, IInv, StateOK, Sound, IsMachine
  <2>2. HardwareCode(machine.cartridge_rom) \in Byte
    BY <2>1, FileByteType DEF HardwareCode
  <2> QED BY <2>1, <2>2, ControllerFound DEF AsSetUp
<1>2. EInv => ControllerIsByCode
  BY <1>1 DEF ControllerIsByCode
<1> QED BY <1>2, ProcessInvariance, PTL

-----------------------------------------------------------------------------
(* What is executed.                                                       *)

\* Whatever a program writes, and to whatever address, the instructions in the
\* lower half of the ROM area are those of the file that was read.
THEOREM AlwaysExecutesTheFile == SpecE => []ExecutesTheFile
<1>1. ASSUME EInv, stage = "loop", machine.memory_controller # "NONE",
             cpu.PC < ROM_BANK_SIZE, cpu.PC < rom_size
      PROVE  \E f \in Cartridges :
               /\ rom_size <= f.size
               /\ rom_data = Image(f, rom_size)
               /\ (changes = 0) => (disk = {f})
               /\ opcode = FileByte(f, cpu.PC)
               /\ Read8(machine, cpu.PC) = opcode
  <2>1. PICK f \in Cartridges : Loaded(f) /\ Measured(f)
    BY <1>1 DEF EInv, FilesOK
  <2>2. /\ machine.cartridge_rom = Image(f, rom_size)
        /\ rom_data = Image(f, rom_size)
        /\ rom_size \in Nat /\ rom_size <= f.size
        /\ f.size \in Nat /\ cpu.PC \in Nat /\ cpu.PC \in Word
    BY <1>1, <2>1, FilesType
       DEF EInv, MachineOK, AsSetUp, Loaded, ShellOK, Files, IInv, StateOK,
           CpuState, Word
  <2>3. FileByte(machine.cartridge_rom, cpu.PC) = FileByte(f, cpu.PC)
    BY <1>1, <2>2, ImageBytes
  <2>4. StateOK /\ Kept(bus, machine)
    BY <1>1, FlushKeeps DEF EInv, MachineOK, IInv
  <2>5. /\ Read8(machine, cpu.PC) = FileByte(machine.cartridge_rom, cpu.PC)
        /\ Read8(bus, cpu.PC) = FileByte(machine.cartridge_rom, cpu.PC)
    BY <1>1, <2>2, <2>4, ReadBelowWindow DEF StateOK, Kept, RomByte
  <2> QED BY <2>1, <2>2, <2>3, <2>5 DEF opcode, Measured
<1>2. EInv => ExecutesTheFile
  BY <1>1 DEF ExecutesTheFile
<1> QED BY <1>2, ProcessInvariance, PTL

\* Setting up is not the last cycle of an instruction: the zeroed machine has
\* no controller, so that nothing can be fetched from the entry point.
LEMMA SetUpIsNoCycle == ASSUME EInv, SetUp PROVE ~FinalCycle
<1>1. Idle
  BY DEF SetUp, At, EInv, MachineOK, Before
<1>2. machine.memory_controller = "NONE"
  <2>1. HardwareCode(EmptyFile) = 0
    BY DEF HardwareCode, FileByte, EmptyFile
  <2>2. GetControllerType(GetCartHardware(0)) = "NONE"
    BY ControllerFound DEF ControllerOf, Byte
  <2> QED BY <1>1, <2>1, <2>2 DEF Idle, ZeroMachine, PowerOn
<1>3. cpu.PC = 256
  BY <1>1 DEF Idle, InitialRegisters
<1>4. Null8
  BY <1>2, <1>3 DEF Null8, bus_read, OnCartridge, bus_address_in_rom, Null, Pointer
<1> QED BY <1>1, <1>4 DEF FinalCycle, Idle

\* What holds of every cycle of the clock holds of the whole process: loads
\* from 0xFFFF see IME, and JR C and JP NZ alone lead into their operands.
THEOREM ProcessKeepsPromises == SpecE => LoadsSeeIME /\ OnlyTwoEnterOperands
<1> DEFINE L == FinalCycle /\ opcode \in {26, 42, 126, 240, 250}
                  /\ LoadAddress = 65535 => cpu'.A = cpu.IME
           O == FinalCycle /\ status' = "running" /\ ~Jumps(opcode)
                  => cpu'.PC = U16(cpu.PC + (IF EntersOperand(opcode) THEN 1
                                             ELSE Length(opcode)))
<1>1. ASSUME EInv, [NextE]_varsE, FinalCycle, ~UNCHANGED vars PROVE IInv
  <2>1. Cycle \/ SetUp
    BY <1>1 DEF NextE, Process, Arguments, file_exists, file_size, AllocateRom,
                OpenFile, ReadFile, AllocateMachine, Leave, Die, FileChanges, varsE
  <2>2. ~SetUp
    BY <1>1, SetUpIsNoCycle
  <2> QED BY <1>1, <2>1, <2>2 DEF Cycle, EInv, MachineOK
<1>2. EInv /\ [NextE]_varsE => [L]_vars
  BY <1>1, LoadSeesIME
<1>3. EInv /\ [NextE]_varsE => [O]_vars
  BY <1>1, OperandSkipped
<1> QED BY <1>2, <1>3, ProcessInvariance, PTL
        DEF SpecE, LoadsSeeIME, OnlyTwoEnterOperands

-----------------------------------------------------------------------------
(* The process as a Session.                                               *)

\* The machine that is set up is not the zeroed one, once more for any step.
LEMMA SoundDiffers == ASSUME NEW m, Sound(m) PROVE m # ZeroMachine
<1>1. m.cartridge_rom.size > 0
  BY DEF Sound, IsMachine, IsCartridge
<1>2. ZeroMachine.cartridge_rom.size = 0
  BY DEF ZeroMachine, PowerOn, EmptyFile
<1> QED BY <1>1, <1>2

\* Up to the set-up, a step goes on or gives up, and the machine is zeroed.
LEMMA LoadingStays ==
  ASSUME EInv,
         Arguments \/ file_exists \/ file_size \/ AllocateRom \/ OpenFile
           \/ ReadFile \/ AllocateMachine
  PROVE  /\ machine = ZeroMachine /\ UNCHANGED vars /\ stage \in Before
         /\ \/ stage' \in Before /\ UNCHANGED exit_code
            \/ stage' = "over" /\ exit_code' \in {0, 1}
<1>1. /\ UNCHANGED vars /\ stage \in Before
      /\ \/ stage' \in Before /\ UNCHANGED exit_code
         \/ stage' = "over" /\ exit_code' \in {0, 1}
  BY DEF Arguments, file_exists, file_size, AllocateRom, OpenFile, ReadFile,
         AllocateMachine, At, Exit, Before
<1>2. machine = ZeroMachine
  BY <1>1 DEF EInv, MachineOK, Idle
<1> QED BY <1>1, <1>2

LEMMA InitSession == InitE => Session!Init
BY DEF InitE, Session!Init, Before

LEMMA StepSession ==
  EInv /\ [NextE]_varsE => [Session!Next]_Session!sessionVars
<1> SUFFICES ASSUME EInv, [NextE]_varsE
             PROVE  Session!Next \/ UNCHANGED Session!sessionVars
  OBVIOUS
<1> USE DEF Session!Next, Session!sessionVars
<1>1. CASE Arguments \/ file_exists \/ file_size \/ AllocateRom \/ OpenFile
             \/ ReadFile \/ AllocateMachine
  <2>1. machine' = machine
    BY <1>1, LoadingStays DEF vars
  <2> QED BY <1>1, <2>1, LoadingStays DEF Session!Fail, Before
<1>2. CASE SetUp
  <2>1. /\ stage = "setup" /\ stage' = "loop" /\ UNCHANGED exit_code
        /\ machine' = PowerOn(rom_data)
    BY <1>2 DEF SetUp, At
  <2>2. machine = ZeroMachine
    BY <2>1 DEF EInv, MachineOK, Idle, Before
  <2>3. PICK f \in Cartridges : Loaded(f)
    BY <2>1 DEF EInv, FilesOK
  <2>4. rom_size \in Nat /\ f.size \in Nat
    BY <2>3, FilesType DEF EInv, ShellOK, Files
  <2>5. rom_data \in Images
    <3>1. rom_size \in 1 .. f.size
      BY <2>3, <2>4 DEF Loaded
    <3> QED BY <2>3, <3>1 DEF Loaded, Images
  <2>6. Sound(machine') /\ machine'.cartridge_rom = rom_data
    <3>1. IsCartridge(rom_data)
      BY <2>3, <2>4, ImageCartridge DEF Loaded
    <3> QED BY <2>1, <3>1, PowerOnSound
  <2>7. machine' # ZeroMachine'
    BY <2>6, SoundDiffers DEF ZeroMachine, PowerOn, EmptyFile
  <2> QED BY <2>1, <2>2, <2>5, <2>6, <2>7 DEF Session!Run, Before
<1>3. CASE Cycle
  <2>1. stage = "loop" /\ stage' = stage /\ exit_code' = exit_code
    BY <1>3 DEF Cycle, shell
  <2>2. IInv /\ Sound(machine)
    BY <2>1 DEF EInv, MachineOK, IInv, StateOK
  <2>3. Kept(machine', machine)
    BY <1>3, <2>2, NextInvariant DEF Cycle
  <2>4. /\ machine'.cartridge_rom = machine.cartridge_rom
        /\ machine # ZeroMachine /\ machine' # ZeroMachine
    BY <2>2, <2>3, SoundDiffers DEF Kept
  <2> QED BY <2>1, <2>4 DEF Before
<1>4. CASE Leave
  BY <1>4 DEF Leave, Exit, At, vars, Session!End, Before
<1>5. CASE Die
  BY <1>5 DEF Die, At, vars, Session!Crash, Before
<1>6. CASE FileChanges
  BY <1>6 DEF FileChanges, vars
<1>7. CASE UNCHANGED varsE
  BY <1>7 DEF varsE, vars, shell
<1> QED BY <1>1, <1>2, <1>3, <1>4, <1>5, <1>6, <1>7 DEF NextE, Process

\* The process is a session, for all files, programs and changes: it runs one
\* image that nothing writes to, or none, and its exit code is 0 only when it
\* ran none.
THEOREM ProcessIsSession == SpecE => ImplementsSession
<1> QED BY InitSession, StepSession, ProcessInvariance, PTL
        DEF SpecE, ImplementsSession, Session!Spec

-----------------------------------------------------------------------------
(* Progress.                                                               *)

LEMMA StepsToGoType == EInv => StepsToGo \in 0 .. 15
<1> SUFFICES ASSUME EInv PROVE StepsToGo \in 0 .. 15
  OBVIOUS
<1>1. CASE stage = "loop"
  <2>1. executing => remaining \in Nat /\ remaining < 6
    BY <1>1 DEF EInv, MachineOK, IInv
  <2> QED BY <1>1, <2>1 DEF StepsToGo
<1>2. CASE stage # "loop"
  BY <1>2 DEF EInv, ShellOK, Before, StepsToGo
<1> QED BY <1>1, <1>2

LEMMA LoadingCloser ==
  ASSUME EInv,
         Arguments \/ file_exists \/ file_size \/ AllocateRom \/ OpenFile
           \/ ReadFile \/ AllocateMachine
  PROVE  StepsToGo' < StepsToGo
BY DEF Arguments, file_exists, file_size, AllocateRom, OpenFile, ReadFile,
       AllocateMachine, At, Exit, StepsToGo

LEMMA CycleCloser ==
  ASSUME EInv, Cycle, ~FinalCycle PROVE StepsToGo' < StepsToGo
<1>1. stage = "loop" /\ stage' = "loop" /\ IInv /\ status = "running"
  BY DEF Cycle, shell, EInv, MachineOK, Tick
<1>2. CASE NullFetch
  <2>1. StepsToGo = 7 /\ StepsToGo' = 1
    BY <1>1, <1>2 DEF NullFetch, StepsToGo
  <2> QED BY <2>1
<1>3. CASE WaitCycle
  <2>1. status' = "running" /\ executing' /\ remaining' = CyclesLeft
    BY <1>1, <1>3 DEF WaitCycle
  <2>2. StepsToGo' = 1 + CyclesLeft
    BY <1>1, <2>1 DEF StepsToGo
  <2>3. StepsToGo = IF executing THEN 1 + remaining ELSE 7
    BY <1>1 DEF StepsToGo
  <2>4. /\ CyclesLeft \in Nat /\ CyclesLeft < 6
        /\ executing => CyclesLeft = remaining - 1 /\ remaining \in Nat
    BY <1>1, CyclesLeftType DEF IInv
  <2> QED BY <2>2, <2>3, <2>4
<1> QED BY <1>2, <1>3 DEF Cycle, Tick

\* Whatever the files and the program, the process takes at most 15 steps
\* before it ends or executes an instruction.
THEOREM AlwaysCloser == SpecE => [](StepsToGo \in 0 .. 15) /\ ComesCloser
<1> DEFINE C == /\ Process /\ ~(Cycle /\ FinalCycle) => StepsToGo' < StepsToGo
                /\ FileChanges => StepsToGo' = StepsToGo
<1>1. ASSUME EInv, SetUp PROVE StepsToGo' < StepsToGo
  <2>1. stage = "setup" /\ stage' = "loop" /\ UNCHANGED <<status, executing, remaining>>
    BY <1>1 DEF SetUp, At
  <2>2. status = "running" /\ ~executing
    BY <1>1, <2>1 DEF EInv, MachineOK, Idle, Before
  <2> QED BY <2>1, <2>2 DEF StepsToGo
<1>2. ASSUME Leave \/ Die PROVE StepsToGo' < StepsToGo
  BY <1>2 DEF Leave, Die, Exit, At, StepsToGo
<1>3. ASSUME FileChanges PROVE StepsToGo' = StepsToGo
  BY <1>3 DEF FileChanges, vars, StepsToGo
<1>4. EInv => C
  BY <1>1, <1>2, <1>3, LoadingCloser, CycleCloser DEF Process
<1>5. EInv /\ [NextE]_varsE => [C]_varsE
  BY <1>4
<1> QED BY <1>5, StepsToGoType, ProcessInvariance, PTL DEF SpecE, ComesCloser
=============================================================================
