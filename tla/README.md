# A TLA+ model of dmgem

dmgem is an emulator of the original Game Boy (DMG). It is one sequential C
program: `main` loads a ROM file, `run_machine` builds the machine and calls
`tick` once per machine cycle, and `tick` drives the CPU, which reads and writes
through the bus. There are no threads and nothing is persisted. What makes it
hard is elsewhere: an address has several meanings that depend on what was
written before, every integer has a width, an instruction is spread over several
cycles between which memory changes, and a program may do all of this in any
order. Around it, `main` makes seven calls that can fail, and names its file
three times while somebody else may replace it. That is what these modules are
about.

## Inventory

| component | source | state | operations | must hold |
|---|---|---|---|---|
| cartridge header | `rom.c`, `rom.h` | none | decode hardware code, RAM and ROM size | the bank counts and the controller the rest relies on |
| memory controller | `memory_controllers.c` | bank registers, mode, RAM lock | read pointer, 8-bit write | pointers stay inside their objects; bank 0 stays; the window shows one bank as a whole |
| bus | `bus.c` | none of its own | `bus_read`, 8- and 16-bit writes | memory cells are cells; two addresses never alias |
| arithmetic | `sm83_operations.c` | the flags | eleven operations | `sm83_sub8` orders its operands, rotations lose nothing, INC and DEC undo each other |
| instructions | `cpu.c` (`execute_switch`, `execute_prefix`) | registers | one per opcode | operands are skipped, but by two instructions; what is pushed is popped |
| clock | `cpu.c` (`tick`, `get_execution_time`) | `executing`, remaining cycles | one per machine cycle | an instruction takes its time and ends; the serial port prints once; 0xFFFF shows IME |
| octal decoder | `cpu.c` (`execute_decode`) | registers | one, never called | it does what the switch does |
| lifecycle | `main.c`, `machine.c` | buffers, exit code | one per call that can fail, set-up, loop, exit | what runs is the file; nothing is used that is not there; it ends or runs |
| files | `file.c`, stdio | the file, the stream | stat twice, open, read, close | the stream is closed on every path |
| logging | `logging.c`, `print_rom_info` | none | print | not modelled: no state |
| interrupts | `interrupt_flags` in `cpu.c` | | a type nobody uses | not modelled |

The CPU calls the bus; the bus sends 0x0000-0x7FFF and 0xA000-0xBFFF to the
memory controller and everything else to console memory; the controller answers
with a pointer into the ROM, the external RAM, or eight bytes of 0xFF. The
console's 64 KiB, the ROM and 64 KiB of slack are one allocation, in this order.

## Modules

    Words             widths, conversions, bit operations
      CartHeader      rom.c, the bank counts of machine.c, ROM files
        MemoryControllers   memory_controllers.c
          Bus               bus.c, reads through pointers, PowerOn
            MemorySystem    writes as steps        AddressSpace (abstract)
      Sm83            sm83_operations.c
        Alu           operations as steps on an accumulator
    Instructions      Sm83 + Bus: execute_switch, execute_prefix
      Untimed         one instruction after another (abstract)
        Cpu           tick, get_execution_time
          CpuHistory  Cpu with history variables
          Decoder     execute_decode, next to what Cpu executes
          Emulator    main, run_machine and the file, around Cpu
    Session           load one image, run it, end (abstract)
    MC*               instances for TLC

    BusProofs         Bus               Sm83Proofs        Sm83
    MemorySystemProofs, AddressSpaceProofs   on BusProofs
    AluProofs         on Sm83Proofs
    CpuProofs         on BusProofs and Sm83Proofs
    CpuHistoryProofs  on CpuProofs: the history, the stack, the decoder
    EmulatorProofs    on CpuProofs

**The machine** is one record: `machine_state` together with the file-level
`controller_state`. A `uint8_t*` is an object and an offset (`Pointer`), so
"inside its object" can be stated, and `Load` says what a dereference yields.
Console memory and external RAM are the partial functions of the cells that have
been written, on top of what `run_machine` put there (`BlockByte`). A ROM file is
its length, the bytes that matter, and the byte the rest is filled with; the
header codes are bytes of it, as in the code. `bus_read`, `mbc1_read`,
`write_mbc1_8` and the others keep the names of the C functions. The clock field
of `machine_state` is counted by `run_machine` and read by nothing; it is left
out. The external RAM has `RAM_BANK_SIZE * ram_bank_count` bytes, and the modulo
in `write_mbc1_8` (for one bank or none) is the identity on the offsets that
reach it.

**MemorySystem** takes 8- and 16-bit writes to any of a set of addresses as its
steps; a read changes nothing, so reads are in the properties. **AddressSpace**
says what a program may rely on without knowing of controllers: plain addresses
are cells, fixed addresses never change, the window shows one whole bank.
`ImplementsAddressSpace` maps the probed addresses to it.

**Alu** applies the operations the CPU uses on A one after the other, because
the flags one leaves are inputs of the next. `sm83_rotate_left` and
`sm83_rotate_right_copy` are translated but no instruction calls them.

**Instructions** has one action per group of opcodes, parameterised by the
operand numbers in the opcode. It follows the code where the code departs from
the hardware: INC adds the carry flag too; INC (HL) and DEC (HL) take an
immediate address; JP NZ and JR C, not taken, leave their operand to be executed;
SRL leaves the flags alone; CP with an immediate sets the half carry from a bit
mask and never the carry. `cpu->PC += f(cpu->PC++)` in JR and JR C has no defined
order, so both targets are successors (`UnsequencedJump`). The union of AF, BC,
DE and HL with their bytes is the bytes (little-endian host), and F keeps its
bit order: zero is bit 0.

**Cpu** is `tick`: the first cycle looks up the time, a cycle that is not the
last copies IME to 0xFFFF, the last one prints and acknowledges the serial
transfer and executes. Without a memory controller the first fetch dereferences
NULL (`NullFetch`); `status` says whether `tick` returned FALSE or the process
died. **CpuHistory** adds variables that only record: cycles since the start of
the instruction, words pushed, transfers requested and printed. **Untimed** is
the CPU as a program sees it: instructions, each as a whole, with copies of IME to
0xFFFF at any time in between, and always before an instruction that reads
operands, the byte at a pair, or the stack. The instructions behind the prefix are
the exception: their time is that of the prefix, one cycle, so they read what was
stored at 0xFFFF last. `ImplementsUntimed` hides `executing` and the count.

**Decoder** is `execute_decode`, the second implementation of the opcodes below
0x40. Nothing calls it, so it is no action: it is an operator that yields the
registers and the machine it would leave behind. It does not move PC past the
opcode, which is what it then reads as an 8-bit operand.

**Emulator** is the process. `stage` names the call that comes next; each call
of `main` and `run_machine` that can fail is an action with its failure as a
disjunct: `file_exists`, `file_size`, the two allocations, fopen, fread, and the
allocation of the cartridge RAM, whose failure nobody notices. `disk` and
`stream` are sets of one file or of none. `FileChanges` is the environment: the
file may appear, go or be replaced as a whole between any two steps, while an
open stream keeps the file it was opened for. `rom_data` is what the buffer
holds, zeros from calloc first. `held` are the allocations. The loop is the
`Tick` of Cpu, on the machine `PowerOn` sets up from the buffer. A dereference
of NULL ends in the stage `killed`. **Session** is what is left of all that from
the outside: a phase, the image that is run, and the exit code; in
`ImplementsSession` everything up to the main loop is one phase, and a program
never changes the image.

## Runs

| run | module | distinct states | about |
|---|---|---|---|
| memory | MCMemorySystem | 5481 | every sequence of writes to the boundary addresses, 8 cartridges |
| alu | MCAlu | 3863 | every sequence of operations |
| cpu | MCCpuHistory | 102385 | every opcode in four flag states; every way to change and load 0xFFFF; 3500 programs of three stack, serial and jump instructions |
| emulator | MCEmulator | 9610 | every failure and every change of the file, 12 ROM files and the empty one |

What they show:

- `BankZeroFixed`: mode 1 shifts bank 0 by a number taken from the RAM bank
  count. It makes no difference: every shift is a multiple of 64 KiB and the sum
  is 16 bits wide.
- `ReadsInBounds`: with the same 16 bits, the high bank's offset stays inside the
  allocation, even for banks that the file does not have, and for files shorter
  than a bank. Every pointer can be read as 16 bits.
- `SixteenBitReadsAgree`: a 16-bit read through a pointer agrees with two reads
  through the bus, except at four addresses (`Seams`), where it does not.
- `ImplementsAddressSpace`: no write changes two unrelated cells or half a
  bank.
- `CompareOrders`: the flags of `sm83_sub8` tell less, equal and greater apart,
  whatever flags were left. CP with an immediate does not call it and is not
  covered: it never sets the carry.
- `RotationsLoseNoBit`: of the two rotations and the swap that instructions call;
  `sm83_rotate_left`, which loses bit 7, is not called.
- `StepsUndoEachOther`: INC adds the carry flag too. DEC and INC give back the
  value unless the decrement borrowed, from 0; INC and DEC give it back exactly
  when the carry was clear before.
- `OnlyTwoEnterOperands`: every instruction that does not jump leads to the byte
  behind its last operand, INC (HL) and DEC (HL) with the address they take among
  them, but for JR C and JP NZ: not taken, they lead into their own operand, which
  the program then executes. The other conditional instructions move PC behind the
  operand before they test.
- `LoadsSeeIME`: a load into A from 0xFFFF yields IME, never what the program
  stored there. SWAP (HL) and SRL (HL), which take one cycle, and a fetch of an
  opcode at 0xFFFF may still find the stored byte.
- `ImplementsUntimed`: how long instructions take, and in which cycle they are
  executed, makes no difference but that of the copies of IME.
- `InstructionsFinish`: an instruction that starts is executed.
- `DecoderAgrees`: for the 29 opcodes without operand bytes that both
  implement, the decoder does what the switch does, to every register but PC.
- `TimedOpcodeExecuted`: the opcode is read again when it is executed; it is the
  one whose time was waited for, except at 0xFFFF and 0xFF02.
- `PopsWhatWasPushed`: 16-bit writes and 16-bit reads are each other's inverse
  on the stack, across calls, moved stack pointers and the wrap of SP, except
  where a word touches cartridge addresses or the two cells the clock writes.
- `SerialExactlyOnce`: no transfer is lost or printed twice.
- `RunsTheFile`: whatever happens to the file between the three calls that name
  it, what runs is the beginning of one version of it, none of it zeros that
  calloc left. The size comes from the second stat, the bytes from fopen, and the
  check of fread stands between them.
- `NothingLeftOpen`: every way out of `main` closes the stream, and the machine's
  memory is held exactly while it is used. (The buffer is not freed when fopen or
  fread fails, nor the cartridge RAM ever; the process ends right then.)
- `CartRamUntouched`: the cartridge RAM may be missing, and nobody checks. One of
  the programs unlocks it the documented way, stores to it and loads from it: the
  lock does not open, nothing is stored and no pointer into it is handed out.
- `ControllerIsByCode`: which controller a hardware code ends up with. The order
  of tests in `GetControllerType` undoes the falling through in
  `get_cart_hardware` for the codes of an MBC, and for no others: ROM_RAM (8, 9)
  and MMM01 (11 to 13) cartridges run with an MBC3.
- `ExecutesTheFile`: an opcode fetched from the lower half of the ROM area is that
  byte of a file whose first `rom_size` bytes are what main read, and which is the
  one on the disk if that never changed; one of the programs stores to its own
  next instruction.
- `EndsOrRuns`: the process ends, or executes one instruction after another.
- `ComesCloser`: `StepsToGo` counts down from 15 with every step of the process
  that is not the execution of an instruction, and no change of the file turns it
  back.
- `ImplementsSession`: one image is loaded and run, or none; nothing exchanges it
  afterwards; the exit code is 0 only when none was run.

Eight runs show where the code departs from its own comments; PROJECT.json quotes
them under "findings":

| run | the code | the comment |
|---|---|---|
| maps_missing_bank | the last bank maps what lies behind the ROM | the mask keeps the bank below the number of banks |
| ram_stays_locked | no value enables the cartridge RAM | it is a source of data |
| copy_ends_early | 0x7FFF bytes are copied | two banks of 16 KiB are |
| add_loses_carry | the carry of an addition is always 0 | the cast lets the value go above 0xFF |
| times_fall_through | JP NZ can take 6 cycles, JR NC 5 | 3-4 and 2-3 |
| increment_elsewhere | INC (HL) uses the two bytes behind it as address | the byte at (HL) |
| zero_is_success | the exit code is 0 when there was no memory for the machine | 0 is success |
| only_implemented_run | the loop is entered with any controller, or none | only if the controller is implemented |

### Bounds

- `MCInputs`, `MCValues`, `MCProbes`: 16-bit writes to five addresses cover each
  register, each shared boundary of two ranges, the start of cartridge RAM and
  the wrap at 0xFFFF. 10 and 31 are the value that ought to enable the RAM and the
  largest bank number; they set and clear the mode bit. The cells and registers
  are finite, so the whole state space is explored.
- `MCCartridges` of MCMemorySystem: bank counts below, at and above the code's
  thresholds 32 and 64, the count that wraps to 0, RAM bank counts with and
  without their low bits, a controller that is not modelled beyond its fallback,
  a file without its banks.
- `MCOperands`, `MCStart`: bytes on both sides of every carry, borrow and sign;
  the accumulators that the operations lead to are all 256.
- Programs (`MCPrograms`): one instruction for every opcode behind a prologue
  that sets the flags, so each disjunct of each action fires; and three
  instructions out of ten for the history, with the stack in four places. The
  last of the three is one that can find what an earlier one left, and a RET
  behind PUSH AF is left out, as it runs through 8000 NOPs. The ROM is filled with
  0xFF, which is no instruction, so programs end. Deadlock is not checked here
  nor in the run of Emulator: a machine whose `tick` returned FALSE stops.
- `MaxElapsed` = 6, the longest time of an instruction, where the count of the
  history stops.
- `MaxChanges` = 2: one change between the first stat and the second, and one
  between the second and fopen, is each file another one; more changes lead
  main through no other combination of answers. The files of MCEmulator are longer
  or shorter than one another, with every kind of controller, programs that stop,
  loop, store to and load from the cartridge RAM, and hardware codes from each group
  of `ControllerOf`; there may be no file, or an empty one. The
  theorems hold for any number of changes and any files.
- A file is shorter than 2 GiB less 128 KiB (`FilesFitAssumption`). `main` has a
  uint32_t for its size and `run_machine` adds 128 KiB; both hold twice as much,
  TLC's integers do not. A file is replaced as a whole, never written in place.
- ROM size codes are at most 29: from 30 on, `2 * (1 << code)` overflows an int.

### Fairness

`Cpu` assumes `WF_vars(Tick)`: `run_machine` does nothing but call `tick` until it
returns FALSE. `CpuHistory` assumes the same of `TickH`, and `Emulator` of
`Process`: a program that has a next call makes it. Nothing is assumed of
`FileChanges`: nobody has to touch the file. `InstructionsFinish` and
`EndsOrRuns` need it.

## Proofs

For every set of ROM files, addresses, operands and programs, and however often
the file changes:

| module | theorem | states |
|---|---|---|
| MemorySystemProofs | `TypeCorrect` | `TypeOK` |
| | `BankZeroStaysFixed` | `BankZeroFixed` |
| | `ReadsStayInBounds` | `ReadsInBounds` |
| | `SixteenBitReadsAlwaysAgree` | `SixteenBitReadsAgree` |
| AddressSpaceProofs | `ImplementsTheAddressSpace` | `ImplementsAddressSpace`, the refinement |
| AluProofs | `TypeCorrect` | `TypeOK` |
| | `ComparisonsOrder` | `CompareOrders` |
| | `StepsUndo` | `StepsUndoEachOther` |
| | `RotationsKeepBits` | `RotationsLoseNoBit` |
| CpuProofs | `TypeCorrect` | `TypeOK` |
| | `ProgramsReadSafely` | every pointer a program gets is in bounds |
| | `ClockIsInvisible` | `ImplementsUntimed`, the refinement |
| | `LoadsAlwaysSeeIME` | `LoadsSeeIME` |
| | `OthersNeverEnterOperands` | `OnlyTwoEnterOperands` |
| CpuHistoryProofs | `SerialAlwaysOnce` | `SerialExactlyOnce` |
| | `TimedOpcodeAlwaysExecuted` | `TimedOpcodeExecuted` |
| | `AlwaysPopsWhatWasPushed` | `PopsWhatWasPushed` |
| | `DecoderAlwaysAgrees` | `DecoderAgrees` |
| EmulatorProofs | `ProcessTypeCorrect` | `ProcessTypeOK` |
| | `AlwaysRunsTheFile` | `RunsTheFile` |
| | `NeverLeftOpen` | `NothingLeftOpen` |
| | `CartRamNeverTouched` | `CartRamUntouched` |
| | `ControllerAlwaysByCode` | `ControllerIsByCode` |
| | `AlwaysExecutesTheFile` | `ExecutesTheFile` |
| | `ProcessKeepsPromises` | `LoadsSeeIME` and `OnlyTwoEnterOperands`, of the whole process |
| | `ProcessIsSession` | `ImplementsSession`, the refinement |
| | `AlwaysCloser` | `ComesCloser`, and that `StepsToGo` stays within 0 and 15 |

The assumptions are those of the modules: files are not empty and have a ROM size
code below 30 (`IsCartridge`); addresses are 16-bit, values 8-bit; the number of
changes is a number, and files fit.

**Memory.** A machine is `Sound` when it is one (`IsMachine`) and `Locked`: no
cell of console memory under a cartridge address has been written, and the RAM
is disabled. No theorem about reads follows without it: bank 0 read from the
copy in console memory needs the first part, and pointers into the external RAM,
whose buffer may have no bytes at all, need the second. That the RAM is disabled
for ever is the lemma `NeverUnlocks`: the enable test holds for no byte. Every
write leaves a machine `Kept`: sound, with the same ROM, controller and external
RAM, and no written cell forgotten. The rest is arithmetic modulo 65536: `ZeroBankIsBankZero`
(every shift of bank 0 is a multiple of 64 KiB) and `NextOffset` (within a bank,
neighbours stay neighbours). For the refinement, each write is one cell of
`AddressSpace`, one bank, or a stutter; `WritePlain` and `WriteCartridge` say
what every read yields after it.

**Arithmetic.** `SetFlagsType` says what an assignment of four bit fields does to
F; everything about flags rests on it. `SubtractCompares` and `AddClearsCarry`
are the widths of the intermediate results. `RotationsKeepBits` looks at the
operations bit by bit: a byte is the sum of its eight bits (`ByteHasBits`), each
rotation moves every bit by one place (`RightMovesBits`, `LeftMovesBits`), and nine
moves around nine places, the carry among them, are none. The flags that earlier
operations left matter for the carry only.

**CPU.** `IInv` is `StateOK` (registers have their widths, the machine is sound),
the count of cycles between 1 and 5 while an instruction waits, which needs the
bounds of both cycle tables, and `CopyMade`: while an instruction waits, 0xFFFF
holds IME. Each group of opcodes has a lemma that it leaves `StepOK`.
`LoadsAlwaysSeeIME` is `CopyMade` and the fact that every load waits.
`ClockIsInvisible` needs the same for all of `ReadsMemory` (`ReadersWaited`): both
cycle tables give those opcodes more than one cycle, and the opcode whose time was
looked up is the one executed, or an acknowledged serial request. A wait cycle is
then a `CopyIME`, the last cycle an `Instruction`, and `executing` and `remaining`
vanish.
`OthersNeverEnterOperands` is one lemma per group of opcodes about PC.

**History.** `HistoryInv` adds `TimeKept`, elapsed and remaining cycles make up
the time of the opcode that is in memory now, and the count of transfers. For
the stack, `StackHolds`: each word remembered is in memory, read as two bytes.
`UntouchedCell` says that what `Stored` does not list has not changed, which needs
`Kept`; `Write16Holds` that a push is there; `TopIsWord` that the one pointer POP
reads through sees both bytes. `DecoderAlwaysAgrees` needs no history: the lemmas
`CounterApart` and `PairApart` move the assignment of PC past the others, and one
lemma per group of opcodes evaluates the decoder.

**Process.** `EInv` says, stage by stage, what is known: `ResourcesOK` where the
stream is open and the memory held, `FilesOK` which version of the file was
measured and read, `MachineOK` that the machine is zeroed before the set-up and
keeps the CPU's invariant, its ROM, its controller and an untouched external RAM
afterwards (`AsSetUp`).
`ControllerAlwaysByCode` evaluates the two functions for every code:
`FallsInto` says which cases a code runs through, `EarlierFlags` that none of the
controllers tested before its own has a flag set, `ControllerFound` what follows.
The machine steps are those of CpuProofs, used as they are, which is also why what
they promise holds of the whole process (`ProcessKeepsPromises`). The refinement of
`Session` rests on `EInv` too: the set-up takes the image from a buffer that
`FilesOK` says is the beginning of a file, and `AsSetUp` says that it stays. For
`AlwaysExecutesTheFile`, `ReadBelowWindow` says what bank 0 shows. `AlwaysCloser` is
the part of `EndsOrRuns` that is safety: no infinite behaviour avoids both the end
and the next instruction, if the process goes on at all.

Model-checked only: the liveness properties `InstructionsFinish` and `EndsOrRuns`,
whose fairness the provers cannot use.

## Not modelled

- Logging and `print_rom_info`: text, no state. The serial port prints the address
  of the byte rather than the byte; the model counts prints.
- `interrupt_flags`: a type nobody uses.
- The clock field of `machine_state`, and the type `init_memory_controller`
  computes: nothing reads them.
- Files of 2 GiB and more, and writes in place to a file that is being read.
- What a dereferenced NULL, or a shift by 30 and more, does on a given platform:
  the first ends the process, the second is excluded.

## Plan

1. (done) memory: controller, bus, refinement.
2. (done) arithmetic, instructions, clock, history, stack.
3. (done) process: failing calls, exit codes, buffers, a changing file.
4. (done) decoder.
5. (done) theorems for every property but the liveness.
6. (done) abstract specifications of the CPU without its clock and of the process.
7. The address space of a running program: the window shows one whole bank, and
   nothing that is not stored to changes, as theorems about Cpu
   (`WindowShowsBank` and `UntouchedCell` are the lemmas).
8. Larger programs for TLC: loops over memory, and code in the switched window
   that changes the bank it runs from. The theorems cover them already.
