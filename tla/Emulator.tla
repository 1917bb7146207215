------------------------------ MODULE Emulator ------------------------------
(***************************************************************************)
(* The whole process: main of main.c and run_machine of machine.c, from    *)
(* the arguments to the exit code, around the machine cycles of Cpu.tla.   *)
(*                                                                         *)
(* Every call that may fail is a step, and between two steps the ROM file  *)
(* may be created, deleted, or replaced by another one, as a whole: main   *)
(* names it three times, in stat, stat and fopen.                          *)
(***************************************************************************)
EXTENDS Cpu

CONSTANT MaxChanges  \* bound: how often the file changes
ASSUME MaxChangesAssumption == MaxChanges \in Nat

\* Bound: main's uint32_t holds the size of a file, and the sum run_machine
\* allocates.  They hold twice as much; this is what TLC can count to.
ASSUME FilesFitAssumption ==
  \A c \in Cartridges : c.size <= 2147483647 - 131072

VARIABLES stage,      \* the call that main or run_machine makes next
          disk,       \* the file of that name: a set of one, or of none
          changes,    \* how often it has changed
          stream,     \* the file rom_file reads: a set of one while it is open
          rom_size,   \* main's variable
          rom_data,   \* what its buffer holds
          held,       \* the buffers that are allocated
          exit_code

shell == <<stage, disk, changes, stream, rom_size, rom_data, held, exit_code>>
varsE == <<vars, shell>>

\* A file may also be empty.
EmptyFile == [bytes |-> <<>>, size |-> 0, padding |-> 0]
Files == Cartridges \cup {EmptyFile}

\* A buffer of calloc, and one that the first n bytes of a file were read to.
Zeroed(n) == [EmptyFile EXCEPT !.size = n]
\* Mutant: as many bytes as the file has, whatever the size of the buffer.
ImageOfAll(file, n) == file
Image(file, n) ==
  [bytes |-> [i \in {j \in DOMAIN file.bytes : j < n} |-> file.bytes[i]],
   size |-> n, padding |-> file.padding]

\* machine_state machine = {0}.
ZeroMachine == [PowerOn(EmptyFile) EXCEPT !.rom_bank_count = 0]

InitE ==
  /\ stage = "arguments"
  /\ disk \in {{}} \cup {{f} : f \in Files} /\ changes = 0
  /\ stream = {} /\ rom_size = 0 /\ rom_data = EmptyFile
  /\ held = {} /\ exit_code = 0
  /\ cpu = InitialRegisters /\ machine = ZeroMachine
  /\ status = "running" /\ executing = FALSE /\ remaining = 0

-----------------------------------------------------------------------------
(* main up to run_machine.                                                 *)

At(here, next) == stage = here /\ stage' = next
Exit(here, code) == At(here, "over") /\ exit_code' = code

Arguments ==
  /\ \/ At("arguments", "exists") /\ UNCHANGED exit_code
     \/ Exit("arguments", 1)
  /\ UNCHANGED <<vars, disk, changes, stream, rom_size, rom_data, held>>

file_exists ==
  /\ \/ disk # {} /\ At("exists", "size") /\ UNCHANGED exit_code
     \/ disk = {} /\ Exit("exists", 1)
  /\ UNCHANGED <<vars, disk, changes, stream, rom_size, rom_data, held>>

\* The result of stat is not looked at: no file, no bytes.
file_size ==
  /\ At("size", "allocate")
  /\ rom_size' = IF disk = {} THEN 0 ELSE (CHOOSE f \in disk : TRUE).size
  /\ UNCHANGED <<vars, disk, changes, stream, rom_data, held, exit_code>>

AllocateRom ==
  /\ \/ /\ At("allocate", "open") /\ UNCHANGED exit_code
        /\ held' = held \cup {"rom_data"} /\ rom_data' = Zeroed(rom_size)
     \/ Exit("allocate", 1) /\ UNCHANGED <<held, rom_data>>
  /\ UNCHANGED <<vars, disk, changes, stream, rom_size>>

\* fopen can fail for a file that stat has found, too.
OpenFile ==
  /\ \/ disk # {} /\ At("open", "read") /\ stream' = disk /\ UNCHANGED exit_code
     \/ Exit("open", 1) /\ UNCHANGED stream
  /\ UNCHANGED <<vars, disk, changes, rom_size, rom_data, held>>

\* Mutants: the result of fread is not checked; a failure leaves the file open.
ReadFileUnchecked ==
  /\ \E f \in stream :
       /\ At("read", "machine") /\ UNCHANGED exit_code
       /\ rom_data' = [bytes |-> [i \in 0 .. rom_size - 1 |-> FileByte(f, i)],
                       size |-> rom_size, padding |-> 0]
  /\ stream' = {}
  /\ UNCHANGED <<vars, disk, changes, rom_size, held>>
ReadFileLeftOpen ==
  /\ \/ \E f \in stream :
          /\ rom_size > 0 /\ f.size >= rom_size
          /\ At("read", "machine") /\ UNCHANGED exit_code
          /\ rom_data' = Image(f, rom_size) /\ stream' = {}
     \/ Exit("read", 1) /\ UNCHANGED <<stream, rom_data>>
  /\ UNCHANGED <<vars, disk, changes, rom_size, held>>

\* fread of one item of rom_size bytes, and the fclose behind it.
ReadFile ==
  /\ \/ \E f \in stream :
          /\ rom_size > 0 /\ f.size >= rom_size
          /\ At("read", "machine") /\ UNCHANGED exit_code
          /\ rom_data' = Image(f, rom_size)
     \/ Exit("read", 1) /\ UNCHANGED rom_data
  /\ stream' = {}
  /\ UNCHANGED <<vars, disk, changes, rom_size, held>>

-----------------------------------------------------------------------------
(* run_machine, and the end of main.                                       *)

\* Without the memory run_machine returns FALSE, which main returns as 0.
AllocateMachine ==
  /\ \/ /\ At("machine", "setup") /\ UNCHANGED exit_code
        /\ held' = held \cup {"console_memory"}
     \/ Exit("machine", 0) /\ held' = held \ {"rom_data"}
  /\ UNCHANGED <<vars, disk, changes, stream, rom_size, rom_data>>

\* Nobody looks at the result of the second calloc, and
\* init_memory_controller returns TRUE for any cartridge.
SetUp ==
  /\ At("setup", "loop")
  /\ machine' = PowerOn(rom_data)
  /\ held' \in {held, held \cup {"external_ram"}}
  /\ UNCHANGED <<cpu, status, executing, remaining, disk, changes, stream,
                 rom_size, rom_data, exit_code>>

Cycle == stage = "loop" /\ Tick /\ UNCHANGED shell

\* Mutants: the loop does not look at what tick returned; run_machine returns
\* what tick did.
LeaveNever == FALSE
LeaveAsTick ==
  /\ status = "stopped" /\ Exit("loop", 0)
  /\ held' = held \ {"console_memory", "rom_data"}
  /\ UNCHANGED <<vars, disk, changes, stream, rom_size, rom_data>>

\* tick has returned FALSE: run_machine returns the opposite.  The external
\* RAM is not freed.
Leave ==
  /\ status = "stopped" /\ Exit("loop", 1)
  /\ held' = held \ {"console_memory", "rom_data"}
  /\ UNCHANGED <<vars, disk, changes, stream, rom_size, rom_data>>

\* The null pointer was dereferenced: the process dies.
Die ==
  /\ status = "crashed" /\ At("loop", "killed")
  /\ UNCHANGED <<vars, disk, changes, stream, rom_size, rom_data, held, exit_code>>

Process ==
  \/ Arguments \/ file_exists \/ file_size \/ AllocateRom \/ OpenFile \/ ReadFile
  \/ AllocateMachine \/ SetUp \/ Cycle \/ Leave \/ Die

-----------------------------------------------------------------------------
\* Somebody else creates, deletes or replaces the file.  A stream that is open
\* keeps reading the file it was opened for.
FileChanges ==
  /\ changes < MaxChanges /\ changes' = changes + 1
  /\ disk' \in {{}} \cup {{f} : f \in Files} /\ disk' # disk
  /\ UNCHANGED <<vars, stage, stream, rom_size, rom_data, held, exit_code>>

NextE == Process \/ FileChanges

\* The process is scheduled; nobody has to change the file.
SpecE == InitE /\ [][NextE]_varsE /\ WF_varsE(Process)

-----------------------------------------------------------------------------
Before == {"arguments", "exists", "size", "allocate", "open", "read", "machine", "setup"}

\* Type invariant: the machine is zeroed until it is set up, and one that
\* fits its cartridge from then on.
ProcessTypeOK ==
  /\ stage \in Before \cup {"loop", "over", "killed"}
  /\ disk \subseteq Files /\ stream \subseteq Files
  /\ changes \in 0 .. MaxChanges
  /\ rom_size \in Nat /\ rom_data.size \in {0, rom_size}
  /\ held \subseteq {"rom_data", "console_memory", "external_ram"}
  /\ exit_code \in {0, 1}
  /\ IF machine = ZeroMachine
     THEN stage # "loop" /\ status = "running" /\ ~executing
     ELSE stage \notin Before /\ TypeOK

\* Whatever happens to the file while main looks at it, the machine runs
\* rom_size bytes that one version of it begins with, none of them left over
\* from calloc; and if nothing happens to it, the machine runs all of it.
RunsTheFile ==
  stage = "loop" =>
    LET Runs(f) == \A i \in 0 .. rom_size - 1 : RomByte(machine, i) = FileByte(f, i)
    IN  /\ machine.cartridge_rom.size = rom_size
        /\ \E f \in Cartridges : rom_size <= f.size /\ Runs(f)
        /\ changes = 0 => \E f \in disk : rom_size = f.size /\ Runs(f)

\* However main ends, the ROM file is closed and the machine's memory is not
\* held; while the loop runs, the memory it works in is.
NothingLeftOpen ==
  /\ stage = "over" => stream = {} /\ "console_memory" \notin held
  /\ stage = "loop" => stream = {} /\ "console_memory" \in held

\* The first and the last address of the cartridge's RAM.
RamAddresses == {40960, 49151}

\* The buffer of the cartridge's RAM may be missing, since the result of its
\* calloc is not looked at, and it has no bytes for most RAM size codes.
\* Whatever a program writes to the controller's registers, and whatever it
\* stores or loads, it has put nothing into that buffer and gets no pointer
\* into it: the RAM stays locked.
CartRamUntouched ==
  stage = "loop" =>
    /\ machine.external_ram = <<>>
    /\ \A addr \in RamAddresses : bus_read(addr, machine).object # "external_ram"

\* The controller of each hardware code.  The codes of an MBC get that one.
\* ROM_RAM (8, 9) and MMM01 (11 to 13), which have none of the controllers
\* there is a type for, get the MBC3: its cases are the next ones that they
\* fall through to.  All others get none.
ControllerOf(code) ==
  CASE code \in {1, 2, 3}                           -> "MBC1"
    [] code \in {5, 6}                              -> "MBC2"
    [] code \in {8, 9} \cup 11 .. 13 \cup 15 .. 19  -> "MBC3"
    [] code \in 25 .. 30                            -> "MBC5"
    [] code = 32                                    -> "MBC6"
    [] code = 34                                    -> "MBC7"
    [] OTHER                                        -> "NONE"

\* The cases of get_cart_hardware fall through, so that most hardware codes
\* set the flags of several controllers, and the order in which another
\* function tests them decides.  The order undoes the fall-through for the
\* codes of an MBC, and for no others: five codes run with the controller of a
\* different cartridge, whatever the program does.
ControllerIsByCode ==
  stage = "loop" =>
    machine.memory_controller = ControllerOf(HardwareCode(machine.cartridge_rom))

\* Whatever fails, and whatever happens to the file, the process ends, or it
\* executes one instruction after another for ever.
EndsOrRuns == <>(stage \in {"over", "killed"}) \/ []<><<Cycle /\ FinalCycle>>_varsE

\* No store and no choice of a bank changes the code in the lower half of the
\* ROM area: the instruction about to be timed or executed there is the byte
\* of the file whose first rom_size bytes were read, wherever the program has
\* been and whatever it has written to its own address.  That file is the one
\* on the disk if nothing has happened to it.
ExecutesTheFile ==
  (/\ stage = "loop" /\ machine.memory_controller # "NONE"
   /\ cpu.PC < ROM_BANK_SIZE /\ cpu.PC < rom_size)
  =>
    \E f \in Cartridges :
      /\ rom_size <= f.size
      /\ rom_data = Image(f, rom_size)
      /\ (changes = 0) => (disk = {f})
      /\ opcode = FileByte(f, cpu.PC)
      /\ Read8(machine, cpu.PC) = opcode

\* How many steps the process can take at most before it ends or executes an
\* instruction.
StepsToGo ==
  CASE stage = "arguments" -> 15
    [] stage = "exists"    -> 14
    [] stage = "size"      -> 13
    [] stage = "allocate"  -> 12
    [] stage = "open"      -> 11
    [] stage = "read"      -> 10
    [] stage = "machine"   -> 9
    [] stage = "setup"     -> 8
    [] stage = "loop" /\ status = "running" ->
         IF executing THEN 1 + remaining ELSE 7
    [] stage = "loop" /\ status # "running" -> 1
    [] OTHER -> 0

\* No step of the process but the last cycle of an instruction goes round in
\* a circle, and nothing that happens to the file sets it back: every other
\* step brings the process nearer to its end or to an instruction.
ComesCloser ==
  [][/\ Process /\ ~(Cycle /\ FinalCycle) => StepsToGo' < StepsToGo
     /\ FileChanges => StepsToGo' = StepsToGo]_varsE

-----------------------------------------------------------------------------
(* Refinement: the process as a Session.                                   *)

\* What main can have read: the beginning of a file.
Images == UNION {{Image(f, n) : n \in 1 .. f.size} : f \in Cartridges}

Session ==
  INSTANCE Session
    WITH phase <- IF stage \in Before THEN "starting"
                  ELSE IF stage = "loop" THEN "running" ELSE stage,
         image <- IF machine = ZeroMachine THEN {} ELSE {machine.cartridge_rom},
         code  <- exit_code

\* Everything that happens to the files and the memory before main's loop is
\* invisible from the outside, a program never changes the image it is run
\* from, and a process that was running is over with the exit code 1 only.
ImplementsSession == Session!Spec

-----------------------------------------------------------------------------
(* What the comments of machine.c say.                                     *)

\* The exit code: "0 (false) is success, 1 (true) is an error".  Success is
\* that the machine was run.
ZeroIsSuccess == stage = "over" /\ exit_code = 0 => machine # ZeroMachine

\* "Only enter main loop if the requested memory controller is implemented":
\* the only one is MBC1.
OnlyImplementedRun == stage = "loop" => machine.memory_controller = "MBC1"
=============================================================================
