----------------------------- MODULE CpuHistory -----------------------------
(***************************************************************************)
(* Cpu with history variables, for the properties that relate one machine  *)
(* cycle to an earlier one.  They record what happened and change nothing. *)
(***************************************************************************)
EXTENDS Cpu

VARIABLES elapsed,    \* cycles since the current instruction started
          pushed,     \* the words on the stack, by the address of their low byte
          requested,  \* serial transfers a program has asked for
          sent        \* and those that were printed

varsH == <<vars, elapsed, pushed, requested, sent>>

InitH ==
  /\ Init
  /\ elapsed = 0 /\ pushed = <<>> /\ requested = 0 /\ sent = 0

-----------------------------------------------------------------------------
SerialPending(m) == Read8(m, 65282) = 129

\* What the program pushes: the address of the instruction behind a call, or
\* a register pair.
CallsNow == opcode = 205 \/ (opcode \in {196, 212} /\ ConditionHolds)
PushesNow == CallsNow \/ opcode \in {197, 213, 229, 245}
PushedWord ==
  IF CallsNow THEN U16(cpu.PC + 3)
  ELSE IF opcode = 245 THEN AF ELSE PairValue((opcode \div 16) % 4)

Frame(sp) == {sp, U16(sp + 1)}

\* The cells the instruction itself has given another value.
Stored ==
  {a \in DOMAIN machine'.console_memory :
     machine'.console_memory[a] # BlockByte(bus, a)}

\* Words that were overwritten are forgotten.
RecordStack ==
  LET sp == cpu'.SP
      kept == IF PushesNow
              THEN {s \in DOMAIN pushed : Frame(s) \cap Frame(sp) = {}}
              ELSE {s \in DOMAIN pushed : Frame(s) \cap Stored = {}}
  IN  pushed' = IF PushesNow
                THEN [s \in kept \cup {sp} |-> IF s = sp THEN PushedWord ELSE pushed[s]]
                ELSE [s \in kept |-> pushed[s]]

\* The print at the start of the last cycle, and the store that asks for it.
RecordSerial ==
  /\ sent' = IF SerialPending(machine) THEN sent + 1 ELSE sent
  /\ requested' = IF SerialPending(machine') /\ ~SerialPending(bus)
                  THEN requested + 1 ELSE requested

\* Bound: the count of cycles stops here, above the longest instruction's.
MaxElapsed == 6

NullFetchH  == NullFetch /\ UNCHANGED <<elapsed, pushed, requested, sent>>
WaitCycleH  ==
  /\ WaitCycle
  /\ elapsed' = IF elapsed < MaxElapsed THEN elapsed + 1 ELSE elapsed
  /\ UNCHANGED <<pushed, requested, sent>>
FinalCycleH == FinalCycle /\ elapsed' = 0 /\ RecordStack /\ RecordSerial

TickH == status = "running" /\ (NullFetchH \/ WaitCycleH \/ FinalCycleH)

SpecH == InitH /\ [][TickH]_varsH /\ WF_varsH(TickH)

-----------------------------------------------------------------------------
\* The opcode is read twice, at the start for its time and at the end to be
\* executed.  The cycles in between and the acknowledgement of the serial
\* transfer write to memory, but only to an instruction at 0xFFFF or 0xFF02:
\* any other, in RAM as in ROM, takes as many cycles as the instruction that is
\* executed in the last of them should.
TimedOpcodeExecuted ==
  [][FinalCycleH /\ cpu.PC \notin {65282, 65535} =>
       elapsed + 1 = get_execution_time]_varsH

\* The cells of a word that are memory of its own, not on the cartridge nor
\* written by the clock.
OwnFrame(sp) ==
  \A a \in Frame(sp) : ~OnCartridge(a) /\ a \notin {65282, 65535}

ReturnsNow == opcode = 201 \/ (opcode \in {192, 200, 208, 216} /\ ConditionHolds)
PopsNow == ReturnsNow \/ opcode \in {193, 209, 225, 241}

\* What a pop leaves in its register pair, a return in PC.
PoppedWord ==
  IF ReturnsNow THEN cpu'.PC
  ELSE CASE opcode = 193 -> Pair(cpu'.B, cpu'.C)
         [] opcode = 209 -> Pair(cpu'.D, cpu'.E)
         [] opcode = 225 -> Pair(cpu'.H, cpu'.L)
         [] opcode = 241 -> Pair(cpu'.A, cpu'.F)

\* A word pushed by PUSH or CALL comes back, whole, from the POP or RET that
\* finds it at SP, however the stack pointer moved and whatever was called in
\* between, unless the program has overwritten one of its bytes.  PUSH writes
\* two bytes through the bus, POP reads both through one pointer.
PopsWhatWasPushed ==
  [][FinalCycleH /\ PopsNow /\ cpu.SP \in DOMAIN pushed /\ OwnFrame(cpu.SP) =>
       PoppedWord = pushed[cpu.SP]]_varsH

\* Every serial transfer is printed exactly once: a store of 0x81 to 0xFF02,
\* alone or as half of a word, is either pending or has been printed.
SerialExactlyOnce == requested = sent + Flag(SerialPending(machine))
=============================================================================
