-------------------------- MODULE CpuHistoryProofs --------------------------
(***************************************************************************)
(* Theorems about CpuHistory, and about the decoder that could execute the *)
(* instructions instead, for every program.                                *)
(***************************************************************************)
EXTENDS CpuHistory, Decoder, CpuProofs

\* While an instruction waits, the cycles it has had and those it has left
\* are the time of the opcode that is in memory now.
TimeKept ==
  /\ ~executing => elapsed = 0
  /\ executing /\ cpu.PC \notin {65282, 65535} =>
       elapsed + remaining = get_execution_time

HistoryInv ==
  /\ IInv
  /\ elapsed \in Nat /\ requested \in Nat /\ sent \in Nat
  /\ TimeKept
  /\ SerialExactlyOnce

-----------------------------------------------------------------------------
(* The two cells the clock writes.                                         *)

LEMMA ClockCells ==
  /\ 65282 \in Word /\ 65535 \in Word /\ 0 \in Byte
  /\ ~OnCartridge(65282) /\ ~OnCartridge(65535)
BY DEF Word, Byte, OnCartridge, bus_address_in_rom, bus_address_in_external_ram

\* After the flush no transfer is pending.
LEMMA FlushClears ==
  ASSUME StateOK
  PROVE  /\ ~SerialPending(bus)
         /\ ~SerialPending(machine) => bus = machine
<1>1. CASE SerialPending(machine)
  <2>1. bus = bus_write_8_bit(65282, 0, machine)
    BY <1>1 DEF bus, SerialFlush, SerialPending
  <2>2. Read8(bus, 65282) = 0
    BY <2>1, ClockCells, WritePlain DEF StateOK
  <2> QED BY <1>1, <2>2 DEF SerialPending
<1>2. CASE ~SerialPending(machine)
  BY <1>2 DEF bus, SerialFlush, SerialPending
<1> QED BY <1>1, <1>2

\* A cycle that waits leaves everything but the byte at 0xFFFF.
LEMMA WaitKeepsBytes ==
  ASSUME StateOK, WaitCycle
  PROVE  \A a \in Word : a # 65535 => Read8(machine, a)' = Read8(machine, a)
<1>1. cpu.IME \in Byte /\ Sound(machine)
  BY DEF StateOK, CpuState
<1> QED BY <1>1, ClockCells, WritePlain DEF WaitCycle

LEMMA WaitKeepsTime ==
  ASSUME StateOK, WaitCycle, cpu.PC # 65535
  PROVE  get_execution_time' = get_execution_time
<1>1. cpu' = cpu
  BY DEF WaitCycle
<1>2. Read8(machine, cpu.PC)' = Read8(machine, cpu.PC)
  BY <1>1, WaitKeepsBytes DEF StateOK, CpuState
<1> QED BY <1>1, <1>2 DEF get_execution_time, Condition, EntersAt

-----------------------------------------------------------------------------
(* The invariant.                                                          *)

LEMMA InitHistory == InitH => HistoryInv
<1> SUFFICES ASSUME InitH PROVE HistoryInv
  OBVIOUS
<1>1. IInv
  BY InitInvariant DEF InitH
<1>2. ~SerialPending(machine)
  <2>1. PICK file \in Cartridges : machine = PowerOn(file)
    BY DEF InitH, Init
  <2>2. Read8(machine, 65282) = BlockByte(machine, 65282)
    BY ClockCells, ReadPlain
  <2>3. machine.console_memory = <<>>
    BY <2>1 DEF PowerOn
  <2>4. DOMAIN <<>> = {}
    OBVIOUS
  <2>5. BlockByte(machine, 65282) = 0
    BY <2>3, <2>4 DEF BlockByte, ConsoleBytes
  <2> QED BY <2>2, <2>5 DEF SerialPending
<1>3. TimeKept
  BY DEF InitH, Init, TimeKept
<1>4. SerialExactlyOnce
  BY <1>2 DEF InitH, SerialExactlyOnce, Flag
<1> QED BY <1>1, <1>3, <1>4 DEF InitH, HistoryInv

LEMMA WaitHistory == ASSUME HistoryInv, WaitCycleH PROVE HistoryInv'
<1>1. StateOK /\ WaitCycle
  BY DEF HistoryInv, IInv, WaitCycleH
<1>2. IInv'
  BY WaitOK DEF HistoryInv, WaitCycleH
<1>3. /\ elapsed' = IF elapsed < 6 THEN elapsed + 1 ELSE elapsed
      /\ UNCHANGED <<requested, sent>> /\ cpu' = cpu
  BY DEF WaitCycleH, WaitCycle, MaxElapsed
<1>4. executing' /\ remaining' = CyclesLeft
  BY DEF WaitCycleH, WaitCycle
<1>5. SerialPending(machine)' <=> SerialPending(machine)
  BY <1>1, ClockCells, WaitKeepsBytes DEF SerialPending
<1>6. SerialExactlyOnce'
  BY <1>3, <1>5 DEF HistoryInv, SerialExactlyOnce, Flag
<1>7. ASSUME cpu.PC \notin {65282, 65535}
      PROVE  elapsed' + remaining' = get_execution_time'
  <2>1. get_execution_time' = get_execution_time
    BY <1>1, <1>7, WaitKeepsTime
  <2>2. get_execution_time \in 1 .. 6
    BY <1>1, TimeType
  <2>3. CyclesLeft = IF executing THEN remaining - 1 ELSE get_execution_time - 1
    BY CyclesLeftType DEF HistoryInv
  <2>4. CASE executing
    <3>1. /\ elapsed + remaining = get_execution_time
          /\ remaining \in Nat /\ remaining > 0 /\ elapsed \in Nat
      BY <1>7, <2>4 DEF HistoryInv, TimeKept, IInv
    <3>2. elapsed < 6
      BY <2>2, <3>1
    <3> QED BY <1>3, <1>4, <2>1, <2>3, <2>4, <3>1, <3>2
  <2>5. CASE ~executing
    <3>1. elapsed = 0
      BY <2>5 DEF HistoryInv, TimeKept
    <3> QED BY <1>3, <1>4, <2>1, <2>2, <2>3, <2>5, <3>1
  <2> QED BY <2>4, <2>5
<1>8. TimeKept'
  BY <1>3, <1>4, <1>7 DEF TimeKept
<1> QED BY <1>2, <1>3, <1>6, <1>8 DEF HistoryInv

LEMMA FinalHistory == ASSUME HistoryInv, FinalCycleH PROVE HistoryInv'
<1>1. StateOK /\ FinalCycle
  BY DEF HistoryInv, IInv, FinalCycleH
<1>2. IInv'
  BY FinalOK DEF HistoryInv, FinalCycleH
<1>3. TimeKept' /\ elapsed' \in Nat
  BY DEF TimeKept, FinalCycleH, FinalCycle
<1>4. /\ sent' = IF SerialPending(machine) THEN sent + 1 ELSE sent
      /\ requested' = IF SerialPending(machine') THEN requested + 1 ELSE requested
  BY <1>1, FlushClears DEF FinalCycleH, RecordSerial
<1>5. requested = sent + Flag(SerialPending(machine))
  BY DEF HistoryInv, SerialExactlyOnce
<1>6. SerialExactlyOnce'
  BY <1>4, <1>5 DEF HistoryInv, SerialExactlyOnce, Flag, SerialPending
<1> QED BY <1>2, <1>3, <1>4, <1>6 DEF HistoryInv

LEMMA NextHistory == HistoryInv /\ [TickH]_varsH => HistoryInv'
<1> SUFFICES ASSUME HistoryInv, [TickH]_varsH PROVE HistoryInv'
  OBVIOUS
<1>1. CASE NullFetchH
  <2>1. UNCHANGED <<cpu, machine, executing, remaining, elapsed, requested, sent>>
    BY <1>1 DEF NullFetchH, NullFetch
  <2>2. IInv'
    BY <1>1, NextInvariant DEF HistoryInv, NullFetchH, Tick, NullFetch, IInv,
       StateOK, CopyMade
  <2>3. TimeKept' /\ SerialExactlyOnce'
    BY <2>1 DEF HistoryInv, TimeKept, SerialExactlyOnce, SerialPending,
                get_execution_time, Condition, EntersAt
  <2> QED BY <2>1, <2>2, <2>3 DEF HistoryInv
<1>2. CASE UNCHANGED varsH
  BY <1>2 DEF varsH, vars, HistoryInv, IInv, StateOK, CopyMade, TimeKept,
              SerialExactlyOnce, SerialPending, get_execution_time, Condition,
              EntersAt
<1> QED BY <1>1, <1>2, WaitHistory, FinalHistory DEF TickH

LEMMA HistoryInvariance == SpecH => []HistoryInv
<1> QED BY InitHistory, NextHistory, PTL DEF SpecH

-----------------------------------------------------------------------------
(* The theorems.                                                           *)

\* Whatever the program, each serial transfer is printed once.
THEOREM SerialAlwaysOnce == SpecH => []SerialExactlyOnce
<1>1. HistoryInv => SerialExactlyOnce
  BY DEF HistoryInv
<1> QED BY <1>1, HistoryInvariance, PTL

\* Whatever the program, an instruction away from the two cells the clock
\* writes has taken the time of the opcode that is executed.
THEOREM TimedOpcodeAlwaysExecuted == SpecH => TimedOpcodeExecuted
<1> DEFINE A == FinalCycleH /\ cpu.PC \notin {65282, 65535}
                  => elapsed + 1 = get_execution_time
<1>1. ASSUME HistoryInv, FinalCycleH, cpu.PC \notin {65282, 65535}
      PROVE  elapsed + 1 = get_execution_time
  <2>1. CyclesLeft = 0
    BY <1>1 DEF FinalCycleH, FinalCycle
  <2>2. CyclesLeft = IF executing THEN remaining - 1 ELSE get_execution_time - 1
    BY <1>1, CyclesLeftType DEF HistoryInv
  <2>3. get_execution_time \in 1 .. 6
    BY <1>1, TimeType DEF HistoryInv, IInv
  <2>4. CASE executing
    <3>1. elapsed + remaining = get_execution_time /\ remaining \in Nat
      BY <1>1, <2>4 DEF HistoryInv, TimeKept, IInv
    <3> QED BY <2>1, <2>2, <2>4, <3>1
  <2>5. CASE ~executing
    <3>1. elapsed = 0
      BY <1>1, <2>5 DEF HistoryInv, TimeKept
    <3> QED BY <2>1, <2>2, <2>3, <2>5, <3>1
  <2> QED BY <2>4, <2>5
<1>2. HistoryInv /\ [TickH]_varsH => [A]_varsH
  BY <1>1
<1> QED BY <1>2, HistoryInvariance, PTL DEF SpecH, TimedOpcodeExecuted
-----------------------------------------------------------------------------
(* The stack.                                                              *)

WordAt(m, s) == Pair(Read8(m, U16(s + 1)), Read8(m, s))

\* The words that are remembered are in memory, where it is memory.
StackHolds ==
  \A s \in DOMAIN pushed :
    s \in Word /\ (OwnFrame(s) => WordAt(machine, s) = pushed[s])

LEMMA FrameType ==
  ASSUME NEW s \in Word
  PROVE  /\ U16(s + 1) \in Word /\ Frame(s) \subseteq Word /\ U16(s + 1) # s
         /\ OwnFrame(s) => U16(s + 1) = s + 1
<1>1. s \in Nat /\ s < 65536
  BY DEF Word
<1>2. CASE s = 65535
  BY <1>2 DEF U16, Frame, OwnFrame, Word
<1>3. CASE s # 65535
  <2>1. U16(s + 1) = s + 1
    BY <1>1, <1>3 DEF U16
  <2> QED BY <1>1, <1>3, <2>1 DEF Frame, Word
<1> QED BY <1>2, <1>3

LEMMA SameWord ==
  ASSUME NEW m, NEW n, NEW s, \A a \in Frame(s) : Read8(n, a) = Read8(m, a)
  PROVE  WordAt(n, s) = WordAt(m, s)
BY DEF WordAt, Frame

LEMMA FlushKeepsBytes ==
  ASSUME StateOK, NEW a \in Word, a # 65282 PROVE Read8(bus, a) = Read8(machine, a)
BY ClockCells, WritePlain DEF StateOK, bus, SerialFlush

\* A plain cell that Stored does not list has the value it had.
LEMMA UntouchedCell ==
  ASSUME StateOK, Execute, NEW a, ~OnCartridge(a), a \notin Stored
  PROVE  Read8(machine', a) = Read8(bus, a)
<1>1. Kept(machine', bus)
  BY ExecuteOK DEF StepOK
<1>2. Read8(machine', a) = BlockByte(machine', a) /\ Read8(bus, a) = BlockByte(bus, a)
  BY ReadPlain
<1>3. CASE a \in DOMAIN machine'.console_memory
  BY <1>2, <1>3 DEF Stored, BlockByte
<1>4. CASE a \notin DOMAIN machine'.console_memory
  BY <1>1, <1>2, <1>4 DEF Kept, BlockByte, RomByte
<1> QED BY <1>3, <1>4

LEMMA WriteAside ==
  ASSUME NEW m, Sound(m), NEW b \in Word, NEW v \in Byte,
         NEW a \in Word, ~OnCartridge(a), a # b
  PROVE  Read8(bus_write_8_bit(b, v, m), a) = Read8(m, a)
<1>1. a > 32767
  BY DEF OnCartridge, bus_address_in_rom, Word
<1> QED BY <1>1, WritePlain, WriteCartridge

LEMMA Write16Aside ==
  ASSUME NEW m, Sound(m), NEW sp \in Word, NEW w \in Word,
         NEW a \in Word, ~OnCartridge(a), a \notin Frame(sp)
  PROVE  Read8(bus_write_16_bit(sp, w, m), a) = Read8(m, a)
<1> DEFINE first == bus_write_8_bit(sp, Low(w), m)
<1>1. Low(w) \in Byte /\ High(w) \in Byte /\ U16(sp + 1) \in Word
  BY HalvesType, FrameType
<1>2. a # sp /\ a # U16(sp + 1)
  BY DEF Frame
<1>3. Read8(first, a) = Read8(m, a) /\ Sound(first)
  BY <1>1, <1>2, WriteAside, WriteKeepsMachine DEF Kept
<1>4. bus_write_16_bit(sp, w, m) = bus_write_8_bit(U16(sp + 1), High(w), first)
  BY DEF bus_write_16_bit
<1> HIDE DEF first
<1> QED BY <1>1, <1>2, <1>3, <1>4, WriteAside

LEMMA Write16Holds ==
  ASSUME NEW m, Sound(m), NEW sp \in Word, NEW w \in Word, OwnFrame(sp)
  PROVE  WordAt(bus_write_16_bit(sp, w, m), sp) = w
<1> DEFINE first == bus_write_8_bit(sp, Low(w), m)
           high == U16(sp + 1)
<1>1. Low(w) \in Byte /\ High(w) \in Byte /\ high \in Word /\ high # sp
  BY HalvesType, FrameType
<1>2. ~OnCartridge(sp) /\ ~OnCartridge(high)
  BY DEF OwnFrame, Frame
<1>3. Read8(first, sp) = Low(w) /\ Sound(first)
  BY <1>1, <1>2, WritePlain, WriteKeepsMachine DEF Kept
<1>4. bus_write_16_bit(sp, w, m) = bus_write_8_bit(high, High(w), first)
  BY DEF bus_write_16_bit
<1> HIDE DEF first, high
<1>5. /\ Read8(bus_write_16_bit(sp, w, m), sp) = Low(w)
      /\ Read8(bus_write_16_bit(sp, w, m), high) = High(w)
  BY <1>1, <1>2, <1>3, <1>4, WritePlain
<1>6. Pair(High(w), Low(w)) = w
  BY DEF Pair, High, Low, Word
<1> QED BY <1>5, <1>6 DEF WordAt, high

LEMMA StackActions ==
  ASSUME Execute, opcode \in {192, 193, 196, 197, 200, 201, 205, 208, 209, 212,
                              213, 216, 225, 229, 241, 245}
  PROVE  Call \/ Return \/ Push \/ Pop
<1>1. ~(Nop \/ LoadPairImmediate \/ LoadImmediate \/ LoadRegister \/ StoreStackPointer)
  BY DEF Nop, LoadPairImmediate, LoadImmediate, LoadRegister, StoreStackPointer
<1>2. ~(StoreAccumulator \/ LoadAccumulator \/ StepPair \/ StepRegister \/ AddPair
          \/ LoadStackOffset)
  BY DEF StoreAccumulator, LoadAccumulator, StepPair, StepRegister, AddPair,
         LoadStackOffset
<1>3. ~(StepMemory \/ RotateAccumulator \/ RegisterArithmetic
          \/ ImmediateArithmetic \/ CompareImmediate \/ JumpRelative \/ Jump
          \/ JumpToHL)
  BY DEF StepMemory, RotateAccumulator, RegisterArithmetic,
         ImmediateArithmetic, CompareImmediate, JumpRelative, Jump, JumpToHL
<1>4. ~(Prefixed \/ DisableInterrupts \/ EnableInterrupts \/ Stop \/ Illegal)
  BY DEF Prefixed, DisableInterrupts, EnableInterrupts, Stop, Illegal, Unimplemented
<1> QED BY <1>1, <1>2, <1>3, <1>4 DEF Execute

LEMMA PushStores ==
  ASSUME StateOK, Execute, PushesNow
  PROVE  /\ PushedWord \in Word /\ cpu'.SP \in Word
         /\ machine' = bus_write_16_bit(cpu'.SP, PushedWord, bus)
<1>1. ASSUME NEW c \in CpuState, NEW w \in Word, PushWord(c, w)
      PROVE  /\ cpu'.SP \in Word
             /\ machine' = bus_write_16_bit(cpu'.SP, w, bus)
  <2> DEFINE sp == U16(cpu.SP - 2)
  <2>1. sp \in Word
    BY U16OfInt DEF StateOK, CpuState, Word
  <2>2. cpu' = [c EXCEPT !.SP = sp] /\ machine' = bus_write_16_bit(sp, w, bus)
    BY <1>1 DEF PushWord, Become
  <2> HIDE DEF sp
  <2>3. cpu'.SP = sp
    BY <2>2 DEF CpuState
  <2> QED BY <2>1, <2>2, <2>3
<1>2. CASE CallsNow
  <2>1. PushWord([cpu EXCEPT !.PC = imm16], Advance(3).PC)
    BY <1>2, StackActions DEF CallsNow, Call, Return, Push, Pop
  <2>2. [cpu EXCEPT !.PC = imm16] \in CpuState
    BY FetchType DEF StateOK, CpuState
  <2>3. Advance(3).PC = U16(cpu.PC + 3) /\ Advance(3).PC \in Word
    BY AdvanceType DEF CpuState
  <2> QED BY <1>1, <1>2, <2>1, <2>2, <2>3 DEF PushedWord
<1>3. CASE ~CallsNow
  <2>1. opcode \in {197, 213, 229, 245} /\ Push
    BY <1>3, StackActions DEF PushesNow, Call, Return, Push, Pop
  <2>2. PushedWord \in Word /\ PushWord(Advance(1), PushedWord)
    <3>1. CASE opcode = 245
      BY <1>3, <2>1, <3>1, PairsType DEF PushedWord, Push
    <3>2. CASE opcode # 245
      <4>1. (opcode \div 16) % 4 \in Nat /\ (opcode \div 16) % 4 < 4
        BY <2>1
      <4> QED BY <1>3, <2>1, <3>2, <4>1, PairValueType DEF PushedWord, Push
    <3> QED BY <3>1, <3>2
  <2> QED BY <1>1, <2>2, AdvanceType
<1> QED BY <1>2, <1>3

LEMMA PairCases ==
  ASSUME NEW c, NEW w
  PROVE  /\ SetPair(c, 0, w) = [c EXCEPT !.B = High(w), !.C = Low(w)]
         /\ SetPair(c, 1, w) = [c EXCEPT !.D = High(w), !.E = Low(w)]
         /\ SetPair(c, 2, w) = [c EXCEPT !.H = High(w), !.L = Low(w)]
         /\ SetPair(c, 3, w) = [c EXCEPT !.SP = w]
BY DEF SetPair

LEMMA PopLoads ==
  ASSUME StateOK, Execute, PopsNow PROVE PoppedWord = Top
<1>1. Top \in Word
  BY FetchType DEF Top
<1>2. Pair(High(Top), Low(Top)) = Top
  BY <1>1 DEF Pair, High, Low, Word
<1>3. CASE ReturnsNow
  <2>1. Keep([Popped(cpu) EXCEPT !.PC = Top])
    BY <1>3, StackActions DEF ReturnsNow, Call, Return, Push, Pop
  <2>2. Popped(cpu) \in CpuState
    BY PoppedType DEF StateOK
  <2> QED BY <1>3, <2>1, <2>2 DEF PoppedWord, Keep, Become, CpuState
<1>4. CASE ~ReturnsNow
  <2>1. opcode \in {193, 209, 225, 241} /\ Pop
    BY <1>4, StackActions DEF PopsNow, Call, Return, Push, Pop
  <2> DEFINE c == Popped(Advance(1))
  <2>2. c \in CpuState
    BY AdvanceType, PoppedType
  <2> HIDE DEF c
  <2>3. CASE opcode = 241
    <3>1. cpu' = [c EXCEPT !.A = High(Top), !.F = Low(Top)]
      BY <2>1, <2>3 DEF Pop, Keep, Become, c
    <3> QED BY <1>2, <1>4, <2>2, <2>3, <3>1 DEF PoppedWord, CpuState
  <2>4. CASE opcode = 193
    <3>1. cpu' = SetPair(c, 0, Top)
      BY <2>1, <2>4 DEF Pop, Keep, Become, c
    <3>2. cpu' = [c EXCEPT !.B = High(Top), !.C = Low(Top)]
      BY <3>1, PairCases
    <3> QED BY <1>2, <1>4, <2>2, <2>4, <3>2 DEF PoppedWord, CpuState
  <2>5. CASE opcode = 209
    <3>1. cpu' = SetPair(c, 1, Top)
      BY <2>1, <2>5 DEF Pop, Keep, Become, c
    <3>2. cpu' = [c EXCEPT !.D = High(Top), !.E = Low(Top)]
      BY <3>1, PairCases
    <3> QED BY <1>2, <1>4, <2>2, <2>5, <3>2 DEF PoppedWord, CpuState
  <2>6. CASE opcode = 225
    <3>1. cpu' = SetPair(c, 2, Top)
      BY <2>1, <2>6 DEF Pop, Keep, Become, c
    <3>2. cpu' = [c EXCEPT !.H = High(Top), !.L = Low(Top)]
      BY <3>1, PairCases
    <3> QED BY <1>2, <1>4, <2>2, <2>6, <3>2 DEF PoppedWord, CpuState
  <2> QED BY <2>1, <2>3, <2>4, <2>5, <2>6
<1> QED BY <1>3, <1>4

LEMMA TopIsWord ==
  ASSUME StateOK, cpu.SP \in Word, OwnFrame(cpu.SP)
  PROVE  Top = WordAt(machine, cpu.SP)
<1> DEFINE sp == cpu.SP
<1>1. /\ ~OnCartridge(sp) /\ ~OnCartridge(U16(sp + 1))
      /\ sp # 65282 /\ U16(sp + 1) # 65282
  BY DEF OwnFrame, Frame
<1>2. U16(sp + 1) = sp + 1 /\ U16(sp + 1) \in Word
  BY FrameType
<1>3. Read16(bus, sp) = Pair(BlockByte(bus, sp + 1), BlockByte(bus, sp))
  BY <1>1 DEF Read16, bus_read, ConsolePointer, Pointer, Load
<1>4. BlockByte(bus, sp) = Read8(bus, sp) /\ BlockByte(bus, sp + 1) = Read8(bus, sp + 1)
  BY <1>1, <1>2, ReadPlain
<1>5. Read8(bus, sp) = Read8(machine, sp) /\ Read8(bus, sp + 1) = Read8(machine, sp + 1)
  BY <1>1, <1>2, FlushKeepsBytes
<1> QED BY <1>2, <1>3, <1>4, <1>5 DEF Top, WordAt

LEMMA StackWait ==
  ASSUME HistoryInv, StackHolds, WaitCycleH PROVE StackHolds'
<1>1. StateOK /\ WaitCycle /\ pushed' = pushed
  BY DEF HistoryInv, IInv, WaitCycleH
<1>2. ASSUME NEW s \in Word, OwnFrame(s)
      PROVE  WordAt(machine', s) = WordAt(machine, s)
  <2>1. \A a \in Frame(s) : a \in Word /\ a # 65535
    BY <1>2, FrameType DEF OwnFrame
  <2>2. \A a \in Frame(s) : Read8(machine', a) = Read8(machine, a)
    BY <1>1, <2>1, WaitKeepsBytes DEF Read8
  <2> QED BY <2>2, SameWord
<1> QED BY <1>1, <1>2 DEF StackHolds, OwnFrame, WordAt

LEMMA StackFinal ==
  ASSUME HistoryInv, StackHolds, FinalCycleH PROVE StackHolds'
<1>1. StateOK /\ Execute /\ RecordStack
  BY DEF HistoryInv, IInv, FinalCycleH, FinalCycle
<1> DEFINE holds(s) == s \in Word /\ (OwnFrame(s) => WordAt(machine', s) = pushed'[s])
<1>2. ASSUME NEW s \in DOMAIN pushed,
             \A a \in Frame(s) : ~OnCartridge(a) => Read8(machine', a) = Read8(bus, a),
             pushed'[s] = pushed[s]
      PROVE  holds(s)
  <2>1. s \in Word
    BY DEF StackHolds
  <2>2. ASSUME OwnFrame(s) PROVE WordAt(machine', s) = WordAt(machine, s)
    <3>1. \A a \in Frame(s) : a \in Word /\ ~OnCartridge(a) /\ a # 65282
      BY <2>1, <2>2, FrameType DEF OwnFrame
    <3>2. \A a \in Frame(s) : Read8(machine', a) = Read8(machine, a)
      BY <1>1, <1>2, <3>1, FlushKeepsBytes
    <3> QED BY <3>2, SameWord
  <2> QED BY <1>2, <2>1, <2>2 DEF StackHolds
<1>3. CASE PushesNow
  <2> DEFINE sp == cpu'.SP
             kept == {s \in DOMAIN pushed : Frame(s) \cap Frame(sp) = {}}
  <2>1. /\ PushedWord \in Word /\ sp \in Word /\ Sound(bus)
        /\ machine' = bus_write_16_bit(sp, PushedWord, bus)
    BY <1>1, <1>3, PushStores, FlushKeeps DEF Kept
  <2>2. pushed' = [s \in kept \cup {sp} |->
                     IF s = sp THEN PushedWord ELSE pushed[s]]
    BY <1>1, <1>3 DEF RecordStack
  <2> HIDE DEF sp, kept
  <2>3. /\ DOMAIN pushed' = {sp} \cup kept /\ pushed'[sp] = PushedWord
        /\ \A s \in kept : s # sp => pushed'[s] = pushed[s]
    BY <2>2
  <2>4. holds(sp)
    BY <2>1, <2>3, Write16Holds
  <2>5. ASSUME NEW s \in kept, s # sp PROVE holds(s)
    <3>1. s \in DOMAIN pushed /\ Frame(s) \cap Frame(sp) = {} /\ s \in Word
      BY DEF kept, StackHolds
    <3>2. \A a \in Frame(s) : a \in Word /\ a \notin Frame(sp)
      BY <3>1, FrameType
    <3>3. \A a \in Frame(s) : ~OnCartridge(a) => Read8(machine', a) = Read8(bus, a)
      BY <2>1, <3>2, Write16Aside
    <3> QED BY <1>2, <2>3, <2>5, <3>1, <3>3
  <2>6. \A s \in DOMAIN pushed' : holds(s)
    BY <2>3, <2>4, <2>5
  <2> QED BY <2>6 DEF StackHolds, OwnFrame, WordAt
<1>4. CASE ~PushesNow
  <2> DEFINE kept == {s \in DOMAIN pushed : Frame(s) \cap Stored = {}}
  <2>1. pushed' = [s \in kept |-> pushed[s]]
    BY <1>1, <1>4 DEF RecordStack
  <2>2. ASSUME NEW s \in kept PROVE holds(s)
    <3>1. s \in DOMAIN pushed /\ \A a \in Frame(s) : a \notin Stored
      OBVIOUS
    <3>2. \A a \in Frame(s) : ~OnCartridge(a) => Read8(machine', a) = Read8(bus, a)
      BY <1>1, <3>1, UntouchedCell
    <3> QED BY <1>2, <2>1, <3>1, <3>2
  <2>3. \A s \in DOMAIN pushed' : holds(s)
    BY <2>1, <2>2
  <2> QED BY <2>3 DEF StackHolds, OwnFrame, WordAt
<1> QED BY <1>3, <1>4

LEMMA StackInvariance == SpecH => [](HistoryInv /\ StackHolds)
<1>1. InitH => StackHolds
  <2>1. DOMAIN <<>> = {}
    OBVIOUS
  <2> QED BY <2>1 DEF InitH, StackHolds
<1>2. HistoryInv /\ StackHolds /\ [TickH]_varsH => StackHolds'
  <2> SUFFICES ASSUME HistoryInv, StackHolds, [TickH]_varsH PROVE StackHolds'
    OBVIOUS
  <2>1. CASE NullFetchH \/ UNCHANGED varsH
    BY <2>1 DEF NullFetchH, NullFetch, varsH, vars, StackHolds, WordAt
  <2> QED BY <2>1, StackWait, StackFinal DEF TickH
<1> QED BY <1>1, <1>2, HistoryInvariance, PTL DEF SpecH

\* Whatever the program, a pop finds the word that was pushed where it looks,
\* unless one of its bytes was overwritten since.
THEOREM AlwaysPopsWhatWasPushed == SpecH => PopsWhatWasPushed
<1> DEFINE A == FinalCycleH /\ PopsNow /\ cpu.SP \in DOMAIN pushed /\ OwnFrame(cpu.SP)
                  => PoppedWord = pushed[cpu.SP]
<1>1. ASSUME HistoryInv, StackHolds, FinalCycleH, PopsNow,
             cpu.SP \in DOMAIN pushed, OwnFrame(cpu.SP)
      PROVE  PoppedWord = pushed[cpu.SP]
  <2>1. StateOK /\ Execute
    BY <1>1 DEF HistoryInv, IInv, FinalCycleH, FinalCycle
  <2>2. cpu.SP \in Word /\ WordAt(machine, cpu.SP) = pushed[cpu.SP]
    BY <1>1 DEF StackHolds
  <2> QED BY <1>1, <2>1, <2>2, PopLoads, TopIsWord
<1>2. HistoryInv /\ StackHolds /\ [TickH]_varsH => [A]_varsH
  BY <1>1
<1> QED BY <1>2, StackInvariance, PTL DEF SpecH, PopsWhatWasPushed

-----------------------------------------------------------------------------
(* The decoder.                                                            *)

\* The registers c with the counter on the next instruction.
Onward(c) == [c EXCEPT !.PC = U16(cpu.PC + 1)]

\* The cycle does what d says, and moves on.
Does(d) == machine' = d.machine /\ cpu' = Onward(d.cpu)

LEMMA SharedOpcodes ==
  ASSUME StateOK, opcode \in Shared
  PROVE  opcode \in {18, 34, 50} \cup {26, 42} \cup {25, 41}
                      \cup {3, 19, 35, 51} \cup {11, 27, 43, 59}
                      \cup {4, 12, 20, 28, 36, 44, 60}
                      \cup {5, 13, 21, 29, 37, 45, 61}
BY DEF Shared, Unimplemented

LEMMA SharedActions ==
  ASSUME StateOK, Execute, opcode \in Shared
  PROVE  StoreAccumulator \/ LoadAccumulator \/ StepPair \/ StepRegister \/ AddPair
<1>1. opcode \in 0 .. 63
  BY DEF Shared
<1>2. ~(Nop \/ LoadPairImmediate \/ LoadImmediate \/ LoadRegister \/ StoreStackPointer)
  BY <1>1, SharedOpcodes DEF Nop, LoadPairImmediate, LoadImmediate, LoadRegister,
                             StoreStackPointer
<1>3. ~(StepMemory \/ RotateAccumulator \/ LoadStackOffset \/ RegisterArithmetic
          \/ ImmediateArithmetic \/ CompareImmediate)
  BY <1>1, SharedOpcodes DEF StepMemory, RotateAccumulator, LoadStackOffset,
                             RegisterArithmetic, ImmediateArithmetic, CompareImmediate
<1>4. ~(JumpRelative \/ Jump \/ JumpToHL \/ Call \/ Return \/ Push \/ Pop)
  BY <1>1, SharedOpcodes DEF JumpRelative, Jump, JumpToHL, Call, Return, Push, Pop
<1>5. ~(Prefixed \/ DisableInterrupts \/ EnableInterrupts \/ Stop \/ Illegal)
  BY <1>1, SharedOpcodes
     DEF Prefixed, DisableInterrupts, EnableInterrupts, Stop, Illegal, Shared
<1> QED BY <1>2, <1>3, <1>4, <1>5 DEF Execute

LEMMA CounterApart ==
  ASSUME NEW c, NEW r, r # "PC", NEW v, NEW p
  PROVE  [[c EXCEPT !.PC = p] EXCEPT ![r] = v] = [[c EXCEPT ![r] = v] EXCEPT !.PC = p]
OBVIOUS

LEMMA TwoApart ==
  ASSUME NEW c, NEW r, r # "PC", NEW s, s # "PC", NEW v, NEW w, NEW p
  PROVE  [[c EXCEPT !.PC = p] EXCEPT ![r] = v, ![s] = w]
           = [[c EXCEPT ![r] = v, ![s] = w] EXCEPT !.PC = p]
OBVIOUS

LEMMA AdvanceOnward == Advance(1) = Onward(cpu)
BY DEF Advance, Onward

LEMMA PairApart ==
  ASSUME NEW i \in 0 .. 3, NEW w
  PROVE  SetPair(Advance(1), i, w) = Onward(SetPair(cpu, i, w))
<1> DEFINE p == U16(cpu.PC + 1)
           c == Advance(1)
<1>1. c = [cpu EXCEPT !.PC = p] /\ \A d : Onward(d) = [d EXCEPT !.PC = p]
  BY DEF Advance, Onward
<1> HIDE DEF p, c
<1>2. CASE i = 0
  <2>1. [c EXCEPT !.B = High(w), !.C = Low(w)]
          = [[cpu EXCEPT !.B = High(w), !.C = Low(w)] EXCEPT !.PC = p]
    BY <1>1
  <2>2. SetPair(c, i, w) = [c EXCEPT !.B = High(w), !.C = Low(w)]
    BY <1>2, PairCases
  <2>3. SetPair(cpu, i, w) = [cpu EXCEPT !.B = High(w), !.C = Low(w)]
    BY <1>2, PairCases
  <2> QED BY <1>1, <2>1, <2>2, <2>3 DEF c
<1>3. CASE i = 1
  <2>1. [c EXCEPT !.D = High(w), !.E = Low(w)]
          = [[cpu EXCEPT !.D = High(w), !.E = Low(w)] EXCEPT !.PC = p]
    BY <1>1
  <2>2. SetPair(c, i, w) = [c EXCEPT !.D = High(w), !.E = Low(w)]
    BY <1>3, PairCases
  <2>3. SetPair(cpu, i, w) = [cpu EXCEPT !.D = High(w), !.E = Low(w)]
    BY <1>3, PairCases
  <2> QED BY <1>1, <2>1, <2>2, <2>3 DEF c
<1>4. CASE i = 2
  <2>1. [c EXCEPT !.H = High(w), !.L = Low(w)]
          = [[cpu EXCEPT !.H = High(w), !.L = Low(w)] EXCEPT !.PC = p]
    BY <1>1
  <2>2. SetPair(c, i, w) = [c EXCEPT !.H = High(w), !.L = Low(w)]
    BY <1>4, PairCases
  <2>3. SetPair(cpu, i, w) = [cpu EXCEPT !.H = High(w), !.L = Low(w)]
    BY <1>4, PairCases
  <2> QED BY <1>1, <2>1, <2>2, <2>3 DEF c
<1>5. CASE i = 3
  <2>1. [c EXCEPT !.SP = w] = [[cpu EXCEPT !.SP = w] EXCEPT !.PC = p]
    BY <1>1
  <2>2. SetPair(c, i, w) = [c EXCEPT !.SP = w]
    BY <1>5, PairCases
  <2>3. SetPair(cpu, i, w) = [cpu EXCEPT !.SP = w]
    BY <1>5, PairCases
  <2> QED BY <1>1, <2>1, <2>2, <2>3 DEF c
<1> QED BY <1>2, <1>3, <1>4, <1>5

LEMMA StoresAgree ==
  ASSUME StateOK, opcode \in Shared, StoreAccumulator PROVE Does(execute_decode)
<1>1. CASE opcode = 18
  <2>1. execute_decode = Decoded(cpu, bus_write_8_bit(DE, cpu.A, bus))
    BY <1>1 DEF execute_decode, DecodeIndirect, Y, Z, P, Q, PairValue
  <2>2. Become(Advance(1), bus_write_8_bit(DE, cpu.A, bus))
    BY <1>1 DEF StoreAccumulator
  <2> QED BY <2>1, <2>2, AdvanceOnward DEF Does, Decoded, Become
<1>2. CASE opcode = 34
  <2>1. execute_decode =
          Decoded(SetPair(cpu, 2, U16(HL + 1)), bus_write_8_bit(HL, cpu.A, bus))
    BY <1>2 DEF execute_decode, DecodeIndirect, Y, Z, P, Q
  <2>2. Become(SetPair(Advance(1), 2, U16(HL + 1)), bus_write_8_bit(HL, cpu.A, bus))
    BY <1>2 DEF StoreAccumulator
  <2> QED BY <2>1, <2>2, PairApart DEF Does, Decoded, Become
<1>3. CASE opcode = 50
  <2>1. execute_decode =
          Decoded(SetPair(cpu, 2, U16(HL - 1)), bus_write_8_bit(HL, cpu.A, bus))
    BY <1>3 DEF execute_decode, DecodeIndirect, Y, Z, P, Q
  <2>2. Become(SetPair(Advance(1), 2, U16(HL - 1)), bus_write_8_bit(HL, cpu.A, bus))
    BY <1>3 DEF StoreAccumulator
  <2> QED BY <2>1, <2>2, PairApart DEF Does, Decoded, Become
<1> QED BY <1>1, <1>2, <1>3, SharedOpcodes DEF StoreAccumulator

LEMMA LoadsAgree ==
  ASSUME StateOK, opcode \in Shared, LoadAccumulator PROVE Does(execute_decode)
<1>1. CASE opcode = 26
  <2>1. execute_decode = Decoded([cpu EXCEPT !.A = Read8(bus, DE)], bus)
    BY <1>1 DEF execute_decode, DecodeIndirect, Y, Z, P, Q, PairValue
  <2>2. Keep([Advance(1) EXCEPT !.A = Read8(bus, DE)])
    BY <1>1 DEF LoadAccumulator
  <2> QED BY <2>1, <2>2, AdvanceOnward, CounterApart
          DEF Does, Onward, Decoded, Keep, Become
<1>2. CASE opcode = 42
  <2> DEFINE after == SetPair(cpu, 2, U16(HL + 1))
  <2>1. execute_decode = Decoded([after EXCEPT !.A = Read8(bus, HL)], bus)
    BY <1>2 DEF execute_decode, DecodeIndirect, Y, Z, P, Q
  <2>2. Keep([SetPair(Advance(1), 2, U16(HL + 1)) EXCEPT !.A = Read8(bus, HL)])
    BY <1>2 DEF LoadAccumulator
  <2>3. SetPair(Advance(1), 2, U16(HL + 1)) = Onward(after)
    BY PairApart
  <2> HIDE DEF after
  <2> QED BY <2>1, <2>2, <2>3, CounterApart
          DEF Does, Onward, Decoded, Keep, Become
<1> QED BY <1>1, <1>2, SharedOpcodes DEF LoadAccumulator

LEMMA StepPairsAgree ==
  ASSUME StateOK, opcode \in Shared, StepPair PROVE Does(execute_decode)
<1> DEFINE i == opcode \div 16
<1>0. i \in 0 .. 3
  BY DEF StepPair
<1>1. CASE opcode \in {3, 19, 35, 51}
  <2>1. execute_decode = Decoded(SetPair(cpu, i, U16(PairValue(i) + 1)), bus)
    <3>1. opcode < 64 /\ Z = 3 /\ Q = 0
      BY <1>1 DEF Z, Q, Y
    <3> QED BY <3>1 DEF execute_decode, DecodeStepPair, P
  <2>2. Keep(SetPair(Advance(1), i, U16(PairValue(i) + 1)))
    BY <1>1 DEF StepPair
  <2> HIDE DEF i
  <2> QED BY <1>0, <2>1, <2>2, PairApart DEF Does, Decoded, Keep, Become
<1>2. CASE opcode \in {11, 27, 43, 59}
  <2>1. execute_decode = Decoded(SetPair(cpu, i, U16(PairValue(i) - 1)), bus)
    <3>1. opcode < 64 /\ Z = 3 /\ Q = 1
      BY <1>2 DEF Z, Q, Y
    <3> QED BY <3>1 DEF execute_decode, DecodeStepPair, P
  <2>2. Keep(SetPair(Advance(1), i, U16(PairValue(i) - 1)))
    BY <1>2 DEF StepPair
  <2> HIDE DEF i
  <2> QED BY <1>0, <2>1, <2>2, PairApart DEF Does, Decoded, Keep, Become
<1> QED BY <1>1, <1>2 DEF StepPair

LEMMA StepRegistersAgree ==
  ASSUME StateOK, opcode \in Shared, StepRegister PROVE Does(execute_decode)
<1> DEFINE i == opcode \div 8
           r == Registers[i + 1]
<1>0. i = Y /\ i # 6 /\ r # "PC"
  BY DEF StepRegister, Registers, Y
<1>1. ASSUME NEW o, SetOperand([Advance(1) EXCEPT !.F = o.F], i, o.value),
             execute_decode = DecodeStep(o)
      PROVE  Does(execute_decode)
  <2> HIDE DEF i
  <2>1. execute_decode = Decoded([[cpu EXCEPT !.F = o.F] EXCEPT ![r] = o.value], bus)
    BY <1>0, <1>1 DEF DecodeStep, Into
  <2>2. Keep([[Advance(1) EXCEPT !.F = o.F] EXCEPT ![r] = o.value])
    BY <1>0, <1>1 DEF SetOperand
  <2> HIDE DEF r
  <2>3. [[Advance(1) EXCEPT !.F = o.F] EXCEPT ![r] = o.value]
          = Onward([[cpu EXCEPT !.F = o.F] EXCEPT ![r] = o.value])
    BY <1>0, AdvanceOnward, TwoApart DEF Onward
  <2> QED BY <2>1, <2>2, <2>3 DEF Does, Decoded, Keep, Become
<1>2. CASE opcode \in {4, 12, 20, 28, 36, 44, 60}
  <2>1. opcode < 64 /\ Z = 4
    BY <1>2 DEF Z
  <2>2. execute_decode = DecodeStep(sm83_add8(Operand(i), 1, cpu.F))
    BY <1>0, <2>1 DEF execute_decode
  <2>3. SetOperand([Advance(1) EXCEPT !.F = sm83_add8(Operand(i), 1, cpu.F).F], i,
                   sm83_add8(Operand(i), 1, cpu.F).value)
    BY <1>2 DEF StepRegister
  <2> QED BY <1>1, <2>2, <2>3
<1>3. CASE opcode \in {5, 13, 21, 29, 37, 45, 61}
  <2>1. opcode < 64 /\ Z = 5
    BY <1>3 DEF Z
  <2>2. execute_decode = DecodeStep(sm83_sub8(Operand(i), 1, cpu.F))
    BY <1>0, <2>1 DEF execute_decode
  <2>3. SetOperand([Advance(1) EXCEPT !.F = sm83_sub8(Operand(i), 1, cpu.F).F], i,
                   sm83_sub8(Operand(i), 1, cpu.F).value)
    BY <1>3 DEF StepRegister
  <2> QED BY <1>1, <2>2, <2>3
<1> QED BY <1>2, <1>3 DEF StepRegister

LEMMA AddPairsAgree ==
  ASSUME StateOK, opcode \in Shared, AddPair PROVE Does(execute_decode)
<1>1. ASSUME NEW sum, SumToHL(sum, 1),
             execute_decode = Decoded([SetPair(cpu, 2, sum.value) EXCEPT !.F = sum.F], bus)
      PROVE  Does(execute_decode)
  <2>1. SetPair(Advance(1), 2, sum.value) = Onward(SetPair(cpu, 2, sum.value))
    BY PairApart
  <2> QED BY <1>1, <2>1, CounterApart
          DEF SumToHL, Does, Onward, Decoded, Keep, Become
<1>2. CASE opcode = 25
  BY <1>1, <1>2 DEF AddPair, execute_decode, DecodePairs, Y, Z, P, Q, PairValue
<1>3. CASE opcode = 41
  BY <1>1, <1>3 DEF AddPair, execute_decode, DecodePairs, Y, Z, P, Q, PairValue
<1> QED BY <1>2, <1>3, SharedOpcodes DEF AddPair

\* Whatever the program, for a shared opcode the case of the switch and the
\* decoder do the same to the registers and to memory.
THEOREM DecoderAlwaysAgrees == Spec => DecoderAgrees
<1> DEFINE A == FinalCycle /\ opcode \in Shared =>
                  /\ machine' = execute_decode.machine
                  /\ cpu' = [execute_decode.cpu EXCEPT !.PC = cpu'.PC]
<1>1. ASSUME IInv, FinalCycle, opcode \in Shared
      PROVE  /\ machine' = execute_decode.machine
             /\ cpu' = [execute_decode.cpu EXCEPT !.PC = cpu'.PC]
  <2>1. StateOK /\ Execute
    BY <1>1 DEF IInv, FinalCycle
  <2>2. Does(execute_decode)
    BY <1>1, <2>1, SharedActions, StoresAgree, LoadsAgree, StepPairsAgree,
       StepRegistersAgree, AddPairsAgree
  <2>3. cpu' = Onward(execute_decode.cpu)
    BY <2>2 DEF Does
  <2>4. cpu'.PC = U16(cpu.PC + 1)
    <3>1. cpu' \in CpuState
      BY <2>1, ExecuteOK DEF StepOK
    <3> QED BY <2>3, <3>1 DEF CpuState, Onward
  <2> QED BY <2>2, <2>3, <2>4 DEF Does, Onward
<1>2. IInv /\ [Tick]_vars => [A]_vars
  BY <1>1
<1> QED BY <1>2, Invariance, PTL DEF Spec, DecoderAgrees
=============================================================================
