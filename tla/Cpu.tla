-------------------------------- MODULE Cpu --------------------------------
(***************************************************************************)
(* tick of cpu.c: one machine cycle.  The first cycle of an instruction    *)
(* looks up how many cycles it takes, the last one executes it, and those  *)
(* in between copy IME to 0xFFFF.  run_machine calls tick until it returns *)
(* FALSE.                                                                  *)
(***************************************************************************)
EXTENDS Untimed

VARIABLES executing,  \* an instruction is waiting for its last cycle
          remaining   \* remaining_execution_cycles

vars == <<cpu, machine, status, executing, remaining>>

Init ==
  /\ cpu = InitialRegisters
  /\ \E file \in Cartridges : machine = PowerOn(file)
  /\ status = "running"
  /\ executing = FALSE /\ remaining = 0

-----------------------------------------------------------------------------
(* Execution times.                                                        *)

\* The rows 0x00 to 0x3F and 0xC0 to 0xFF of opcode_cycles; in between only
\* the loads and operations with one operand at HL take two cycles.
LowCycles ==
  <<1, 3, 2, 2, 1, 1, 2, 1, 5, 2, 2, 2, 1, 1, 2, 1,
    1, 3, 2, 2, 1, 1, 2, 1, 3, 2, 2, 2, 1, 1, 2, 1,
    2, 3, 2, 2, 1, 1, 2, 1, 2, 2, 2, 2, 1, 1, 2, 1,
    2, 3, 2, 2, 3, 3, 3, 1, 2, 2, 2, 2, 1, 1, 2, 1>>
HighCycles ==
  <<2, 3, 3, 4, 3, 4, 2, 3, 2, 4, 3, 1, 3, 6, 2, 4,
    2, 3, 3, 1, 3, 4, 2, 4, 2, 4, 3, 1, 3, 1, 2, 4,
    3, 3, 2, 1, 1, 4, 2, 4, 4, 1, 4, 1, 1, 1, 2, 4,
    3, 3, 2, 1, 1, 4, 2, 4, 3, 2, 4, 1, 1, 1, 2, 4>>

\* Mutant: every instruction on registers takes one cycle, those at HL too.
opcode_cycles_register(op) ==
  IF op < 64 THEN LowCycles[op + 1]
  ELSE IF op >= 192 THEN HighCycles[op - 191] ELSE 1

opcode_cycles(op) ==
  IF op < 64 THEN LowCycles[op + 1]
  ELSE IF op >= 192 THEN HighCycles[op - 191]
  ELSE IF (op \div 8 = 14) # (op % 8 = 6) THEN 2 ELSE 1

\* The cases of the switch in get_execution_time, in its order: the opcode,
\* the condition under which the time is returned, and the time.  A case
\* whose condition fails falls through into the next.
ConditionalTimes ==
  << <<210, 2, 4>>, <<194, 0, 4>>, <<212, 2, 6>>, <<196, 0, 6>>,
     <<40, 1, 3>>, <<32, 0, 3>>, <<56, 3, 3>>, <<48, 2, 3>>,
     <<216, 3, 5>>, <<208, 2, 5>>, <<200, 1, 5>>, <<192, 0, 5>> >>

\* JP and CALL with the conditions Z and C enter at the first case.
EntersAt(op, j) ==
  ConditionalTimes[j][1] = op \/ (j = 1 /\ op \in {202, 204, 218, 220})

get_execution_time ==
  LET op == Read8(machine, cpu.PC)
      reached == {j \in DOMAIN ConditionalTimes :
                    /\ \E e \in 1 .. j : EntersAt(op, e)
                    /\ Condition(ConditionalTimes[j][2])}
  IN  IF reached = {} THEN opcode_cycles(op)
      ELSE ConditionalTimes[CHOOSE j \in reached : \A k \in reached : j <= k][3]

-----------------------------------------------------------------------------
(* The cycle.                                                              *)

\* The first cycle of an instruction dereferences the opcode's pointer.
NullFetch ==
  /\ ~executing /\ Null8
  /\ status' = "crashed"
  /\ UNCHANGED <<cpu, machine, executing, remaining>>

\* Mutant: the first cycle is not counted.
CyclesLeftLate == U8(IF executing THEN remaining - 1 ELSE get_execution_time)

\* remaining_execution_cycles once this cycle has decremented it, a uint8_t.
CyclesLeft == U8((IF executing THEN remaining ELSE get_execution_time) - 1)

\* Mutants: only the first cycle decrements; that an instruction is executing
\* is forgotten; the copy goes to 0xFFFE.
WaitCycleStuck ==
  /\ executing \/ ~Null8
  /\ CyclesLeft # 0
  /\ executing' = TRUE /\ remaining' = IF executing THEN remaining ELSE CyclesLeft
  /\ machine' = bus_write_8_bit(65535, cpu.IME, machine)
  /\ UNCHANGED <<cpu, status>>
WaitCycleForgets ==
  /\ executing \/ ~Null8
  /\ CyclesLeft # 0
  /\ executing' = FALSE /\ remaining' = CyclesLeft
  /\ machine' = bus_write_8_bit(65535, cpu.IME, machine)
  /\ UNCHANGED <<cpu, status>>
WaitCycleBelow ==
  /\ executing \/ ~Null8
  /\ CyclesLeft # 0
  /\ executing' = TRUE /\ remaining' = CyclesLeft
  /\ machine' = bus_write_8_bit(65534, cpu.IME, machine)
  /\ UNCHANGED <<cpu, status>>

\* Copy IME to 0xFFFF.
WaitCycle ==
  /\ executing \/ ~Null8
  /\ CyclesLeft # 0
  /\ executing' = TRUE /\ remaining' = CyclesLeft
  /\ machine' = bus_write_8_bit(65535, cpu.IME, machine)
  /\ UNCHANGED <<cpu, status>>

\* The instruction executes, and IME is not copied.
FinalCycle ==
  /\ executing \/ ~Null8
  /\ CyclesLeft = 0
  /\ executing' = FALSE /\ remaining' = 0
  /\ Execute

Tick == status = "running" /\ (NullFetch \/ WaitCycle \/ FinalCycle)

\* run_machine's loop does nothing but call tick.
Spec == Init /\ [][Tick]_vars /\ WF_vars(Tick)

-----------------------------------------------------------------------------
\* Type invariant: every register keeps to its width, the memories hold bytes
\* at addresses of their own, and an instruction waits for 1 to 5 cycles.
TypeOK ==
  /\ cpu \in CpuState
  /\ IsMachine(machine)
  /\ \A a \in DOMAIN machine.console_memory : ~OnCartridge(a)
  /\ status \in {"running", "stopped", "crashed"}
  /\ executing \in BOOLEAN
  /\ remaining \in IF executing THEN 1 .. 5 ELSE {0}

\* The bytes an instruction occupies: those its name gives and, for INC (HL)
\* and DEC (HL), the two that the code takes as the address.
Length(op) ==
  IF op \in {1, 8, 17, 33, 49, 52, 53, 194, 195, 196, 205, 212, 234, 250} THEN 3
  ELSE IF op \in {6, 14, 16, 24, 30, 32, 38, 40, 48, 56, 62, 203, 224, 240, 248}
                  \cup {198, 206, 214, 230, 238, 246, 254} THEN 2
  ELSE 1

\* Jumps, calls and returns that are taken.
Jumps(op) ==
  \/ op \in {24, 195, 201, 205, 233}
  \/ /\ op \in {32, 40, 48, 56, 192, 194, 196, 200, 208, 212, 216}
     /\ ConditionHolds

\* JR C and JP NZ, when they are not taken, lead into their own operand: the
\* program executes it as an opcode.
EntersOperand(op) == op \in {56, 194}

\* PC moves in several places (before the switch, in the operand's expression,
\* behind it), case by case.  Every instruction that does not jump leads to the
\* byte behind its last operand, but for JR C and JP NZ: they, and no others,
\* make a program execute an operand.
OnlyTwoEnterOperands ==
  [][FinalCycle /\ status' = "running" /\ ~Jumps(opcode) =>
       cpu'.PC = U16(cpu.PC + (IF EntersOperand(opcode) THEN 1
                                                        ELSE Length(opcode)))]_vars

\* The address LD A loads from.
LoadAddress ==
  IF opcode = 26 THEN DE ELSE IF opcode \in {42, 126} THEN HL
  ELSE IF opcode = 240 THEN 65280 + imm8 ELSE imm16

\* A program that loads the byte at 0xFFFF gets IME, whatever it stored there
\* and however recently it changed IME: every such load takes more than one
\* cycle, and the cycles it waits for make the copy.
LoadsSeeIME ==
  [][FinalCycle /\ opcode \in {26, 42, 126, 240, 250} /\ LoadAddress = 65535 =>
       cpu'.A = cpu.IME]_vars

\* All a program can tell of the clock is what CopyIME does: how long its
\* instructions take, and in which cycle they are executed, makes no other
\* difference to the registers and the memories.
ImplementsUntimed == UntimedSpec

\* Every instruction that starts comes to its last cycle: the count of cycles
\* never starts at 0, nor does it pass 0.  run_machine's loop is the fairness.
InstructionsFinish == executing ~> ~executing

-----------------------------------------------------------------------------
(* What the comments of cpu.h say.                                         *)

\* INC (HL) increments the byte in RAM at HL.
IncrementsAtHL ==
  [][FinalCycle /\ opcode = 52 /\ ~OnCartridge(HL) =>
       Read8(machine, HL)' = U8(Read8(machine, HL) + 1)]_vars

\* The machine cycles the comments give: JR 2-3, RET 2-5, JP 3-4, CALL 3-6.
DocumentedTimes(op) ==
  CASE op \in {32, 40, 48, 56}     -> 2 .. 3
    [] op \in {192, 200, 208, 216} -> 2 .. 5
    [] op \in {194, 202, 210, 218} -> 3 .. 4
    [] op \in {196, 204, 212, 220} -> 3 .. 6
    [] OTHER -> {opcode_cycles(op)}

\* A conditional instruction about to start takes the time its comment gives.
TimesAreDocumented ==
  status = "running" /\ ~executing /\ ~Null8 =>
    get_execution_time \in DocumentedTimes(Read8(machine, cpu.PC))
=============================================================================
