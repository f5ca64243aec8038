-------------------------------- MODULE Mips --------------------------------
(***************************************************************************)
(* Machine::OneInstruction and Mult of machine/mipssim.cc, one action per   *)
(* group of instructions.  An instruction is given decoded; the bits of its *)
(* encoding are left out, and "code" holds the instructions the program may *)
(* have at any address.                                                     *)
(***************************************************************************)
EXTENDS Machine, Bitwise

CONSTANTS
  JumpBits       \* the high bits of an address that J keeps: 4 in the code

VARIABLES
  instr,         \* the instruction executed last
  executed       \* how many have been

mipsVars == <<instr, executed>>

Add == {"ADD", "ADDU", "ADDI", "ADDIU"}
Sub == {"SUB", "SUBU"}
Logic == {"AND", "ANDI", "OR", "ORI", "NOR", "XOR", "XORI"}
Shift == {"SLL", "SLLV", "SRA", "SRAV", "SRL", "SRLV", "LUI"}
Set == {"SLT", "SLTI", "SLTU", "SLTIU"}
Move == {"MFHI", "MFLO", "MTHI", "MTLO"}
Immediate == {"ADDI", "ADDIU", "ANDI", "ORI", "XORI", "LUI", "SLTI", "SLTIU"}
Link == {"BGEZAL", "BLTZAL", "JAL"}
Jump == {"J", "JAL", "JR", "JALR"}
BranchOps == {"BEQ", "BNE", "BGEZ", "BGTZ", "BLEZ", "BLTZ", "BGEZAL", "BLTZAL"}
Load == {"LB", "LBU", "LH", "LHU", "LW", "LWL", "LWR"}
Store == {"SB", "SH", "SW", "SWL", "SWR"}

SizeOf(op) ==
  CASE op \in {"LB", "LBU", "SB"} -> 1
    [] op \in {"LH", "LHU", "SH"} -> 2
    [] op \in {"LW", "LWL", "LWR", "SW", "SWL", "SWR"} -> 4

Rs(i) == registers[i.rs]
Rt(i) == registers[i.rt]

(* The second operand, and the register that gets the result. *)
Operand(i) == IF i.op \in Immediate THEN i.extra ELSE Rt(i)
Dest(i) ==
  CASE i.op = "MTHI" -> HiReg
    [] i.op = "MTLO" -> LoReg
    [] i.op \in Immediate -> i.rt
    [] OTHER -> i.rd

IndexToAddr(x) == 4 * x
NextPC4 == ToInt(registers[NextPCReg] + 4)

-----------------------------------------------------------------------------
(* The end of every instruction that raises no exception: the delayed load, *)
(* then the program counters.                                               *)
Completed(regs, pcAfter, nextReg, nextValue) ==
  [DelayedLoad(regs, nextReg, nextValue) EXCEPT
     ![PrevPCReg] = registers[PCReg],
     ![PCReg] = registers[NextPCReg],
     ![NextPCReg] = pcAfter]

Complete(regs, pcAfter, nextReg, nextValue) ==
  /\ registers' = Completed(regs, pcAfter, nextReg, nextValue)
  /\ exception' = "NoException"
  /\ UNCHANGED <<tlb, status>>

(* What the fetch does to the page table. *)
Fetched(read, written) == pageTable' = Touched(read \cup {registers[PCReg]}, written)

Raise(which, badVAddr) == RaiseException(which, badVAddr) /\ Fetched({}, {})

(* An ASSERT fails, or the host traps. *)
Abort ==
  /\ status' = "aborted" /\ exception' = "NoException" /\ Fetched({}, {})
  /\ UNCHANGED <<registers, mainMemory, tlb>>

-----------------------------------------------------------------------------
(* Results. *)

SameSign(a, b) == (a < 0) = (b < 0)

(* The overflow test of ADD and ADDI, by the signs. *)
AddOverflows(i) ==
  /\ i.op \in {"ADD", "ADDI"}
  /\ SameSign(Rs(i), Operand(i))
  /\ ~SameSign(Operand(i), ToInt(Rs(i) + Operand(i)))

SubOverflows(i) ==
  /\ i.op = "SUB"
  /\ ~SameSign(Rs(i), Rt(i))
  /\ ~SameSign(Rs(i), ToInt(Rs(i) - Rt(i)))

BitAnd(a, b) == ToInt(Unsigned(a) & Unsigned(b))
BitOr(a, b) == ToInt(Unsigned(a) | Unsigned(b))
BitXor(a, b) == ToInt(Unsigned(a) ^^ Unsigned(b))

(* OR reads its first operand twice. *)
LogicResult(i) ==
  LET low == Unsigned(i.extra) % 2^(WordBits \div 2)
  IN CASE i.op = "AND" -> BitAnd(Rs(i), Rt(i))
       [] i.op = "ANDI" -> BitAnd(Rs(i), low)
       [] i.op = "OR" -> BitOr(Rs(i), Rs(i))
       [] i.op = "ORI" -> BitOr(Rs(i), low)
       [] i.op = "NOR" -> -1 - BitOr(Rs(i), Rt(i))
       [] i.op = "XOR" -> BitXor(Rs(i), Rt(i))
       [] i.op = "XORI" -> BitXor(Rs(i), low)

(* SRL shifts a signed word, so that it is SRA. *)
ShiftResult(i) ==
  LET amount == IF i.op \in {"SLL", "SRA", "SRL"} THEN i.extra
                ELSE Unsigned(Rs(i)) % WordBits
  IN CASE i.op \in {"SLL", "SLLV"} -> ToInt(Rt(i) * 2^amount)
       [] i.op = "LUI" -> ToInt(i.extra * 2^(WordBits \div 2))
       [] OTHER -> Rt(i) \div 2^amount

SetResult(i) ==
  LET less == IF i.op \in {"SLT", "SLTI"} THEN Rs(i) < Operand(i)
              ELSE Unsigned(Rs(i)) < Unsigned(Operand(i))
  IN IF less THEN 1 ELSE 0

MoveResult(i) ==
  CASE i.op = "MFHI" -> registers[HiReg]
    [] i.op = "MFLO" -> registers[LoReg]
    [] OTHER -> Rs(i)

Result(i) ==
  CASE i.op \in Add -> ToInt(Rs(i) + Operand(i))
    [] i.op \in Sub -> ToInt(Rs(i) - Rt(i))
    [] i.op \in Logic -> LogicResult(i)
    [] i.op \in Shift -> ShiftResult(i)
    [] i.op \in Set -> SetResult(i)
    [] i.op \in Move -> MoveResult(i)

-----------------------------------------------------------------------------
(* Mult: shift and add, bit by bit of a, until a has no bits left. *)

(* Mutant: the carry out of the low word is lost. *)
MultStep_NoCarry(s) ==
  LET odd == Unsigned(s.a) % 2 = 1
      lo == IF odd THEN Unsigned(s.lo + s.bLo) ELSE s.lo
  IN IF s.done THEN s
     ELSE [a |-> s.a \div 2,
           bLo |-> Unsigned(2 * s.bLo),
           bHi |-> Unsigned(2 * s.bHi + (IF s.bLo >= 2^(WordBits - 1) THEN 1 ELSE 0)),
           lo |-> lo,
           hi |-> IF odd THEN Unsigned(s.hi + s.bHi) ELSE s.hi,
           done |-> odd /\ Unsigned(s.a) = 1]

MultStep(s) ==
  LET odd == Unsigned(s.a) % 2 = 1
      lo == IF odd THEN Unsigned(s.lo + s.bLo) ELSE s.lo
      carry == IF odd /\ lo < s.bLo THEN 1 ELSE 0
  IN IF s.done THEN s
     ELSE [a |-> s.a \div 2,
           bLo |-> Unsigned(2 * s.bLo),
           bHi |-> Unsigned(2 * s.bHi + (IF s.bLo >= 2^(WordBits - 1) THEN 1 ELSE 0)),
           lo |-> lo,
           hi |-> IF odd THEN Unsigned(s.hi + carry + s.bHi) ELSE s.hi,
           done |-> odd /\ Unsigned(s.a) = 1]

(* <<high word, low word>>.  Negating the least integer leaves it. *)
Mult(a, b, signedArith) ==
  LET negative == signedArith /\ ~SameSign(a, b)
      positive(x) == IF signedArith /\ x < 0 THEN ToInt(-x) ELSE x
      loop[n \in 0 .. WordBits] ==
        IF n = 0 THEN [a |-> positive(a), bLo |-> Unsigned(positive(b)), bHi |-> 0,
                       lo |-> 0, hi |-> 0, done |-> FALSE]
        ELSE MultStep(loop[n - 1])
      s == loop[WordBits]
      lo == IF negative THEN Unsigned(-s.lo) ELSE s.lo
      hi == IF negative THEN -1 - s.hi + (IF lo = 0 THEN 1 ELSE 0) ELSE s.hi
  IN IF a = 0 \/ b = 0 THEN <<0, 0>> ELSE <<ToInt(hi), ToInt(lo)>>

Magnitude(x) == IF x < 0 THEN -x ELSE x

(* Division of C, towards zero. *)
Quotient(a, b) ==
  (IF SameSign(a, b) THEN 1 ELSE -1) * (Magnitude(a) \div Magnitude(b))

(* <<remainder, quotient>>. *)
Div(a, b) ==
  IF b = 0 THEN <<0, 0>>
  ELSE <<ToInt(a - b * Quotient(a, b)), ToInt(Quotient(a, b))>>

(* What MULT, MULTU, DIV and DIVU leave in <<HiReg, LoReg>>. *)
HiLo(i) ==
  CASE i.op = "MULT" -> Mult(Rs(i), Rt(i), TRUE)
    [] i.op = "MULTU" -> Mult(Rs(i), Rt(i), FALSE)
    [] i.op = "DIV" -> Div(Rs(i), Rt(i))
    [] i.op = "DIVU" -> Div(Unsigned(Rs(i)), Unsigned(Rt(i)))

(* The one quotient that is not a word; the host raises a signal. *)
DivTraps(i) == i.op = "DIV" /\ Rs(i) = -(2^(WordBits - 1)) /\ Rt(i) = -1

-----------------------------------------------------------------------------
(* The instructions. *)

Overflow(i) ==
  /\ AddOverflows(i) \/ SubOverflows(i)
  /\ Raise("Overflow", 0)

Compute(i) ==
  /\ i.op \in Add \cup Sub \cup Logic \cup Shift \cup Set \cup Move
  /\ ~AddOverflows(i) /\ ~SubOverflows(i)
  /\ Complete([registers EXCEPT ![Dest(i)] = Result(i)], NextPC4, 0, 0)
  /\ Fetched({}, {}) /\ UNCHANGED mainMemory

MultiplyDivide(i) ==
  /\ i.op \in {"MULT", "MULTU", "DIV", "DIVU"}
  /\ IF DivTraps(i) THEN Abort
     ELSE /\ Complete([registers EXCEPT ![HiReg] = HiLo(i)[1], ![LoReg] = HiLo(i)[2]],
                      NextPC4, 0, 0)
          /\ Fetched({}, {}) /\ UNCHANGED mainMemory

(* The link is stored first, and the test or the jump reads it. *)
Linked(i) ==
  CASE i.op \in Link -> [registers EXCEPT ![RetAddrReg] = NextPC4]
    [] i.op = "JALR" -> [registers EXCEPT ![i.rd] = NextPC4]
    [] OTHER -> registers

Taken(i) ==
  LET rs == Linked(i)[i.rs]
  IN CASE i.op = "BEQ" -> rs = Rt(i)
       [] i.op = "BNE" -> rs # Rt(i)
       [] i.op \in {"BGEZ", "BGEZAL"} -> rs >= 0
       [] i.op = "BGTZ" -> rs > 0
       [] i.op = "BLEZ" -> rs <= 0
       [] i.op \in {"BLTZ", "BLTZAL"} -> rs < 0

Branch(i) ==
  /\ i.op \in BranchOps
  /\ Complete(Linked(i),
              IF Taken(i) THEN ToInt(registers[NextPCReg] + IndexToAddr(i.extra))
              ELSE NextPC4,
              0, 0)
  /\ Fetched({}, {}) /\ UNCHANGED mainMemory

JumpTarget(i) ==
  LET kept == 2^(WordBits - JumpBits)
      after == Unsigned(NextPC4)
  IN IF i.op \in {"JR", "JALR"} THEN Linked(i)[i.rs]
     ELSE ToInt(after - (after % kept) + IndexToAddr(i.extra))

JumpStep(i) ==
  /\ i.op \in Jump
  /\ Complete(Linked(i), JumpTarget(i), 0, 0)
  /\ Fetched({}, {}) /\ UNCHANGED mainMemory

-----------------------------------------------------------------------------
(* Loads and stores. *)

Address(i) == ToInt(Rs(i) + i.extra)

(* The unaligned word instructions assert that they are not needed. *)
WordPart == {"LWL", "LWR", "SWL", "SWR"}
Misused(i) == i.op \in WordPart /\ Address(i) % 4 # 0

AccessAborts(i) == Misused(i) /\ Abort

(* The exception that a load or a store raises.  SWL and SWR read the word  *)
(* before they write it.                                                    *)
Refusal(i) ==
  LET a == Address(i)
      size == SizeOf(i.op)
  IN IF i.op \in {"SWL", "SWR"} /\ ~Accessible(a, size, FALSE)
     THEN Translate(a, size, FALSE)
     ELSE Translate(a, size, i.op \in Store)

AccessFaults(i) ==
  LET a == Address(i)
  IN /\ i.op \in Load \cup Store /\ ~Misused(i)
     /\ Refusal(i) # "NoException"
     /\ RaiseException(Refusal(i), a)
     /\ Fetched(IF i.op \in {"SWL", "SWR"} /\ Accessible(a, 4, FALSE) THEN {a} ELSE {}, {})

(* The value loaded from an aligned address. *)
Loaded(i) ==
  LET v == ReadMem(Address(i), SizeOf(i.op))
      byte == 2^ByteBits
      half == 2^(2 * ByteBits)
      pending == IF registers[LoadReg] = i.rt THEN registers[LoadValueReg] ELSE Rt(i)
  IN CASE i.op \in {"LB", "LHU", "LW", "LWL"} -> v
       [] i.op = "LBU" -> v % byte
       [] i.op = "LH" -> IF v >= half \div 2 THEN v - half ELSE v
       [] i.op = "LWR" -> ToInt(pending - (pending % byte)
                                + (Unsigned(v) \div 2^(3 * ByteBits)))

LoadStep(i) ==
  /\ i.op \in Load /\ ~Misused(i)
  /\ Accessible(Address(i), SizeOf(i.op), FALSE)
  /\ Complete(registers, NextPC4, i.rt, Loaded(i))
  /\ Fetched({Address(i)}, {}) /\ UNCHANGED mainMemory

(* What is stored: SWR puts the low byte of the register above the three    *)
(* low bytes of the word.                                                   *)
Stored(i) ==
  LET upper == 2^(3 * ByteBits)
  IN IF i.op = "SWR" THEN (ReadMem(Address(i), 4) % upper) + (Rt(i) % 2^ByteBits) * upper
     ELSE Rt(i)

StoreStep(i) ==
  /\ i.op \in Store /\ ~Misused(i)
  /\ Accessible(Address(i), SizeOf(i.op), TRUE)
  /\ Complete(registers, NextPC4, 0, 0)
  /\ mainMemory' = WriteMem(Address(i), SizeOf(i.op), Stored(i))
  /\ Fetched({}, {Address(i)})

Illegal(i) == i.op \in {"RES", "UNIMP"} /\ Raise("IllegalInstr", 0)

(* Everything but SYSCALL. *)
Execute(i) ==
  \/ Overflow(i) \/ Compute(i) \/ MultiplyDivide(i)
  \/ Branch(i) \/ JumpStep(i)
  \/ AccessAborts(i) \/ AccessFaults(i) \/ LoadStep(i) \/ StoreStep(i)
  \/ Illegal(i)

(* The instruction cannot be fetched. *)
FetchFaults ==
  LET pc == registers[PCReg]
  IN /\ ~Accessible(pc, 4, FALSE)
     /\ RaiseException(Translate(pc, 4, FALSE), pc)
     /\ UNCHANGED pageTable

(* OneInstruction, for the instruction i at the program counter. *)
OneInstruction(i) ==
  /\ Accessible(registers[PCReg], 4, FALSE)
  /\ Execute(i)

-----------------------------------------------------------------------------
(* Properties. *)

Executes(ops) == executed' = executed + 1 /\ instr'.op \in ops

(* Register r holds v after the step: the load that was pending comes last, *)
(* and register 0 stays 0.                                                  *)
Gets(r, v) ==
  registers'[r] = IF r = 0 THEN 0
                  ELSE IF r = registers[LoadReg] THEN registers[LoadValueReg]
                  ELSE v

MachineTypeOK ==
  /\ DOMAIN registers = Register /\ registers[0] = 0
  /\ \A r \in Register \ {LoadReg} : registers[r] \in Word
  /\ registers[LoadReg] \in GPR
  /\ mainMemory \in [0 .. NumPhysPages * PageSize - 1 -> Byte]
  /\ status \in {"idle", "user", "halted", "aborted"}

(* An access that Translate lets through lies inside the memory, whatever   *)
(* the table holds: the last assertion of Translate never fails.            *)
TranslateInBounds ==
  \A a \in Word, size \in {1, 2, 4} :
     Accessible(a, size, FALSE) => PhysAddr(a) + size <= NumPhysPages * PageSize

(* Memory changes only in frames that a valid, writable entry maps, and     *)
(* that entry is marked used and dirty, also when the kernel writes into a  *)
(* buffer of the program.                                                   *)
MemoryGuarded ==
  [][\A a \in DOMAIN mainMemory :
        (status = "user" /\ mainMemory'[a] # mainMemory[a]) =>
           \E i \in DOMAIN pageTable :
              /\ pageTable[i].valid /\ ~pageTable[i].readOnly
              /\ pageTable[i].physicalPage = a \div PageSize
              /\ pageTable'[i].use /\ pageTable'[i].dirty]_<<machineVars, mipsVars>>

(* A byte, short or word that was stored is what a load of the same size    *)
(* finds there, and what the bytes make up one by one, lowest first.        *)
StoredThenLoaded ==
  [][Executes({"SB", "SH", "SW"}) /\ exception' = "NoException" =>
        LET i == instr'
            size == SizeOf(i.op)
            value == Unsigned(Rt(i)) % 2^(size * ByteBits)
        IN \A k \in 0 .. size - 1 :
              /\ BytesAt(mainMemory', Address(i), size) = value
              /\ BytesAt(mainMemory', Address(i) + k, 1)
                   = (value \div 2^(k * ByteBits)) % 2^ByteBits]_<<machineVars, mipsVars>>

(* ADD, ADDI and SUB raise the overflow exactly when the sum is not a word, *)
(* though they look at nothing but signs, and otherwise give the sum.       *)
OverflowExact ==
  [][Executes({"ADD", "ADDI", "SUB"}) /\ exception' \in {"NoException", "Overflow"} =>
        LET i == instr'
            sum == IF i.op = "SUB" THEN Rs(i) - Rt(i) ELSE Rs(i) + Operand(i)
        IN IF sum \in Word THEN exception' = "NoException" /\ Gets(Dest(i), sum)
           ELSE exception' = "Overflow"]_<<machineVars, mipsVars>>

(* The two words that MULT and MULTU leave are the product of the operands, *)
(* the least integer among them.                                            *)
ProductExact ==
  [][Executes({"MULT", "MULTU"}) /\ exception' = "NoException" =>
        LET i == instr'
        IN IF i.op = "MULT"
           THEN registers'[HiReg] * 2^WordBits + Unsigned(registers'[LoReg]) = Rs(i) * Rt(i)
           ELSE Unsigned(registers'[HiReg]) * 2^WordBits + Unsigned(registers'[LoReg])
                  = Unsigned(Rs(i)) * Unsigned(Rt(i))]_<<machineVars, mipsVars>>

(* DIV and DIVU by a divisor that is not zero leave a quotient and a        *)
(* remainder that make up the dividend; the remainder is smaller than the   *)
(* divisor and has the dividend's sign.  The exception is the least integer *)
(* divided by -1: the division of the host raises a signal, and the         *)
(* simulator dies.                                                          *)
QuotientExact ==
  [][(Executes({"DIV", "DIVU"}) /\ exception' = "NoException") =>
        LET i == instr'
            int(x) == IF i.op = "DIV" THEN x ELSE Unsigned(x)
            q == int(registers'[LoReg])
            r == int(registers'[HiReg])
            least == i.op = "DIV" /\ -Rs(i) \notin Word /\ Rt(i) = -1
        IN IF least THEN status' = "aborted"
           ELSE Rt(i) # 0 =>
                  /\ int(Rs(i)) = q * int(Rt(i)) + r
                  /\ Magnitude(r) < Magnitude(int(Rt(i)))
                  /\ r = 0 \/ SameSign(r, int(Rs(i)))]_<<machineVars, mipsVars>>

(* A delayed load is never lost: whatever the next instruction is, and also *)
(* when it traps, its register holds the value afterwards.  Only the result *)
(* of a system call takes precedence.                                       *)
LoadsArrive ==
  [][LET r == registers[LoadReg]
     IN (executed' = executed + 1 /\ r # 0 /\ status' # "aborted"
          /\ ~(exception' = "Syscall" /\ r = 2)) =>
            registers'[r] = registers[LoadValueReg]]_<<machineVars, mipsVars>>

(* An instruction that raises an exception can be started again: no         *)
(* register, no memory and neither program counter has changed, but for     *)
(* the load that was pending and BadVAddrReg.                               *)
FaultsRestartable ==
  [][(executed' = executed + 1 /\ instr'.op # "SYSCALL"
         /\ exception' # "NoException") =>
        /\ mainMemory' = mainMemory
        /\ \A r \in GPR \cup HiReg .. PrevPCReg :
              Gets(r, registers[r])]_<<machineVars, mipsVars>>

(* ADD, SUB, MULT and DIV compute what they should at every pair of         *)
(* operands, the ends of the range included, but for a divisor of zero and  *)
(* for the least integer divided by -1, which kills the simulator.          *)
ArithmeticExact == OverflowExact /\ ProductExact /\ QuotientExact

(* Memory through a page table or a TLB: accesses stay inside the memory,   *)
(* write only where a writable entry points, and give back what was stored. *)
MemoryExact == [](MachineTypeOK /\ TranslateInBounds) /\ MemoryGuarded /\ StoredThenLoaded
=============================================================================
