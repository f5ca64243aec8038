------------------------------- MODULE Machine -------------------------------
(***************************************************************************)
(* machine/machine.cc, machine/translate.cc and DelayedLoad of              *)
(* machine/mipssim.cc: the registers and the memory of the simulated MIPS,  *)
(* and how a virtual address reaches the memory.  A word has four bytes as  *)
(* in the code; the number of bits in a byte is a parameter, so that small  *)
(* words show what happens at the ends of the range.                        *)
(***************************************************************************)
EXTENDS Integers, FiniteSets

CONSTANTS
  ByteBits,      \* bits in a byte: 8 in the code
  PageSize, NumPhysPages,
  GPR            \* the general registers that the program uses

StackReg == 29
RetAddrReg == 31
HiReg == 32
LoReg == 33
PCReg == 34
NextPCReg == 35
PrevPCReg == 36
LoadReg == 37
LoadValueReg == 38
BadVAddrReg == 39

ASSUME MachineAssumption ==
  /\ ByteBits \in Nat \ {0} /\ PageSize % 4 = 0 /\ NumPhysPages \in Nat \ {0}
  /\ {0, 2, 4, 5, 6, StackReg, RetAddrReg} \subseteq GPR /\ GPR \subseteq 0..31

VARIABLES
  registers, mainMemory,
  pageTable,     \* the page table, or the TLB, from index 0
  tlb,           \* whether it is a TLB
  status,        \* "idle", "user", "halted", or "aborted" by an ASSERT or a signal
  exception      \* the exception that the last instruction raised

machineVars == <<registers, mainMemory, pageTable, tlb, status, exception>>

-----------------------------------------------------------------------------
(* Words and bytes. *)

WordBits == 4 * ByteBits
Word == -(2^(WordBits - 1)) .. 2^(WordBits - 1) - 1
Byte == 0 .. 2^ByteBits - 1
Register == GPR \cup HiReg .. BadVAddrReg

(* The bits of x as an unsigned word, and back. *)
Unsigned(x) == x % 2^WordBits
ToInt(x) ==
  IF Unsigned(x) < 2^(WordBits - 1) THEN Unsigned(x)
  ELSE Unsigned(x) - 2^WordBits

-----------------------------------------------------------------------------
(* Machine::Translate. *)

Vpn(addr) == Unsigned(addr) \div PageSize

(* The entries that may translate addr: the TLB is searched from the front. *)
Matches(addr) ==
  IF tlb THEN {i \in DOMAIN pageTable :
                 pageTable[i].valid /\ pageTable[i].virtualPage = Vpn(addr)}
  ELSE {i \in DOMAIN pageTable : i = Vpn(addr) /\ pageTable[i].valid}
EntryOf(addr) == CHOOSE i \in Matches(addr) : \A j \in Matches(addr) : i <= j

(* The exception that the access raises. *)
Translate(addr, size, writing) ==
  IF addr % size # 0 THEN "AddressError"
  ELSE IF ~tlb /\ Vpn(addr) \notin DOMAIN pageTable THEN "AddressError"
  ELSE IF Matches(addr) = {} THEN "PageFault"
  ELSE IF pageTable[EntryOf(addr)].readOnly /\ writing THEN "ReadOnly"
  ELSE IF Unsigned(pageTable[EntryOf(addr)].physicalPage) >= NumPhysPages THEN "BusError"
  ELSE "NoException"

Accessible(addr, size, writing) == Translate(addr, size, writing) = "NoException"

PhysAddr(addr) ==
  pageTable[EntryOf(addr)].physicalPage * PageSize + (Unsigned(addr) % PageSize)

(* The table once the addresses "read" and "written" have been accessed. *)
Touched(read, written) ==
  [i \in DOMAIN pageTable |->
     [pageTable[i] EXCEPT
        !.use = @ \/ \E a \in read \cup written : i = EntryOf(a),
        !.dirty = @ \/ \E a \in written : i = EntryOf(a)]]

-----------------------------------------------------------------------------
(* Machine::ReadMem and WriteMem, of an accessible address: a byte is a     *)
(* signed char, a short is unsigned, a word is little-endian.               *)

BytesAt(memory, addr, size) ==
  LET p == PhysAddr(addr)
      b(i) == memory[p + i] * 2^(i * ByteBits)
  IN CASE size = 1 -> b(0)
       [] size = 2 -> b(0) + b(1)
       [] size = 4 -> b(0) + b(1) + b(2) + b(3)

ReadMem(addr, size) ==
  LET v == BytesAt(mainMemory, addr, size)
  IN IF size = 1 /\ v >= 2^(ByteBits - 1) THEN v - 2^ByteBits
     ELSE IF size = 4 THEN ToInt(v) ELSE v

(* Mutant: the bytes of a value are stored with the highest first. *)
WriteMem_BigEndian(addr, size, value) ==
  LET p == PhysAddr(addr)
  IN [a \in DOMAIN mainMemory |->
        IF a \in p .. p + size - 1
        THEN (Unsigned(value) \div 2^((size - 1 - (a - p)) * ByteBits)) % 2^ByteBits
        ELSE mainMemory[a]]

(* The memory once value has been written. *)
WriteMem(addr, size, value) ==
  LET p == PhysAddr(addr)
  IN [a \in DOMAIN mainMemory |->
        IF a \in p .. p + size - 1
        THEN (Unsigned(value) \div 2^((a - p) * ByteBits)) % 2^ByteBits
        ELSE mainMemory[a]]

-----------------------------------------------------------------------------
(* The load that was pending takes effect in regs; another may be pending.  *)
DelayedLoad(regs, nextReg, nextValue) ==
  [[regs EXCEPT ![regs[LoadReg]] = regs[LoadValueReg]]
     EXCEPT ![LoadReg] = nextReg, ![LoadValueReg] = nextValue, ![0] = 0]

(* Mutant: an exception leaves the load pending. *)
Trapped_Pending(badVAddr) == [registers EXCEPT ![BadVAddrReg] = badVAddr]

(* What RaiseException does to the registers before it calls the handler. *)
Trapped(badVAddr) ==
  DelayedLoad([registers EXCEPT ![BadVAddrReg] = badVAddr], 0, 0)

(* RaiseException for all but system calls, which ExceptionHandler answers  *)
(* with Halt.                                                               *)
RaiseException(which, badVAddr) ==
  /\ registers' = Trapped(badVAddr)
  /\ exception' = which /\ status' = "halted"
  /\ UNCHANGED <<mainMemory, tlb>>
=============================================================================
