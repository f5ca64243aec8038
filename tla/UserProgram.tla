----------------------------- MODULE UserProgram -----------------------------
(***************************************************************************)
(* bin/coff2noff.c, userprog/addrspace.cc, userprog/exception.cc and        *)
(* StartProcess of userprog/progtest.cc: the life of a user program, from   *)
(* the linker's file to its system calls.  Files are UNIX files, as in the  *)
(* FILESYS_STUB build that userprog uses.  One program runs, in one thread: *)
(* the kernel has no system call that starts another.                       *)
(***************************************************************************)
EXTENDS Mips, Sequences

SX == INSTANCE SequencesExt

CONSTANTS
  Scenarios,       \* what is run, a sequence of records
  UserStackSize,
  StackMargin,     \* what InitRegisters leaves above the stack: 16 in the code
  MaxOpenFiles,    \* the size of a file table
  MaxHandles,      \* OpenFile objects that can exist
  Name,            \* of UNIX files
  NULL

VARIABLES
  scenario,        \* which of Scenarios
  stage,           \* "coff", "noff", "run", "returned" or "refused"
  noff,            \* the NOFF file, or NULL
  map, table,      \* of the file table: the bits set, and the slots
  openFile,        \* the OpenFile objects that exist: name and position
  unixFile,        \* the bytes of each UNIX file, NULL if there is none
  console          \* the bytes written to the console

fileVars == <<map, table, openFile, unixFile, console>>
userVars == <<scenario, stage, noff, fileVars>>
allVars == <<machineVars, mipsVars, userVars>>

Here == Scenarios[scenario]
Ids == 0 .. MaxOpenFiles - 1
Memory == 0 .. NumPhysPages * PageSize - 1

-----------------------------------------------------------------------------
(* coff2noff: the sections of the COFF file, one after the other, go into   *)
(* at most three segments.                                                  *)

Segment(addr, at, size) == [virtualAddr |-> addr, inFileAddr |-> at, size |-> size]
NoSegment == Segment(0, 0, 0)
(* "ok" tells a NOFF file from any other. *)
EmptyNoff == [code |-> NoSegment, initData |-> NoSegment, uninitData |-> NoSegment,
              body |-> << >>, ok |-> TRUE]

(* Mutant: every segment is said to be at the front of the file. *)
CopySection_Front(n, section, seg) ==
  [n EXCEPT ![seg] = Segment(section.addr, 0, Len(section.bytes)),
            !.body = @ \o section.bytes]

(* The section is copied behind the ones copied before. *)
CopySection(n, section, seg) ==
  [n EXCEPT ![seg] = Segment(section.addr, Len(n.body), Len(section.bytes)),
            !.body = @ \o section.bytes]

(* A second section of zeros is taken when it does not continue the first.  *)
AddZeros(n, section) ==
  LET zeros == n.uninitData
      size == Len(section.bytes)
  IN IF zeros.size = 0 THEN [n EXCEPT !.uninitData = Segment(section.addr, 0, size)]
     ELSE IF section.addr = zeros.virtualAddr + zeros.size THEN [n EXCEPT !.ok = FALSE]
     ELSE [n EXCEPT !.uninitData.size = @ + size]

AddSection(n, section) ==
  CASE ~n.ok \/ section.bytes = << >> -> n
    [] n.ok /\ section.bytes # << >> ->
         CASE section.name = ".text" -> CopySection(n, section, "code")
           [] section.name \in {".data", ".rdata"} ->
                IF n.initData.size # 0 THEN [n EXCEPT !.ok = FALSE]
                ELSE CopySection(n, section, "initData")
           [] section.name \in {".bss", ".sbss"} -> AddZeros(n, section)
           [] OTHER -> [n EXCEPT !.ok = FALSE]

Convert ==
  /\ stage = "coff"
  /\ LET coff == Here.coff
         n == SX!FoldLeft(AddSection, EmptyNoff, coff.sections)
         ok == coff.magic = "MIPSEL" /\ coff.system = "OMAGIC" /\ n.ok
     IN /\ stage' = IF ok THEN "noff" ELSE "refused"
        /\ noff' = IF ok THEN n ELSE NULL
  /\ UNCHANGED <<machineVars, mipsVars, scenario, fileVars>>

-----------------------------------------------------------------------------
(* The file table. *)

FreeSlots(bits) == Ids \ bits

(* Mutant: the slot is told from the number of bits set. *)
Find_Counts(bits) == IF bits = Ids THEN -1 ELSE Cardinality(bits)

(* BitMap::Find: the first clear bit, -1 if there is none. *)
Find(bits) ==
  LET free == FreeSlots(bits)
  IN IF free = {} THEN -1 ELSE CHOOSE i \in free : \A j \in free : i <= j

(* Table::Put of handle h. *)
Put(h) ==
  LET i == Find(map)
  IN IF i = -1 THEN UNCHANGED <<map, table>>
     ELSE map' = map \cup {i} /\ table' = [table EXCEPT ![i] = h]

Get(i) == IF i \in map THEN table[i] ELSE NULL

(* Table::Remove. *)
Remove(i) ==
  IF i \in map THEN map' = map \ {i} /\ table' = [table EXCEPT ![i] = NULL]
  ELSE UNCHANGED <<map, table>>

-----------------------------------------------------------------------------
(* The address space. *)

divRoundUp(n, s) == (n + s - 1) \div s

NumPages(n) ==
  divRoundUp(n.code.size + n.initData.size + n.uninitData.size, PageSize)
    + divRoundUp(UserStackSize, PageSize)

InSegment(a, seg) == a \in seg.virtualAddr .. seg.virtualAddr + seg.size - 1

(* The memory once the program is loaded: the data over the code over zeros. *)
Image(n) ==
  [a \in Memory |->
     IF InSegment(a, n.initData)
     THEN n.body[n.initData.inFileAddr + a - n.initData.virtualAddr + 1]
     ELSE IF InSegment(a, n.code)
     THEN n.body[n.code.inFileAddr + a - n.code.virtualAddr + 1]
     ELSE IF a < NumPages(n) * PageSize THEN 0 ELSE mainMemory[a]]

Entry(page) == [virtualPage |-> page, physicalPage |-> page, valid |-> TRUE,
                readOnly |-> FALSE, use |-> FALSE, dirty |-> FALSE]

(* InitRegisters. *)
StartRegisters(pages) ==
  [r \in Register |-> CASE r = NextPCReg -> 4
                        [] r = StackReg -> ToInt(pages * PageSize - StackMargin)
                        [] OTHER -> 0]

(* StartProcess.  The first two ids are set aside for the console; a file   *)
(* that is not a NOFF file, or does not fit, fails an assertion.            *)
StartProcess ==
  /\ stage = "noff" /\ status = "idle"
  /\ IF ~noff.ok \/ NumPages(noff) > NumPhysPages
     THEN /\ status' = "aborted"
          /\ UNCHANGED <<registers, mainMemory, pageTable, tlb, exception, stage>>
     ELSE /\ pageTable' = [i \in 0 .. NumPages(noff) - 1 |-> Entry(i)]
          /\ mainMemory' = Image(noff)
          /\ registers' = StartRegisters(NumPages(noff))
          /\ stage' = "run" /\ status' = "user" /\ UNCHANGED <<tlb, exception>>
  /\ map' = {0, 1}
  /\ UNCHANGED <<mipsVars, scenario, noff, table, openFile, unixFile, console>>

(* StartProcess of a name that Open does not find. *)
StartNothing ==
  /\ stage = "refused" /\ stage' = "returned"
  /\ UNCHANGED <<machineVars, mipsVars, scenario, noff, fileVars>>

-----------------------------------------------------------------------------
(* Buffers of the program. *)

At(vaddr, k) == ToInt(vaddr + k - 1)
Addresses(vaddr, len) == {At(vaddr, k) : k \in 1 .. len}

(* How many bytes can be copied before one that cannot. *)
Reach(vaddr, len, writing) ==
  LET bad == {k \in 1 .. len : ~Accessible(At(vaddr, k), 1, writing)}
  IN IF bad = {} THEN len ELSE (CHOOSE k \in bad : \A j \in bad : k <= j) - 1

Buffer(vaddr, len) == [k \in 1 .. len |-> BytesAt(mainMemory, At(vaddr, k), 1)]

(* The memory with bytes in the buffer; two pages may share a frame. *)
Copied(vaddr, bytes) ==
  [a \in Memory |->
     LET ks == {k \in DOMAIN bytes : PhysAddr(At(vaddr, k)) = a}
     IN IF ks = {} THEN mainMemory[a]
        ELSE bytes[CHOOSE k \in ks : \A j \in ks : k >= j]]

(* A byte that cannot be copied raises an exception inside the system call, *)
(* and ExceptionHandler halts: neither copyin nor copyout returns -1.       *)
BadPointer(vaddr, n, writing) ==
  /\ registers' = [Trapped(0) EXCEPT ![BadVAddrReg] = At(vaddr, n + 1)]
  /\ exception' = Translate(At(vaddr, n + 1), 1, writing)
  /\ status' = "halted" /\ UNCHANGED tlb

(* copyin, to its failure. *)
CopyinFails(vaddr, len) ==
  LET n == Reach(vaddr, len, FALSE)
  IN /\ n < len /\ BadPointer(vaddr, n, FALSE)
     /\ Fetched(Addresses(vaddr, n), {})
     /\ UNCHANGED <<mainMemory, fileVars>>

(* The end of ExceptionHandler. *)
Returns(rv) ==
  /\ registers' = [Trapped(0) EXCEPT ![2] = rv,
                                     ![PrevPCReg] = registers[PCReg],
                                     ![PCReg] = registers[NextPCReg],
                                     ![NextPCReg] = NextPC4]
  /\ exception' = "Syscall" /\ UNCHANGED <<tlb, status>>

(* copyin of the whole buffer. *)
Copyin(vaddr, len) ==
  /\ Reach(vaddr, len, FALSE) = len
  /\ Fetched(Addresses(vaddr, len), {}) /\ UNCHANGED mainMemory

(* copyout of bytes, to its end, with result rv, or to its failure. *)
Copyout(vaddr, bytes, rv) ==
  LET n == Reach(vaddr, Len(bytes), TRUE)
  IN /\ mainMemory' = Copied(vaddr, SubSeq(bytes, 1, n))
     /\ Fetched({}, Addresses(vaddr, n))
     /\ IF n < Len(bytes) THEN BadPointer(vaddr, n, TRUE) ELSE Returns(rv)

-----------------------------------------------------------------------------
(* The system calls, with the file system that FILESYS_STUB puts on UNIX.   *)

(* A name ends at its first 0. *)
CString(bytes) ==
  LET zeros == {k \in DOMAIN bytes : bytes[k] = 0}
  IN IF zeros = {} THEN bytes
     ELSE SubSeq(bytes, 1, (CHOOSE k \in zeros : \A j \in zeros : k <= j) - 1)

(* OpenForWrite empties a file that exists; it asserts that it has opened   *)
(* one, which UNIX does not for the empty name.                             *)
Create_Syscall(vaddr, len) ==
  LET name == CString(Buffer(vaddr, len))
  IN \/ CopyinFails(vaddr, len)
     \/ /\ Copyin(vaddr, len)
        /\ IF name = << >>
           THEN status' = "aborted" /\ UNCHANGED <<registers, tlb, exception, unixFile>>
           ELSE Returns(0) /\ unixFile' = [unixFile EXCEPT ![name] = << >>]
        /\ UNCHANGED <<map, table, openFile, console>>

NewHandle ==
  CHOOSE h \in 1 .. MaxHandles :
    openFile[h] = NULL /\ \A g \in 1 .. h - 1 : openFile[g] # NULL

(* Mutant: a file that finds no slot is not closed. *)
OpenFound_Leaks(name) ==
  /\ Put(NewHandle) /\ Returns(Find(map))
  /\ openFile' = [openFile EXCEPT ![NewHandle] = [name |-> name, offset |-> 0]]

(* The OpenFile is deleted when the table is full. *)
OpenFound(name) ==
  /\ Put(NewHandle) /\ Returns(Find(map))
  /\ openFile' = IF Find(map) = -1 THEN openFile
                 ELSE [openFile EXCEPT ![NewHandle] = [name |-> name, offset |-> 0]]

Open_Syscall(vaddr, len) ==
  LET name == CString(Buffer(vaddr, len))
  IN \/ CopyinFails(vaddr, len)
     \/ /\ Copyin(vaddr, len)
        /\ IF name = << >> THEN Returns(-1) /\ UNCHANGED <<map, table, openFile>>
           ELSE IF unixFile[name] = NULL
           THEN Returns(-1) /\ UNCHANGED <<map, table, openFile>>
           ELSE OpenFound(name)
        /\ UNCHANGED <<unixFile, console>>

(* OpenFile::Write; UNIX fills a gap behind the end with zeros. *)
Written(content, offset, bytes) ==
  LET end == offset + Len(bytes)
      size == IF bytes = << >> \/ end < Len(content) THEN Len(content) ELSE end
  IN [k \in 1 .. size |->
        IF k \in offset + 1 .. end THEN bytes[k - offset]
        ELSE IF k <= Len(content) THEN content[k] ELSE 0]

FileWrite(h, bytes) ==
  LET f == openFile[h]
  IN /\ unixFile' = [unixFile EXCEPT ![f.name] = Written(@, f.offset, bytes)]
     /\ openFile' = [openFile EXCEPT ![h].offset = @ + Len(bytes)]

(* Ids 0 and 1 are ConsoleInput and ConsoleOutput. *)
Write_Syscall(vaddr, len, id) ==
  IF id = 0
  THEN Returns(0) /\ Fetched({}, {}) /\ UNCHANGED <<mainMemory, fileVars>>
  ELSE \/ CopyinFails(vaddr, len)
       \/ /\ Copyin(vaddr, len) /\ Returns(0)
          /\ IF id = 1
             THEN /\ console' = console \o Buffer(vaddr, len)
                  /\ UNCHANGED <<openFile, unixFile>>
             ELSE IF Get(id) = NULL THEN UNCHANGED <<openFile, unixFile, console>>
             ELSE FileWrite(Get(id), Buffer(vaddr, len)) /\ UNCHANGED console
          /\ UNCHANGED <<map, table>>

(* OpenFile::Read. *)
FileRead(h, len) ==
  LET f == openFile[h]
      end == IF f.offset + len < Len(unixFile[f.name]) THEN f.offset + len
             ELSE Len(unixFile[f.name])
  IN SubSeq(unixFile[f.name], f.offset + 1, end)

(* What is typed at the console is any word; the buffer behind a shorter    *)
(* one holds anything.  scanf writes a word of len characters or more past  *)
(* the end of the buffer: the call goes on as if it had not, or Nachos dies. *)
Read_Syscall(vaddr, len, id) ==
  LET h == Get(id)
      bytes == FileRead(h, len)
  IN /\ CASE id = 1 -> Returns(-1) /\ Fetched({}, {}) /\ UNCHANGED <<mainMemory, openFile>>
          [] id = 0 -> /\ \/ \E typed \in [1 .. len -> Byte] : Copyout(vaddr, typed, len)
                          \/ Abort
                       /\ UNCHANGED openFile
          [] id \notin {0, 1} /\ h = NULL ->
               Returns(-1) /\ Fetched({}, {}) /\ UNCHANGED <<mainMemory, openFile>>
          [] id \notin {0, 1} /\ h # NULL ->
               /\ Copyout(vaddr, bytes, Len(bytes))
               /\ openFile' = [openFile EXCEPT ![h].offset = @ + Len(bytes)]
     /\ UNCHANGED <<map, table, unixFile, console>>

Close_Syscall(fd) ==
  /\ Remove(fd) /\ Returns(0) /\ Fetched({}, {})
  /\ openFile' = IF Get(fd) = NULL THEN openFile ELSE [openFile EXCEPT ![Get(fd)] = NULL]
  /\ UNCHANGED <<mainMemory, unixFile, console>>

HaltMachine ==
  /\ registers' = Trapped(0) /\ exception' = "Syscall" /\ status' = "halted"
  /\ Fetched({}, {}) /\ UNCHANGED <<mainMemory, tlb, fileVars>>

(* Codes of userprog/syscall.h. *)
SC_Create == ToInt(4)
SC_Open == ToInt(5)
SC_Read == ToInt(6)
SC_Write == ToInt(7)
SC_Close == ToInt(8)

(* ExceptionHandler of a SYSCALL; an unknown code is SC_Halt. *)
ExceptionHandler ==
  LET r == Trapped(0)
  IN CASE r[2] = SC_Create -> Create_Syscall(r[4], r[5])
       [] r[2] = SC_Open -> Open_Syscall(r[4], r[5])
       [] r[2] = SC_Read -> Read_Syscall(r[4], r[5], r[6])
       [] r[2] = SC_Write -> Write_Syscall(r[4], r[5], r[6])
       [] r[2] = SC_Close -> Close_Syscall(r[4])
       [] OTHER -> HaltMachine

-----------------------------------------------------------------------------
(* Running. *)

Running == stage = "run" /\ status = "user" /\ executed < Here.steps
Counted(i) == instr' = i /\ executed' = executed + 1

Instruction ==
  \E i \in Here.code :
     /\ Running /\ OneInstruction(i) /\ Counted(i)
     /\ UNCHANGED userVars

Syscall ==
  \E i \in Here.code :
     /\ Running /\ i.op = "SYSCALL" /\ Accessible(registers[PCReg], 4, FALSE)
     /\ ExceptionHandler /\ Counted(i)
     /\ UNCHANGED <<scenario, stage, noff>>

Fault ==
  /\ Running /\ FetchFaults /\ Counted([instr EXCEPT !.op = "none"])
  /\ UNCHANGED userVars

(* The instructions that put a system call's arguments in place. *)
Prepare(c) ==
  /\ Running
  /\ registers' = [DelayedLoad(registers, 0, 0) EXCEPT
                     ![2] = ToInt(c[1]), ![4] = c[2], ![5] = c[3], ![6] = c[4]]
  /\ UNCHANGED <<mainMemory, pageTable, tlb, status, exception, mipsVars, userVars>>

(* A scenario starts with a COFF file, or with a program in memory. *)
Init ==
  /\ scenario \in DOMAIN Scenarios
  /\ stage = Here.stage /\ noff = Here.noff
  /\ registers \in Here.registers /\ pageTable \in Here.tables /\ tlb \in Here.tlb
  /\ mainMemory = [a \in Memory |-> IF a % 3 = 0 THEN 1 ELSE 0]
  /\ status = (IF stage = "run" THEN "user" ELSE "idle") /\ exception = "NoException"
  /\ instr = [op |-> "none", rs |-> 0, rt |-> 0, rd |-> 0, extra |-> 0] /\ executed = 0
  /\ map = (IF stage = "run" THEN {0, 1} ELSE {}) /\ table = [i \in Ids |-> NULL]
  /\ openFile = [h \in 1 .. MaxHandles |-> NULL]
  /\ unixFile = [n \in Name |-> NULL] /\ console = << >>

Next ==
  \/ Convert \/ StartProcess \/ StartNothing
  \/ Instruction \/ Syscall \/ Fault
  \/ \E c \in Here.calls : Prepare(c)

Spec == Init /\ [][Next]_allVars

-----------------------------------------------------------------------------
(* Properties. *)

Handles == {h \in 1 .. MaxHandles : openFile[h] # NULL}

(* The file table has a bit and a slot for each id, and ids only there; a   *)
(* stage belongs to what has been built so far.                             *)
UserTypeOK ==
  /\ map \subseteq Ids /\ table \in [Ids -> {NULL} \cup 1 .. MaxHandles]
  /\ \A h \in Handles : openFile[h].name \in Name /\ openFile[h].offset \in Nat
  /\ stage \in {"coff", "noff", "refused", "returned", "run"}
  /\ (stage = "coff" \/ stage = "refused") => status = "idle"

(* No OpenFile is lost or deleted twice: each one is in exactly one slot of *)
(* the table, whose bit is set, also after Open found the table full, and a *)
(* slot in use holds one that exists.                                       *)
HandlesExact ==
  /\ UserTypeOK
  /\ \A h \in Handles : Cardinality({i \in map : table[i] = h}) = 1
  /\ \A i \in Ids : table[i] # NULL => i \in map /\ table[i] \in Handles

(* An id keeps the file it stands for, and 0 and 1 the console, until the   *)
(* program closes that id: no other Open gets it.                           *)
IdsStable ==
  [][\A i \in map :
        (i \notin map' \/ table'[i] # table[i]) =>
           /\ Executes({"SYSCALL"})
           /\ Trapped(0)[2] = SC_Close /\ Trapped(0)[4] = i]_allVars

(* A system call that returns has left the machine as an instruction that   *)
(* does nothing would have: the program counters, which ExceptionHandler    *)
(* moves on itself, also when the call is in the delay slot of a branch,    *)
(* and the load that was pending.  Register 2 alone has the result.         *)
SyscallResumes ==
  [][(Executes({"SYSCALL"}) /\ status' = "user") =>
        registers' = [Completed(registers, NextPC4, 0, 0) EXCEPT
                        ![2] = registers'[2], ![BadVAddrReg] = 0]]_allVars

(* A trap comes between two instructions: the load that was pending has     *)
(* arrived, the instruction that trapped has done nothing, and a system     *)
(* call that returns goes on as any other instruction.                      *)
TrapsPrecise == LoadsArrive /\ FaultsRestartable /\ SyscallResumes

(* A program that the linker laid out without gaps from address 0, and that *)
(* coff2noff takes, is in memory as the linker saw it when it starts: each  *)
(* section at its address, below the stack, and zeros everywhere else.      *)
ImageLoaded ==
  (stage = "run" /\ executed = 0 /\ Here.coff # NULL) =>
     LET sections == SX!Range(Here.coff.sections)
         inside(s) == s.addr .. s.addr + Len(s.bytes) - 1
         space == 0 .. NumPages(noff) * PageSize - 1
     IN /\ \A s \in sections : \A a \in inside(s) :
             /\ mainMemory[a] = s.bytes[a - s.addr + 1]
             /\ Accessible(a, 1, TRUE) /\ PhysAddr(a) = a
             /\ a < NumPages(noff) * PageSize - UserStackSize
        /\ \A a \in space \ UNION {inside(s) : s \in sections} : mainMemory[a] = 0
=============================================================================
