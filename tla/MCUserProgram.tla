---------------------------- MODULE MCUserProgram ----------------------------
(***************************************************************************)
(* User programs on a machine with one-bit bytes, hence words of four bits  *)
(* and sixteen addresses.  Each scenario enumerates another part: every     *)
(* pair of operands for the arithmetic, every table for the memory, jumps   *)
(* in each other's delay slots, linker files, and system calls.             *)
(***************************************************************************)
EXTENDS UserProgram, TLC

CONSTANT MaxSteps   \* instructions of the scenario with system calls

I(op, rs, rt, rd, extra) == [op |-> op, rs |-> rs, rt |-> rt, rd |-> rd, extra |-> extra]

Regs(r1, r2, r31) ==
  [r \in Register |-> CASE r = 1 -> r1 [] r = 2 -> r2 [] r = 31 -> r31
                        [] r = NextPCReg -> 4 [] OTHER -> 0]

MapTo(frame, valid, readOnly) ==
  [virtualPage |-> 0, physicalPage |-> frame, valid |-> valid,
   readOnly |-> readOnly, use |-> FALSE, dirty |-> FALSE]
At4(frames) == [i \in 0 .. Len(frames) - 1 |->
                  [MapTo(frames[i + 1], TRUE, FALSE) EXCEPT !.virtualPage = i]]
Straight == At4(<<0, 1, 2, 3>>)

NoCoff == [coff |-> NULL, stage |-> "run", noff |-> NULL, tlb |-> {FALSE},
           tables |-> {Straight}, calls |-> {}]

Arithmetic ==
  [registers |-> {Regs(a, b, 0) : a \in Word, b \in Word}, steps |-> 1,
   code |-> {I(op, 1, 2, 4, 0) : op \in
               {"ADD", "ADDU", "SUB", "SUBU", "AND", "OR", "NOR", "XOR", "SLT", "SLTU",
                "SLLV", "SRAV", "SRLV", "MULT", "MULTU", "DIV", "DIVU", "MFHI", "MFLO",
                "MTHI", "MTLO"}}
            \cup {I(op, 1, 2, 4, x) : op \in {"SLL", "SRA", "SRL"}, x \in 0 .. 3}
            \cup {I(op, 1, 2, 4, x) : op \in Immediate, x \in -2 .. 1}] @@ NoCoff

Accesses ==
  [registers |-> {Regs(a, b, 0) : a \in {0, 4, 7, -6, -8}, b \in {1, 6, -7}}, steps |-> 2,
   tlb |-> {FALSE, TRUE},
   tables |-> {At4(<<1, 0>>),
               [At4(<<0, 4, -1, 1>>) EXCEPT ![3].readOnly = TRUE],
               [At4(<<0, 4, 1, 1>>) EXCEPT ![1].readOnly = TRUE],
               [At4(<<0, 2, 1, 3>>) EXCEPT ![1].valid = FALSE, ![0].readOnly = TRUE],
               [At4(<<0, 2, 3>>) EXCEPT ![2].virtualPage = 1, ![1].virtualPage = 3]},
   code |-> {I(op, 1, 2, 4, x) : op \in Load \cup Store, x \in {0, 1}}
            \cup {I("ADD", 2, 1, 2, 0), I("LW", 0, 0, 0, 0), I("SYSCALL", 0, 0, 0, 0),
                  I("RES", 0, 0, 0, 0), I("MULT", 1, 2, 0, 0)}] @@ NoCoff

Jumps ==
  [registers |-> {Regs(a, b, c) : a \in {0, 4, -1}, b \in {0, -8}, c \in {-8, 6}}, steps |-> 3,
   tables |-> {Straight, At4(<<0, 1, 2>>)},
   code |-> {I(op, r, 2, 0, x) : op \in BranchOps, r \in {1, 31}, x \in {-1, 1}}
            \cup {I("J", 0, 0, 0, 1), I("JAL", 0, 0, 0, 0), I("JR", 31, 0, 0, 0),
                  I("JALR", 1, 0, 31, 0), I("JALR", 1, 0, 1, 0), I("LW", 0, 31, 0, 0),
                  I("SYSCALL", 0, 0, 0, 0)}] @@ NoCoff

(* Two pages share a frame, one is read-only and one is not there. *)
Calls ==
  [registers |-> {Regs(0, 0, 0)}, steps |-> MaxSteps,
   tables |-> {[At4(<<0, 0, 2, 3>>) EXCEPT ![2].readOnly = TRUE, ![3].valid = FALSE]},
   code |-> {I("SYSCALL", 0, 0, 0, 0), I("BEQ", 0, 0, 0, -2)},
   calls |-> {<<4, 3, 1, 0>>, <<4, 3, 2, 0>>, <<4, 1, 1, 0>>, <<4, -5, 2, 0>>,
              <<5, 3, 1, 0>>, <<5, 3, 2, 0>>, <<5, 1, 1, 0>>, <<5, -5, 2, 0>>,
              <<6, 5, 2, 0>>, <<6, 5, 2, 1>>, <<6, 5, 2, 2>>, <<6, 7, 2, 0>>, <<6, 7, 2, 3>>,
              <<7, 3, 2, 0>>, <<7, 3, 2, 1>>, <<7, 3, 2, 2>>, <<7, -5, 2, 1>>, <<7, 2, 1, 3>>,
              <<8, 0, 0, 0>>, <<8, 2, 0, 0>>, <<8, 3, 0, 0>>, <<0, 0, 0, 0>>}] @@ NoCoff

Section(name, addr, bytes) == [name |-> name, addr |-> addr, bytes |-> bytes]
Coff(magic, system, sections) == [magic |-> magic, system |-> system, sections |-> sections]

Text == Section(".text", 0, <<1, 0, 1, 1>>)
Data == Section(".data", 4, <<0, 1, 1>>)
Bss == Section(".bss", 7, <<0, 0>>)

Coffs ==
  <<Coff("MIPSEL", "OMAGIC", <<Text, Data, Bss>>),
    Coff("MIPSEL", "OMAGIC", <<Text, Section(".rdata", 4, << >>), Data, Bss>>),
    Coff("MIPSEL", "OMAGIC", <<Data, Text>>),
    Coff("MIPSEL", "OMAGIC", <<Text, Section(".bss", 4, <<0, 0, 0, 0, 0>>)>>),
    Coff("MIPSEL", "OMAGIC", <<Text, Section(".bss", 4, [k \in 1 .. 9 |-> 0])>>),
    Coff("MIPSEL", "OMAGIC", <<Text, Data, Section(".rdata", 7, <<1>>)>>),
    Coff("MIPSEL", "OMAGIC", <<Text, Data, Bss, Section(".sbss", 9, <<0>>)>>),
    Coff("MIPSEL", "OMAGIC", <<Text, Section(".comment", 4, <<1>>)>>),
    Coff("MIPSEB", "OMAGIC", <<Text>>),
    Coff("MIPSEL", "NMAGIC", <<Text>>)>>

Loading(coff) ==
  [coff |-> coff, stage |-> "coff", noff |-> NULL, tlb |-> {FALSE}, tables |-> {At4(<< >>)},
   registers |-> {Regs(1, 1, 1)}, steps |-> 1, calls |-> {}, code |-> {I("SYSCALL", 0, 0, 0, 0)}]

(* A file that coff2noff did not make. *)
Foreign == [Loading(NULL) EXCEPT !.stage = "noff", !.noff = [EmptyNoff EXCEPT !.ok = FALSE]]

MCScenarios ==
  [k \in 1 .. 5 + Len(Coffs) |->
     CASE k = 1 -> Arithmetic [] k = 2 -> Accesses [] k = 3 -> Jumps [] k = 4 -> Calls
       [] k = 5 -> Foreign [] k > 5 -> Loading(Coffs[k - 5])]
MCName == {<<1>>, <<1, 1>>}
MCGPR == {0, 1, 2, 4, 5, 6, 29, 31}
=============================================================================
