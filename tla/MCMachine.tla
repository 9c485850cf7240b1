----------------------------- MODULE MCMachine ------------------------------
(* From an object file to a running program:                                *)
(*   "coff"   coff2noff makes an executable;                                *)
(*   "load"   AddrSpace::Load puts one executable after the other into      *)
(*            memory, for every way in which its segments meet the pages;   *)
(*   "share"  two programs are loaded, run and leave side by side;          *)
(*   "mips"   the processor executes a short program.                       *)
(* Each behaviour is about one of them.                                     *)
EXTENDS AddrSpace, SequencesExt

CONSTANT Loaded  \* headers of the programs for the part "load"

VARIABLES
    part,
    sections, i, noffH, out, status,              \* Coff2Noff
    program, r, hi, lo, cpuPC, nextPC, loadReg, loadValue, mem, trap  \* Mips

-----------------------------------------------------------------------------
(* Executables for AddrSpace: a file is a header of one byte, then the      *)
(* segments in the order in which the linker placed them.                   *)

\* A program linked as code, initialised data, read only data.
Packed(c, d, ro, u) ==
    [code |-> [virtualAddr |-> 0, inFileAddr |-> 1, size |-> c],
     initData |-> [virtualAddr |-> c, inFileAddr |-> 1 + c, size |-> d],
     readonlyData |-> [virtualAddr |-> c + d, inFileAddr |-> 1 + c + d, size |-> ro],
     uninitData |-> [virtualAddr |-> c + d + ro, inFileAddr |-> 0, size |-> u]]

\* As test/script links it: read only data before initialised data.
Scripted(c, d, ro, u) ==
    [Packed(c, d, ro, u) EXCEPT
        !.readonlyData = [virtualAddr |-> c, inFileAddr |-> 1 + c, size |-> ro],
        !.initData = [virtualAddr |-> c + ro, inFileAddr |-> 1 + c + ro, size |-> d]]

TwoSizes == {Packed(3, 2, 0, 0), Packed(2, 0, 0, 0)}
AllSizes == {Packed(c, d, ro, 1) : c \in 0..5, d \in 0..5, ro \in 0..5}
ScriptedSizes == {Scripted(3, d, ro, 1) : d \in 0..2, ro \in 0..2}

Load == INSTANCE AddrSpace WITH Executable <- Loaded

-----------------------------------------------------------------------------
(* Object files as the linker makes them: sections in some order, each      *)
(* behind the one before it.                                                *)

RECURSIVE Placed(_, _, _)
Placed(names, sizes, at) ==
    IF names = <<>> THEN <<>>
    ELSE <<[name |-> Head(names), paddr |-> at, size |-> sizes[Head(names)]]>>
         \o Placed(Tail(names), sizes, at + sizes[Head(names)])

SectionNames == {".text", ".rdata", ".data", ".bss", ".comment"}
Orders == UNION {SetToSeqs(S) : S \in {T \in SUBSET SectionNames : ".text" \in T}}
Sizes == {[n \in SectionNames |-> IF n \in empty THEN 0 ELSE 2] :
             empty \in SUBSET {".data", ".comment"}}
Linked == {Placed(o, z, 0) : o \in Orders, z \in Sizes}

\* Two .bss sections, the second behind the first or behind a gap.
Split == {<<[name |-> ".bss", paddr |-> 0, size |-> 2],
            [name |-> ".bss", paddr |-> b, size |-> 2]>> : b \in {2, 3}}

Convert == INSTANCE Coff2Noff WITH Coff <- Linked \cup Split, HeaderSize <- 1, Undefined <- NULL
NoConvert == INSTANCE Coff2Noff WITH Coff <- {<<>>}, HeaderSize <- 1, Undefined <- NULL

-----------------------------------------------------------------------------
(* Programs for Mips, with bytes of two bits.                               *)

R(op, rd, rs, rt, shamt) == [op |-> op, rd |-> rd, rs |-> rs, rt |-> rt, extra |-> shamt]
I(op, rt, rs, imm) == [op |-> op, rd |-> 0, rs |-> rs, rt |-> rt, extra |-> imm]
Nop == R("SLL", 0, 0, 0, 0)

\* Register 1 has the operand x, register 2 has y.
Registers(x, y) == [n \in 0..3 |-> CASE n = 1 -> x [] n = 2 -> y [] OTHER -> 0]
OneByte(k, v) == [x \in 0..7 |-> IF x = k THEN v ELSE 0]

Controls == {"BEQ", "BNE", "BGEZ", "BGEZAL", "BGTZ", "BLEZ", "BLTZ", "BLTZAL",
             "J", "JAL", "JR", "JALR"}
Pool == {I("LW", 1, 0, 4), I("LW", 2, 0, 0), I("LB", 1, 0, 1), I("LHU", 0, 0, 2),
         I("LWL", 1, 0, 2), I("LWR", 1, 0, 1), I("LW", 1, 0, 2), I("LH", 2, 1, 0),
         R("ADDU", 2, 1, 1, 0), I("ADDI", 1, 1, 1), R("SUB", 1, 2, 1, 0),
         I("SW", 1, 0, 0), I("SB", 1, 2, 0), I("SWR", 2, 0, 3),
         I("BEQ", 2, 1, -2), I("BGEZAL", 0, 1, -1), R("JALR", 2, 1, 0, 0),
         R("JALR", 1, 1, 0, 0), R("JALR", 0, 0, 0, 0),
         I("JAL", 0, 0, 2), R("MULTU", 0, 1, 2, 0), R("MFLO", 1, 0, 0, 0),
         R("SYSCALL", 0, 0, 0, 0), R("UNIMP", 0, 0, 0, 0)}

\* Every sequence of three of these, from registers and memory whose bytes
\* differ; no system call in a delay slot.
Pipeline ==
    {[program |-> p, r |-> Registers(x, 4),
      mem |-> [b \in 0..7 |-> (b * b + 3 * b + 1) % 4]] :
        p \in {q \in [1..3 -> Pool] : \A n \in 1..2 :
                 q[n].op \in Controls => q[n + 1].op # "SYSCALL"},
        x \in {4, 8}}

\* The pairs for unaligned words, at every address.
Pair(op1, op2, a) == <<I(op1, 1, 0, a), I(op2, 1, 0, a + 3), Nop>>
Unaligned ==
    {[program |-> p, r |-> Registers(x, 0), mem |-> OneByte(k, v)] :
        p \in {Pair("LWR", "LWL", a) : a \in 0..4} \cup {Pair("SWR", "SWL", a) : a \in 0..4},
        x \in {0, 27, 228}, k \in 0..7, v \in {1, 3}}

\* One instruction on every pair of operands: small ones, and those next to
\* the limits of signed and unsigned words.
Operand == {0, 1, 2, 3, 11, 64, 126, 127, 128, 129, 192, 254, 255}
Arithmetic ==
    {[program |-> <<x>>, r |-> Registers(a, b), mem |-> OneByte(0, 0)] :
        x \in {R(op, 3, 1, 2, 0) : op \in {"ADDU", "AND", "NOR", "OR", "SLLV", "SLT",
                    "SLTU", "SRAV", "SUBU", "XOR", "MFHI", "MFLO", "ADD", "SUB",
                    "MULT", "MULTU", "DIV", "DIVU", "MTHI", "MTLO"}}
              \cup {I(op, 3, 1, k) : op \in {"ADDI", "ADDIU", "ANDI", "LUI", "ORI",
                        "SLTI", "SLTIU", "XORI"}, k \in {-2, 1}}
              \cup {R(op, 3, 0, 2, 1) : op \in {"SLL", "SRA", "SRL"}}
              \cup {R("SRLV", 3, 1, 2, 0)}
              \cup {I(op, IF op \in {"BEQ", "BNE"} THEN 2 ELSE 0, 1, 1) :
                        op \in Controls \ {"J", "JAL", "JR", "JALR"}}
              \cup {I("J", 0, 0, 1), R("JR", 0, 1, 0, 0), R("RES", 0, 0, 0, 0)},
        a \in Operand, b \in Operand}

Cpu == INSTANCE Mips
         WITH ByteBits <- 2, NumGPRegs <- 4, MemorySize <- 8, SysResult <- 3, pc <- cpuPC,
              Start <- Pipeline \cup Unaligned \cup Arithmetic
NoCpu == INSTANCE Mips
           WITH ByteBits <- 2, NumGPRegs <- 4, MemorySize <- 8, SysResult <- 3, pc <- cpuPC,
                Start <- {[program |-> <<>>, r |-> Registers(0, 0), mem |-> OneByte(0, 0)]}

-----------------------------------------------------------------------------
coffVars == <<sections, i, noffH, out, status>>
cpuVars == <<program, r, hi, lo, cpuPC, nextPC, loadReg, loadValue, mem, trap>>
mcVars == <<part, vars, coffVars, cpuVars>>

MCInit ==
    /\ part \in {"coff", "load", "share", "mips"}
    /\ Init
    /\ IF part = "coff" THEN Convert!Init ELSE NoConvert!Init
    /\ IF part = "mips" THEN Cpu!Init ELSE NoCpu!Init

\* One process at a time, and it does not write.
Alone == Cardinality({p \in Process : pc'[p] # "none"}) <= 1 /\ writes' = 0

MCNext ==
    /\ UNCHANGED part
    /\ \/ part = "coff" /\ Convert!Next /\ UNCHANGED <<vars, cpuVars>>
       \/ part = "load" /\ Load!Next /\ Alone /\ UNCHANGED <<coffVars, cpuVars>>
       \/ part = "share" /\ Next /\ UNCHANGED <<coffVars, cpuVars>>
       \/ part = "mips" /\ Cpu!Next /\ UNCHANGED <<vars, coffVars>>

MCSpec == MCInit /\ [][MCNext]_mcVars
Symmetry == Permutations(Process)

Private == INSTANCE PrivateMemory
             WITH memory <- IF part = "share" THEN Memory ELSE [p \in Process |-> NULL]

\* A program finds the image that its executable describes in its memory, and
\* afterwards only its own writes there: no loading, writing or leaving of
\* another process, and nothing left in a frame by an earlier one, shows.
ImplementsPrivateMemory == Private!Spec


\* Mips: the delay of loads does not show in programs that respect it, and an
\* exception leaves the registers as before the instruction.
InstructionsAreAtomic == Cpu!InstructionsAreAtomic

\* Mips: LWR and LWL load, SWR and SWL store an unaligned word.
UnalignedWords == part = "mips" => Cpu!UnalignedWords

\* Mips: a store changes the bytes it names, overflow is raised exactly when
\* the result does not fit, and hi and lo hold the whole product.
WordsAreExact == Cpu!WordsAreExact
=============================================================================
