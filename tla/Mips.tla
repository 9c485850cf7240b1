-------------------------------- MODULE Mips --------------------------------
(***************************************************************************)
(* The simulated processor: Machine::OneInstruction, DelayedLoad and Mult  *)
(* (machine/mipssim.cc), RaiseException (machine/machine.cc) and the way   *)
(* the kernel resumes a program after a system call (IncreasePC,           *)
(* userprog/exception.cc), in the build with SIM_FIX.                      *)
(*                                                                         *)
(* A word has four bytes of ByteBits bits, least significant byte first.   *)
(* Words are kept unsigned; Signed is what an int shows.  Instructions are *)
(* given as Decode leaves them, and are read from program, not memory.     *)
(***************************************************************************)
EXTENDS Integers, Sequences, Bitwise

CONSTANTS
    ByteBits,     \* 8
    NumGPRegs,    \* 32
    MemorySize,   \* bytes the program may access, a multiple of 4
    SysResult,    \* what a system call returns
    Start         \* initial states: [program, r, mem]

W == 4 * ByteBits
Word == 0..2^W - 1
Reg == 0..NumGPRegs - 1
R31 == NumGPRegs - 1

VARIABLES
    program,             \* the instruction at each address / 4 + 1
    r, hi, lo,           \* general registers, HiReg, LoReg
    pc, nextPC,          \* PCReg, NextPCReg
    loadReg, loadValue,  \* the load that is under way
    mem,                 \* the bytes of memory
    trap                 \* the exception raised last, "" if none

vars == <<program, r, hi, lo, pc, nextPC, loadReg, loadValue, mem, trap>>

Wrap(x) == x % 2^W
Signed(x) == IF x >= 2^(W - 1) THEN x - 2^W ELSE x
Low(x) == x % 2^(2 * ByteBits)
Bool(b) == IF b THEN 1 ELSE 0

\* Registers hold words, register 0 holds 0, and memory holds bytes.
TypeOK ==
    /\ r \in [Reg -> Word] /\ r[0] = 0
    /\ hi \in Word /\ lo \in Word
    /\ pc \in Word /\ nextPC \in Word
    /\ loadReg \in Reg /\ loadValue \in Word
    /\ mem \in [0..MemorySize - 1 -> 0..2^ByteBits - 1]

Init ==
    /\ \E s \in Start : program = s.program /\ r = s.r /\ mem = s.mem
    /\ hi = 0 /\ lo = 0
    /\ pc = 0 /\ nextPC = 4
    /\ loadReg = 0 /\ loadValue = 0
    /\ trap = ""

-----------------------------------------------------------------------------
(* What an instruction computes from the registers g.  The operators take  *)
(* g so that the properties can ask for other registers than r.            *)

\* C's division, which truncates.
Quotient(a, b) ==
    LET q == (IF a < 0 THEN -a ELSE a) \div (IF b < 0 THEN -b ELSE b)
    IN IF (a < 0) = (b < 0) THEN q ELSE -q
Remainder(a, b) == a - b * Quotient(a, b)

\* The loop of Mult: the bits of a select shifted values of b.  a is shifted
\* as an int, so its sign comes in from the left.
RECURSIVE MultLoop(_, _, _, _, _, _)
MultLoop(i, a, bHi, bLo, h, l) ==
    IF i = W THEN <<h, l>>
    ELSE LET l2 == Wrap(l + bLo)
             h2 == Wrap(h + Bool(l2 < bLo) + bHi)
             bHi2 == Wrap(2 * bHi) + Bool(bLo >= 2^(W - 1))
         IN IF a % 2 = 1 /\ a \in {0, 1} THEN <<h2, l2>>
            ELSE MultLoop(i + 1, a \div 2, bHi2, Wrap(2 * bLo),
                          IF a % 2 = 1 THEN h2 ELSE h, IF a % 2 = 1 THEN l2 ELSE l)

\* Mutant of Mult: the carry into the high word is lost when the result is
\* negated.
MultNoCarry(a, b, signedArith) ==
    LET negative == signedArith /\ (Signed(a) < 0) # (Signed(b) < 0)
        Abs(x) == IF signedArith /\ Signed(x) < 0 THEN Wrap(-x) ELSE x
        p == MultLoop(0, Signed(Abs(a)), 0, Abs(b), 0, 0)
    IN IF a = 0 \/ b = 0 THEN <<0, 0>>
       ELSE IF negative THEN <<2^W - 1 - p[1], Wrap(2^W - p[2])>>
       ELSE p

\* Mult: the high and the low word of the product.
Mult(a, b, signedArith) ==
    LET negative == signedArith /\ (Signed(a) < 0) # (Signed(b) < 0)
        Abs(x) == IF signedArith /\ Signed(x) < 0 THEN Wrap(-x) ELSE x
        p == MultLoop(0, Signed(Abs(a)), 0, Abs(b), 0, 0)
        negLo == Wrap(2^W - p[2])
    IN IF a = 0 \/ b = 0 THEN <<0, 0>>
       ELSE IF negative THEN <<Wrap(2^W - 1 - p[1] + Bool(negLo = 0)), negLo>>
       ELSE p

\* Instructions that may overflow: the wrapped result, and whether the signs
\* of the operands (and of the sum) say that it did.
SignBit(x) == x >= 2^(W - 1)
Sum(i, g) ==
    IF i.op = "SUB" THEN Wrap(g[i.rs] - g[i.rt])
    ELSE IF i.op = "ADD" THEN Wrap(g[i.rs] + g[i.rt])
    ELSE Wrap(g[i.rs] + i.extra)

Overflows(i, g) ==
    LET b == IF i.op = "ADDI" THEN Wrap(i.extra) ELSE g[i.rt]
        a == g[i.rs] IN
    IF i.op = "SUB" THEN SignBit(a) # SignBit(b) /\ SignBit(a) # SignBit(Sum(i, g))
    ELSE SignBit(a) = SignBit(b) /\ SignBit(b) # SignBit(Sum(i, g))

\* Instructions that write a register: rd, or rt for an immediate operand.
RegisterOps == {"ADDU", "AND", "NOR", "OR", "SLL", "SLLV", "SLT", "SLTU", "SRA",
                "SRAV", "SRL", "SRLV", "SUBU", "XOR", "MFHI", "MFLO"}
ImmediateOps == {"ADDIU", "ANDI", "LUI", "ORI", "SLTI", "SLTIU", "XORI"}

AluValue(i, g) ==
    LET a == g[i.rs]
        b == g[i.rt]
        shift == IF i.op \in {"SLLV", "SRAV", "SRLV"} THEN a % W ELSE i.extra IN
    CASE i.op = "ADDU" -> Wrap(a + b)
      [] i.op = "ADDIU" -> Wrap(a + i.extra)
      [] i.op = "SUBU" -> Wrap(a - b)
      [] i.op = "AND" -> a & b
      [] i.op = "ANDI" -> a & Low(i.extra)
      [] i.op = "OR" -> a | b
      [] i.op = "ORI" -> a | Low(i.extra)
      [] i.op = "XOR" -> a ^^ b
      [] i.op = "XORI" -> a ^^ Low(i.extra)
      [] i.op = "NOR" -> 2^W - 1 - (a | b)
      [] i.op = "LUI" -> Wrap(i.extra * 2^(2 * ByteBits))
      [] i.op = "SLT" -> Bool(Signed(a) < Signed(b))
      [] i.op = "SLTI" -> Bool(Signed(a) < i.extra)
      [] i.op = "SLTU" -> Bool(a < b)
      [] i.op = "SLTIU" -> Bool(a < Wrap(i.extra))
      [] i.op \in {"SLL", "SLLV"} -> Wrap(b * 2^shift)
      [] i.op \in {"SRA", "SRAV", "SRL", "SRLV"} -> Wrap(Signed(b) \div 2^shift)
      [] i.op = "MFHI" -> hi
      [] i.op = "MFLO" -> lo

\* Instructions that write HiReg and LoReg: <<hi, lo>>.
HiLoOps == {"DIV", "DIVU", "MULT", "MULTU", "MTHI", "MTLO"}
HiLo(i, g) ==
    LET a == g[i.rs]
        b == g[i.rt] IN
    CASE i.op = "MTHI" -> <<a, lo>>
      [] i.op = "MTLO" -> <<hi, a>>
      [] i.op = "MULT" -> Mult(a, b, TRUE)
      [] i.op = "MULTU" -> Mult(a, b, FALSE)
      [] i.op \in {"DIV", "DIVU"} /\ b = 0 -> <<0, 0>>
      [] i.op = "DIV" /\ b # 0 -> <<Wrap(Remainder(Signed(a), Signed(b))),
                                    Wrap(Quotient(Signed(a), Signed(b)))>>
      [] i.op = "DIVU" /\ b # 0 -> <<a % b, a \div b>>

\* Branches and jumps: the address after that of the delay slot.
Branches == {"BEQ", "BNE", "BGEZ", "BGEZAL", "BGTZ", "BLEZ", "BLTZ", "BLTZAL"}
Jumps == {"J", "JAL", "JR", "JALR"}

\* The return address goes into a register.  Register 0 holds it until the
\* end of the instruction.
Links == {"BGEZAL", "BLTZAL", "JAL", "JALR"}
LinkReg(i) == IF i.op = "JALR" THEN i.rd ELSE R31
Linked(i, g) == IF i.op \in Links THEN [g EXCEPT ![LinkReg(i)] = Wrap(nextPC + 4)] ELSE g

\* The link is written before the registers are read.
Taken(i, g) ==
    LET a == g[i.rs] IN
    CASE i.op = "BEQ" -> a = g[i.rt]
      [] i.op = "BNE" -> a # g[i.rt]
      [] i.op \in {"BGEZ", "BGEZAL"} -> ~SignBit(a)
      [] i.op \in {"BLTZ", "BLTZAL"} -> SignBit(a)
      [] i.op = "BGTZ" -> Signed(a) > 0
      [] i.op = "BLEZ" -> Signed(a) <= 0
      [] i.op \in Jumps -> TRUE
      [] OTHER -> FALSE

\* The upper four bits of a jump's target are those of the next address.
PcAfter(i, g) ==
    LET region == 2^(W - 4) IN
    IF ~Taken(i, g) THEN Wrap(nextPC + 4)
    ELSE IF i.op \in Branches THEN Wrap(nextPC + 4 * i.extra)
    ELSE IF i.op \in {"JR", "JALR"} THEN g[i.rs]
    ELSE (Wrap(nextPC + 4) \div region) * region + ((4 * i.extra) % region)

-----------------------------------------------------------------------------
(* Loads and stores                                                        *)

Address(i, g) == Wrap(g[i.rs] + i.extra)
SizeOf(i) == CASE i.op \in {"LB", "LBU", "SB"} -> 1
               [] i.op \in {"LH", "LHU", "SH"} -> 2
               [] OTHER -> 4
Loads == {"LB", "LBU", "LH", "LHU", "LW"}
Stores == {"SB", "SH", "SW"}
UnalignedLoads == {"LWL", "LWR"}
UnalignedStores == {"SWL", "SWR"}

\* The address that is accessed: that of the whole word for LWL and the like.
Accessed(i, g) ==
    IF i.op \in UnalignedLoads \cup UnalignedStores
    THEN Address(i, g) - (Address(i, g) % 4)
    ELSE Address(i, g)

\* Translate refuses it.
Faults(i, g) ==
    LET a == Accessed(i, g)
    IN a % SizeOf(i) # 0 \/ a + SizeOf(i) > MemorySize

\* n bytes at a, as ReadMem returns them; the byte k of a word.
MemValue(m, a, n) ==
    LET B(k) == m[a + k] * 2^(k * ByteBits) IN
    CASE n = 1 -> B(0) [] n = 2 -> B(0) + B(1)
      [] n = 4 -> B(0) + B(1) + B(2) + B(3)
ByteOf(x, k) == (x \div 2^(k * ByteBits)) % 2^ByteBits

\* The sign of a byte or a halfword is extended for LB and LH.
LoadedValue(i, g) ==
    LET v == MemValue(mem, Accessed(i, g), SizeOf(i))
        bits == SizeOf(i) * ByteBits
    IN IF i.op \in {"LB", "LH"} /\ v >= 2^(bits - 1) THEN Wrap(v - 2^bits) ELSE v

\* LWL and LWR replace the upper or the lower bytes of the register, which
\* may still be on its way from the load before.
Upper(x, n) == (x \div 2^(n * ByteBits)) * 2^(n * ByteBits)   \* without n bytes
Lower(x, n) == x % 2^(n * ByteBits)                           \* only n bytes

\* Mutant of MergedValue: LWL does not keep the lower bytes.
MergedValueAlone(i, g) ==
    LET value == MemValue(mem, Accessed(i, g), 4)
        byte == Address(i, g) % 4
        old == IF loadReg = i.rt THEN loadValue ELSE g[i.rt] IN
    IF i.op = "LWL" THEN Wrap(value * 2^((3 - byte) * ByteBits))
    ELSE Upper(old, 4 - byte) + (value \div 2^(byte * ByteBits))

MergedValue(i, g) ==
    LET value == MemValue(mem, Accessed(i, g), 4)
        byte == Address(i, g) % 4
        old == IF loadReg = i.rt THEN loadValue ELSE g[i.rt] IN
    IF i.op = "LWL" THEN Wrap(value * 2^((3 - byte) * ByteBits)) + Lower(old, 3 - byte)
    ELSE Upper(old, 4 - byte) + (value \div 2^(byte * ByteBits))

\* The word or the part of it that a store puts into memory.
StoredValue(i, g) ==
    LET value == MemValue(mem, Accessed(i, g), 4)
        byte == Address(i, g) % 4
        new == g[i.rt] IN
    CASE i.op = "SWL" -> Upper(value, byte + 1) + (new \div 2^((3 - byte) * ByteBits))
      [] i.op = "SWR" -> Lower(value, byte) + Wrap(new * 2^(byte * ByteBits))
      [] OTHER -> new

StoredMemory(i, g) ==
    LET a == Accessed(i, g) IN
    [x \in DOMAIN mem |-> IF x - a \in 0..SizeOf(i) - 1
                          THEN ByteOf(StoredValue(i, g), x - a) ELSE mem[x]]

-----------------------------------------------------------------------------
(* OneInstruction                                                          *)

\* The exception that an instruction raises, "" if none.
Exception(i, g) ==
    CASE i.op \in {"ADD", "ADDI", "SUB"} -> IF Overflows(i, g) THEN "Overflow" ELSE ""
      [] i.op \in Loads \cup Stores \cup UnalignedLoads \cup UnalignedStores ->
            IF Faults(i, g) THEN "AddressError" ELSE ""
      [] i.op = "SYSCALL" -> "Syscall"
      [] i.op \in {"RES", "UNIMP"} -> "IllegalInstr"
      [] OTHER -> ""

\* The registers after the instruction, without the loads.
Written(i, g) ==
    CASE i.op \in {"ADD", "SUB"} -> [g EXCEPT ![i.rd] = Sum(i, g)]
      [] i.op = "ADDI" -> [g EXCEPT ![i.rt] = Sum(i, g)]
      [] i.op \in RegisterOps -> [g EXCEPT ![i.rd] = AluValue(i, g)]
      [] i.op \in ImmediateOps -> [g EXCEPT ![i.rt] = AluValue(i, g)]
      [] OTHER -> Linked(i, g)

\* The load that the instruction starts.
NextLoad(i, g) ==
    CASE i.op \in Loads -> <<i.rt, LoadedValue(i, g)>>
      [] i.op \in UnalignedLoads -> <<i.rt, MergedValue(i, g)>>
      [] OTHER -> <<0, 0>>

\* DelayedLoad: the load under way arrives; register 0 stays zero.
DelayedLoad(g) == [g EXCEPT ![loadReg] = loadValue, ![0] = 0]

Fetched == program[(pc \div 4) + 1]
Executing == trap \in {"", "Syscall"}
InProgram == pc % 4 = 0 /\ (pc \div 4) + 1 \in DOMAIN program

\* Mutant of Raise: the load under way is not applied before the trap.
RaiseLate(e) ==
    /\ r' = IF e = "Syscall" THEN [r EXCEPT ![2] = SysResult] ELSE r
    /\ trap' = e
    /\ IF e = "Syscall" THEN pc' = Wrap(pc + 4) /\ nextPC' = Wrap(pc + 8)
       ELSE UNCHANGED <<pc, nextPC>>
    /\ UNCHANGED <<program, hi, lo, mem, loadReg, loadValue>>

\* RaiseException, and the handler: all exceptions but a system call halt the
\* machine.  A system call writes its result into register 2, and IncreasePC
\* goes on behind the SYSCALL.
Raise(e) ==
    /\ r' = IF e = "Syscall" THEN [DelayedLoad(r) EXCEPT ![2] = SysResult]
            ELSE DelayedLoad(r)
    /\ loadReg' = 0 /\ loadValue' = 0
    /\ trap' = e
    /\ IF e = "Syscall" THEN pc' = Wrap(pc + 4) /\ nextPC' = Wrap(pc + 8)
       ELSE UNCHANGED <<pc, nextPC>>
    /\ UNCHANGED <<program, hi, lo, mem>>

Complete(i) ==
    LET g == Linked(i, r) IN
    /\ r' = DelayedLoad(Written(i, r))
    /\ loadReg' = NextLoad(i, r)[1] /\ loadValue' = NextLoad(i, r)[2]
    /\ IF i.op \in HiLoOps THEN hi' = HiLo(i, r)[1] /\ lo' = HiLo(i, r)[2]
       ELSE UNCHANGED <<hi, lo>>
    /\ mem' = IF i.op \in Stores \cup UnalignedStores THEN StoredMemory(i, r) ELSE mem
    /\ pc' = nextPC
    /\ nextPC' = PcAfter(i, g)
    /\ trap' = ""
    /\ UNCHANGED program

\* The processor that runs the simulator traps a division that overflows:
\* the simulation ends.
DivTraps(i) ==
    i.op = "DIV" /\ Signed(r[i.rs]) = -(2^(W - 1)) /\ Signed(r[i.rt]) = -1

OneInstruction ==
    /\ Executing /\ InProgram
    /\ IF Exception(Fetched, r) # "" THEN Raise(Exception(Fetched, r))
       ELSE ~DivTraps(Fetched) /\ Complete(Fetched)

HostTrap ==
    /\ Executing /\ InProgram /\ DivTraps(Fetched)
    /\ trap' = "HostTrap"
    /\ UNCHANGED <<program, r, hi, lo, pc, nextPC, loadReg, loadValue, mem>>

\* The program counter leaves the program: ReadMem of the instruction fails.
FetchFault == Executing /\ ~InProgram /\ Raise("AddressError")

\* Interrupt::CheckIfDue, before a handler runs: the load under way arrives.
Interrupt ==
    /\ Executing /\ loadReg # 0
    /\ r' = DelayedLoad(r)
    /\ loadReg' = 0 /\ loadValue' = 0
    /\ UNCHANGED <<program, hi, lo, pc, nextPC, mem, trap>>

Next == OneInstruction \/ HostTrap \/ FetchFault \/ Interrupt

Spec == Init /\ [][Next]_vars

-----------------------------------------------------------------------------
(* Properties                                                              *)

\* The step executes the instruction at pc.
Executes == Executing /\ InProgram /\ ~Interrupt

\* The registers a program counts on: the load under way has arrived.
Visible == [x \in Reg |-> IF x = 0 THEN 0 ELSE IF x = loadReg THEN loadValue ELSE r[x]]

\* The registers an instruction reads or writes, but for a load's target.
Touched(i) ==
    (IF i.op \in Loads \cup UnalignedLoads THEN {i.rs}
     ELSE {i.rs, i.rt, i.rd} \cup (IF i.op \in Links THEN {LinkReg(i)} ELSE {})) \ {0}

\* The delay of loads does not show in a program that leaves the register of a
\* load alone in the instruction behind it (LWL and LWR may follow each other):
\* every instruction then has the effect, or raises the exception, it has when
\* loads arrive at once, and an interrupt between two instructions changes
\* nothing.  OneInstruction and DelayedLoad, mipssim.cc.
DelayIsInvisible ==
    LET i == Fetched
        v == Visible
        load == NextLoad(i, v)
    IN /\ Interrupt => Visible' = Visible
       /\ Executes /\ loadReg \notin Touched(i) /\ trap' # "HostTrap" =>
         /\ trap' = Exception(i, v)
         /\ trap' = "" =>
              /\ Visible' = [Written(i, v) EXCEPT
                               ![load[1]] = IF load[1] = 0 THEN @ ELSE load[2], ![0] = 0]
              /\ mem' = IF i.op \in Stores \cup UnalignedStores
                        THEN StoredMemory(i, v) ELSE mem
              /\ nextPC' = PcAfter(i, Linked(i, v))
              /\ i.op \in HiLoOps => <<hi', lo'>> = HiLo(i, v)

\* An instruction that raises an exception has no effect of its own: the
\* kernel sees the registers with every earlier load done, and nothing that
\* arrives later overwrites the result of a system call.  RaiseException,
\* machine.cc.
ExceptionsArePrecise ==
    trap' \in {"Overflow", "AddressError", "IllegalInstr", "Syscall"} =>
        /\ UNCHANGED <<mem, hi, lo>>
        /\ Visible' = [Visible EXCEPT ![2] = IF trap' = "Syscall" THEN SysResult ELSE @]
        /\ trap' # "Syscall" => UNCHANGED <<pc, nextPC>>

\* The pair LWR a, LWL a + 3 loads the word at any address a, and SWR, SWL
\* store it, as Kane's book has it for a little-endian processor.
PairAt(load) ==
    /\ pc = 12 /\ trap = ""
    /\ program[1].op = IF load THEN "LWR" ELSE "SWR"
    /\ program[2].op = IF load THEN "LWL" ELSE "SWL"
    /\ program[2].rt = program[1].rt /\ program[1].rs = 0 /\ program[2].rs = 0
    /\ program[2].extra = program[1].extra + 3
UnalignedLoad ==
    PairAt(TRUE) => r[program[1].rt] = MemValue(mem, program[1].extra, 4)
UnalignedStore ==
    PairAt(FALSE) => r[program[1].rt] = MemValue(mem, program[1].extra, 4)

\* SWR at a changes no byte before a, SWL none after it, and neither leaves
\* its word.
StoresStayInside ==
    LET i == Fetched
        a == Address(i, r)
        word == a - (a % 4)
    IN InProgram /\ i.op \in UnalignedStores => \A x \in DOMAIN mem : mem'[x] # mem[x] =>
         x \in (IF i.op = "SWR" THEN a..word + 3 ELSE word..a)

\* ADD, ADDI and SUB raise the overflow exception exactly when the sum is not
\* the signed number the register would show.
OverflowIsExact ==
    LET i == Fetched
        a == Signed(r[i.rs])
        b == Signed(r[i.rt])
        sum == CASE i.op = "ADD" -> a + b [] i.op = "SUB" -> a - b
                 [] OTHER -> a + i.extra
    IN Executes /\ i.op \in {"ADD", "ADDI", "SUB"} =>
         (trap' = "Overflow") = (sum \notin -(2^(W - 1))..2^(W - 1) - 1)

\* The loop of Mult computes the double-length product, signed or unsigned,
\* for all operands; a division leaves a quotient and a remainder that fit.
ProductIsExact ==
    LET i == Fetched
        S(x) == IF i.op \in {"MULT", "DIV"} THEN Signed(x) ELSE x
        a == S(r[i.rs])
        b == S(r[i.rt])
    IN Executes /\ trap' = "" =>
         /\ i.op \in {"MULT", "MULTU"} => S(hi') * 2^W + lo' = a * b
         /\ i.op \in {"DIV", "DIVU"} /\ b # 0 =>
              /\ a = S(lo') * b + S(hi')
              /\ S(hi') * S(hi') < b * b /\ S(hi') * a >= 0

\* A program sees instructions one after the other: neither the delay of loads
\* nor an exception shows a half-done one.
InstructionsAreAtomic == [][DelayIsInvisible /\ ExceptionsArePrecise]_vars

\* LWL, LWR, SWL and SWR in pairs move the word at any address.
UnalignedWords == TypeOK /\ UnalignedLoad /\ UnalignedStore

\* Partial stores, sums, products and quotients are exact.
WordsAreExact == [][StoresStayInside /\ OverflowIsExact /\ ProductIsExact]_vars
=============================================================================
