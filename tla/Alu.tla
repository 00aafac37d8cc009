--------------------------------- MODULE Alu ---------------------------------
(***************************************************************************)
(* The emitted code runs in step with a processor: at every step the       *)
(* program executes one more integer instruction, chosen from a set of     *)
(* instructions, in its translation (low) and on the processor it was      *)
(* written for (hw).  Words, flags and instructions are those of Arm64Alu, *)
(* ArmAlu and X86Alu; arch says which processor it is.                     *)
(***************************************************************************)
EXTENDS Arm64Arch, ArmArch, X86Arch

CONSTANTS
  Registers,    \* general registers
  A64Program,   \* the arm64 instructions a program is made of
  A32Program,   \* the arm instructions a program is made of
  X86Program    \* the amd64 instructions a program is made of

(***************************************************************************)
(* The arm64 instructions of a program have the operands their lowering    *)
(* accepts: sources are registers and immediates of a word, a bit field    *)
(* lies in the word, and only what has a W form is used in it.  MADD and   *)
(* MSUB have the same register twice, so that the order of their sources,  *)
(* which the lowering mixes up, does not matter; the only TST word that is *)
(* recognised has one register twice.                                      *)
(***************************************************************************)
A64Bitfields == {"BFI", "BFXIL", "UBFX", "SBFX", "UBFIZ", "SBFIZ"}

A64Sets == {"CSET", "CSETM"}

A64Unary ==
  {"NEG", "MVN", "REV", "REV16", "REV32", "RBIT", "CLZ", "CINC", "CINV", "CNEG"}

A64Conditional ==
  A64Sets \cup {"CCMP", "CCMN", "CSEL", "CSINC", "CSINV", "CSNEG",
                "CINC", "CINV", "CNEG"}

A64OnlyWide ==
  {"ADDS", "ADC", "SBC", "ADCS", "SBCS", "NEG", "CMN", "UMULH", "UDIV",
   "EXTR", "REV32", "RBIT", "CLZ", "WORD_TST", "WORD_SUBS"}

A64Source(o) == o \in Registers \cup {ZR} \cup Word(SignBit(XBits))

A64Operands(i) ==
  /\ i.w \in BOOLEAN /\ i.d \in Registers \cup {ZR}
  /\ i.op \in A64OnlyWide => ~i.w
  /\ i.op \notin A64Bitfields \cup A64Sets => A64Source(i.a)
  /\ i.op \notin A64Unary \cup A64Sets => A64Source(i.b)
  /\ i.op \in A64Conditional => i.cond \in Conditions
  /\ i.op \in {"CCMP", "CCMN"} => i.nzcv \in Flags
  /\ i.op = "EXTR" => i.shift \in 1 .. XBits - 1
  /\ i.op \in A64Bitfields =>
       i.lsb \in Nat /\ i.width \in Nat \ {0} /\ i.lsb + i.width =< Width(i)

A64Exact(i) ==
  /\ i.op \in {"MADD", "MSUB"} => i.c = i.b
  /\ i.op = "WORD_TST" => i.b = i.a

(***************************************************************************)
(* Where an instruction is reached with values for which its lowering is   *)
(* known to go wrong, the two sides part; what follows is about the runs   *)
(* that never do.  On arm64 these are the carry of ADCS and SBCS, which is *)
(* read off a comparison with an operand the result equals, and a division *)
(* by zero, whose udiv LLVM leaves undefined (the select comes too late).  *)
(***************************************************************************)
A64Safe(i, h) ==
  /\ i.op = "ADCS" => ~h.f.c \/ Source(i, h, i.a) # 2^XBits - 1
  /\ i.op = "SBCS" => h.f.c \/ Source(i, h, i.a) # Source(i, h, i.b)
  /\ i.op = "UDIV" => Source(i, h, i.a) # 0

(***************************************************************************)
(* The arm instructions of a program have the operands the parser lets     *)
(* through: sources are registers and immediates of a word, shifts are by  *)
(* less than a word.                                                       *)
(***************************************************************************)
A32Source(o) == o \in Registers \cup Word(Top32)

A32Operands(i) ==
  /\ i.cond \in Conditions /\ i.d \in Registers /\ A32Source(i.a)
  /\ i.op # "CLZ" => A32Source(i.b)
  /\ i.op = "MULA" => A32Source(i.c)
  /\ i.op \in {"MULLU", "MULALU"} => i.e \in Registers
  /\ i.op \in DataProcessing =>
       /\ i.s \in BOOLEAN
       /\ i.shift \in {"", "<<", ">>", "->", "@>"}
       /\ i.amount \in 0 .. RBits - 1

(***************************************************************************)
(* On arm the two sides part where a conditional instruction sets flags    *)
(* that make its condition false while they are stored one by one, Z, N, C *)
(* and V (ADC and SBC store C once more, behind V, so a condition that     *)
(* reads C is left out); where the condition of a comparison is false,     *)
(* since the lowering does not look at it; and at a division by zero.      *)
(***************************************************************************)
ReadsCarry == {"HS", "LO", "HI", "LS"}

KeepsHolding(cond, f, new) ==
  LET z   == [f EXCEPT !.z = new.z]
      zn  == [z EXCEPT !.n = new.n]
      znc == [zn EXCEPT !.c = new.c]
  IN  ConditionHolds(cond, z) /\ ConditionHolds(cond, zn) /\ ConditionHolds(cond, znc)

SetsFlags(i) == i.op \in DataProcessing \ Comparisons /\ i.s

NewFlags(i, h) == IF i.op \in Arithmetic THEN ArithOf(i, h).f ELSE LogicOf(i, h).f

A32Safe(i, h) ==
  /\ SetsFlags(i) /\ ConditionHolds(i.cond, h.f) =>
       /\ KeepsHolding(i.cond, h.f, NewFlags(i, h))
       /\ i.op \in {"ADC", "SBC"} =>
            i.cond \notin ReadsCarry /\ ConditionHolds(i.cond, NewFlags(i, h))
  /\ i.op \in Comparisons => ConditionHolds(i.cond, h.f)
  /\ i.op = "DIVUHW" => Eval32(h, i.a) # 0

ASSUME ProgramsAssumption ==
  /\ ZR \notin Registers
  /\ \A i \in A64Program : A64Operands(i) /\ A64Exact(i)
  /\ \A i \in A32Program : A32Operands(i)
  /\ HighByte \in [DOMAIN HighByte -> Registers]
  /\ DOMAIN HighByte \cap Registers = {}
  /\ \A i \in X86Program : i.d \in Registers \cup DOMAIN HighByte

\* The instructions of a program by their names.
ByOp(program) == [o \in {i.op : i \in program} |-> {i \in program : i.op = o}]

A64ByOp == ByOp(A64Program)
A32ByOp == ByOp(A32Program)
X86ByOp == ByOp(X86Program)

VARIABLES arch, low, hw

vars == <<arch, low, hw>>

\* The instructions of these names that may come next: those of another
\* processor never do.
OfOps(a, byOp, ops) ==
  IF arch = a THEN UNION {byOp[o] : o \in ops \cap DOMAIN byOp} ELSE {}

Bits(a) == CASE a = "arm64" -> XBits [] a = "arm" -> RBits
             [] a = "amd64" -> SizeBits.Q

FlagsOn(a) == IF a = "amd64" THEN X86Flags ELSE Flags

Cleared(a) == IF a = "amd64" THEN X86NoFlags ELSE NoFlags

AllSet == [x \in DOMAIN NoFlags |-> TRUE]

\* written says on arm64 and arm whether flags were written, on amd64 which
\* of them are right.
Machine(a) ==
  [reg : [Registers -> Word(SignBit(Bits(a)))], f : FlagsOn(a),
   written : IF a = "amd64" THEN SUBSET {"z", "s", "c", "l", "o"}
                            ELSE BOOLEAN]

(***************************************************************************)
(* At entry the registers hold the same values on both sides.  The flag    *)
(* slots start as false; the flags of an arm64 processor are anything (all *)
(* clear or all set), of which only a program that reads flags it never    *)
(* wrote can tell.  On arm the logical instructions leave C and V alone,   *)
(* so a program may read a V that nobody wrote: it is taken to be false.   *)
(***************************************************************************)
Init ==
  /\ arch \in {"arm64", "arm", "amd64"}
  /\ low \in [reg : [Registers -> Word(SignBit(Bits(arch)))],
              f : {Cleared(arch)},
              written : {IF arch = "amd64" THEN {} ELSE FALSE}]
  /\ \E f \in {Cleared(arch)}
                \cup IF arch = "arm64" THEN {AllSet} ELSE {} :
       hw = [low EXCEPT !.f = f]

(***************************************************************************)
(* arm64.  An instruction that reads flags is only translated after one    *)
(* that writes them (condValue reports an error); ADC and SBC are not      *)
(* checked, but a program that means them has written the carry before.    *)
(***************************************************************************)
ReadsFlags(i) ==
  i.op \in {"ADC", "SBC", "ADCS", "SBCS", "CCMP", "CCMN", "CSEL", "CSINC",
            "CSINV", "CSNEG", "CINC", "CINV", "CNEG", "CSET", "CSETM"}

Execute64(i, lowered, architectural) ==
  /\ ReadsFlags(i) => low.written
  /\ A64Safe(i, hw)
  /\ low' = lowered
  /\ hw' = architectural
  /\ UNCHANGED arch

A64Of(ops) == OfOps("arm64", A64ByOp, ops)

AddSub == \E i \in A64Of({"ADD", "SUB", "ADDS"}) :
  Execute64(i, IF i.w THEN LowerAddSubWord(i, low) ELSE LowerAddSub(i, low),
            ArchArith(i, hw))

AddSubCarry == \E i \in A64Of({"ADC", "SBC", "ADCS", "SBCS"}) :
  Execute64(i, LowerCarry(i, low), ArchArith(i, hw))

SubSetFlags == \E i \in A64Of({"SUBS"}) :
  Execute64(i, IF i.w THEN LowerSubsWord(i, low) ELSE LowerSubs(i, low),
            ArchArith(i, hw))

Neg == \E i \in A64Of({"NEG"}) :
  Execute64(i, LowerNeg(i, low), ArchArith(i, hw))

Logic == \E i \in A64Of({"AND", "ANDS", "ORR", "EOR"}) :
  Execute64(i, IF i.w /\ i.op = "ANDS" THEN LowerAndsWord(i, low)
                                       ELSE LowerLogic(i, low),
            ArchLogic(i, hw))

Test == \E i \in A64Of({"TST"}) :
  Execute64(i, LowerTest(i, low), ArchLogic(i, hw))

Bic == \E i \in A64Of({"BIC"}) :
  Execute64(i, LowerBic(i, low), ArchLogic(i, hw))

Mvn == \E i \in A64Of({"MVN"}) :
  Execute64(i, LowerMvn(i, low), ArchLogic(i, hw))

Compare == \E i \in A64Of({"CMP", "CMN"}) :
  Execute64(i, IF i.op = "CMP" THEN LowerCmp(i, low) ELSE LowerCmn(i, low),
            ArchCompare(i, hw))

CondCompare == \E i \in A64Of({"CCMP", "CCMN"}) :
  Execute64(i, LowerCondCompare(i, low), ArchCompare(i, hw))

Multiply == \E i \in A64Of({"MUL"}) :
  Execute64(i, LowerMul(i, low), ArchMultiply(i, hw))

MultiplyHigh == \E i \in A64Of({"UMULH"}) :
  Execute64(i, LowerMulHigh(i, low), ArchMultiply(i, hw))

MultiplyAdd == \E i \in A64Of({"MADD", "MSUB"}) :
  Execute64(i, LowerMulAdd(i, low), ArchMultiply(i, hw))

Divide == \E i \in A64Of({"UDIV"}) :
  Execute64(i, LowerUdiv(i, low), ArchMultiply(i, hw))

Shift == \E i \in A64Of({"LSL", "LSR"}) :
  Execute64(i, LowerShift(i, low), ArchShift(i, hw))

ShiftArith == \E i \in A64Of({"ASR"}) :
  Execute64(i, LowerAsr(i, low), ArchShift(i, hw))

Rotate == \E i \in A64Of({"ROR"}) :
  Execute64(i, LowerRor(i, low), ArchShift(i, hw))

Extract == \E i \in A64Of({"EXTR"}) :
  Execute64(i, LowerExtr(i, low), ArchExtr(i, hw))

BitCount == \E i \in A64Of({"RBIT", "CLZ"}) :
  Execute64(i, LowerBits(i, low), ArchBits(i, hw))

Reverse == \E i \in A64Of({"REV", "REV16", "REV32"}) :
  Execute64(i, LowerRev(i, low), ArchReverse(i, hw))

Bitfield ==
  \E i \in A64Of({"BFI", "BFXIL", "UBFX", "SBFX", "UBFIZ", "SBFIZ"}) :
    Execute64(i, LowerBitfield(i, low), ArchBitfield(i, hw))

Select == \E i \in A64Of({"CSEL", "CSINC", "CSINV", "CSNEG"}) :
  Execute64(i, LowerSelect(i, low), ArchSelect(i, hw))

Set == \E i \in A64Of({"CSET", "CSETM"}) :
  Execute64(i, LowerSet(i, low), ArchSelect(i, hw))

CondChange == \E i \in A64Of({"CINC", "CINV", "CNEG"}) :
  Execute64(i, LowerCondChange(i, low), ArchSelect(i, hw))

RawWordTest == \E i \in A64Of({"WORD_TST"}) :
  Execute64(i, LowerRawWord(i, low), ArchLogic(i, hw))

RawWordSubs == \E i \in A64Of({"WORD_SUBS"}) :
  Execute64(i, LowerRawWord(i, low), ArchArith(i, hw))

(***************************************************************************)
(* arm: every instruction has a condition, and only AL asks for no flags.  *)
(***************************************************************************)
Execute32(i, lowered, architectural) ==
  /\ i.cond # "AL" \/ i.op \in {"ADC", "SBC"} => low.written
  /\ A32Safe(i, hw)
  /\ low' = lowered
  /\ hw' = architectural
  /\ UNCHANGED arch

A32Of(ops) == OfOps("arm", A32ByOp, ops)

ARMALU == \E i \in A32Of({"ADD", "SUB", "RSB", "AND", "ORR", "EOR", "BIC"}) :
  Execute32(i, LowerARMALU(i, low), ArchARM(i, hw))

ARMCompare == \E i \in A32Of({"CMP", "CMN", "TST", "TEQ"}) :
  Execute32(i, LowerARMCompare(i, low), ArchARM(i, hw))

ARMMVN == \E i \in A32Of({"MVN"}) :
  Execute32(i, LowerARMMVN(i, low), ArchARM(i, hw))

ARMADCSBC == \E i \in A32Of({"ADC", "SBC"}) :
  Execute32(i, LowerARMADCSBC(i, low), ArchARM(i, hw))

ARMMUL == \E i \in A32Of({"MUL"}) :
  Execute32(i, LowerARMMUL(i, low), ArchARMMultiply(i, hw))

ARMMULA == \E i \in A32Of({"MULA"}) :
  Execute32(i, LowerARMMULA(i, low), ArchARMMultiply(i, hw))

ARMMULLU == \E i \in A32Of({"MULLU"}) :
  Execute32(i, LowerARMMULLU(i, low), ArchARMLong(i, hw))

ARMMULAL == \E i \in A32Of({"MULALU"}) :
  Execute32(i, LowerARMMULAL(i, low), ArchARMLong(i, hw))

ARMDIVUHW == \E i \in A32Of({"DIVUHW"}) :
  Execute32(i, LowerARMDIVUHW(i, low), ArchARMDivide(i, hw))

ARMCLZ == \E i \in A32Of({"CLZ"}) :
  Execute32(i, LowerARMCLZ(i, low), ArchARMClz(i, hw))

(***************************************************************************)
(* amd64.  Any flag may be read that the instructions before it left right *)
(* (Exact of X86Arch); the processor's other flags are forgotten, as no    *)
(* program of the model reads them.                                        *)
(***************************************************************************)
Forget(f, exact) ==
  [x \in DOMAIN f |->
     f[x] /\ (x \in exact \/ (x \in {"s", "o"} /\ "l" \in exact))]

Execute86(i, lowered, architectural) ==
  LET exact == Exact(i, architectural.f, low.written)
  IN  /\ Needs(i) \subseteq low.written
      /\ X86Defined(i, hw)
      /\ low' = [lowered EXCEPT !.written = exact]
      /\ hw' = [architectural EXCEPT !.f = Forget(@, exact)]
      /\ UNCHANGED arch

X86Of(ops, sizes) ==
  {i \in OfOps("amd64", X86ByOp, ops) : i.sz \in sizes}

Sizes == {"B", "W", "L", "Q"}

X86Arith == \E i \in X86Of({"ADD", "SUB", "XOR", "AND", "OR"}, Sizes) :
  Execute86(i, LowerX86Arith(i, low), ArchX86Arith(i, hw))

X86Carry == \E i \in X86Of({"ADC", "SBB"}, Sizes) :
  Execute86(i, LowerX86Carry(i, low), ArchX86Arith(i, hw))

X86Chain == \E i \in X86Of({"ADCX", "ADOX"}, {"Q"}) :
  Execute86(i, LowerX86Chain(i, low), ArchX86Chain(i, hw))

X86Step == \E i \in X86Of({"INC", "DEC"}, {"L", "Q"}) :
  Execute86(i, LowerX86Step(i, low), ArchX86Step(i, hw))

X86Neg == \E i \in X86Of({"NEG"}, {"L", "Q"}) :
  Execute86(i, LowerX86Neg(i, low), ArchX86Arith(i, hw))

X86Rcr == \E i \in X86Of({"RCR"}, {"Q"}) :
  Execute86(i, LowerX86Rcr(i, low), ArchX86Rcr(i, hw))

X86Cmp == \E i \in X86Of({"CMP"}, Sizes) :
  Execute86(i, LowerX86Cmp(i, low), ArchX86Cmp(i, hw))

X86Test == \E i \in X86Of({"TEST"}, Sizes) :
  Execute86(i, LowerX86Test(i, low), ArchX86Test(i, hw))

X86BitTest == \E i \in X86Of({"BT", "BTS", "BTR"}, {"Q"}) :
  Execute86(i, LowerX86BitTest(i, low), ArchX86BitTest(i, hw))

X86Set == \E i \in X86Of({"SET"}, {"B"}) :
  Execute86(i, LowerX86Set(i, low), ArchX86Set(i, hw))

X86Cmov == \E i \in X86Of({"CMOV"}, {"Q"}) :
  Execute86(i, LowerX86Cmov(i, low), ArchX86Cmov(i, hw))

X86Scan == \E i \in X86Of({"BSF", "BSR"}, {"W", "L", "Q"}) :
  Execute86(i, LowerX86Scan(i, low), ArchX86Scan(i, hw))

X86Tzcnt == \E i \in X86Of({"TZCNT"}, {"Q"}) :
  Execute86(i, LowerX86Tzcnt(i, low), ArchX86Tzcnt(i, hw))

X86Popcnt == \E i \in X86Of({"POPCNT"}, {"L", "Q"}) :
  Execute86(i, LowerX86Popcnt(i, low), ArchX86Popcnt(i, hw))

X86Bswap == \E i \in X86Of({"BSWAP"}, {"L", "Q"}) :
  Execute86(i, LowerX86Bswap(i, low), ArchX86Bswap(i, hw))

X86Not == \E i \in X86Of({"NOT"}, {"B", "L", "Q"}) :
  Execute86(i, LowerX86Not(i, low), ArchX86Not(i, hw))

X86Andn == \E i \in X86Of({"ANDN"}, {"L", "Q"}) :
  Execute86(i, LowerX86Andn(i, low), ArchX86Andn(i, hw))

X86Bextr == \E i \in X86Of({"BEXTR"}, {"Q"}) :
  Execute86(i, LowerX86Bextr(i, low), ArchX86Bextr(i, hw))

X86Bzhi == \E i \in X86Of({"BZHI"}, {"Q"}) :
  Execute86(i, LowerX86Bzhi(i, low), ArchX86Bzhi(i, hw))

X86Shift == \E i \in X86Of({"SHL", "SHR", "SAR", "SAL"}, {"L", "Q"}) :
  Execute86(i, LowerX86Shift(i, low), ArchX86Shift(i, hw))

X86ShortShift == \E i \in X86Of({"SHL", "SHR", "SAR", "SAL"}, {"B", "W"}) :
  Execute86(i, LowerX86ShortShift(i, low), ArchX86Shift(i, hw))

X86ShiftX == \E i \in X86Of({"SHLX", "SHRX"}, {"Q"}) :
  Execute86(i, LowerX86ShiftX(i, low), ArchX86ShiftX(i, hw))

X86Rotate == \E i \in X86Of({"ROL", "ROR", "RORX"}, {"L", "Q"}) :
  Execute86(i, LowerX86Rotate(i, low), ArchX86Rotate(i, hw))

X86DoubleShift == \E i \in X86Of({"SHLD", "SHRD"}, {"L", "Q"}) :
  Execute86(i, LowerDoubleShift(i, low), ArchX86DoubleShift(i, hw))

X86Mul == \E i \in X86Of({"MUL"}, {"L", "Q"}) :
  Execute86(i, LowerX86Mul(i, low), ArchX86Mul(i, hw))

X86Mulx == \E i \in X86Of({"MULX"}, {"Q"}) :
  Execute86(i, LowerX86Mulx(i, low), ArchX86Mul(i, hw))

X86Div == \E i \in X86Of({"DIV"}, {"L"}) :
  Execute86(i, LowerX86Div(i, low), ArchX86Div(i, hw))

X86Imul == \E i \in X86Of({"IMUL1", "IMUL2", "IMUL3"}, {"L", "Q"}) :
  Execute86(i, LowerX86Imul(i, low), ArchX86Imul(i, hw))

X86Mov == \E i \in X86Of({"MOV", "MOVZX", "MOVSX"}, Sizes) :
  Execute86(i, LowerX86Mov(i, low), ArchX86Mov(i, hw))

A64Next ==
  \/ AddSub \/ AddSubCarry \/ SubSetFlags \/ Neg \/ Logic \/ Test \/ Bic
  \/ Mvn \/ Compare \/ CondCompare \/ Multiply \/ MultiplyHigh
  \/ MultiplyAdd \/ Divide \/ Shift \/ ShiftArith \/ Rotate \/ Extract
  \/ BitCount \/ Reverse
  \/ Bitfield \/ Select \/ Set \/ CondChange \/ RawWordTest \/ RawWordSubs

A32Next ==
  \/ ARMALU \/ ARMCompare \/ ARMMVN \/ ARMADCSBC \/ ARMMUL \/ ARMMULA
  \/ ARMMULLU \/ ARMMULAL \/ ARMDIVUHW \/ ARMCLZ

X86Next ==
  \/ X86Arith \/ X86Carry \/ X86Chain \/ X86Step \/ X86Neg \/ X86Rcr
  \/ X86Cmp \/ X86Test \/ X86BitTest \/ X86Set \/ X86Cmov \/ X86Scan
  \/ X86Tzcnt \/ X86Popcnt \/ X86Bswap \/ X86Not \/ X86Andn \/ X86Bextr
  \/ X86Bzhi \/ X86Shift \/ X86ShortShift \/ X86ShiftX \/ X86Rotate
  \/ X86DoubleShift \/ X86Mul \/ X86Mulx \/ X86Div \/ X86Imul \/ X86Mov

Next == A64Next \/ A32Next \/ X86Next

Spec == Init /\ [][Next]_vars

(***************************************************************************)
(* Properties.                                                             *)
(***************************************************************************)

\* Every register holds a word of the machine's width: no shift by the
\* width or more, whose result LLVM leaves open, ever reaches a register.
TypeOK ==
  /\ arch \in {"arm64", "arm", "amd64"}
  /\ low \in Machine(arch)
  /\ hw \in Machine(arch)

\* After any sequence of instructions the emitted code has the register
\* values the processor has.
RegistersAgree == low.reg = hw.reg

\* On arm64 and arm, once an instruction has written flags, all four slots
\* hold what the processor's flags are, whichever of the program's instructions
\* wrote them last and under whatever condition, as long as no instruction was
\* reached that is not safe: then the order of the stores (arm_flags.go:41), the
\* ignored condition of a comparison (arm_lower_arith.go:32) or the carry of
\* ADCS and SBCS (arm64_lower_arith.go:106) would make them differ.
FlagsAgree == arch # "amd64" /\ low.written => low.f = hw.f

\* On amd64 the slots that count as right after an instruction are: a slot
\* survives the instructions that leave its flag alone, and less-than is the
\* processor's s # o, after a comparison of any size and after arithmetic
\* that did not overflow.
SlotsExact ==
  arch = "amd64" =>
    /\ \A x \in {"z", "s", "c", "o"} : x \in low.written => low.f[x] = hw.f[x]
    /\ "l" \in low.written => low.f.s = (hw.f.s # hw.f.o)

=============================================================================
