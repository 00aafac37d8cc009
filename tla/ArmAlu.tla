------------------------------- MODULE ArmAlu -------------------------------
(***************************************************************************)
(* The integer instructions of arm, as the emitted LLVM code computes      *)
(* them.  Machines and instructions are those of Arm64Alu, with RBits bits *)
(* (32 in the source) to a register; cond is the condition of the          *)
(* instruction ("AL" when it has none), s its S suffix, and shift and      *)
(* amount a shift of the first source (shift = "" for none).  The long     *)
(* multiplications write the pair d (high) and e (low).                    *)
(***************************************************************************)
EXTENDS ArmFlags, WordOps

CONSTANT RBits

ASSUME RBitsAssumption == RBits \in 1 .. MaxBits

Top32 == SignBit(RBits)

Eval32(m, o) == IF o \in DOMAIN m.reg THEN m.reg[o] ELSE o

EvalShift(x, shift, amount) ==
  CASE shift = ""   -> x
    [] shift = "<<" -> Shl(RBits, x, amount)
    [] shift = ">>" -> Lshr(RBits, x, amount)
    [] shift = "->" -> Ashr(RBits, x, amount)
    [] shift = "@>" -> RotateRight(RBits, x, amount % RBits)

Operand2(i, m) == EvalShift(Eval32(m, i.a), i.shift, i.amount)

SelectRegWrite(cond, m, r, v) ==
  IF CondValue(cond, m.f) THEN [m EXCEPT !.reg[r] = v] ELSE m

\* Both registers are selected on one reading of the condition.
SelectRegPairWrite(cond, m, hi, lo, v) ==
  IF CondValue(cond, m.f)
  THEN [m EXCEPT !.reg[hi] = v \div 2^RBits, !.reg[lo] = v % 2^RBits]
  ELSE m

WriteFlags(m, f) == [m EXCEPT !.f = f, !.written = TRUE]

ALUResult(op, lhs, src) ==
  CASE op = "ADD" -> AddW(Top32, lhs, src)
    [] op = "SUB" -> SubW(Top32, lhs, src)
    [] op = "RSB" -> SubW(Top32, src, lhs)
    [] op = "AND" -> AndW(lhs, src)
    [] op = "ORR" -> OrW(lhs, src)
    [] op = "EOR" -> XorW(lhs, src)
    [] op = "BIC" -> AndW(lhs, NotW(RBits, src))

ALUFlags(op, cond, f, lhs, src, r) ==
  CASE op = "ADD" -> StoreZNCV(cond, f, FlagsOfAdd(Top32, lhs, src, r))
    [] op = "SUB" -> StoreZNCV(cond, f, FlagsOfSub(Top32, lhs, src, r))
    [] op = "RSB" -> StoreZNCV(cond, f, FlagsOfSub(Top32, src, lhs, r))
    [] OTHER -> StoreZN(cond, f, FlagsOfLogic(Top32, r))

LowerARMALU(i, m) ==
  LET src == Operand2(i, m)
      lhs == Eval32(m, i.b)
      r == ALUResult(i.op, lhs, src)
      stored == SelectRegWrite(i.cond, m, i.d, r)
  IN  IF i.s THEN WriteFlags(stored, ALUFlags(i.op, i.cond, m.f, lhs, src, r))
             ELSE stored

CompareFlags(op, f, lhs, src) ==
  CASE op = "CMP" -> FlagsOfSub(Top32, lhs, src, SubW(Top32, lhs, src))
    [] op = "CMN" -> FlagsOfAdd(Top32, lhs, src, AddW(Top32, lhs, src))
    [] op = "TST" -> StoreZN("AL", f, FlagsOfLogic(Top32, AndW(lhs, src)))
    [] op = "TEQ" -> StoreZN("AL", f, FlagsOfLogic(Top32, XorW(lhs, src)))

\* The condition of a comparison is not looked at.
LowerARMCompare(i, m) ==
  WriteFlags(m, CompareFlags(i.op, m.f, Eval32(m, i.b), Operand2(i, m)))

LowerARMMVN(i, m) ==
  LET r == NotW(RBits, Operand2(i, m))
      stored == SelectRegWrite(i.cond, m, i.d, r)
  IN  IF i.s THEN WriteFlags(stored, StoreZN(i.cond, m.f, FlagsOfLogic(Top32, r)))
             ELSE stored

LowerARMADCSBC(i, m) ==
  LET src == Operand2(i, m)
      lhs == Eval32(m, i.b)
      cin == m.f.c
      r == IF i.op = "SBC" THEN SubW(Top32, SubW(Top32, lhs, src), Bool2Int(~cin))
                           ELSE AddW(Top32, AddW(Top32, lhs, src), Bool2Int(cin))
      stored == SelectRegWrite(i.cond, m, i.d, r)
  IN  IF ~i.s THEN stored
      ELSE WriteFlags(stored,
             IF i.op = "SBC" THEN StoreSbc(i.cond, m.f, Top32, lhs, src, cin, r)
                             ELSE StoreAdc(i.cond, m.f, Top32, lhs, src, cin, r))

(***************************************************************************)
(* Multiplication and division.  MULAL is lowered as MULALU is.            *)
(***************************************************************************)
LowerARMMUL(i, m) ==
  SelectRegWrite(i.cond, m, i.d,
                 MulW(RBits, Eval32(m, i.a), Eval32(m, i.b)))

LowerARMMULLU(i, m) ==
  SelectRegPairWrite(i.cond, m, i.d, i.e, Eval32(m, i.a) * Eval32(m, i.b))

LowerARMMULA(i, m) ==
  SelectRegWrite(i.cond, m, i.d,
                 AddW(Top32, MulW(RBits, Eval32(m, i.a), Eval32(m, i.b)),
                      Eval32(m, i.c)))

LowerARMMULAL(i, m) ==
  LET old == Eval32(m, i.d) * 2^RBits + Eval32(m, i.e)
      sum == (old + Eval32(m, i.a) * Eval32(m, i.b)) % 2^(2 * RBits)
  IN  SelectRegPairWrite(i.cond, m, i.d, i.e, sum)

\* udiv by zero is undefined; the select after it comes too late.
LowerARMDIVUHW(i, m) ==
  LET divisor == Eval32(m, i.a)
  IN  SelectRegWrite(i.cond, m, i.d,
                     IF divisor = 0 THEN Poison
                                    ELSE Eval32(m, i.b) \div divisor)

LowerARMCLZ(i, m) ==
  SelectRegWrite(i.cond, m, i.d, Ctlz(RBits, Eval32(m, i.a)))
=============================================================================
