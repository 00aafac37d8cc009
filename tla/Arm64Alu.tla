------------------------------ MODULE Arm64Alu ------------------------------
(***************************************************************************)
(* The integer instructions of arm64: what the emitted LLVM code computes  *)
(* for each, and what the processor does.  A machine is a record of        *)
(* registers, flags and, on the translator's side, flagsWritten.           *)
(*                                                                         *)
(* An instruction is a record: op is the mnemonic without the W suffix, w  *)
(* says whether it had one, a and b are the sources and d the destination  *)
(* in the order of the text (a two-operand form has b = d).  A source is a *)
(* register or the value of an immediate.  Registers have XBits bits       *)
(* (64 in the source), their W halves WBits (32) and a byte ByteBits (8).  *)
(***************************************************************************)
EXTENDS ArmFlags, WordOps

CONSTANTS XBits, WBits, ByteBits, ZR

ASSUME WidthsAssumption ==
  /\ ByteBits \in Nat \ {0} /\ WBits \in Nat \ {0}
  /\ WBits % (2 * ByteBits) = 0
  /\ XBits = 2 * WBits /\ XBits =< MaxBits

Width(i) == IF i.w THEN WBits ELSE XBits

(***************************************************************************)
(* Operands.                                                               *)
(***************************************************************************)
LoadReg(m, r) == IF r = ZR THEN 0 ELSE m.reg[r]

StoreReg(m, r, v) == IF r = ZR THEN m ELSE [m EXCEPT !.reg[r] = v]

Eval(m, o) == IF o = ZR \/ o \in DOMAIN m.reg THEN LoadReg(m, o) ELSE o

\* A source at the width of the instruction.
Source(i, m, o) == Trunc(Width(i), Eval(m, o))

\* The setFlags functions note that flags have been written.
StoreFlags(m, f) == [m EXCEPT !.f = f, !.written = TRUE]

(***************************************************************************)
(* Addition, subtraction and logic.                                        *)
(***************************************************************************)
LowerAddSub(i, m) ==
  LET h == SignBit(XBits)
      a == Eval(m, i.a)
      b == Eval(m, i.b)
      r == IF i.op = "SUB" THEN SubW(h, b, a) ELSE AddW(h, b, a)
      stored == StoreReg(m, i.d, r)
  IN  IF i.op = "ADDS" THEN StoreFlags(stored, FlagsOfAdd(h, b, a, r))
                       ELSE stored

LowerAddSubWord(i, m) ==
  LET h == SignBit(WBits)
      a == Source(i, m, i.a)
      b == Source(i, m, i.b)
  IN  StoreReg(m, i.d, IF i.op = "SUB" THEN SubW(h, b, a) ELSE AddW(h, b, a))

LowerCarry(i, m) ==
  LET h == SignBit(XBits)
      a == Eval(m, i.a)
      b == Eval(m, i.b)
      r == IF i.op \in {"SBC", "SBCS"}
           THEN SubW(h, SubW(h, b, a), Bool2Int(~m.f.c))
           ELSE AddW(h, AddW(h, b, a), Bool2Int(m.f.c))
      stored == StoreReg(m, i.d, r)
  IN  CASE i.op = "ADCS" -> StoreFlags(stored, FlagsOfAdd(h, b, a, r))
        [] i.op = "SBCS" -> StoreFlags(stored, FlagsOfSub(h, b, a, r))
        [] OTHER -> stored

LowerSubs(i, m) ==
  LET h == SignBit(XBits)
      a == Eval(m, i.a)
      b == Eval(m, i.b)
      r == SubW(h, b, a)
  IN  StoreFlags(StoreReg(m, i.d, r), FlagsOfSub(h, b, a, r))

LowerSubsWord(i, m) ==
  LET h == SignBit(WBits)
      a == Source(i, m, i.a)
      b == Source(i, m, i.b)
      r == SubW(h, b, a)
  IN  StoreReg(StoreFlags(m, FlagsOfSub(h, b, a, r)), i.d, r)

LowerLogic(i, m) ==
  LET a == Source(i, m, i.a)
      b == Source(i, m, i.b)
      r == CASE i.op \in {"AND", "ANDS"} -> AndW(b, a)
             [] i.op = "EOR" -> XorW(b, a)
             [] i.op = "ORR" -> OrW(b, a)
      stored == StoreReg(m, i.d, r)
  IN  IF i.op = "ANDS"
      THEN StoreFlags(stored, FlagsOfLogic(SignBit(Width(i)), r))
      ELSE stored

LowerAndsWord(i, m) ==
  LET r == AndW(Source(i, m, i.b), Source(i, m, i.a))
  IN  StoreFlags(StoreReg(m, i.d, r), FlagsOfLogic(SignBit(WBits), r))

LowerTest(i, m) ==
  LET r == AndW(Source(i, m, i.b), Source(i, m, i.a))
  IN  StoreFlags(m, FlagsOfLogic(SignBit(Width(i)), r))

LowerBic(i, m) ==
  LET clear == XorW(Source(i, m, i.a), 2^Width(i) - 1)
  IN  StoreReg(m, i.d, AndW(Source(i, m, i.b), clear))

LowerMvn(i, m) ==
  StoreReg(m, i.d, XorW(Source(i, m, i.a), 2^Width(i) - 1))

LowerNeg(i, m) ==
  StoreReg(m, i.d, SubW(SignBit(XBits), 0, Eval(m, i.a)))

(***************************************************************************)
(* Comparisons.  CMP a, b compares b with a; CCMP lists the left side      *)
(* first.                                                                  *)
(***************************************************************************)
LowerCmp(i, m) ==
  LET h == SignBit(Width(i))
      a == Source(i, m, i.a)
      b == Source(i, m, i.b)
  IN  StoreFlags(m, FlagsOfSub(h, b, a, SubW(h, b, a)))

LowerCmn(i, m) ==
  LET h == SignBit(XBits)
      a == Eval(m, i.a)
      b == Eval(m, i.b)
  IN  StoreFlags(m, FlagsOfAdd(h, b, a, AddW(h, b, a)))

LowerCondCompare(i, m) ==
  StoreFlags(m, FlagsOfCondCompare(SignBit(Width(i)), i.cond, m.f,
                                   Source(i, m, i.a), Source(i, m, i.b),
                                   i.nzcv, i.op = "CCMN"))

(***************************************************************************)
(* Multiplication and division.  udiv by zero is undefined in LLVM; the    *)
(* select that follows it comes too late, so anything may be stored.       *)
(***************************************************************************)
LowerMul(i, m) ==
  StoreReg(m, i.d, MulW(Width(i), Source(i, m, i.b), Source(i, m, i.a)))

LowerMulHigh(i, m) ==
  StoreReg(m, i.d, (Eval(m, i.a) * Eval(m, i.b)) \div 2^XBits)

\* The third source is taken for the addend.
LowerMulAdd(i, m) ==
  LET h == SignBit(Width(i))
      product == MulW(Width(i), Source(i, m, i.a), Source(i, m, i.b))
      c == Source(i, m, i.c)
  IN  StoreReg(m, i.d, IF i.op = "MADD" THEN AddW(h, product, c)
                                        ELSE SubW(h, c, product))

LowerUdiv(i, m) ==
  LET a == Eval(m, i.a)
  IN  StoreReg(m, i.d, IF a = 0 THEN Poison ELSE Eval(m, i.b) \div a)

(***************************************************************************)
(* Shifts.  An immediate amount is below the width (the translator rejects *)
(* others); an amount in a register is masked.                             *)
(***************************************************************************)
\* A mutant of Amount: the amount in a register is used as it is.
AmountUnmasked(i, m) == Source(i, m, i.a)

Amount(i, m) == Source(i, m, i.a) % Width(i)

LowerShift(i, m) ==
  LET x == Source(i, m, i.b)
  IN  StoreReg(m, i.d, IF i.op = "LSL" THEN Shl(Width(i), x, Amount(i, m))
                                       ELSE Lshr(Width(i), x, Amount(i, m)))

LowerAsr(i, m) ==
  StoreReg(m, i.d, Ashr(Width(i), Source(i, m, i.b), Amount(i, m)))

\* lshr by s, or with shl by (n - s) & (n - 1).
LowerRotate(n, x, s) == OrW(Lshr(n, x, s), Shl(n, x, (n - s) % n))

LowerRor(i, m) ==
  StoreReg(m, i.d, LowerRotate(Width(i), Source(i, m, i.b), Amount(i, m)))

LowerExtr(i, m) ==
  StoreReg(m, i.d, OrW(Lshr(XBits, Eval(m, i.b), i.shift),
                       Shl(XBits, Eval(m, i.a), (XBits - i.shift) % XBits)))

(***************************************************************************)
(* Reversals.                                                              *)
(***************************************************************************)
LowerBits(i, m) ==
  LET x == Eval(m, i.a)
  IN  StoreReg(m, i.d, IF i.op = "RBIT" THEN Swap(XBits, 1, x)
                                        ELSE Ctlz(XBits, x))

\* 0x00ff00ff...
EvenBytes(n) ==
  CHOOSE mask \in 0 .. 2^n - 1 :
    \A j \in 0 .. n \div ByteBits - 1 :
      Field(mask, j * ByteBits, ByteBits) =
        IF j % 2 = 0 THEN 2^ByteBits - 1 ELSE 0

LowerRev(i, m) ==
  LET n == Width(i)
      x == Source(i, m, i.a)
      low  == AndW(x, EvenBytes(n))
      high == AndW(x, NotW(n, EvenBytes(n)))
  IN  StoreReg(m, i.d,
        CASE i.op = "REV"   -> Swap(n, ByteBits, x)
          [] i.op = "REV16" -> OrW(Shl(n, low, ByteBits),
                                   Lshr(n, high, ByteBits))
          [] i.op = "REV32" -> LowerRotate(XBits, Swap(XBits, ByteBits, x),
                                           WBits))

(***************************************************************************)
(* Bit fields: lsb + width is at most the width of the instruction.        *)
(***************************************************************************)
ExtractBits(n, x, lsb, width, isSigned) ==
  LET value == AndW(Lshr(n, x, lsb), 2^width - 1)
  IN  IF isSigned THEN Ashr(n, Shl(n, value, n - width), n - width)
                  ELSE value

\* A mutant of InsertBits: the field of the destination is not cleared.
InsertBitsOver(n, src, dst, dstLSB, width, srcLSB) ==
  OrW(dst, Shl(n, AndW(Lshr(n, src, srcLSB), 2^width - 1), dstLSB))

InsertBits(n, src, dst, dstLSB, width, srcLSB) ==
  LET mask  == 2^width - 1
      field == Shl(n, AndW(Lshr(n, src, srcLSB), mask), dstLSB)
      kept  == AndW(dst, NotW(n, Shl(n, mask, dstLSB)))
  IN  OrW(kept, field)

LowerBitfield(i, m) ==
  LET n   == Width(i)
      src == Source(i, m, i.b)
      dst == Source(i, m, i.d)
  IN  StoreReg(m, i.d,
        CASE i.op = "BFI"   -> InsertBits(n, src, dst, i.lsb, i.width, 0)
          [] i.op = "BFXIL" -> InsertBits(n, src, dst, 0, i.width, i.lsb)
          [] i.op = "UBFX"  -> ExtractBits(n, src, i.lsb, i.width, FALSE)
          [] i.op = "SBFX"  -> ExtractBits(n, src, i.lsb, i.width, TRUE)
          [] i.op = "UBFIZ" ->
               Shl(n, ExtractBits(n, src, 0, i.width, FALSE), i.lsb)
          [] i.op = "SBFIZ" ->
               Shl(n, ExtractBits(n, src, 0, i.width, TRUE), i.lsb))

(***************************************************************************)
(* Conditional selection.                                                  *)
(***************************************************************************)
LowerSelect(i, m) ==
  LET n == Width(i)
      h == SignBit(n)
      b == Source(i, m, i.b)
      other == CASE i.op = "CSEL"  -> b
                 [] i.op = "CSINC" -> AddW(h, b, 1)
                 [] i.op = "CSINV" -> XorW(b, 2^n - 1)
                 [] i.op = "CSNEG" -> SubW(h, 0, b)
  IN  StoreReg(m, i.d,
               IF CondValue(i.cond, m.f) THEN Source(i, m, i.a) ELSE other)

LowerSet(i, m) ==
  LET one == IF i.op = "CSETM" THEN 2^Width(i) - 1 ELSE 1
  IN  StoreReg(m, i.d, IF CondValue(i.cond, m.f) THEN one ELSE 0)

LowerCondChange(i, m) ==
  LET n == Width(i)
      h == SignBit(n)
      x == Source(i, m, i.a)
      changed == CASE i.op = "CINC" -> AddW(h, x, 1)
                   [] i.op = "CINV" -> XorW(x, 2^n - 1)
                   [] i.op = "CNEG" -> SubW(h, 0, x)
  IN  StoreReg(m, i.d, IF CondValue(i.cond, m.f) THEN changed ELSE x)

(***************************************************************************)
(* Two instructions written as WORD: ANDS ZR, a, a and SUBS d, b, #a.      *)
(***************************************************************************)
LowerRawWord(i, m) ==
  IF i.op = "WORD_TST"
  THEN StoreFlags(m, FlagsOfLogic(SignBit(XBits), Eval(m, i.a)))
  ELSE LowerSubs(i, m)
=============================================================================
