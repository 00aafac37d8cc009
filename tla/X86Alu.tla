------------------------------- MODULE X86Alu -------------------------------
(***************************************************************************)
(* The integer instructions of amd64, as the emitted LLVM code computes    *)
(* them.  A machine m has registers and the four flag slots: z, s (the     *)
(* "signed negative-style bit": the sign of a result, or less-than after a *)
(* comparison), c and o.  An instruction i has its name without the size   *)
(* suffix, the size sz ("B", "W", "L", "Q"), the sources a and b           *)
(* (registers or immediates) and the destination d, which a two-operand    *)
(* instruction also reads (CMP and TEST have a and b).  A destination in   *)
(* memory behaves as a register of exactly its size and is not modelled    *)
(* apart.                                                                  *)
(***************************************************************************)
EXTENDS WordOps, FiniteSets

CONSTANTS
  SizeBits,     \* the bits of every size: 8, 16, 32 and 64 in the source
  ShortCounts,  \* the modulus of shift counts of 8 and 16 bits: 32
  ByteValues,   \* the values of a byte of a control word: 256
  HighByte      \* AH, BH, CH, DH: the register each is the second byte of

ASSUME SizesAssumption ==
  /\ SizeBits \in [B : 1 .. MaxBits, W : 1 .. MaxBits,
                   L : 1 .. MaxBits, Q : 1 .. MaxBits]
  /\ 2 * SizeBits.B =< SizeBits.Q
  /\ ShortCounts \in Nat \ {0}
  /\ ByteValues \in Nat \ {0}

X86NoFlags == [z |-> FALSE, s |-> FALSE, c |-> FALSE, o |-> FALSE]

X86Flags == [z : BOOLEAN, s : BOOLEAN, c : BOOLEAN, o : BOOLEAN]

LOCAL Bits(i) == SizeBits[i.sz]
LOCAL H(i) == SignBit(SizeBits[i.sz])

(***************************************************************************)
(* Operands.  A read truncates the register to the size; a write of 8 or   *)
(* 16 bits keeps the other bits, one of 32 clears the upper half.          *)
(***************************************************************************)
EvalIntSized(m, x, n) ==
  CASE x \in DOMAIN HighByte ->
         Field(m.reg[HighByte[x]], SizeBits.B, SizeBits.B)
    [] x \in DOMAIN m.reg -> Trunc(n, m.reg[x])
    [] OTHER -> Trunc(n, x)

MergeAt(old, shift, n, v) ==
  old - Field(old, shift, n) * 2^shift + v * 2^shift

StoreRegSized(m, x, sz, v) ==
  CASE x \in DOMAIN HighByte ->
         [m EXCEPT !.reg[HighByte[x]] = MergeAt(@, SizeBits.B, SizeBits.B, v)]
    [] x \notin DOMAIN HighByte /\ sz \in {"B", "W"} ->
         [m EXCEPT !.reg[x] = MergeAt(@, 0, SizeBits[sz], v)]
    [] OTHER -> [m EXCEPT !.reg[x] = v]

LOCAL Src(i, m) == EvalIntSized(m, i.a, Bits(i))
LOCAL Src2(i, m) == EvalIntSized(m, i.b, Bits(i))
LOCAL Dst(i, m) == EvalIntSized(m, i.d, Bits(i))
LOCAL Write(i, m, v) == StoreRegSized(m, i.d, i.sz, v)

SetZSFlags(m, h, r) == [m EXCEPT !.f.z = r = 0, !.f.s = Negative(h, r)]

(***************************************************************************)
(* ADD, SUB, XOR, AND, OR in four sizes.  Only the 8-bit form computes     *)
(* overflow; the others store false.                                       *)
(***************************************************************************)
ArithCarry(i, dst, src, r) ==
  CASE i.op = "ADD" /\ i.sz \in {"B", "W"} -> dst + src > 2^Bits(i) - 1
    [] i.op = "ADD" /\ i.sz \in {"L", "Q"} -> r < dst
    [] i.op = "SUB" -> dst < src
    [] OTHER -> FALSE

ArithOverflow(i, dst, src, r) ==
  LET sign(x) == Negative(H(i), x)
  IN  /\ i.sz = "B"
      /\ i.op \in {"ADD", "SUB"}
      /\ (sign(dst) = sign(src)) = (i.op = "ADD")
      /\ sign(dst) # sign(r)

LowerX86Arith(i, m) ==
  LET dst == Dst(i, m)
      src == Src(i, m)
      r == CASE i.op = "ADD" -> AddW(H(i), dst, src)
             [] i.op = "SUB" -> SubW(H(i), dst, src)
             [] i.op = "XOR" -> XorW(dst, src)
             [] i.op = "AND" -> AndW(dst, src)
             [] i.op = "OR"  -> OrW(dst, src)
      flagged == [Write(i, m, r) EXCEPT
                    !.f.c = ArithCarry(i, dst, src, r),
                    !.f.o = ArithOverflow(i, dst, src, r)]
  IN  SetZSFlags(flagged, H(i), r)

(***************************************************************************)
(* Carries.  ADC and SBB compute the carry in a wider word.  ADCX and ADOX *)
(* are two chains that leave each other's carry alone.                     *)
(***************************************************************************)
LowerX86Carry(i, m) ==
  LET dst == Dst(i, m)
      operand == Src(i, m) + Bool2Int(m.f.c)
      total == IF i.op = "ADC" THEN dst + operand ELSE dst - operand
      r == Trunc(Bits(i), total)
      flagged == [Write(i, m, r) EXCEPT
                    !.f.c = IF i.op = "ADC" THEN total > 2^Bits(i) - 1
                                            ELSE dst < operand,
                    !.f.o = FALSE]
  IN  SetZSFlags(flagged, H(i), r)

LowerX86Chain(i, m) ==
  LET in == IF i.op = "ADOX" THEN m.f.o ELSE m.f.c
      total == Dst(i, m) + Src(i, m) + Bool2Int(in)
      carry == total > 2^Bits(i) - 1
      stored == Write(i, m, Trunc(Bits(i), total))
  IN  IF i.op = "ADOX" THEN [stored EXCEPT !.f.o = carry]
                       ELSE [stored EXCEPT !.f.c = carry]

\* INC and DEC keep the carry.
LowerX86Step(i, m) ==
  LET r == IF i.op = "INC" THEN AddW(H(i), Dst(i, m), 1)
                           ELSE SubW(H(i), Dst(i, m), 1)
  IN  SetZSFlags(Write(i, m, r), H(i), r)

LowerX86Neg(i, m) ==
  LET v == Dst(i, m)
      r == NegW(Bits(i), v)
  IN  SetZSFlags([Write(i, m, r) EXCEPT !.f.c = v # 0], H(i), r)

\* RCRQ $1: the carry comes in at the top and leaves at the bottom.
LowerX86Rcr(i, m) ==
  LET v == Dst(i, m)
      r == Lshr(Bits(i), v, 1) + Shl(Bits(i), Bool2Int(m.f.c), Bits(i) - 1)
  IN  SetZSFlags([Write(i, m, r) EXCEPT !.f.c = v % 2 # 0], H(i), r)

(***************************************************************************)
(* Comparisons and bit tests.  CMP spells its operands in comparison       *)
(* order; neither CMP nor TEST touches the o slot.                         *)
(***************************************************************************)
\* A mutant of SetCmpFlags: less-than is the sign of the difference.
SetCmpFlagsSign(m, h, x, y) ==
  [m EXCEPT !.f.z = x = y, !.f.s = Negative(h, SubW(h, x, y)), !.f.c = x < y]

SetCmpFlags(m, h, x, y) ==
  [m EXCEPT !.f.z = x = y, !.f.s = Signed(h, x) < Signed(h, y), !.f.c = x < y]

LowerX86Cmp(i, m) == SetCmpFlags(m, H(i), Src(i, m), Src2(i, m))

LowerX86Test(i, m) ==
  SetZSFlags([m EXCEPT !.f.c = FALSE], H(i), AndW(Src(i, m), Src2(i, m)))

LowerX86BitTest(i, m) ==
  LET v == Dst(i, m)
      index == Src(i, m) % Bits(i)
      bit == Shl(Bits(i), 1, index)
      tested == [m EXCEPT !.f.c = Lshr(Bits(i), v, index) % 2 # 0]
  IN  CASE i.op = "BT"  -> tested
        [] i.op = "BTS" -> Write(i, tested, OrW(v, bit))
        [] i.op = "BTR" -> Write(i, tested, AndW(v, NotW(Bits(i), bit)))

(***************************************************************************)
(* Reading flags: CondX86 is the condition of the branch, SETcc or CMOVcc. *)
(***************************************************************************)
CondX86(cond, f) ==
  CASE cond = "EQ" -> f.z
    [] cond = "NE" -> ~f.z
    [] cond \in {"LT", "MI"} -> f.s
    [] cond \in {"GE", "PL"} -> ~f.s
    [] cond = "LE" -> f.s \/ f.z
    [] cond = "GT" -> ~(f.s \/ f.z)
    [] cond = "CS" -> f.c
    [] cond = "CC" -> ~f.c
    [] cond = "LS" -> f.c \/ f.z
    [] cond = "HI" -> ~(f.c \/ f.z)

LowerX86Set(i, m) == Write(i, m, Bool2Int(CondX86(i.cond, m.f)))

LowerX86Cmov(i, m) ==
  Write(i, m, IF CondX86(i.cond, m.f) THEN Src(i, m) ELSE Dst(i, m))

(***************************************************************************)
(* Counting, scanning, permuting bits.                                     *)
(***************************************************************************)
Cttz(n, x) == CHOOSE k \in 0 .. n :
                x % 2^k = 0 /\ (k = n \/ x % 2^(k + 1) # 0)

Ctpop(n, x) == Cardinality({k \in 0 .. n - 1 : Field(x, k, 1) = 1})

\* The 16-bit scans work on the word extended to 32 bits.
LowerX86Scan(i, m) ==
  LET v == Src(i, m)
      n == IF i.sz = "W" THEN SizeBits.L ELSE Bits(i)
      r == IF i.op = "BSF" THEN Cttz(n, v)
                           ELSE SubW(SignBit(n), n - 1, Ctlz(n, v))
  IN  [Write(i, m, Trunc(Bits(i), r)) EXCEPT !.f.z = v = 0]

LowerX86Tzcnt(i, m) ==
  LET v == Src(i, m)
      r == Cttz(Bits(i), v)
  IN  SetZSFlags([Write(i, m, r) EXCEPT !.f.c = v = 0], H(i), r)

LowerX86Popcnt(i, m) == Write(i, m, Ctpop(Bits(i), Src(i, m)))

LowerX86Bswap(i, m) ==
  Write(i, m, Swap(Bits(i), SizeBits.B, Dst(i, m)))

LowerX86Not(i, m) == Write(i, m, NotW(Bits(i), Dst(i, m)))

LowerX86Andn(i, m) ==
  Write(i, m, AndW(NotW(Bits(i), Src2(i, m)), Src(i, m)))

\* BEXTR with the two bytes of its control word; BZHI with an index.
LowerX86Bextr(i, m) ==
  LET n == Bits(i)
      inRange == i.start < n
      start == IF inRange THEN i.start ELSE n - 1
      length == IF inRange THEN i.length ELSE 0
      effective == IF length < n - start THEN length ELSE n - start
      mask == IF effective = n THEN 2^n - 1
              ELSE Shl(n, 1, effective % n) - 1
  IN  Write(i, m, AndW(Lshr(n, Src2(i, m), start), mask))

LowerX86Bzhi(i, m) ==
  LET n == Bits(i)
      index == Src(i, m)
      mask == IF index < n THEN Shl(n, 1, index % n) - 1 ELSE 2^n - 1
  IN  Write(i, m, AndW(Src2(i, m), mask))

(***************************************************************************)
(* Shifts and rotations.  None of them writes a flag slot.                 *)
(***************************************************************************)
ShiftBy(op, n, x, amount) ==
  CASE op \in {"SHL", "SAL", "SHLX"} -> Shl(n, x, amount)
    [] op \in {"SHR", "SHRX"} -> Lshr(n, x, amount)
    [] op = "SAR" -> Ashr(n, x, amount)

\* The count of a shift is read from the whole register.
Count(i, m, modulus) == EvalIntSized(m, i.a, SizeBits.Q) % modulus

LowerX86Shift(i, m) ==
  Write(i, m, ShiftBy(i.op, Bits(i), Dst(i, m), Count(i, m, Bits(i))))

\* 8 and 16 bits: the masked count may still exceed the width.
LowerX86ShortShift(i, m) ==
  LET n == Bits(i)
      count == Count(i, m, ShortCounts)
      safe == IF count < n THEN count ELSE n - 1
  IN  Write(i, m, IF count < n \/ i.op = "SAR"
                  THEN ShiftBy(i.op, n, Dst(i, m), safe) ELSE 0)

LowerX86ShiftX(i, m) ==
  Write(i, m, ShiftBy(i.op, Bits(i), Src2(i, m),
                      Count(i, m, Bits(i))))

\* ROL, ROR of the destination and RORX of a source.
LowerX86Rotate(i, m) ==
  LET n == Bits(i)
      x == IF i.op = "RORX" THEN Src2(i, m) ELSE Dst(i, m)
      count == Count(i, m, n)
      back == (n - count) % n
  IN  Write(i, m, IF i.op = "ROL"
                  THEN OrW(Shl(n, x, count), Lshr(n, x, back))
                  ELSE OrW(Lshr(n, x, count), Shl(n, x, back)))

\* SHLD and SHRD: the three-operand SHL and SHR.
LowerDoubleShift(i, m) ==
  LET n == Bits(i)
      dst == Dst(i, m)
      src == Src2(i, m)
      count == Count(i, m, n)
      inverse == NegW(n, count) % n
      merged == IF i.op = "SHLD"
                THEN OrW(Shl(n, dst, count), Lshr(n, src, inverse))
                ELSE OrW(Lshr(n, dst, count), Shl(n, src, inverse))
  IN  Write(i, m, IF count = 0 THEN dst ELSE merged)

(***************************************************************************)
(* Multiplication and division.  d is AX (or the low word's destination),  *)
(* e is DX (the high one's).                                               *)
(***************************************************************************)
WritePair(i, m, lo, hi) ==
  StoreRegSized(StoreRegSized(m, i.d, i.sz, lo), i.e, i.sz, hi)

\* Of MULQ and MULL only MULQ writes the carry.
LowerX86Mul(i, m) ==
  LET product == Dst(i, m) * Src(i, m)
      hi == product \div 2^Bits(i)
      stored == WritePair(i, m, Trunc(Bits(i), product), hi)
  IN  IF i.sz = "Q" THEN [stored EXCEPT !.f.c = hi # 0] ELSE stored

\* MULXQ multiplies with DX, here b.
LowerX86Mulx(i, m) ==
  LET product == Src2(i, m) * Src(i, m)
  IN  WritePair(i, m, Trunc(Bits(i), product), product \div 2^Bits(i))

\* udiv and urem by zero are undefined.
LowerX86Div(i, m) ==
  LET n == Bits(i)
      divisor == Src(i, m)
      dividend == EvalIntSized(m, i.e, n) * 2^n + Dst(i, m)
  IN  IF divisor = 0 THEN WritePair(i, m, Poison, Poison)
      ELSE WritePair(i, m, Trunc(n, dividend \div divisor),
                     Trunc(n, dividend % divisor))

LowerX86Imul(i, m) ==
  LET n == Bits(i)
      product(x, y) == Signed(SignBit(n), x) * Signed(SignBit(n), y)
      long == product(Dst(i, m), Src(i, m))
  IN  CASE i.op = "IMUL1" ->
             WritePair(i, m, Trunc(n, long), Trunc(n, long \div 2^n))
        [] i.op = "IMUL2" -> Write(i, m, Trunc(n, long))
        [] i.op = "IMUL3" ->
             Write(i, m, Trunc(n, product(Src2(i, m), Src(i, m))))

\* MOV, and the extensions of a source of size sz to 64 bits.
LowerX86Mov(i, m) ==
  CASE i.op = "MOV"   -> Write(i, m, Src(i, m))
    [] i.op = "MOVZX" -> [m EXCEPT !.reg[i.d] = Src(i, m)]
    [] i.op = "MOVSX" ->
         [m EXCEPT !.reg[i.d] = Trunc(SizeBits.Q, Signed(H(i), Src(i, m)))]
=============================================================================
