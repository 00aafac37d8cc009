------------------------------ MODULE Arm64Arch ------------------------------
(***************************************************************************)
(* What an arm64 processor does for the instructions of Arm64Alu, stated   *)
(* with arithmetic over the integers instead of LLVM's operations.         *)
(***************************************************************************)
EXTENDS Arm64Alu, FiniteSets

Flagged(m, i, sum) ==
  [StoreReg(m, i.d, sum.res) EXCEPT !.f = sum.f]

ArchArith(i, m) ==
  LET h == SignBit(Width(i))
      a == Source(i, m, i.a)
      b == Source(i, m, i.b)
  IN  CASE i.op = "ADD"  -> StoreReg(m, i.d, ArchAdd(h, b, a).res)
        [] i.op = "SUB"  -> StoreReg(m, i.d, ArchSub(h, b, a).res)
        [] i.op = "ADDS" -> Flagged(m, i, ArchAdd(h, b, a))
        [] i.op \in {"SUBS", "WORD_SUBS"} -> Flagged(m, i, ArchSub(h, b, a))
        [] i.op = "ADC"  ->
             StoreReg(m, i.d, AddWithCarry(h, b, a, m.f.c).res)
        [] i.op = "SBC"  ->
             StoreReg(m, i.d, AddWithCarry(h, b, Complement(h, a), m.f.c).res)
        [] i.op = "ADCS" -> Flagged(m, i, AddWithCarry(h, b, a, m.f.c))
        [] i.op = "SBCS" ->
             Flagged(m, i, AddWithCarry(h, b, Complement(h, a), m.f.c))
        [] i.op = "NEG"  -> StoreReg(m, i.d, NegW(Width(i), a))

\* N and Z of the result, C and V cleared.
LogicFlags(i, r) == [NoFlags EXCEPT !.n = Negative(SignBit(Width(i)), r),
                                    !.z = r = 0]

ArchLogic(i, m) ==
  LET n == Width(i)
      a == Source(i, m, i.a)
      b == Source(i, m, i.b)
      tests == {"TST", "WORD_TST"}
      r == CASE i.op \in {"AND", "ANDS"} \cup tests -> AndW(a, b)
             [] i.op = "EOR" -> XorW(a, b)
             [] i.op = "ORR" -> OrW(a, b)
             [] i.op = "BIC" -> AndW(b, NotW(n, a))
             [] i.op = "MVN" -> NotW(n, a)
      stored == IF i.op \in tests THEN m ELSE StoreReg(m, i.d, r)
  IN  IF i.op \in {"ANDS"} \cup tests THEN [stored EXCEPT !.f = LogicFlags(i, r)]
                                  ELSE stored

ArchCompare(i, m) ==
  LET h == SignBit(Width(i))
      a == Source(i, m, i.a)
      b == Source(i, m, i.b)
      f == CASE i.op = "CMP"  -> ArchSub(h, b, a).f
             [] i.op = "CMN"  -> ArchAdd(h, b, a).f
             [] i.op = "CCMP" -> IF ConditionHolds(i.cond, m.f)
                                 THEN ArchSub(h, a, b).f ELSE i.nzcv
             [] i.op = "CCMN" -> IF ConditionHolds(i.cond, m.f)
                                 THEN ArchAdd(h, a, b).f ELSE i.nzcv
  IN  [m EXCEPT !.f = f]

\* MADD Rm, Ra, Rn, Rd: in Go's syntax the addend is the second source.
ArchMultiply(i, m) ==
  LET n == Width(i)
      a == Source(i, m, i.a)
      b == Source(i, m, i.b)
  IN  StoreReg(m, i.d,
        CASE i.op = "MUL"   -> (a * b) % 2^n
          [] i.op = "UMULH" -> (a * b) \div 2^n
          [] i.op = "MADD"  -> (b + Source(i, m, i.c) * a) % 2^n
          [] i.op = "MSUB"  -> (b - Source(i, m, i.c) * a) % 2^n
          [] i.op = "UDIV"  -> IF a = 0 THEN 0 ELSE b \div a)

ArchShift(i, m) ==
  LET n == Width(i)
      s == Source(i, m, i.a) % n
      x == Source(i, m, i.b)
  IN  StoreReg(m, i.d,
        CASE i.op = "LSL"  -> (x * 2^s) % 2^n
          [] i.op = "LSR"  -> x \div 2^s
          [] i.op = "ASR"  -> (Signed(SignBit(n), x) \div 2^s) % 2^n
          [] i.op = "ROR"  -> RotateRight(n, x, s))

\* The middle of the two words, from bit shift of the low one on.
ArchExtr(i, m) ==
  StoreReg(m, i.d,
           Field(Eval(m, i.a) * 2^XBits + Eval(m, i.b), i.shift, XBits))

\* RBIT and CLZ, bit by bit.
ArchBits(i, m) ==
  LET x == Eval(m, i.a)
  IN  StoreReg(m, i.d,
        IF i.op = "CLZ" THEN Cardinality({j \in 0 .. XBits - 1 : x < 2^j})
        ELSE CHOOSE y \in Word(SignBit(XBits)) :
               \A j \in 0 .. XBits - 1 :
                 Field(y, j, 1) = Field(x, XBits - 1 - j, 1))

\* The bytes are reversed within the word, each halfword or each word.
ArchReverse(i, m) ==
  LET n == Width(i)
      x == Source(i, m, i.a)
      part == CASE i.op = "REV"   -> n
                [] i.op = "REV16" -> 2 * ByteBits
                [] i.op = "REV32" -> WBits
  IN  StoreReg(m, i.d,
        CHOOSE y \in 0 .. 2^n - 1 :
          \A j \in 0 .. n \div part - 1 :
            Field(y, j * part, part) =
              Swap(part, ByteBits, Field(x, j * part, part)))

ArchBitfield(i, m) ==
  LET n   == Width(i)
      src == Source(i, m, i.b)
      dst == Source(i, m, i.d)
      low == Field(src, 0, i.width)
      at  == Field(src, i.lsb, i.width)
      sign(x) == Signed(SignBit(i.width), x)
  IN  StoreReg(m, i.d,
        CASE i.op = "BFI"   ->
               dst + (low - Field(dst, i.lsb, i.width)) * 2^i.lsb
          [] i.op = "BFXIL" -> dst + at - Field(dst, 0, i.width)
          [] i.op = "UBFX"  -> at
          [] i.op = "SBFX"  -> sign(at) % 2^n
          [] i.op = "UBFIZ" -> low * 2^i.lsb
          [] i.op = "SBFIZ" -> (sign(low) * 2^i.lsb) % 2^n)

Changed(op, n, x) ==
  CASE op = "CSEL" -> x
    [] op \in {"CSINC", "CINC"} -> (x + 1) % 2^n
    [] op \in {"CSINV", "CINV"} -> NotW(n, x)
    [] op \in {"CSNEG", "CNEG"} -> NegW(n, x)

ArchSelect(i, m) ==
  LET n == Width(i)
      holds == ConditionHolds(i.cond, m.f)
  IN  StoreReg(m, i.d,
        CASE i.op \in {"CSEL", "CSINC", "CSINV", "CSNEG"} ->
               IF holds THEN Source(i, m, i.a)
                        ELSE Changed(i.op, n, Source(i, m, i.b))
          [] i.op \in {"CINC", "CINV", "CNEG"} ->
               IF holds THEN Changed(i.op, n, Source(i, m, i.a))
                        ELSE Source(i, m, i.a)
          [] i.op = "CSET"  -> Bool2Int(holds)
          [] i.op = "CSETM" -> IF holds THEN 2^n - 1 ELSE 0)
=============================================================================
