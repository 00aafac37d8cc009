------------------------------- MODULE ArmArch -------------------------------
(***************************************************************************)
(* What an arm processor does for the instructions of ArmAlu.  Every       *)
(* instruction is predicated as a whole: when the condition fails, neither *)
(* a register nor a flag changes.                                          *)
(***************************************************************************)
EXTENDS ArmAlu, FiniteSets

Predicated(i, m, after) == IF ConditionHolds(i.cond, m.f) THEN after ELSE m

\* The barrel shifter.
Shifted(i, m) ==
  LET x == Eval32(m, i.a)
      s == i.amount
  IN  CASE i.shift = ""   -> x
        [] i.shift = "<<" -> (x * 2^s) % 2^RBits
        [] i.shift = ">>" -> x \div 2^s
        [] i.shift = "->" -> (Signed(Top32, x) \div 2^s) % 2^RBits
        [] i.shift = "@>" -> RotateRight(RBits, x, s)

ArithOf(i, m) ==
  LET x == Eval32(m, i.b)
      y == Shifted(i, m)
  IN  CASE i.op \in {"ADD", "CMN"} -> ArchAdd(Top32, x, y)
        [] i.op \in {"SUB", "CMP"} -> ArchSub(Top32, x, y)
        [] i.op = "RSB" -> ArchSub(Top32, y, x)
        [] i.op = "ADC" -> AddWithCarry(Top32, x, y, m.f.c)
        [] i.op = "SBC" -> AddWithCarry(Top32, x, Complement(Top32, y), m.f.c)

LogicResult(op, x, y) ==
  CASE op \in {"AND", "TST"} -> AndW(x, y)
    [] op \in {"EOR", "TEQ"} -> XorW(x, y)
    [] op = "ORR" -> OrW(x, y)
    [] op = "BIC" -> AndW(x, NotW(RBits, y))
    [] op = "MVN" -> NotW(RBits, y)

\* C is the shifter's and V unchanged; without a shift both stay.
LogicOf(i, m) ==
  LET r == LogicResult(i.op, Eval32(m, i.b), Shifted(i, m))
  IN  [res |-> r, f |-> [m.f EXCEPT !.n = Negative(Top32, r), !.z = r = 0]]

Arithmetic == {"ADD", "SUB", "RSB", "ADC", "SBC", "CMP", "CMN"}
Comparisons == {"CMP", "CMN", "TST", "TEQ"}
Logical == {"AND", "ORR", "EOR", "BIC", "MVN", "TST", "TEQ"}
DataProcessing == Arithmetic \cup Logical

ArchARM(i, m) ==
  LET result == IF i.op \in Arithmetic THEN ArithOf(i, m) ELSE LogicOf(i, m)
      stored == IF i.op \in Comparisons THEN m
                                        ELSE [m EXCEPT !.reg[i.d] = result.res]
  IN  Predicated(i, m, IF i.s \/ i.op \in Comparisons
                       THEN [stored EXCEPT !.f = result.f] ELSE stored)

ArchARMMultiply(i, m) ==
  LET product == Eval32(m, i.a) * Eval32(m, i.b)
  IN  Predicated(i, m, [m EXCEPT !.reg[i.d] =
        IF i.op = "MULA" THEN (product + Eval32(m, i.c)) % 2^RBits
                         ELSE product % 2^RBits])

ArchARMLong(i, m) ==
  LET product == Eval32(m, i.a) * Eval32(m, i.b)
      old == Eval32(m, i.d) * 2^RBits + Eval32(m, i.e)
      sum == IF i.op = "MULALU" THEN old + product ELSE product
  IN  Predicated(i, m, [m EXCEPT !.reg[i.d] = (sum \div 2^RBits) % 2^RBits,
                                 !.reg[i.e] = sum % 2^RBits])

ArchARMDivide(i, m) ==
  LET divisor == Eval32(m, i.a)
  IN  Predicated(i, m, [m EXCEPT !.reg[i.d] =
        IF divisor = 0 THEN 0 ELSE Eval32(m, i.b) \div divisor])

\* The number of bits above the highest one that is set.
ArchARMClz(i, m) ==
  LET x == Eval32(m, i.a)
      above == {k \in 0 .. RBits - 1 : x < 2^k}
  IN  Predicated(i, m, [m EXCEPT !.reg[i.d] = Cardinality(above)])
=============================================================================
