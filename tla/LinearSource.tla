---------------------------- MODULE LinearSource ----------------------------
(***************************************************************************)
(* What the straight-line functions of the linear translator mean: their   *)
(* operands, the types of LLVM, and the processor that the assembly was    *)
(* written for (external: modelled from how translate.go uses it).         *)
(*                                                                         *)
(* Words are narrow: BitsOf gives the width of each type, in the order of  *)
(* the real ones.  A value of the processor is [n, v]: its low n bits are  *)
(* those of v, the others can be anything (a register that the caller did  *)
(* not set, the bytes next to a narrow slot).  Additions, subtractions and *)
(* bit operations keep what is known of the low bits.                      *)
(***************************************************************************)
EXTENDS WordOps, Sequences, FiniteSets

CONSTANTS
  MemSize    \* cells of memory; a cell has the bits of an i8

ASSUME MemSizeAssumption == MemSize \in Nat \ {0}

Ints   == {"i1", "i8", "i16", "i32", "i64"}
Floats == {"float", "double"}

BitsOf(arch, typ) ==
  CASE typ = "i1" -> 1
    [] typ = "i8" -> 2
    [] typ = "i16" -> 3
    [] typ \in {"i32", "float"} -> 4
    [] typ \in {"i64", "double"} -> 8
    [] typ = "ptr" -> IF arch = "arm" THEN 4 ELSE 8
    [] OTHER -> 1

RegBits(arch) == IF arch = "arm" THEN 4 ELSE 8

\* Bits that a move reads and writes.
MoveBits(op) ==
  CASE op \in {"MOVQ", "MOVD"} -> 8
    [] op \in {"MOVL", "MOVW"} -> 4
    [] op \in {"MOVB", "MOVBU"} -> 2

(***************************************************************************)
(* Floating point: a sign, exponent bits, mantissa bits, as IEEE 754 has   *)
(* them.  Only what fptoui and uitofp make of a pattern matters.           *)
(***************************************************************************)
MantBits(w) == IF w = 4 THEN 1 ELSE 4
ExpBits(w)  == w - 1 - MantBits(w)
FpToUi(w, p) ==
  LET e == Field(p, MantBits(w), ExpBits(w))
      m == p % 2^MantBits(w)
      one == MantBits(w) + 2^(ExpBits(w) - 1) - 1
  IN  IF p >= SignBit(w) \/ e = 2^ExpBits(w) - 1 THEN Poison
      ELSE IF e = 0 THEN 0
      ELSE IF e <= one THEN (2^MantBits(w) + m) \div 2^(one - e)
      ELSE (2^MantBits(w) + m) * 2^(e - one)
\* The first pattern of that value; infinity when it is out of range.
UiToFp(w, x) ==
  IF \E p \in 0 .. SignBit(w) - 1 : FpToUi(w, p) = x
  THEN CHOOSE p \in 0 .. SignBit(w) - 1 :
         FpToUi(w, p) = x /\ \A q \in 0 .. p - 1 : FpToUi(w, q) # x
  ELSE (2^ExpBits(w) - 1) * 2^MantBits(w)

(***************************************************************************)
(* Operands.                                                               *)
(***************************************************************************)
Operand(kind, reg, n, index, how) == [kind |-> kind, reg |-> reg, n |-> n, index |-> index, how |-> how]
Imm(n)    == Operand("imm", "", n, "", "")
RawImm    == Operand("raw", "", 0, "", "")
Reg(r)    == Operand("reg", r, 0, "", "")
FP(off)   == Operand("fp", "", off, "", "")
Sym       == Operand("sym", "", 0, "", "")
Ident(id) == Operand("ident", id, 0, "", "")
Mem(base, index, off)  == Operand("mem", base, off, index, "")
ShiftImm(r, how, n)    == Operand("shift", r, n, "", how)
ShiftReg(r, how, s)    == Operand("shift", r, 0, s, how)

(***************************************************************************)
(* Partly known values.                                                    *)
(***************************************************************************)
Known(n, v) == [n |-> n, v |-> v % 2^n]
Unknown == Known(0, 0)
Least(a, b) == IF a < b THEN a ELSE b
Low(k, w) == Known(Least(k.n, w), k.v)
\* Extended from w bits to a register.
ZeroExt(arch, k, w) == IF k.n < w THEN k ELSE Known(RegBits(arch), k.v % 2^w)
SignExt(arch, k, w) ==
  IF k.n < w THEN k
  ELSE Known(RegBits(arch), Signed(SignBit(w), k.v % 2^w) + 2^RegBits(arch))
\* w bits of k stored over old.
Overlay(old, k, w) ==
  IF k.n < w \/ old.n <= w THEN Low(k, w)
  ELSE Known(old.n, (old.v \div 2^w) * 2^w + (k.v % 2^w))

Arith(op, a, b) ==
  LET n == Least(a.n, b.n) IN
  Known(n, CASE op \in {"ADDQ", "ADD"} -> a.v + b.v
             [] op \in {"SUBQ", "SUB"} -> a.v - b.v + 2^MaxBits
             [] op = "RSB" -> b.v - a.v + 2^MaxBits
             [] op \in {"XORQ", "EOR"} -> XorW(a.v, b.v)
             [] op = "AND" -> AndW(a.v, b.v)
             [] op = "ORR" -> OrW(a.v, b.v))

\* A shifted register of ARM: by the width or more, zero or the sign.
Shifted(how, k, s) ==
  IF k.n < 4 \/ s.n < 4 THEN Unknown
  ELSE Known(4, CASE how = "<<" -> (k.v * 2^s.v) % 16
                  [] how = ">>" -> k.v \div 2^s.v
                  [] how = "->" -> Signed(8, k.v) \div 2^s.v + 16
                  [] how = "@>" -> RotateRight(4, k.v, s.v % 4))

\* Values the environment has: a global, a system register, what CPUID and
\* XGETBV answer.
SymWord == 9
SysReg(id) == IF id = "MIDR_EL1" THEN 5 ELSE 6
Cpuid(a, c) == [AX |-> (a + 1) % 16, BX |-> (a + c + 2) % 16, CX |-> (2 * a + c + 3) % 16, DX |-> (a + 2 * c + 4) % 16]
Xgetbv(c)   == [AX |-> (c + 5) % 16, DX |-> (3 * c + 6) % 16]
CpuidKnown(a, c) ==
  [r \in {"AX", "BX", "CX", "DX"} |->
     IF a.n < 4 \/ c.n < 4 THEN Unknown ELSE Known(8, Cpuid(a.v % 16, c.v % 16)[r])]
XgetbvKnown(c) ==
  [r \in {"AX", "DX"} |-> IF c.n < 4 THEN Unknown ELSE Known(8, Xgetbv(c.v % 16)[r])]

(***************************************************************************)
(* The processor: registers, the slots of the frame by offset, memory.     *)
(* ok: FALSE once the program did something without a definite meaning     *)
(* (an access at an unknown address or outside memory).                    *)
(***************************************************************************)
CellBits == 2
Cells(mem, a, w) ==
  LET c(k) == mem[a + k] * 2^(CellBits * k)
  IN  IF w = 2 THEN c(0) ELSE IF w = 4 THEN c(0) + c(1) ELSE c(0) + c(1) + c(2) + c(3)
Fits(a, w) == a + w \div CellBits <= MemSize

AddressOf(arch, s, o) ==
  LET part(r) == IF r = "" THEN Known(8, 0) ELSE s.reg[r]
      b == part(o.reg)
      x == part(o.index)
  IN  Known(Least(RegBits(arch), Least(b.n, x.n)), b.v + x.v + o.n)
Reachable(arch, s, o, w) ==
  LET a == AddressOf(arch, s, o) IN a.n = RegBits(arch) /\ Fits(a.v, w)

SrcValue(arch, s, o, w) ==
  CASE o.kind = "imm" -> Known(8, o.n + 256)
    [] o.kind = "reg" -> s.reg[o.reg]
    [] o.kind = "fp" -> IF o.n \in DOMAIN s.slot THEN s.slot[o.n] ELSE Unknown
    [] o.kind = "sym" -> Known(8, SymWord)
    [] o.kind = "mem" -> IF Reachable(arch, s, o, w)
                         THEN Known(w, Cells(s.mem, AddressOf(arch, s, o).v, w)) ELSE Unknown
    [] o.kind = "shift" -> Shifted(o.how, s.reg[o.reg],
                                   IF o.index = "" THEN Known(4, o.n) ELSE s.reg[o.index])
    [] OTHER -> Unknown
SrcDefined(arch, s, o, w) == o.kind = "mem" => Reachable(arch, s, o, w)

SetSrcReg(s, r, k) == [s EXCEPT !.reg[r] = k]

SrcMove(arch, s, op, from, to) ==
  LET w == MoveBits(op)
      k == SrcValue(arch, s, from, w)
      x == IF op = "MOVB" THEN SignExt(arch, k, w) ELSE ZeroExt(arch, k, w)
      a == AddressOf(arch, s, to).v
      e == [s EXCEPT !.ok = @ /\ SrcDefined(arch, s, from, w) /\ SrcDefined(arch, s, to, w)]
  IN  IF ~e.ok THEN e
      ELSE CASE to.kind = "reg" -> SetSrcReg(s, to.reg, Low(x, RegBits(arch)))
             [] to.kind = "fp" -> IF to.n \in DOMAIN s.slot
                                  THEN [s EXCEPT !.slot[to.n] = Overlay(@, k, w)] ELSE s
             [] to.kind = "mem" ->
                  IF k.n < w THEN [s EXCEPT !.ok = FALSE]
                  ELSE [s EXCEPT !.mem = [c \in DOMAIN s.mem |->
                          IF c \in a .. a + w \div CellBits - 1
                          THEN Field(k.v, CellBits * (c - a), CellBits) ELSE s.mem[c]]]
             [] OTHER -> s

SrcArith(arch, s, op, lhs, rhs, dst) ==
  LET w == RegBits(arch)
      r == Arith(op, SrcValue(arch, s, lhs, w), SrcValue(arch, s, rhs, w))
  IN  [SetSrcReg(s, dst, Low(r, w)) EXCEPT !.ok = @ /\ SrcDefined(arch, s, lhs, w) /\ SrcDefined(arch, s, rhs, w)]

SrcSet(s, new) == [s EXCEPT !.reg = [r \in DOMAIN @ |-> IF r \in DOMAIN new THEN new[r] ELSE @[r]]]
=============================================================================
