------------------------------- MODULE X86Arch -------------------------------
(***************************************************************************)
(* What an amd64 processor does for the instructions of X86Alu: flags z,   *)
(* s (sign), c and o (overflow), with signed conditions read as s # o.  A  *)
(* flag the manuals leave undefined keeps its value here; Exact, at the    *)
(* end, says which flags a program may read after which instruction.       *)
(***************************************************************************)
EXTENDS X86Alu

LOCAL N(i) == SizeBits[i.sz]
LOCAL SignedOf(i, x) == Signed(SignBit(N(i)), x)

\* An operand of a given size: a register, its second byte, an immediate.
X86Read(m, x, n) ==
  CASE x \in DOMAIN HighByte ->
         (m.reg[HighByte[x]] \div 2^SizeBits.B) % 2^SizeBits.B
    [] x \in DOMAIN m.reg -> m.reg[x] % 2^n
    [] OTHER -> x % 2^n

\* The register x is part of, whose bits from..from+n-1 become v; the bits
\* above survive only a write of 8 or 16 bits.
X86Write(m, x, sz, v) ==
  LET high == x \in DOMAIN HighByte
      r == IF high THEN HighByte[x] ELSE x
      from == IF high THEN SizeBits.B ELSE 0
      n == SizeBits[sz]
      below == m.reg[r] % 2^from
      above == IF sz \in {"B", "W"} THEN m.reg[r] \div 2^(from + n) ELSE 0
  IN  [m EXCEPT !.reg[r] = below + v * 2^from + above * 2^(from + n)]

LOCAL A(i, m) == X86Read(m, i.a, N(i))
LOCAL B(i, m) == X86Read(m, i.b, N(i))
LOCAL D(i, m) == X86Read(m, i.d, N(i))
LOCAL Put(i, m, v) == X86Write(m, i.d, i.sz, v)

LOCAL FlagsOf(i, r, c, o) ==
  [z |-> r = 0, s |-> r >= 2^(N(i) - 1), c |-> c, o |-> o]

\* The result and flags of x + y + carry and x - y - borrow.
X86Sum(i, x, y, carry) ==
  LET r == (x + y + carry) % 2^N(i)
  IN  [r |-> r,
       f |-> FlagsOf(i, r, x + y + carry >= 2^N(i),
               SignedOf(i, r) # SignedOf(i, x) + SignedOf(i, y) + carry)]

X86Difference(i, x, y, borrow) ==
  LET r == (x - y - borrow) % 2^N(i)
  IN  [r |-> r,
       f |-> FlagsOf(i, r, x < y + borrow,
               SignedOf(i, r) # SignedOf(i, x) - SignedOf(i, y) - borrow)]

ArchX86Arith(i, m) ==
  LET carry == Bool2Int(m.f.c)
      logic(r) == [r |-> r, f |-> FlagsOf(i, r, FALSE, FALSE)]
      result ==
        CASE i.op = "ADD" -> X86Sum(i, D(i, m), A(i, m), 0)
          [] i.op = "ADC" -> X86Sum(i, D(i, m), A(i, m), carry)
          [] i.op = "SUB" -> X86Difference(i, D(i, m), A(i, m), 0)
          [] i.op = "SBB" -> X86Difference(i, D(i, m), A(i, m), carry)
          [] i.op = "NEG" -> X86Difference(i, 0, D(i, m), 0)
          [] i.op = "AND" -> logic(AndW(D(i, m), A(i, m)))
          [] i.op = "OR"  -> logic(OrW(D(i, m), A(i, m)))
          [] i.op = "XOR" -> logic(XorW(D(i, m), A(i, m)))
  IN  [Put(i, m, result.r) EXCEPT !.f = result.f]

\* INC and DEC are ADD and SUB of 1 that leave c alone.
ArchX86Step(i, m) ==
  LET result == IF i.op = "INC" THEN X86Sum(i, D(i, m), 1, 0)
                                ELSE X86Difference(i, D(i, m), 1, 0)
  IN  [Put(i, m, result.r) EXCEPT !.f = [result.f EXCEPT !.c = m.f.c]]

ArchX86Chain(i, m) ==
  LET carry == IF i.op = "ADCX" THEN m.f.c ELSE m.f.o
      result == X86Sum(i, D(i, m), A(i, m), Bool2Int(carry))
      stored == Put(i, m, result.r)
  IN  IF i.op = "ADCX" THEN [stored EXCEPT !.f.c = result.f.c]
                       ELSE [stored EXCEPT !.f.o = result.f.c]

\* A rotation by one through the carry; z and s stay.
ArchX86Rcr(i, m) ==
  LET wide == Bool2Int(m.f.c) * 2^N(i) + D(i, m)
  IN  [Put(i, m, wide \div 2) EXCEPT !.f.c = wide % 2 = 1]

ArchX86Cmp(i, m) ==
  [m EXCEPT !.f = X86Difference(i, A(i, m), B(i, m), 0).f]

ArchX86Test(i, m) ==
  [m EXCEPT !.f = FlagsOf(i, AndW(A(i, m), B(i, m)), FALSE, FALSE)]

ArchX86BitTest(i, m) ==
  LET v == D(i, m)
      k == A(i, m) % N(i)
      old == Field(v, k, 1)
      new == CASE i.op = "BT" -> old [] i.op = "BTS" -> 1 [] i.op = "BTR" -> 0
  IN  [Put(i, m, v + (new - old) * 2^k) EXCEPT !.f.c = old = 1]

X86Condition(cond, f) ==
  CASE cond = "EQ" -> f.z
    [] cond = "NE" -> ~f.z
    [] cond = "MI" -> f.s
    [] cond = "PL" -> ~f.s
    [] cond = "LT" -> f.s # f.o
    [] cond = "GE" -> f.s = f.o
    [] cond = "LE" -> f.z \/ f.s # f.o
    [] cond = "GT" -> ~f.z /\ f.s = f.o
    [] cond = "CS" -> f.c
    [] cond = "CC" -> ~f.c
    [] cond = "LS" -> f.c \/ f.z
    [] cond = "HI" -> ~f.c /\ ~f.z

ArchX86Set(i, m) == Put(i, m, Bool2Int(X86Condition(i.cond, m.f)))

ArchX86Cmov(i, m) ==
  IF X86Condition(i.cond, m.f) THEN Put(i, m, A(i, m)) ELSE m

(***************************************************************************)
(* Bits of a word, lowest first.                                           *)
(***************************************************************************)
LOCAL BitsSet(i, v) == {k \in 0 .. N(i) - 1 : Field(v, k, 1) = 1}
LOCAL Least(S) == CHOOSE k \in S : \A j \in S : k =< j
LOCAL Greatest(S) == CHOOSE k \in S : \A j \in S : k >= j

\* Without a bit set the destination is undefined, and z is set.
ArchX86Scan(i, m) ==
  LET ones == BitsSet(i, A(i, m))
  IN  IF ones = {} THEN [m EXCEPT !.f.z = TRUE]
      ELSE [Put(i, m, IF i.op = "BSF" THEN Least(ones) ELSE Greatest(ones))
              EXCEPT !.f.z = FALSE]

ArchX86Tzcnt(i, m) ==
  LET ones == BitsSet(i, A(i, m))
      r == IF ones = {} THEN N(i) ELSE Least(ones)
  IN  [Put(i, m, r) EXCEPT !.f.c = ones = {}, !.f.z = r = 0]

ArchX86Popcnt(i, m) ==
  LET ones == BitsSet(i, A(i, m))
  IN  [Put(i, m, Cardinality(ones)) EXCEPT
         !.f = [X86NoFlags EXCEPT !.z = ones = {}]]

\* Byte k of the result is byte N/8 - 1 - k of the operand.
ArchX86Bswap(i, m) ==
  LET bytes == N(i) \div SizeBits.B
      byte(x, k) == Field(x, k * SizeBits.B, SizeBits.B)
  IN  Put(i, m, CHOOSE r \in Word(SignBit(N(i))) :
                  \A k \in 0 .. bytes - 1 :
                    byte(r, k) = byte(D(i, m), bytes - 1 - k))

ArchX86Not(i, m) == Put(i, m, 2^N(i) - 1 - D(i, m))

\* ANDN, BEXTR and BZHI set z from the result and clear c and o.
LOCAL PutLogic(i, m, r) ==
  [Put(i, m, r) EXCEPT !.f = FlagsOf(i, r, FALSE, FALSE)]

ArchX86Andn(i, m) ==
  PutLogic(i, m, AndW(2^N(i) - 1 - B(i, m), A(i, m)))

ArchX86Bextr(i, m) ==
  PutLogic(i, m, (B(i, m) \div 2^i.start) % 2^i.length)

\* The index is one byte of the operand.
ArchX86Bzhi(i, m) ==
  LET index == A(i, m) % ByteValues
  IN  PutLogic(i, m, IF index < N(i) THEN B(i, m) % 2^index ELSE B(i, m))

(***************************************************************************)
(* Shifts.  The flags they write are left out: Exact drops them.           *)
(***************************************************************************)
LOCAL CountOf(i, m) ==
  X86Read(m, i.a, SizeBits.Q)
    % (IF i.sz \in {"B", "W"} THEN ShortCounts ELSE N(i))

LOCAL Shifted86(i, x, k) ==
  CASE i.op \in {"SHL", "SAL", "SHLX"} -> (x * 2^k) % 2^N(i)
    [] i.op \in {"SHR", "SHRX"} -> x \div 2^k
    [] i.op = "SAR" -> (SignedOf(i, x) \div 2^k) % 2^N(i)

ArchX86Shift(i, m) == Put(i, m, Shifted86(i, D(i, m), CountOf(i, m)))

ArchX86ShiftX(i, m) == Put(i, m, Shifted86(i, B(i, m), CountOf(i, m)))

ArchX86Rotate(i, m) ==
  LET k == CountOf(i, m)
      x == IF i.op = "RORX" THEN B(i, m) ELSE D(i, m)
  IN  Put(i, m, RotateRight(N(i), x, IF i.op = "ROL" THEN (N(i) - k) % N(i)
                                                     ELSE k))

\* The count shifts in bits of b.
ArchX86DoubleShift(i, m) ==
  LET k == CountOf(i, m)
      n == N(i)
  IN  Put(i, m,
        IF i.op = "SHLD"
        THEN ((D(i, m) * 2^n + B(i, m)) \div 2^(n - k)) % 2^n
        ELSE ((B(i, m) * 2^n + D(i, m)) \div 2^k) % 2^n)

(***************************************************************************)
(* Multiplication and division.                                            *)
(***************************************************************************)
LOCAL PutPair(i, m, lo, hi) == X86Write(Put(i, m, lo), i.e, i.sz, hi)

ArchX86Mul(i, m) ==
  LET product == (IF i.op = "MULX" THEN B(i, m) ELSE D(i, m)) * A(i, m)
      hi == product \div 2^N(i)
      stored == PutPair(i, m, product % 2^N(i), hi)
  IN  IF i.op = "MULX" THEN stored
      ELSE [stored EXCEPT !.f.c = hi # 0, !.f.o = hi # 0]

\* A quotient that does not fit raises an exception; see X86Defined.
ArchX86Div(i, m) ==
  LET dividend == X86Read(m, i.e, N(i)) * 2^N(i) + D(i, m)
  IN  PutPair(i, m, dividend \div A(i, m), dividend % A(i, m))

ArchX86Imul(i, m) ==
  LET product == SignedOf(i, IF i.op = "IMUL3" THEN B(i, m) ELSE D(i, m))
                   * SignedOf(i, A(i, m))
      lo == product % 2^N(i)
      wraps == product # SignedOf(i, lo)
      stored == IF i.op = "IMUL1"
                THEN PutPair(i, m, lo, (product \div 2^N(i)) % 2^N(i))
                ELSE Put(i, m, lo)
  IN  [stored EXCEPT !.f.c = wraps, !.f.o = wraps]

ArchX86Mov(i, m) ==
  CASE i.op = "MOV" -> Put(i, m, A(i, m))
    [] i.op = "MOVZX" -> X86Write(m, i.d, "Q", A(i, m))
    [] i.op = "MOVSX" ->
         X86Write(m, i.d, "Q", SignedOf(i, A(i, m)) % 2^SizeBits.Q)

(***************************************************************************)
(* What a program may rely on.  The translation keeps the flags that the   *)
(* code of the corpus reads, not all of them: "z", "s", "c" and "o" stand  *)
(* for a flag whose slot is right, "l" for a less-than that is.  Needs is  *)
(* what an instruction reads, Exact(i, f, e) what is right after it, given *)
(* the processor's flags f after it and what was right before it.          *)
(***************************************************************************)
ConditionNeeds(cond) ==
  CASE cond \in {"EQ", "NE"} -> {"z"}
    [] cond \in {"MI", "PL"} -> {"s"}
    [] cond \in {"CS", "CC"} -> {"c"}
    [] cond \in {"LS", "HI"} -> {"c", "z"}
    [] cond \in {"LT", "GE"} -> {"l"}
    [] cond \in {"LE", "GT"} -> {"l", "z"}

Needs(i) ==
  CASE i.op \in {"SET", "CMOV"} -> ConditionNeeds(i.cond)
    [] i.op \in {"ADC", "SBB", "ADCX", "RCR"} -> {"c"}
    [] i.op = "ADOX" -> {"o"}
    [] OTHER -> {}

\* Less-than is the sign of the result as long as nothing overflows.
LOCAL Unless(overflow, flags) == IF overflow THEN {} ELSE flags

Exact(i, f, e) ==
  CASE i.op \in {"AND", "OR", "XOR"} -> {"z", "s", "c", "l", "o"}
    [] i.op = "TEST" -> {"z", "s", "c", "l"}
    [] i.op = "CMP" -> {"z", "c", "l"}
    [] i.op \in {"ADD", "SUB"} /\ i.sz = "B" ->
         {"z", "s", "c", "o"} \cup Unless(f.o, {"l"})
    [] \/ i.op \in {"ADD", "SUB"} /\ i.sz # "B"
       \/ i.op \in {"ADC", "SBB"} ->
         {"z", "s", "c"} \cup Unless(f.o, {"l", "o"})
    [] i.op = "NEG" -> {"z", "s", "c"} \cup Unless(f.o, {"l"})
    [] i.op \in {"INC", "DEC"} ->
         {"z", "s"} \cup Unless(f.o, {"l"}) \cup (e \cap {"c"})
    [] i.op = "ADCX" -> e \cup {"c"}
    [] i.op = "ADOX" -> (e \ {"l"}) \cup {"o"}
    [] i.op = "RCR" \/ (i.op = "MUL" /\ i.sz = "Q") -> {"c"}
    [] i.op \in {"BT", "BTS", "BTR"} -> (e \cap {"z"}) \cup {"c"}
    [] i.op \in {"BSF", "BSR"} -> {"z"}
    [] i.op = "TZCNT" -> {"z", "c"}
    [] i.op \in {"ROL", "ROR"} -> e \cap {"z", "s"}
    [] i.op \in {"SET", "CMOV", "MOV", "MOVZX", "MOVSX", "NOT", "BSWAP",
                 "MULX", "RORX", "SHLX", "SHRX"} -> e
    [] OTHER -> {}

\* Instructions with an undefined result, or one that ends the program, are
\* left out: a scan of zero, a quotient that does not fit, an index that is
\* no byte.
X86Defined(i, m) ==
  /\ i.op \in {"BSF", "BSR"} => A(i, m) # 0
  /\ i.op = "DIV" => X86Read(m, i.e, N(i)) < A(i, m)
  /\ i.op = "BZHI" => A(i, m) < ByteValues
=============================================================================
