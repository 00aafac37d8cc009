-------------------------------- MODULE MCAlu --------------------------------
(***************************************************************************)
(* Programs for Alu.  Every instruction writes r0; its sources are r0 (the *)
(* destination read back), r1, the zero register and an immediate, so that *)
(* every way two operands can coincide occurs.  Renaming the registers     *)
(* gives the other destinations.                                           *)
(***************************************************************************)
EXTENDS Alu

CONSTANTS r0, r1, h0

Forms == BOOLEAN
Sources == {r0, r1, ZR, 3}
Regs == {r0, r1}

Two(ops, forms, as, bs) ==
  [op : ops, w : forms, a : as, b : bs, d : {r0}]

Nzcv == [NoFlags EXCEPT !.z = TRUE, !.v = TRUE]

Ranges == {<<0, 2>>, <<1, 1>>, <<1, 3>>, <<0, 4>>}

Fits(i, range) == range[1] + range[2] =< Width(i)

A64Arith ==
  Two({"ADD", "SUB", "AND", "SUBS"}, Forms, Sources, Regs)
  \cup Two({"ORR", "EOR", "ANDS", "BIC"}, Forms, Sources, {r1})
  \cup Two({"ADDS", "ADC", "SBC", "ADCS", "SBCS"}, {FALSE}, Sources, Regs)
  \cup Two({"CMP"}, Forms, Sources, Regs)
  \cup Two({"CMN"}, {FALSE}, Sources, Regs)
  \cup Two({"TST", "MVN"}, Forms, Sources, {r1})
  \cup Two({"NEG"}, {FALSE}, Sources, {r1})
  \cup Two({"SUBS"}, Forms, {r0, 1}, {ZR})
  \cup [op : {"ADDS", "SUBS"}, w : {FALSE}, a : {r1, 3}, b : {r0}, d : {ZR}]
  \cup Two({"WORD_TST"}, {FALSE}, {r0}, {r0})
  \cup Two({"WORD_SUBS"}, {FALSE}, {3}, Regs)

\* The conditions that read one flag of each kind; CSET has them all.
Few == {"EQ", "LO", "GT"}

A64Compare ==
  [op : {"CCMP", "CCMN"}, w : Forms, cond : Few, a : Regs,
   b : {r1, 3}, nzcv : {Nzcv}, d : {r0}]

A64Wide ==
  Two({"MUL"}, Forms, Regs, Regs)
  \cup Two({"UMULH"}, {FALSE}, Sources, Regs)
  \cup Two({"UDIV"}, {FALSE}, {r1, 3}, Regs)
  \cup {[op |-> o, w |-> w, a |-> a, b |-> b, c |-> b, d |-> r0] :
          o \in {"MADD", "MSUB"}, w \in Forms, a \in Regs, b \in Regs}

A64Shift ==
  Two({"LSL", "LSR", "ASR", "ROR"}, Forms, Regs, Regs)
  \cup Two({"LSL", "LSR", "ASR", "ROR"}, Forms, {0, 1}, Regs)
  \cup [op : {"EXTR"}, w : {FALSE}, a : Regs, b : Regs,
        shift : 1 .. XBits - 1, d : {r0}]
  \cup [op : {"REV", "REV16"}, w : Forms, a : Regs, d : {r0}]
  \cup [op : {"REV32", "RBIT", "CLZ"}, w : {FALSE}, a : Regs, d : {r0}]
  \cup {i \in {[op |-> o, w |-> w, b |-> b, d |-> r0,
                lsb |-> range[1], width |-> range[2]] :
               o \in {"BFI", "BFXIL", "UBFX", "SBFX", "UBFIZ", "SBFIZ"},
               w \in Forms, b \in Regs, range \in Ranges} :
          Fits(i, <<i.lsb, i.width>>)}

A64Select ==
  [op : {"CSEL", "CSINC", "CSINV", "CSNEG"}, w : Forms, cond : Few,
   a : {r1}, b : Regs, d : {r0}]
  \cup [op : {"CINC", "CINV", "CNEG"}, w : Forms, cond : Few, a : Regs,
        d : {r0}]
  \cup [op : {"CSET"}, w : {FALSE}, cond : Conditions, d : {r0}]
  \cup [op : {"CSETM"}, w : Forms, cond : Few, d : {r0}]

\* Enumerated once, not at every step.
Listed(program) == {i : i \in program}

AllA64 == Listed(A64Arith \cup A64Compare \cup A64Wide \cup A64Shift \cup A64Select)

(***************************************************************************)
(* arm.  A condition of each kind; each is tried on every value, of which  *)
(* it survives some.                                                       *)
(***************************************************************************)
Imm == {r0, r1, 3}

Any(ops, conds, ss, as, bs) ==
  [op : ops, cond : conds, s : ss, a : as, shift : {""}, amount : {0},
   b : bs, d : {r0}]

A32Alu ==
  LET ops   == {"ADD", "SUB", "RSB", "AND", "ORR", "EOR", "BIC", "MVN"}
      carry == {"ADC", "SBC"}
  IN  Any({"ADD"}, Conditions, {FALSE}, {r1}, Regs)
      \cup Any(ops \cup carry, {"HI"}, {FALSE}, {r1}, Regs)
      \cup Any(carry, {"AL"}, {TRUE}, Imm, Regs)
      \cup Any(carry, {"NE", "PL", "VS", "GE"}, {TRUE}, {r1}, Regs)
      \cup Any(ops, {"AL"}, {TRUE}, {r1, 3}, Regs)
      \cup Any(ops, {"EQ", "LO", "MI", "VS", "LS", "GT"}, {TRUE}, {r1}, Regs)
      \cup [op : {"ADD", "ORR"}, cond : {"LE"}, s : {FALSE}, a : Regs,
            shift : {"<<", ">>", "->", "@>"}, amount : 1 .. RBits - 1,
            b : {r1}, d : {r0}]

A32Compare ==
  Any({"CMP", "CMN", "TST", "TEQ"}, {"AL"}, {FALSE}, Imm, Regs)
  \cup Any({"CMP", "TST"}, {"NE", "HI"}, {FALSE}, {r1}, Regs)

A32Wide ==
  [op : {"MUL"}, cond : {"LE"}, a : Imm, b : Regs, d : {r0}]
  \cup [op : {"MULA"}, cond : {"LE"}, a : Imm, b : Regs, c : Regs,
        d : {r0}]
  \cup [op : {"MULLU", "MULALU"}, cond : {"LE"}, a : Imm, b : Regs,
        d : {r0}, e : {r1}]
  \cup [op : {"DIVUHW"}, cond : {"LE"}, a : {r1, 3}, b : Regs, d : {r0}]
  \cup [op : {"CLZ"}, cond : {"LE"}, a : Imm, d : {r0}]

AllA32 == Listed(A32Alu \cup A32Compare \cup A32Wide)

(***************************************************************************)
(* amd64.  h0 is the second byte of r0.  The pair of a long multiplication *)
(* is r0 (low) and r1 (high).  Bytes have one bit, words of 16 and 32 bits *)
(* two, so that counts up to ShortCounts - 1 exceed them.  Registers take  *)
(* all values, so immediates would add nothing.                            *)
(***************************************************************************)
X86SizeBits == [B |-> 1, W |-> 2, L |-> 2, Q |-> 4]

X86HighByte == [x \in {h0} |-> r0]

X86Two(ops, sizes, as) == [op : ops, sz : sizes, a : as, d : {r0}]

X86Three(ops, sizes, as, bs) ==
  [op : ops, sz : sizes, a : as, b : bs, d : {r0}]

X86Conditions ==
  {"EQ", "NE", "LT", "GE", "LE", "GT", "CS", "CC", "LS", "HI"}

X86Arithmetic ==
  X86Two({"ADD", "SUB"}, Sizes, {r1})
  \cup X86Two({"AND", "XOR"}, {"B"}, {r1})
  \cup X86Two({"AND", "OR"}, {"Q"}, {r1})
  \cup X86Two({"XOR"}, {"L"}, {r0})
  \cup [op : {"ADD", "SUB"}, sz : {"B"}, a : {r0}, d : {h0}]
  \cup X86Two({"ADC", "SBB"}, {"L", "Q"}, {r1})
  \cup X86Two({"ADC"}, {"B"}, {h0})
  \cup X86Two({"ADCX", "ADOX"}, {"Q"}, {r0, r1})
  \cup [op : {"INC", "DEC", "NEG"}, sz : {"L"}, d : {r0}]
  \cup [op : {"NOT"}, sz : {"L"}, d : {r0}]
  \cup [op : {"BSWAP", "RCR"}, sz : {"Q"}, d : {r0}]

X86Flagged ==
  [op : {"CMP"}, sz : {"B", "L"}, a : {r0}, b : {r1}, d : {r0}]
  \cup [op : {"TEST"}, sz : {"B"}, a : {r0}, b : {r1}, d : {r0}]
  \cup [op : {"CMP"}, sz : {"B"}, a : {h0}, b : {r1}, d : {r0}]
  \cup X86Two({"BT", "BTS", "BTR"}, {"Q"}, {r1})
  \cup [op : {"SET"}, sz : {"B"}, cond : X86Conditions, d : {r0}]
  \cup [op : {"SET"}, sz : {"B"}, cond : {"LT"}, d : {h0}]
  \cup [op : {"CMOV"}, sz : {"Q"}, cond : {"LE", "HI"}, a : {r1},
        d : {r0}]

X86BitOps ==
  X86Two({"BSF", "BSR"}, {"W", "Q"}, {r1})
  \cup X86Two({"TZCNT"}, {"Q"}, {r1})
  \cup X86Two({"POPCNT"}, {"L"}, {r1})
  \cup X86Three({"ANDN"}, {"Q"}, {r0}, {r1})
  \cup X86Three({"BZHI"}, {"Q"}, {r0}, {r1})
  \cup [op : {"BEXTR"}, sz : {"Q"}, start : {3, 7},
        length : {4}, b : {r0}, d : {r0}]

X86Shifts ==
  X86Two({"SHL", "SAR"}, {"W", "Q"}, {r1}) \cup X86Two({"SHR"}, {"Q"}, {r1})
  \cup X86Two({"SHL"}, {"B"}, {r1})
  \cup X86Three({"SHLX", "SHRX"}, {"Q"}, {r0}, {r1})
  \cup X86Two({"ROL", "ROR"}, {"Q"}, {r1})
  \cup X86Three({"RORX"}, {"L"}, {1}, {r1})
  \cup X86Three({"SHLD", "SHRD"}, {"Q"}, {r0}, {r1})

X86Wide ==
  [op : {"MUL", "IMUL1"}, sz : {"L"}, a : {r1}, d : {r0}, e : {r1}]
  \cup [op : {"MULX"}, sz : {"Q"}, a : {r0}, b : {r1}, d : {r0}, e : {r0, r1}]
  \cup [op : {"DIV"}, sz : {"L"}, a : {1, 3}, d : {r0}, e : {r1}]
  \cup X86Two({"IMUL2"}, {"L"}, {r1})
  \cup X86Three({"IMUL3"}, {"Q"}, {3}, {r1})
  \cup X86Two({"MOV"}, {"W", "L"}, {r1})
  \cup X86Two({"MOVZX"}, {"B"}, {r1, h0}) \cup X86Two({"MOVZX"}, {"W"}, {r1})
  \cup X86Two({"MOVSX"}, {"W", "L"}, {r1})

AllX86 ==
  Listed(X86Arithmetic \cup X86Flagged \cup X86BitOps \cup X86Shifts \cup X86Wide)
=============================================================================
