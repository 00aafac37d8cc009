--------------------------- MODULE LinearLowering ---------------------------
(***************************************************************************)
(* Straight-line functions (translate.go, translate_module_direct.go).     *)
(*                                                                         *)
(* The package has two linear translators.  TranslateModule first builds   *)
(* the LLVM module with translateFuncLinearModule ("direct"); when that    *)
(* reports errDirectModuleUnsupported it discards the module and parses    *)
(* the text of translateFuncLinear ("text").  Both are forward passes that *)
(* keep, per register, the SSA value it holds.  Here both passes and the   *)
(* processor go over the same instructions in lockstep; an SSA value is    *)
(* represented by what it evaluates to.                                    *)
(*                                                                         *)
(* notes is a history variable: the constructs met that the text path is   *)
(* known to lower to something else, or that nothing can be made of.       *)
(***************************************************************************)
EXTENDS LinearSource

CONSTANTS
  LinearFunctions   \* records: arch, regs, args, argRegs, ret, params, results, alphabet, max, inputs, mem

(***************************************************************************)
(* What a function is made of: registers that its operands and the calling *)
(* convention name, slots of scalar types (go_translate.go:806), immediate *)
(* words, and arguments that fit their types.                              *)
(***************************************************************************)
SlotTypes == Ints \cup Floats \cup {"ptr"}
SlotsOf(n) == [off : Int, typ : SlotTypes, idx : 1 .. n, field : Int]
OperandOf(fn, o) ==
  /\ o.n \in Int
  /\ o.kind = "imm" => o.n \in 0 .. 2^8 - 1
  /\ o.kind \in {"reg", "shift"} => o.reg \in fn.regs
  /\ o.kind = "mem" => o.reg \in fn.regs \cup {""}
  /\ o.kind \in {"mem", "shift"} => o.index \in fn.regs \cup {""}
  /\ o.kind = "shift" => o.how \in {"<<", ">>", "->", "@>"} /\ o.n \in 0 .. 3
Arity(op) == IF op \in {"MOVD", "MOVQ", "MOVL", "MOVW", "MOVB", "MOVBU", "MRS"} THEN {2} ELSE {2, 3}
InstructionOf(fn, ins) ==
  /\ DOMAIN ins.args = 1 .. Len(ins.args)
  /\ ins.op \notin {"BYTE", "CPUID", "XGETBV"} => Len(ins.args) \in Arity(ins.op)
  /\ \A i \in DOMAIN ins.args : OperandOf(fn, ins.args[i])
InputOf(fn, a) ==
  /\ \A i \in DOMAIN fn.args : a[i][1] \in IF fn.args[i] = "agg" THEN Nat ELSE 0 .. 2^BitsOf(fn.arch, fn.args[i]) - 1
  /\ \A i \in DOMAIN fn.params : LET s == fn.params[i] IN
       a[s.idx][IF s.field < 0 THEN 1 ELSE s.field + 1] \in 0 .. 2^BitsOf(fn.arch, s.typ) - 1

ASSUME LinearAssumption ==
  /\ MaxBits >= 8
  /\ \A fn \in LinearFunctions :
       /\ fn.arch \in {"amd64", "arm", "arm64"}
       /\ (IF fn.arch = "amd64" THEN {"AX", "BX", "CX", "DX"} ELSE {"R0"}) \subseteq fn.regs
       /\ fn.args \in Seq(SlotTypes \cup {"agg"})
       /\ fn.params \in Seq(SlotsOf(Len(fn.args))) /\ fn.results \in Seq(SlotsOf(Len(fn.results)))
       /\ fn.max \in Nat
       /\ fn.mem \in [0 .. MemSize - 1 -> 0 .. 2^CellBits - 1]
       /\ \A i \in DOMAIN fn.alphabet : InstructionOf(fn, fn.alphabet[i])
       /\ \A a \in fn.inputs : InputOf(fn, a)

VARIABLES
  f,        \* the function: its signature and its instructions
  args,     \* the arguments of the call, each a sequence of words
  phase,    \* "body", "tail" (after the first RET) or "ended"
  count,    \* instructions so far
  src,      \* the processor
  text,     \* translateFuncLinear
  direct,   \* translateFuncLinearModule
  notes

lvars == <<f, args, phase, count, src, text, direct, notes>>

(***************************************************************************)
(* SSA values: a type, whether the operand is an SSA name (not a constant) *)
(* and the word it evaluates to.                                           *)
(***************************************************************************)
Val(typ, val)   == [typ |-> typ, ssa |-> TRUE, val |-> val]
Const(typ, val) == [typ |-> typ, ssa |-> FALSE, val |-> val]
NoVal  == Const("none", 0)
ErrVal == Const("error", 0)
Zero(typ) == Const(typ, 0)

Bits(typ) == BitsOf(f.arch, typ)
Fit(typ, x) == IF x = Poison THEN Poison ELSE Trunc(Bits(typ), x)

\* The integer casts that emitCast lists; i8 to i16 and i1 to i8 are not among them.
IntCastsNarrow ==   \* mutant: no widening to i64
  {<<"i64", t>> : t \in {"i1", "i8", "i16", "i32"}} \cup {<<t, "i32">> : t \in {"i1", "i8", "i16"}}
  \cup {<<t, "i1">> : t \in {"i32", "i16", "i8"}} \cup {<<"i32", "i8">>, <<"i16", "i8">>, <<"i32", "i16">>}
IntCasts ==
  {<<"i64", t>> : t \in {"i1", "i8", "i16", "i32"}} \cup {<<t, "i32">> : t \in {"i1", "i8", "i16"}}
  \cup {<<t, "i64">> : t \in {"i1", "i8", "i16", "i32"}} \cup {<<t, "i1">> : t \in {"i32", "i16", "i8"}}
  \cup {<<"i32", "i8">>, <<"i16", "i8">>, <<"i32", "i16">>}

\* Scalars that emitCast has no case for (translate.go:746).
Narrow == {"i1", "i8", "i16"}
NoCast ==
  {<<"i1", "i8">>, <<"i1", "i16">>, <<"i8", "i16">>, <<"float", "double">>, <<"double", "float">>}
  \cup ((Narrow \cup Floats) \X {"ptr"}) \cup ({"ptr"} \X (Narrow \cup Floats))

TextCast(v, to) ==
  IF v.typ \in {to, "error"} THEN v
  ELSE IF <<v.typ, to>> \in IntCasts THEN Val(to, Fit(to, v.val))
  ELSE IF v.typ \in Ints /\ to \in Floats THEN Val(to, UiToFp(Bits(to), v.val))
  ELSE IF v.typ \in Floats /\ to \in Ints THEN Val(to, Fit(to, FpToUi(Bits(v.typ), v.val)))
  ELSE IF v.typ = "ptr" /\ to \in {"i32", "i64"}
       THEN IF v.ssa THEN Val(to, Fit(to, v.val)) ELSE Zero(to)
  ELSE IF to = "ptr" /\ v.typ \in {"i32", "i64"} THEN Val("ptr", Fit("ptr", v.val))
  ELSE ErrVal

DirectCastSigned(v, to) ==   \* mutant: an i32 is widened with its sign
  IF v.typ \in {to, "error"} THEN v
  ELSE IF v.typ = "i32" /\ to = "i64" THEN Val(to, Fit(to, Signed(8, v.val) + 2^MaxBits))
  ELSE IF v.typ \in Ints \cup {"ptr"} /\ to \in Ints \cup {"ptr"} THEN Val(to, Fit(to, v.val))
  ELSE ErrVal
DirectCast(v, to) ==
  IF v.typ \in {to, "error"} THEN v
  ELSE IF v.typ \in Ints \cup {"ptr"} /\ to \in Ints \cup {"ptr"} THEN Val(to, Fit(to, v.val))
  ELSE ErrVal

(***************************************************************************)
(* Signature and frame.  Slots are [off, typ, idx, field], field < 0 when  *)
(* the slot is the argument itself.                                        *)
(***************************************************************************)
NoSlot == [off |-> 0, typ |-> "none", idx |-> 0, field |-> 0]
SlotAt(slots, off) ==
  IF \E i \in DOMAIN slots : slots[i].off = off
  THEN slots[CHOOSE i \in DOMAIN slots : slots[i].off = off] ELSE NoSlot

DefaultRegs ==
  CASE f.arch = "arm" -> <<"R0", "R1", "R2", "R3">>
    [] f.arch = "arm64" -> <<"R0", "R1", "R2", "R3", "R4", "R5", "R6", "R7">>
    [] f.arch = "amd64" -> <<"DI", "SI", "DX", "CX", "R8", "R9">>
ArgRegs == IF f.argRegs # <<>> THEN f.argRegs ELSE DefaultRegs
InitialRegs(a) ==
  [r \in f.regs |->
     IF \E i \in DOMAIN f.args \cap DOMAIN ArgRegs : ArgRegs[i] = r
     THEN LET i == CHOOSE i \in DOMAIN f.args \cap DOMAIN ArgRegs : ArgRegs[i] = r
          IN  Val(f.args[i], a[i][1])
     ELSE NoVal]
archReturnReg == IF f.arch = "amd64" THEN "AX" ELSE "R0"

(***************************************************************************)
(* The two translators agree on what reading a register or a parameter is. *)
(***************************************************************************)
RegValue(t, r) == IF t.reg[r].typ = "none" THEN Zero("i64") ELSE t.reg[r]
ParamValue(slot) ==
  IF slot.idx \notin DOMAIN f.args THEN Zero("i64")
  ELSE Val(slot.typ, args[slot.idx][IF slot.field < 0 THEN 1 ELSE slot.field + 1])

\* addrOfMem: base and index as i64, without the wrap of 32-bit registers.
TextAddress(t, o) ==
  LET part(r) == IF r = "" \/ t.reg[r].typ = "none" THEN Zero("i64") ELSE TextCast(t.reg[r], "i64")
      b == part(o.reg)
      x == part(o.index)
  IN  IF "error" \in {b.typ, x.typ} THEN ErrVal
      ELSE IF Poison \in {b.val, x.val} THEN Val("i64", Poison)
      ELSE Val("i64", Fit("i64", b.val + x.val + o.n))

\* Every load is a load of i64, whatever the width of the move.
TextLoad(o, a) ==
  IF a.typ = "error" THEN Zero("i64")
  ELSE IF a.val = Poison \/ ~Fits(Fit("ptr", a.val), 8) THEN Val("i64", Poison)
  ELSE Val("i64", Cells(src.mem, Fit("ptr", a.val), 8))

TextShift(how, x, s) ==
  IF Poison \in {x, s} THEN Poison
  ELSE CASE how = "<<" -> Shl(4, x, s)
         [] how = ">>" -> Lshr(4, x, s)
         [] how = "->" -> Ashr(4, x, s)
         [] how = "@>" -> RotateRight(4, x, s % 4)

TextValue(t, o) ==
  CASE o.kind = "imm" -> Const("i64", o.n)
    [] o.kind = "raw" -> ErrVal
    [] o.kind = "reg" -> RegValue(t, o.reg)
    [] o.kind = "shift" ->
         IF f.arch # "arm" THEN ErrVal
         ELSE LET v == TextCast(RegValue(t, o.reg), "i32")
                  s == IF o.index = "" THEN Const("i32", o.n) ELSE TextCast(RegValue(t, o.index), "i32")
              IN  IF "error" \in {v.typ, s.typ} THEN ErrVal ELSE Val("i32", TextShift(o.how, v.val, s.val))
    [] o.kind = "fp" ->
         LET slot == SlotAt(f.params, o.n) IN IF slot = NoSlot THEN Zero("i64") ELSE ParamValue(slot)
    [] o.kind = "mem" -> TextLoad(o, TextAddress(t, o))
    [] OTHER -> Zero("i64")

DirectValue(d, o) ==
  CASE o.kind = "imm" -> Const("i64", o.n)
    [] o.kind = "reg" -> RegValue(d, o.reg)
    [] o.kind = "fp" ->
         LET slot == SlotAt(f.params, o.n)
         IN  IF slot = NoSlot \/ slot.idx \notin DOMAIN f.args THEN ErrVal ELSE ParamValue(slot)
    [] OTHER -> ErrVal
Fail(t, st) == [t EXCEPT !.st = IF @ = "run" THEN st ELSE @]
Running(t) == t.st = "run"

SetRegConst(t, r, v) == [t EXCEPT !.reg[r] = v]   \* mutant: constants stay constants
\* Constants are made SSA values; a null pointer stays a constant.
SetReg(t, r, v) ==
  [t EXCEPT !.reg[r] = IF v.ssa \/ v.typ = "ptr" THEN v
                       ELSE IF v.typ \in Ints THEN Val(v.typ, Fit(v.typ, v.val)) ELSE Val("i64", 0)]

TextSetResult(t, off, v) ==
  LET slot == SlotAt(f.results, off)
      c == TextCast(v, slot.typ)
  IN  IF slot = NoSlot THEN t
      ELSE IF c.typ = "error" THEN Fail(t, "error") ELSE [t EXCEPT !.res[slot.idx] = c]

DirectSetResult(d, off, v) ==
  LET slot == SlotAt(f.results, off)
      c == DirectCast(v, slot.typ)
  IN  IF slot = NoSlot \/ slot.idx \notin DOMAIN d.res \/ c.typ = "error" THEN Fail(d, "unsupported")
      ELSE [d EXCEPT !.res[slot.idx] = c]

(***************************************************************************)
(* Which instructions stay out of the translators with a control-flow      *)
(* graph (arm_needed.go, arm64_needed.go, amd64_needed.go).  One such      *)
(* instruction anywhere, or a label, and the whole function is theirs.     *)
(***************************************************************************)
PlainKinds == {"imm", "raw", "reg", "fp"}
ArmOps == {"ADD", "SUB", "AND", "ORR", "EOR", "RSB"}
funcNeedsARMCFG(ins) ==
  /\ ins.op \notin {"BYTE", "RET"}
  /\ ins.op \in {"MOVW", "MOVB", "MOVBU"} \cup ArmOps => \E i \in DOMAIN ins.args : ins.args[i].kind = "ident"
funcNeedsARM64CFG(ins) ==
  /\ ins.op \notin {"BYTE", "RET", "MRS"}
  /\ ins.op = "MOVD" => \E i \in DOMAIN ins.args : ins.args[i].kind \notin PlainKinds
funcNeedsAMD64CFGOp(ins) ==   \* mutant: the opcode alone decides
  ins.op \notin {"BYTE", "RET", "ADDQ", "SUBQ", "XORQ", "CPUID", "XGETBV", "MOVQ", "MOVL"}
funcNeedsAMD64CFG(ins) ==
  /\ ins.op \notin {"BYTE", "RET", "ADDQ", "SUBQ", "XORQ", "CPUID", "XGETBV"}
  /\ ins.op \in {"MOVQ", "MOVL"} => \E i \in DOMAIN ins.args : ins.args[i].kind \notin PlainKinds

NeedsCFG(ins) ==
  CASE f.arch = "arm" -> funcNeedsARMCFG(ins)
    [] f.arch = "arm64" -> funcNeedsARM64CFG(ins)
    [] f.arch = "amd64" -> funcNeedsAMD64CFG(ins)

(***************************************************************************)
(* MOVD, MOVQ, MOVL and ARM's MOVW, MOVB, MOVBU.  What is stored anywhere  *)
(* but in a register or a result slot is dropped by the text path and      *)
(* refused by the direct one.                                              *)
(***************************************************************************)
MoveOps == {"MOVD", "MOVQ", "MOVL", "MOVW", "MOVB", "MOVBU"}
MoveType(op) ==
  CASE op \in {"MOVD", "MOVQ"} -> "i64" [] op \in {"MOVL", "MOVW"} -> "i32" [] OTHER -> "i8"

TextMove(t, ins) ==
  LET v == TextCast(TextValue(t, ins.args[1]), MoveType(ins.op))
      to == ins.args[2]
  IN  IF v.typ = "error" THEN Fail(t, "error")
      ELSE CASE to.kind = "reg" -> SetReg(t, to.reg, v)
             [] to.kind = "fp" -> TextSetResult(t, to.n, v)
             [] OTHER -> t

DirectMove(d, ins) ==
  LET v == DirectCast(DirectValue(d, ins.args[1]), MoveType(ins.op))
      to == ins.args[2]
  IN  IF v.typ = "error" \/ ins.op \notin {"MOVD", "MOVQ", "MOVL"} THEN Fail(d, "unsupported")
      ELSE CASE to.kind = "reg" -> [d EXCEPT !.reg[to.reg] = v]
             [] to.kind = "fp" -> DirectSetResult(d, to.n, v)
             [] OTHER -> Fail(d, "unsupported")

(***************************************************************************)
(* Two- and three-operand arithmetic.  Two operands: the second is also    *)
(* the left operand.  Only the text path knows ARM's.                      *)
(***************************************************************************)
QuadOps == {"ADDQ", "SUBQ", "XORQ"}
Lhs(ins) == ins.args[IF Len(ins.args) = 3 THEN 2 ELSE Len(ins.args)]
Dst(ins) == ins.args[Len(ins.args)]
Compute(op, typ, x, y) ==
  IF Poison \in {x, y} THEN Poison
  ELSE Trunc(Bits(typ), CASE op \in {"ADDQ", "ADD"} -> x + y
                          [] op \in {"SUBQ", "SUB"} -> x - y + 2^MaxBits
                          [] op = "RSB" -> y - x + 2^MaxBits
                          [] op \in {"XORQ", "EOR"} -> XorW(x, y)
                          [] op = "AND" -> AndW(x, y)
                          [] op = "ORR" -> OrW(x, y))
ArithType(op) == IF op \in QuadOps THEN "i64" ELSE "i32"

TextArith(t, ins) ==
  LET typ == ArithType(ins.op)
      x == TextCast(TextValue(t, Lhs(ins)), typ)
      y == TextCast(TextValue(t, ins.args[1]), typ)
  IN  IF Dst(ins).kind # "reg" \/ "error" \in {x.typ, y.typ} THEN Fail(t, "error")
      ELSE [t EXCEPT !.reg[Dst(ins).reg] = Val(typ, Compute(ins.op, typ, Fit(typ, x.val), Fit(typ, y.val)))]

DirectArith(d, ins) ==
  LET x == DirectCast(DirectValue(d, Lhs(ins)), "i64")
      y == DirectCast(DirectValue(d, ins.args[1]), "i64")
  IN  IF ins.op \notin QuadOps \/ Dst(ins).kind # "reg" \/ "error" \in {x.typ, y.typ} THEN Fail(d, "unsupported")
      ELSE [d EXCEPT !.reg[Dst(ins).reg] = Val("i64", Compute(ins.op, "i64", x.val, y.val))]

(***************************************************************************)
(* MRS: system registers that LLVM's assembler may not know read as zero.  *)
(***************************************************************************)
CompileSafe == {"ID_AA64ISAR0_EL1", "ID_AA64PFR0_EL1", "ID_AA64ZFR0_EL1", "MIDR_EL1"}
MRSValue(id) == IF id \in CompileSafe THEN Zero("i64") ELSE Val("i64", SysReg(id))
MRSFits(ins) == ins.args[1].kind = "ident" /\ ins.args[2].kind = "reg"
TextMRS(t, ins) ==
  IF MRSFits(ins) THEN [t EXCEPT !.reg[ins.args[2].reg] = MRSValue(ins.args[1].reg)] ELSE Fail(t, "error")
DirectMRS(d, ins) ==
  IF MRSFits(ins) THEN [d EXCEPT !.reg[ins.args[2].reg] = MRSValue(ins.args[1].reg)] ELSE Fail(d, "unsupported")

(***************************************************************************)
(* CPUID and XGETBV: inputs from AX and CX as i32 (zero when never set),   *)
(* outputs as i32.  The text path leaves a constant input in its register  *)
(* as an SSA value.                                                        *)
(***************************************************************************)
Answer(reg, new) == [r \in DOMAIN reg |-> IF r \in DOMAIN new THEN Val("i32", new[r]) ELSE reg[r]]
Input(t, r, Cast(_, _)) == IF t.reg[r].typ = "none" THEN Zero("i32") ELSE Cast(t.reg[r], "i32")
AskCPU(t, op, Cast(_, _), st) ==
  LET a == IF op = "CPUID" THEN Input(t, "AX", Cast) ELSE Zero("i32")
      c == Input(t, "CX", Cast)
  IN  IF "error" \in {a.typ, c.typ} THEN Fail(t, st)
      ELSE [t EXCEPT !.reg = Answer(@, IF op = "CPUID" THEN Cpuid(a.val, c.val) ELSE Xgetbv(c.val))]
TextCPU(t, ins)   == AskCPU(t, ins.op, TextCast, "error")
DirectCPU(d, ins) == AskCPU(d, ins.op, DirectCast, "unsupported")

(***************************************************************************)
(* RET: the result slots when there are several, a missing one zero; else  *)
(* the one result slot if it was written, the return register if it was,   *)
(* or zero.  The text path makes a constant field of an aggregate an SSA   *)
(* value with "add typ c, 0", which is no LLVM for ptr, float and double.  *)
(***************************************************************************)
ResultValue(t, slot) == IF t.res[slot.idx].typ = "none" THEN Zero(slot.typ) ELSE t.res[slot.idx]
ScalarValue(t) ==
  IF Len(f.results) = 1 /\ t.res[1].typ # "none" THEN t.res[1]
  ELSE IF t.reg[archReturnReg].typ # "none" THEN t.reg[archReturnReg]
  ELSE Zero(f.ret)

Returned(t, Cast(_, _)) ==
  IF Len(f.results) > 1
  THEN [i \in DOMAIN f.results |-> Cast(ResultValue(t, f.results[i]), f.results[i].typ)]
  ELSE <<Cast(ScalarValue(t), f.ret)>>
Finish(t, values, st) ==
  IF ~Running(t) THEN t
  ELSE IF \E i \in DOMAIN values : values[i].typ = "error" THEN Fail(t, st)
  ELSE [t EXCEPT !.st = "done", !.out = [i \in DOMAIN values |-> Fit(values[i].typ, values[i].val)]]

TextRET(t) ==
  LET values == Returned(t, TextCast) IN
  IF Len(f.results) > 1 /\ \E i \in DOMAIN values : ~values[i].ssa /\ values[i].typ \notin Ints \cup {"error"}
  THEN Fail(t, "invalid")
  ELSE Finish(t, values, "error")
DirectRET(d) ==
  IF f.ret = "void" THEN [d EXCEPT !.st = IF @ = "run" THEN "done" ELSE @]
  ELSE Finish(d, Returned(d, DirectCast), "unsupported")

SourceResult ==
  IF f.ret = "void" THEN <<>>
  ELSE IF Len(f.results) > 0 THEN [i \in DOMAIN f.results |-> src.slot[f.results[i].off]]
  ELSE <<src.reg[archReturnReg]>>

(***************************************************************************)
(* What is known to be lost, per instruction.                              *)
(***************************************************************************)
Scalars == Ints \cup Floats \cup {"ptr", "error", "none"}
Types(ins) == {TextValue(text, ins.args[i]).typ : i \in DOMAIN ins.args}
Kinds(ins) == {ins.args[i].kind : i \in DOMAIN ins.args}
Dest(ins) == SlotAt(f.results, Dst(ins).n)

OperandNotes(ins) ==
  {"symbol" : k \in Kinds(ins) \cap {"sym"}}
  \cup {"operand" : k \in Kinds(ins) \cap {"raw"}}
  \cup {"type" : t \in Types(ins) \ Scalars}
  \cup {"wide" : o \in {o \in {ins.args[1]} : o.kind = "mem" /\ TextValue(text, o).val = Poison}}
  \cup {"shift" : o \in {o \in {ins.args[1]} : o.kind = "shift" /\ TextValue(text, o).val = Poison}}
  \cup {"readback" : o \in {o \in {ins.args[1]} : /\ o.kind = "fp"
                                                  /\ SlotAt(f.params, o.n) = NoSlot
                                                  /\ SrcValue(f.arch, src, o, 8) # Unknown}}
MoveNotes(ins) ==
  LET to == Dst(ins)
      w == MoveBits(ins.op)
  IN  OperandNotes(ins)
      \cup (IF TextValue(text, ins.args[1]).typ \in Floats \/ (to.kind = "fp" /\ Dest(ins).typ \in Floats)
            THEN {"float"} ELSE {})
      \cup (IF to.kind = "mem" THEN {"store"} ELSE {})
      \cup (IF to.kind = "fp" /\ Dest(ins) = NoSlot THEN {"param"} ELSE {})
      \cup (IF to.kind = "fp" /\ Dest(ins) # NoSlot /\ src.slot[to.n].n > w THEN {"partial"} ELSE {})
      \cup (IF to.kind = "reg" /\ ins.op = "MOVB" THEN {"sign"} ELSE {})
      \cup {"cast" : c \in ({<<TextValue(text, ins.args[1]).typ, MoveType(ins.op)>>}
                            \cup {<<MoveType(ins.op), Dest(ins).typ>> : k \in {to.kind} \cap {"fp"}}) \cap NoCast}
ArithNotes(ins) == OperandNotes(ins) \cup (IF Dst(ins).kind # "reg" THEN {"operand"} ELSE {})
MRSNotes(ins) ==
  IF ~MRSFits(ins) THEN {"operand"} ELSE IF ins.args[1].reg \in CompileSafe THEN {"sysreg"} ELSE {}
RETNotes ==
  IF f.ret = "void" \/ Len(f.results) > 1 THEN {}
  ELSE LET typ == ScalarValue(text).typ
       IN  {"type" : t \in {typ} \ Scalars} \cup {"cast" : c \in {<<typ, f.ret>>} \cap NoCast}
           \cup {"float" : t \in {typ, f.ret} \cap (IF typ = f.ret THEN {} ELSE Floats)}

(***************************************************************************)
(* The passes.                                                             *)
(***************************************************************************)
Body(ins) ==
  /\ phase = "body"
  /\ count < f.max
  /\ ~NeedsCFG(ins)
  /\ count' = count + 1
  /\ UNCHANGED <<f, args, phase>>

Processor(next) == src' = IF src.ok THEN next ELSE src
Pass(t, next) == IF Running(t) THEN next ELSE t

LowerMove(ins) ==
  /\ ins.op \in MoveOps
  /\ Body(ins)
  /\ Processor(SrcMove(f.arch, src, ins.op, ins.args[1], ins.args[2]))
  /\ text' = Pass(text, TextMove(text, ins))
  /\ direct' = Pass(direct, DirectMove(direct, ins))
  /\ notes' = notes \cup MoveNotes(ins)

LowerArith(ins) ==
  /\ ins.op \in QuadOps \cup ArmOps
  /\ Body(ins)
  /\ Processor(IF Dst(ins).kind # "reg" THEN [src EXCEPT !.ok = FALSE]
               ELSE SrcArith(f.arch, src, ins.op, Lhs(ins), ins.args[1], Dst(ins).reg))
  /\ text' = Pass(text, TextArith(text, ins))
  /\ direct' = Pass(direct, DirectArith(direct, ins))
  /\ notes' = notes \cup ArithNotes(ins)

LowerMRS(ins) ==
  /\ ins.op = "MRS"
  /\ Body(ins)
  /\ Processor(IF MRSFits(ins) THEN SetSrcReg(src, ins.args[2].reg, Known(8, SysReg(ins.args[1].reg)))
               ELSE [src EXCEPT !.ok = FALSE])
  /\ text' = Pass(text, TextMRS(text, ins))
  /\ direct' = Pass(direct, DirectMRS(direct, ins))
  /\ notes' = notes \cup MRSNotes(ins)

LowerCPU(ins) ==
  /\ ins.op \in {"CPUID", "XGETBV"}
  /\ Body(ins)
  /\ Processor(SrcSet(src, IF ins.op = "CPUID" THEN CpuidKnown(src.reg["AX"], src.reg["CX"])
                           ELSE XgetbvKnown(src.reg["CX"])))
  /\ text' = Pass(text, TextCPU(text, ins))
  /\ direct' = Pass(direct, DirectCPU(direct, ins))
  /\ UNCHANGED notes

\* Raw machine bytes are skipped: what they do is not known.
LowerByte(ins) ==
  /\ ins.op = "BYTE"
  /\ Body(ins)
  /\ Processor([src EXCEPT !.ok = FALSE])
  /\ UNCHANGED <<text, direct, notes>>

LowerRET ==
  /\ phase = "body"
  /\ phase' = "tail"
  /\ Processor([src EXCEPT !.out = SourceResult])
  /\ text' = Pass(text, TextRET(text))
  /\ direct' = Pass(direct, DirectRET(direct))
  /\ notes' = notes \cup RETNotes
  /\ UNCHANGED <<f, args, count>>

\* The text path stops at the first RET; the direct path goes on to look
\* whether anything but raw bytes follows.
LowerTail(ins) ==
  /\ phase = "tail"
  /\ count < f.max
  /\ ~NeedsCFG(ins)
  /\ count' = count + 1
  /\ direct' = IF ins.op = "BYTE" \/ direct.st # "done" THEN direct ELSE [direct EXCEPT !.st = "unsupported"]
  /\ UNCHANGED <<f, args, phase, src, text, notes>>

\* The end of the function; without a RET the processor would run on.
LowerEnd ==
  /\ phase # "ended"
  /\ phase' = "ended"
  /\ IF phase = "tail" THEN UNCHANGED <<src, text, direct>>
     ELSE /\ Processor([src EXCEPT !.ok = FALSE])
          /\ text' = IF Running(text) THEN [text EXCEPT !.st = "done", !.out = <<0>>] ELSE text
          /\ direct' = Fail(direct, "unsupported")
  /\ UNCHANGED <<f, args, count, notes>>

SlotWord(fn, slot, a) == Known(BitsOf(fn.arch, slot.typ), a[slot.idx][IF slot.field < 0 THEN 1 ELSE slot.field + 1])
\* Registers at entry: an argument has the bits of its type.
EntryRegs(regs) ==
  [r \in DOMAIN regs |-> IF regs[r].typ \in Scalars \ {"none"} THEN Known(Bits(regs[r].typ), regs[r].val) ELSE Unknown]
EntrySlots(a) ==
  [off \in {f.params[i].off : i \in DOMAIN f.params} \cup {f.results[i].off : i \in DOMAIN f.results} |->
     LET slot == SlotAt(f.params, off) IN IF slot = NoSlot THEN Unknown ELSE SlotWord(f, slot, a)]
Fresh(st, regs) == [st |-> st, reg |-> regs, res |-> [i \in DOMAIN f.results |-> NoVal], out |-> <<>>]

LInit ==
  /\ f \in LinearFunctions
  /\ args \in f.inputs
  /\ phase = "body" /\ count = 0 /\ notes = {}
  /\ src = [reg |-> EntryRegs(InitialRegs(args)), slot |-> EntrySlots(args), mem |-> f.mem, ok |-> TRUE, out |-> <<>>]
  /\ text = Fresh(IF f.ret = "void" THEN "done" ELSE "run", InitialRegs(args))
  /\ direct = Fresh("run", InitialRegs(args))

LNext ==
  \/ \E i \in DOMAIN f.alphabet :
       \/ LowerMove(f.alphabet[i])
       \/ LowerArith(f.alphabet[i])
       \/ LowerMRS(f.alphabet[i])
       \/ LowerCPU(f.alphabet[i])
       \/ LowerByte(f.alphabet[i])
       \/ LowerTail(f.alphabet[i])
  \/ LowerRET
  \/ LowerEnd

LSpec == LInit /\ [][LNext]_lvars

(***************************************************************************)
(* TranslateModule: the direct module, or else the parsed text.            *)
(***************************************************************************)
Module == IF direct.st = "done" THEN direct ELSE text
Accepted == Module.st = "done"

\* Losses the repository's comments and tests accept, by path and processor.
Excuses ==
  IF direct.st = "done" THEN {"sysreg", "partial"}
  ELSE CASE f.arch = "arm64" -> {"sysreg", "partial", "float", "readback", "param"}
         [] f.arch = "amd64" -> {"symbol", "wide", "partial", "float", "readback", "param"}
         [] f.arch = "arm" -> {"symbol", "wide", "partial", "float", "readback", "param", "store", "sign", "shift"}

Agrees(k, typ, x) ==
  LET n == Least(k.n, Bits(typ)) IN n = 0 \/ (x # Poison /\ x % 2^n = k.v % 2^n)
ResultType(i) == IF Len(f.results) > 0 THEN f.results[i].typ ELSE f.ret

\* The translators' records are well formed: what a register or a result
\* slot holds is a word of its type (an aggregate argument apart), a pointer
\* that is a constant is null, and the registers of the text path never hold
\* a constant that inline assembly could not take, only an SSA value, a null
\* pointer or an MRS zero (translate.go:914 "Materialize constants into SSA").
LTypeOK ==
  /\ phase \in {"body", "tail", "ended"} /\ count \in 0 .. f.max
  /\ text.st \in {"run", "done", "error", "invalid"} /\ direct.st \in {"run", "done", "unsupported"}
  /\ \A t \in {text, direct} : \A v \in {t.reg[r] : r \in f.regs} \cup {t.res[i] : i \in DOMAIN f.results} :
       /\ v.typ = "agg" \/ v.val \in 0 .. 2^Bits(v.typ) - 1 \cup {Poison}
       /\ v.typ = "ptr" => v.ssa \/ v.val = 0
  /\ \A r \in f.regs : text.reg[r].ssa \/ text.reg[r].val = 0
  /\ phase = "body" => direct.st # "done"

\* The function TranslateModule returns computes what the assembly does,
\* whichever path built it: same results, and memory untouched where the
\* module has no stores.  The functions excepted are those that contain a
\* construct the text path is known to lose.
ResultsAgree ==
  phase = "ended" /\ src.ok /\ Accepted /\ notes \cap Excuses = {} =>
    /\ \A i \in DOMAIN src.out : Agrees(src.out[i], ResultType(i), Module.out[i])
    /\ src.mem = f.mem

\* Both implementations of linear lowering are one function: where both
\* accept, they return the same words, the ones nobody set included.
PathsAgree == phase = "ended" /\ direct.st = "done" /\ text.st = "done" => direct.out = text.out

\* TranslateModule fails only on an operand or a type that no translator
\* knows, on a move or a result between two scalars that emitCast has no case
\* for (NoCast: i1 to i8, i1 and i8 to i16, floats and integers narrower than
\* i32 to or from a pointer, float to or from double), on a return type that
\* is no scalar, or on a pointer or floating-point field of an aggregate
\* result that the assembly never wrote, which makes the text invalid.  All
\* other straight-line functions with a RET are accepted by one of the paths.
RejectsOnlyUntranslatable ==
  phase = "ended" /\ ~Accepted =>
    \/ notes \cap {"operand", "type", "cast"} # {}
    \/ f.ret \notin Scalars \cup {"void", "tuple"}
    \/ ~src.ok
    \/ Len(f.results) > 1 /\ \E i \in DOMAIN src.out : src.out[i].n = 0 /\ f.results[i].typ \in Floats \cup {"ptr"}
=============================================================================
