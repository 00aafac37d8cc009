----------------------------- MODULE WasmSource -----------------------------
(***************************************************************************)
(* WebAssembly as Go's assembler writes it: the typing of instructions,    *)
(* the validation of structured control, and the machine that executes a   *)
(* function.  This is what the language and the Go ABI of wasm define, not *)
(* code of this repository; WasmLowering compares the translator with it.  *)
(*                                                                         *)
(* An instruction is a record [op, f, typ, n, r]: f the operation of a     *)
(* group (bin, cmp) or the width of an access (load, store), typ a value   *)
(* type or the result of a block, n an immediate or branch depth, r a      *)
(* register or label.  A byte has one bit here, so i8, i16, i32 and i64    *)
(* have 1, 2, 4 and 8.                                                     *)
(***************************************************************************)
EXTENDS WordOps, Sequences

CONSTANT MemSize   \* cells of linear memory

Bits == [i8 |-> 1, i16 |-> 2, i32 |-> 4, i64 |-> 8]

NoType == "none"

Ins(op, f, typ, n, r) == [op |-> op, f |-> f, typ |-> typ, n |-> n, r |-> r]

Openers == {"BLOCK", "LOOP", "IF"}
Returns == {"RET", "WASMRETURN", "RETUNWIND", "RETTAIL", "JMP"}
Diverts == Returns \cup {"BR", "UNDEF"}

\* Operand and result types of an instruction that is not control, the top of
\* the stack first; "sp" is the i32 that only a store to the frame takes; reg gives the type of each register.
In(ins, reg) ==
  CASE ins.op \in {"bin", "cmp"} -> <<ins.typ, ins.typ>>
    [] ins.op \in {"eqz", "DROP"} -> <<ins.typ>>
    [] ins.op = "WRAP"           -> <<"i64">>
    [] ins.op \in {"EXTENDS", "EXTENDU", "load", "BRIF", "IF"} -> <<"i32">>
    [] ins.op = "store"          -> <<ins.typ, "i32">>
    [] ins.op = "STOREFP"        -> <<ins.typ, "sp">>
    [] ins.op = "WASMCALL"       -> <<ins.typ, ins.typ>>
    [] ins.op \in {"SET", "TEE"} -> <<reg[ins.r]>>
    [] ins.op = "SELECT"         -> <<"i32", ins.typ, ins.typ>>
    [] OTHER -> <<>>

Out(ins, reg) ==
  CASE ins.op \in {"bin", "const", "load", "SELECT", "LOADFP", "WASMCALL"} -> <<ins.typ>>
    [] ins.op \in {"cmp", "eqz", "WRAP"} -> <<"i32">>
    [] ins.op = "GETSP"          -> <<"sp">>
    [] ins.op \in {"EXTENDS", "EXTENDU"} -> <<"i64">>
    [] ins.op \in {"GET", "TEE"} -> <<reg[ins.r]>>
    [] OTHER -> <<>>

-----------------------------------------------------------------------------
(***************************************************************************)
(* Validation, the algorithm of the WebAssembly specification: a stack of  *)
(* types and a stack of control frames; behind an unconditional branch the *)
(* stack is polymorphic ("any").                                           *)
(***************************************************************************)
VFrame(op, name, height, res) ==
  [op |-> op, name |-> name, height |-> height, res |-> res, dead |-> FALSE, else |-> FALSE]

VInit(res) == [ok |-> TRUE, st |-> <<>>, ctl |-> <<VFrame("FUNC", "", 0, res)>>]

VTop(v) == v.ctl[Len(v.ctl)]

VPop(v, t) ==
  LET n == Len(v.st) IN
  CASE n = VTop(v).height -> [v EXCEPT !.ok = @ /\ VTop(v).dead]
    [] OTHER -> [v EXCEPT !.st = SubSeq(@, 1, n - 1),
                          !.ok = @ /\ v.st[n] \in {t, "any"}]

RECURSIVE VPopAll(_, _)
VPopAll(v, ts) == IF ts = <<>> THEN v ELSE VPopAll(VPop(v, Head(ts)), Tail(ts))

VPush(v, ts) == [v EXCEPT !.st = @ \o ts]

Results(t) == IF t = NoType THEN <<>> ELSE <<t>>

VDie(v) == [v EXCEPT !.st = SubSeq(@, 1, VTop(v).height),
                     !.ctl[Len(v.ctl)].dead = TRUE]

\* What a branch to the frame carries: a loop is entered without operands.
LabelTypes(frame) == IF frame.op = "LOOP" THEN <<>> ELSE Results(frame.res)

VClose(v) ==
  LET w == VPopAll(v, Results(VTop(v).res))
  IN [w EXCEPT !.ok = @ /\ Len(w.st) = VTop(v).height]

\* name is the label in front of the instruction, or "".  A branch names its
\* target by depth (r = "") or by label, with n the depth it stands for.
VStep(v, ins, reg, name) ==
  LET u == VPopAll(v, In(ins, reg))
      depth == Len(v.ctl)
      types == LabelTypes(v.ctl[depth - ins.n])
  IN CASE ins.op \in Openers -> [u EXCEPT !.ctl = Append(@, VFrame(ins.op, name, Len(u.st), ins.typ))]
       [] ins.op = "ELSE" -> LET w == VClose(v)
                             IN [w EXCEPT !.ok = @ /\ VTop(v).op = "IF" /\ ~VTop(v).else,
                                          !.ctl[depth].else = TRUE,
                                          !.ctl[depth].dead = FALSE]
       [] ins.op = "END" -> LET w == VClose(v) IN
                            [w EXCEPT !.ok = /\ @ /\ depth > 1
                                             /\ VTop(v).op = "IF" /\ ~VTop(v).else
                                                  => VTop(v).res = NoType,
                                      !.ctl = SubSeq(@, 1, depth - 1),
                                      !.st = @ \o Results(VTop(v).res)]
       [] ins.op \in {"BR", "BRIF"} ->
            IF ins.n >= depth \/ ins.r \notin {"", v.ctl[depth - ins.n].name}
            THEN [v EXCEPT !.ok = FALSE]
            ELSE IF ins.op = "BR" THEN VDie(VPopAll(u, types))
                 ELSE VPush(VPopAll(u, types), types)
       [] ins.op = "WASMRETURN" -> VDie(VPopAll(v, Results(v.ctl[1].res)))
       [] ins.op \in Diverts -> VDie(v)
       [] OTHER -> VPush(u, Out(ins, reg))

-----------------------------------------------------------------------------
(***************************************************************************)
(* Operations on values.                                                   *)
(***************************************************************************)
Sgn(w, x) == Signed(SignBit(w), x)

\* LLVM's srem and wasm's rem_s: the sign of the dividend.
Magnitude(x) == IF x < 0 THEN 0 - x ELSE x
Quotient(x, y) == LET q == Magnitude(x) \div Magnitude(y)
                  IN IF (x < 0) # (y < 0) THEN 0 - q ELSE q

Word2(w, x) == x % 2^w

WasmBin(f, w, x, y) ==
  CASE f = "add"  -> Word2(w, x + y)
    [] f = "sub"  -> Word2(w, x - y)
    [] f = "mul"  -> Word2(w, x * y)
    [] f = "and"  -> AndW(x, y)
    [] f = "or"   -> OrW(x, y)
    [] f = "xor"  -> XorW(x, y)
    [] f = "divs" -> Word2(w, Quotient(Sgn(w, x), Sgn(w, y)))
    [] f = "divu" -> x \div y
    [] f = "rems" -> Word2(w, Sgn(w, x) - Sgn(w, y) * Quotient(Sgn(w, x), Sgn(w, y)))
    [] f = "remu" -> x % y
    [] f = "shl"  -> Word2(w, x * 2^(y % w))
    [] f = "shrs" -> Word2(w, Sgn(w, x) \div 2^(y % w))
    [] f = "shru" -> x \div 2^(y % w)

\* What a called helper computes: the order of its operands shows.
Helper(w, x, y) == WasmBin("sub", w, x, y)

WasmCmp(f, w, x, y) ==
  CASE f = "eq"  -> x = y
    [] f = "ne"  -> x # y
    [] f = "lts" -> Sgn(w, x) < Sgn(w, y)
    [] f = "ltu" -> x < y
    [] f = "gts" -> Sgn(w, x) > Sgn(w, y)
    [] f = "gtu" -> x > y
    [] f = "les" -> Sgn(w, x) <= Sgn(w, y)
    [] f = "leu" -> x <= y
    [] f = "ges" -> Sgn(w, x) >= Sgn(w, y)
    [] f = "geu" -> x >= y

\* Division traps on zero and on the quotient that does not fit; the code
\* leaves both, and shifts by the width or more, to LLVM, where they are
\* undefined.  The comparison stops there.
Defined(f, w, x, y) ==
  /\ f \in {"divs", "divu", "rems", "remu"} => y # 0
  /\ f \in {"divs", "rems"} => ~(x = SignBit(w) /\ y = 2^w - 1)
  /\ f \in {"shl", "shrs", "shru"} => y < w

RECURSIVE MemWord(_, _, _)
MemWord(mem, a, n) == IF n = 0 THEN 0 ELSE mem[a] + 2 * MemWord(mem, a + 1, n - 1)

InMem(a, t) == a + Bits[t] <= MemSize

MemWrite(mem, a, t, x) ==
  [b \in DOMAIN mem |-> IF b - a \in 0..(Bits[t] - 1) THEN (x \div 2^(b - a)) % 2 ELSE mem[b]]

SignExtend(from, to, x) == Word2(Bits[to], Sgn(Bits[from], x))

\* The access of a load or store: I64LOAD8S has f = "i8", signed.
WasmLoad(mem, ins, a) ==
  LET x == MemWord(mem, a, Bits[ins.f])
  IN IF ins.r = "signed" THEN SignExtend(ins.f, ins.typ, x) ELSE x

-----------------------------------------------------------------------------
(***************************************************************************)
(* Structure of a program: where the frame opened at i ends.               *)
(***************************************************************************)
RECURSIVE CloseFrom(_, _, _)
CloseFrom(prog, j, depth) ==
  CASE prog[j].op = "END" /\ depth = 0 -> j
    [] prog[j].op = "END"              -> CloseFrom(prog, j + 1, depth - 1)
    [] prog[j].op \in Openers          -> CloseFrom(prog, j + 1, depth + 1)
    [] OTHER                           -> CloseFrom(prog, j + 1, depth)
EndOf(prog, i) == CloseFrom(prog, i + 1, 0)

\* The ELSE of the IF at i, if it has one.
ElsesOf(prog, i) ==
  {j \in (i + 1)..(EndOf(prog, i) - 1) :
     /\ prog[j].op = "ELSE"
     /\ \A k \in (i + 1)..(j - 1) : prog[k].op \in Openers => EndOf(prog, k) < j}

-----------------------------------------------------------------------------
(***************************************************************************)
(* The machine.  A state is a record: pc, operand stack st, open frames    *)
(* ctl, registers, memory, the result slot res, the Go stack pointer sp,   *)
(* and how the function ended.  fn is the function: frame size, argument.  *)
(***************************************************************************)
RetType(fn) == IF fn.abi = "go" THEN "i32" ELSE fn.ret  \* of the wasm function

\* The Go stack pointer at entry, pointing at the return address; the Go stack
\* lies above every other value, so that an address into it shows.
EntrySP == 1024

SrcInit(fn, regs, mem) ==
  [pc |-> 1, st |-> <<>>, ctl |-> <<>>, regs |-> regs, mem |-> mem, res |-> 0,
   set |-> {}, fresh |-> {},  \* history: registers written, and read before that
   sp |-> IF fn.abi = "go" THEN EntrySP - fn.frame ELSE EntrySP,
   how |-> "run", val |-> 0, steps |-> 0]

\* Pop n values, push those of vs, go on.
Push(s, n, vs) ==
  [s EXCEPT !.st = SubSeq(@, 1, Len(@) - n) \o vs, !.pc = @ + 1]

Finish(s, how, val) == [s EXCEPT !.how = how, !.val = val]

SrcBranch(prog, fn, s, depth) ==
  LET n == Len(s.ctl) - depth IN
  IF n = 0 THEN Finish(s, "ret", IF RetType(fn) = NoType THEN 0 ELSE s.st[Len(s.st)])
  ELSE LET frame == s.ctl[n]
           loop  == prog[frame.at].op = "LOOP"
           carry == IF loop \/ frame.res = NoType THEN <<>> ELSE <<s.st[Len(s.st)]>>
       IN [s EXCEPT !.pc = IF loop THEN frame.at + 1 ELSE EndOf(prog, frame.at) + 1,
                    !.ctl = SubSeq(@, 1, IF loop THEN n ELSE n - 1),
                    !.st = SubSeq(@, 1, frame.height) \o carry]

SrcOpen(prog, s, cond) ==
  LET i == s.pc
      drop == IF prog[i].op = "IF" THEN 1 ELSE 0
      frame == [at |-> i, height |-> Len(s.st) - drop, res |-> prog[i].typ]
      elses == ElsesOf(prog, i)
      open(pc) == [Push(s, drop, <<>>) EXCEPT !.ctl = Append(@, frame), !.pc = pc]
  IN CASE drop = 0 \/ cond -> open(i + 1)
       [] elses # {}       -> open((CHOOSE j \in elses : TRUE) + 1)
       [] OTHER            -> [Push(s, drop, <<>>) EXCEPT !.pc = EndOf(prog, i) + 1]

\* The frame ends at END, or at the ELSE that the first arm runs into.
SrcClose(prog, s) ==
  [s EXCEPT !.pc = EndOf(prog, s.ctl[Len(s.ctl)].at) + 1,
            !.ctl = SubSeq(@, 1, Len(@) - 1)]

\* A call that is resumed finds its virtual registers cleared.
SrcCall(s, outcome) ==
  IF outcome = "unwinds"
  THEN [Push(s, 0, <<>>) EXCEPT !.regs = [r \in DOMAIN @ |-> 0]] ELSE Push(s, 0, <<>>)

\* RET gives back frame and return address, RET f(SB) only the frame, for f
\* finds the return address on top.
SrcReturn(fn, s, op) ==
  LET up(n) == [s EXCEPT !.sp = IF fn.abi = "go" THEN @ + n ELSE @]
      last  == IF s.st = <<>> THEN 0 ELSE s.st[Len(s.st)]
  IN CASE op = "RET"       -> Finish(up(fn.frame + 8), "ret", IF fn.abi = "go" THEN 0 ELSE s.res)
       [] op = "RETUNWIND" -> Finish(up(fn.frame + 8), "ret", 1)
       [] op = "RETTAIL"   -> Finish(up(fn.frame), "tail", 0)
       [] op = "JMP"       -> Finish(s, "tail", 0)
       [] OTHER            -> Finish(s, "ret", IF RetType(fn) = NoType THEN 0 ELSE last)

SrcStep(prog, fn, s, outcome) ==
  LET ins == prog[s.pc]
      top(k) == s.st[Len(s.st) + 1 - k]
      w == Bits[ins.typ]
      set(r, x) == [s EXCEPT !.regs[r] = x, !.set = @ \cup {r}]
      get(r) == [s EXCEPT !.fresh = IF r \in s.set THEN @ ELSE @ \cup {r}]
  IN CASE s.pc > Len(prog) -> Finish(s, IF RetType(fn) = NoType THEN "ret" ELSE "undef", 0)
       [] ins.op = "const"  -> Push(s, 0, <<Word2(w, ins.n)>>)
       [] ins.op = "bin"    -> Push(s, 2, <<WasmBin(ins.f, w, top(2), top(1))>>)
       [] ins.op = "WASMCALL" -> Push(s, 2, <<Helper(w, top(2), top(1))>>)
       [] ins.op = "cmp"    -> Push(s, 2, <<Bool2Int(WasmCmp(ins.f, w, top(2), top(1)))>>)
       [] ins.op = "eqz"    -> Push(s, 1, <<Bool2Int(top(1) = 0)>>)
       [] ins.op = "WRAP"   -> Push(s, 1, <<Word2(Bits.i32, top(1))>>)
       [] ins.op = "EXTENDS" -> Push(s, 1, <<SignExtend("i32", "i64", top(1))>>)
       [] ins.op = "EXTENDU" -> Push(s, 1, <<top(1)>>)
       [] ins.op = "load"   -> Push(s, 1, <<WasmLoad(s.mem, ins, top(1) + ins.n)>>)
       [] ins.op = "store"  -> Push([s EXCEPT !.mem = MemWrite(@, top(2) + ins.n, ins.f, top(1))], 2, <<>>)
       [] ins.op = "SELECT" -> Push(s, 3, <<IF top(1) # 0 THEN top(3) ELSE top(2)>>)
       [] ins.op = "DROP"   -> Push(s, 1, <<>>)
       [] ins.op = "GETSP"  -> Push(s, 0, <<IF fn.abi = "go" THEN s.sp ELSE 0>>)
       [] ins.op = "GET"    -> Push(get(ins.r), 0, <<s.regs[ins.r]>>)
       [] ins.op = "SET"    -> Push(set(ins.r, top(1)), 1, <<>>)
       [] ins.op = "TEE"    -> Push(set(ins.r, top(1)), 0, <<>>)
       [] ins.op = "LOADFP" -> Push(s, 0, <<Word2(w, fn.arg)>>)
       [] ins.op = "STOREFP" -> Push([s EXCEPT !.res = top(1)], 2, <<>>)
       [] ins.op = "MOVARG" -> Push(set(ins.r, fn.arg), 0, <<>>)
       [] ins.op = "MOVRES" -> Push([s EXCEPT !.res = s.regs[ins.r]], 0, <<>>)
       [] ins.op \in Openers -> SrcOpen(prog, s, ins.op = "IF" => top(1) # 0)
       [] ins.op \in {"ELSE", "END"} -> SrcClose(prog, s)
       [] ins.op = "BR"     -> SrcBranch(prog, fn, s, ins.n)
       [] ins.op = "BRIF"   -> LET t == Push(s, 1, <<>>)
                               IN IF top(1) # 0 THEN SrcBranch(prog, fn, t, ins.n) ELSE t
       [] ins.op \in {"CALL", "CALLNORESUME"} -> SrcCall(s, outcome)
       [] ins.op = "UNDEF"  -> Finish(s, "undef", 0)
       [] ins.op \in Returns -> SrcReturn(fn, s, ins.op)
       [] OTHER             -> Push(s, 0, <<>>)

\* Inside what LLVM defines, and inside memory.
SrcDefined(prog, s) ==
  s.pc <= Len(prog) =>
    LET ins == prog[s.pc]
        top(k) == s.st[Len(s.st) + 1 - k]
    IN CASE ins.op = "bin"   -> Defined(ins.f, Bits[ins.typ], top(2), top(1))
         [] ins.op = "load"  -> InMem(top(1) + ins.n, ins.f)
         [] ins.op = "store" -> InMem(top(2) + ins.n, ins.f)
         [] OTHER -> TRUE
=============================================================================
