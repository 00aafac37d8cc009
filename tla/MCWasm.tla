------------------------------- MODULE MCWasm -------------------------------
(***************************************************************************)
(* Families of small WebAssembly functions.  A family is an ABI, the types *)
(* of result and registers, and an alphabet: every valid program over the  *)
(* alphabet, up to max instructions, is translated and run.                *)
(***************************************************************************)
EXTENDS WasmLowering

RegOrder == [R0 |-> 0, R1 |-> 1]
Fn(abi, ret, t0, t1, frame, max, alphabet, inputs) ==
  [abi |-> abi, ret |-> ret, reg |-> [R0 |-> t0, R1 |-> t1], order |-> RegOrder, arg |-> 200,
   frame |-> frame, max |-> max, alphabet |-> alphabet, inputs |-> inputs, straight |-> TRUE]

Simple(op)      == Ins(op, "", NoType, 0, "")
Typed(op, typ)  == Ins(op, "", typ, 0, "")
OnReg(op, r)    == Ins(op, "", NoType, 0, r)
Group(op, f, t) == Ins(op, f, t, 0, "")
Const(typ, n)   == Ins("const", "", typ, n, "")
Branch(op, n)   == Ins(op, "", NoType, n, "")
Access(op, f, typ, n, sign) == Ins(op, f, typ, n, sign)

Get0 == OnReg("GET", "R0")
Get1 == OnReg("GET", "R1")
Return == Simple("WASMRETURN")

ZeroMem == [b \in 0..(MemSize - 1) |-> 0]
SomeMem == [b \in 0..(MemSize - 1) |-> IF b % 3 = 0 THEN 0 ELSE 1]
Regs(xs, ys, mem) == {[regs |-> [R0 |-> x, R1 |-> y], mem |-> mem] : x \in xs, y \in ys}

\* Around zero, the sign bit and the largest value.
Edges == [i32 |-> {0, 1, 3, 7, 8, 15}, i64 |-> {0, 1, 6, 127, 128, 255}]

Few   == [i32 |-> {0, 8, 15}, i64 |-> {6, 128, 255}]

\* Every arithmetic operation and comparison, on both types.
Arith ==
  {Fn("helper", t, t, t, 0, 4, {Get0, Get1, Group("bin", f, t), Return}, Regs(Edges[t], Edges[t], ZeroMem)) :
     f \in DOMAIN LlvmOp, t \in {"i32", "i64"}}
  \cup
  {Fn("helper", "i32", t, t, 0, 4, {Get0, Get1, Group("cmp", f, t), Return}, Regs(Edges[t], Edges[t], ZeroMem)) :
     f \in DOMAIN LlvmPred, t \in {"i32", "i64"}}

\* Conversions, selection, calls of a helper.
Mixed ==
  {Fn("helper", "i64", t[1], t[2], 0, 5,
      {Get0, Get1, op, Const("i64", 9), Typed("eqz", "i64"), Return}, Regs(Few[t[1]], Few[t[2]], ZeroMem)) :
     op \in {Simple("WRAP"), Simple("EXTENDS"), Simple("EXTENDU"), Typed("SELECT", "i64"),
             Typed("WASMCALL", "i64"), OnReg("SET", "R1"), OnReg("TEE", "R0"), Simple("DROP")},
     t \in {<<"i32", "i64">>, <<"i64", "i32">>}}

Widths == {<<"i8", "i32">>, <<"i16", "i32">>, <<"i32", "i32">>,
           <<"i8", "i64">>, <<"i16", "i64">>, <<"i32", "i64">>, <<"i64", "i64">>}
Memory ==
  {Fn("helper", w[2], w[2], "i32", 0, 5,
      {Get0, Get1, Access("store", w[1], w[2], 1, ""), Access("load", w[1], w[2], n, sign), Return},
      Regs({5, 8, 15}, {0, 3, 6}, SomeMem)) : w \in Widths, n \in {0, 2}, sign \in {"", "signed"}}

\* Control without results: where control goes is compared at every step.
Conds == Regs({0, 1}, {0}, ZeroMem)
End == Simple("END")
Else == Simple("ELSE")
Flow ==
  {Fn("helper", NoType, "i32", "i32", 0, 7, {Get0, Simple("IF"), Else, End, Simple("BLOCK"), b}, Conds) :
     b \in {Branch("BR", 0), Branch("BR", 1), Branch("BRIF", 1)}}
  \cup
  {Fn("helper", NoType, "i32", "i32", 0, 7,
      {Get0, Simple("LOOP"), Simple("BLOCK"), End, Branch("BRIF", 0), Branch("BR", 1), OnReg("SET", "R1"), Simple("UNDEF")}, Conds),
   Fn("helper", NoType, "i32", "i32", 0, 7,
      {OnReg("LABEL", "a"), Simple("BLOCK"), Simple("LOOP"), End, Get0, Ins("BR", "", NoType, 0, "a"),
       Ins("BRIF", "", NoType, 1, "a")}, Conds)}

\* Registers read and written inside a control and behind it.
Writes ==
  {Fn("helper", "i32", "i32", "i32", 0, 7,
      {Get0, Get1, Simple("IF"), End, OnReg("SET", "R1"), Return}, Regs({0, 1}, {3}, ZeroMem)),
   Fn("helper", "i32", "i32", "i32", 0, 7,
      {Get0, OnReg("SET", "R0"), Get1, Simple("BLOCK"), End, Branch("BRIF", 0), OnReg("SET", "R1"), Return},
      Regs({0, 1}, {3}, ZeroMem))}

\* Controls with results.
Valued ==
  {Fn("helper", "i32", "i32", "i32", 0, 7, {Get0, Const("i32", 3), Typed(o, "i32"), Else, End, b, Return}, Conds) :
     o \in {"IF", "BLOCK"}, b \in {Branch("BR", 0), Branch("BRIF", 0), Branch("BR", 1)}}
  \cup {Fn("helper", "i32", "i32", "i32", 0, 6, {Get0, Typed("LOOP", "i32"), Branch("BRIF", 0), End, Return}, Conds)}

\* What inference forgets or takes for something else: operands below a call,
\* a branch out of two controls of different results, values under a return of
\* a function without a result.
Inferring ==
  {Fn("helper", "i64", "i64", "i64", 0, 6,
      {Get0, Get1, Typed("WASMCALL", "i64"), Group("bin", "add", "i64"), Return}, Regs({6}, {9}, ZeroMem)),
   Fn("helper", "i32", "i32", "i32", 0, 7,
      {Typed("BLOCK", "i32"), Typed("BLOCK", "i64"), Get0, Branch("BR", 1), End, Typed("WRAP", "i64"), Return},
      Regs({6}, {0}, ZeroMem)),
   Fn("helper", NoType, "i32", "i32", 0, 7,
      {Get0, Typed("eqz", "i32"), Const("i64", 9), Simple("IF"), End, Return}, Regs({0, 1}, {0}, ZeroMem))}

\* The direct ABI: the result is a value.
Direct ==
  {Fn("direct", "i64", "i64", "i64", 0, 5,
      {Simple("GETSP"), Typed("LOADFP", "i64"), Typed("STOREFP", "i64"), OnReg("MOVARG", "R0"),
       OnReg("MOVRES", "R0"), Simple("RET")}, Regs({0}, {0}, ZeroMem)),
   Fn("direct", "i64", "i64", "i64", 0, 6,
      {Simple("GETSP"), Typed("LOADFP", "i64"), Typed("STOREFP", "i64"), Typed("eqz", "i64"), Simple("IF"),
       Simple("RET"), End, Simple("JMP")}, Regs({0}, {0}, ZeroMem)),
   Fn("direct", "i64", "i64", "i64", 0, 4,
      {Typed("LOADFP", "i64"), Const("i64", 9), Typed("BLOCK", "i64"), End, Return, Branch("BR", 0), Branch("BR", 1)},
      Regs({0}, {0}, ZeroMem))}

\* The Go ABI: calls that unwind, frames, the unwind flag.
Calls ==
  {Fn("go", NoType, "i64", "i64", frame, 5,
      {Simple("CALL"), Simple("CALLNORESUME"), Const("i64", 9), OnReg("SET", "R0"), OnReg("MOVRES", "R0"),
       Simple("RET")}, Regs({0}, {0}, ZeroMem)) : frame \in {0, 16}}
  \cup
  {Fn("go", NoType, "i64", "i64", 16, 6,
      {Simple("CALL"), Const("i32", 1), Simple("BLOCK"), End, Branch("BRIF", 0), Simple("RETUNWIND"), Simple("RET")},
      Regs({0}, {0}, ZeroMem)),
   Fn("go", NoType, "i64", "i64", 16, 6,
      {Simple("GETSP"), Typed("LOADFP", "i64"), Typed("STOREFP", "i64"), OnReg("MOVARG", "R0"), Simple("CALL"), Simple("RET")},
      Regs({0}, {0}, ZeroMem)),
   Fn("go", NoType, "i64", "i64", 0, 5,
      {Simple("CALL"), Const("i32", 1), Branch("BR", 0), Branch("BRIF", 0), Return, Simple("RETTAIL"), Simple("DROP")},
      Regs({0}, {0}, ZeroMem)),
   \* RET f(SB), from a function without a frame.
   [Fn("go", NoType, "i64", "i64", 0, 4,
       {Simple("GETSP"), Const("i64", 9), Typed("STOREFP", "i64"), OnReg("SET", "R0"), Simple("JMP"),
        Simple("RETTAIL"), Simple("RET")}, Regs({0}, {0}, ZeroMem)) EXCEPT !.straight = FALSE],
   Fn("helper", NoType, "i32", "i32", 0, 5,
      {Simple("CALL"), Simple("CALLNORESUME"), Get0, OnReg("SET", "R1"), Simple("RET")}, Conds)}

AllFunctions == Arith \cup Mixed \cup Memory \cup Flow \cup Writes \cup Valued \cup Inferring \cup Direct \cup Calls
=============================================================================
