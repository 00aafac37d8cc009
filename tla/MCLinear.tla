------------------------------ MODULE MCLinear ------------------------------
(***************************************************************************)
(* Families of straight-line functions for the three processors.  A family *)
(* is a signature and an alphabet of instructions; every sequence of up to *)
(* max of them, with RET anywhere, is translated on both paths and run.    *)
(***************************************************************************)
EXTENDS LinearLowering

Ins(op, operands) == [op |-> op, args |-> operands]
Slot(off, typ, idx, field) == [off |-> off, typ |-> typ, idx |-> idx, field |-> field]
Memory == [c \in 0 .. MemSize - 1 |-> (3 * c + 1) % 4]
Function(arch, regs, types, argRegs, ret, params, results, max, alphabet, inputs) ==
  [arch |-> arch, regs |-> regs, args |-> types, argRegs |-> argRegs, ret |-> ret, params |-> params,
   results |-> results, max |-> max, alphabet |-> alphabet, inputs |-> inputs, mem |-> Memory]

R == [a |-> Reg("AX"), b |-> Reg("BX"), c |-> Reg("CX"), d |-> Reg("DX"), r0 |-> Reg("R0"), r1 |-> Reg("R1"), r2 |-> Reg("R2")]
X86 == {"AX", "BX", "CX", "DX", "DI"}
Arm == {"R0", "R1", "R2"}

\* amd64: moves of both widths, arithmetic, results of one slot.
Amd64Moves(typ, w, ret) ==
  Function("amd64", X86, <<typ, "i32">>, <<>>, ret, <<Slot(0, typ, 1, -1), Slot(8, "i32", 2, -1)>>, <<Slot(16, ret, 1, -1)>>, 4,
    <<Ins("MOVQ", <<FP(0), R.a>>), Ins("MOVL", <<FP(8), R.b>>), Ins("MOVL", <<R.a, R.a>>), Ins("ADDQ", <<R.b, R.a>>),
      Ins("SUBQ", <<Imm(9), R.a>>), Ins("XORQ", <<R.a, R.b>>), Ins("MOVQ", <<R.b, FP(16)>>), Ins("MOVL", <<R.a, FP(16)>>),
      Ins("MOVQ", <<FP(16), R.b>>), Ins("MOVQ", <<Imm(201), FP(8)>>), Ins("MOVQ", <<R.a, Mem("DI", "", 0)>>),
      Ins("ADDQ", <<Mem("DI", "BX", 1), R.a>>), Ins("ADDQ", <<Sym, R.a>>), Ins("BYTE", <<>>)>>,
    {<<x, y>> : x \in w, y \in {<<0>>, <<11>>}})
\* Two results, one a pointer or a double; an aggregate argument.
Amd64Pair(typ) ==
  Function("amd64", X86, <<"agg">>, <<>>, "tuple", <<Slot(0, "ptr", 1, 0), Slot(8, "i64", 1, 1)>>,
    <<Slot(16, "i16", 1, -1), Slot(24, typ, 2, -1)>>, 3,
    <<Ins("MOVQ", <<FP(0), R.a>>), Ins("MOVL", <<FP(8), R.b>>), Ins("MOVQ", <<R.a, FP(24)>>), Ins("MOVL", <<R.b, FP(16)>>),
      Ins("MOVQ", <<Imm(5), FP(24)>>), Ins("MOVQ", <<FP(16), R.b>>), Ins("MOVQ", <<Reg("DI"), R.a>>), Ins("ADDQ", <<RawImm, R.a>>),
      Ins("ADDQ", <<Imm(1), FP(24)>>)>>,
    {<<<<200, 77>>>>, <<<<1, 0>>>>})
\* No result slots: the return register.  Processor identification.
Amd64CPU(ret) ==
  Function("amd64", X86, <<"i8", "i64">>, <<"AX", "CX">>, ret, <<>>, <<>>, 3,
    <<Ins("CPUID", <<>>), Ins("XGETBV", <<>>), Ins("MOVL", <<Imm(3), R.a>>), Ins("MOVQ", <<Imm(20), R.c>>),
      Ins("MOVQ", <<R.d, R.a>>), Ins("XORQ", <<R.a, R.a>>), Ins("MOVL", <<R.b, R.b>>), Ins("BYTE", <<>>)>>,
    {<<<<2>>, <<37>>>>})
\* Nothing is returned: the body of such a function is not lowered at all.
Void(arch, regs, alphabet) ==
  Function(arch, regs, <<"i64">>, <<>>, "void", <<Slot(0, "i64", 1, -1)>>, <<>>, 2, alphabet, {<<<<6>>>>})

\* arm64: MOVD and system registers; several results.
Arm64 ==
  {Function("arm64", Arm, <<typ, "i8">>, <<>>, ret, <<Slot(0, typ, 1, -1), Slot(8, "i8", 2, -1)>>, <<Slot(16, ret, 1, -1)>>, 3,
     <<Ins("MOVD", <<FP(0), R.r2>>), Ins("MOVD", <<FP(8), R.r1>>), Ins("MOVD", <<R.r2, FP(16)>>), Ins("MOVD", <<R.r1, R.r0>>),
       Ins("MOVD", <<Imm(130), R.r0>>), Ins("MRS", <<Ident("MIDR_EL1"), R.r0>>), Ins("MRS", <<Ident("CNTVCT_EL0"), R.r2>>),
       Ins("MRS", <<Imm(1), R.r2>>), Ins("MOVD", <<R.r0, Mem("R1", "", 0)>>), Ins("MOVD", <<FP(16), R.r0>>), Ins("MOVD", <<Sym, R.r0>>)>>,
     {<<<<201>>, <<2>>>>}) : typ \in {"i64", "ptr", "double"}, ret \in {"i1", "i64", "ptr"}}

\* arm: 32-bit registers, shifted operands, loads and what is lost.
ArmAlphabet ==
  <<Ins("MOVW", <<FP(0), R.r1>>), Ins("MOVW", <<Imm(13), R.r2>>), Ins("MOVBU", <<R.r1, R.r2>>), Ins("MOVB", <<R.r1, R.r1>>),
    Ins("ADD", <<R.r1, R.r2>>), Ins("SUB", <<R.r1, R.r2, R.r0>>), Ins("RSB", <<Imm(1), R.r1, R.r0>>), Ins("AND", <<Imm(6), R.r0>>),
    Ins("ORR", <<ShiftImm("R1", "<<", 1), R.r2>>), Ins("EOR", <<ShiftReg("R2", ">>", "R0"), R.r1>>),
    Ins("ADD", <<ShiftImm("R1", "->", 2), R.r2, R.r0>>), Ins("ADD", <<ShiftImm("R2", "@>", 3), R.r0>>),
    Ins("MOVW", <<Mem("R1", "", 1), R.r0>>), Ins("MOVBU", <<Mem("R2", "R1", 0), R.r0>>), Ins("MOVW", <<R.r2, Mem("R1", "", 0)>>),
    Ins("MOVW", <<R.r0, FP(4)>>), Ins("MOVBU", <<R.r2, FP(4)>>), Ins("MOVW", <<Sym, R.r0>>), Ins("MOVW", <<RawImm, R.r0>>),
    Ins("MOVW", <<Ident("g"), R.r0>>)>>
ArmFunctions ==
  {Function("arm", Arm, <<m[1]>>, <<"R0">>, "i32", <<Slot(0, m[1], 1, -1)>>, <<Slot(4, "i32", 1, -1)>>, m[2], ArmAlphabet, {<<<<m[3]>>>>}) :
     m \in {<<"i32", 4, 14>>, <<"ptr", 3, 3>>}}
  \cup {Function("arm", Arm, <<"i32">>, <<>>, "i64", <<Slot(0, "i32", 1, -1)>>, <<>>, 3, ArmAlphabet, {<<<<6>>>>})}

\* arm: values whose type the moves and the result do not share (a bool read
\* with MOVBU, a byte returned as a 16-bit word or a pointer), in a result
\* slot or left in the return register.
ArmCasts ==
  {Function("arm", Arm, <<typ>>, <<"R0">>, ret, <<Slot(0, typ, 1, -1)>>, SubSeq(<<Slot(4, ret, 1, -1)>>, 1, n), 3,
     <<Ins("MOVW", <<FP(0), R.r1>>), Ins("MOVBU", <<FP(0), R.r1>>), Ins("MOVB", <<R.r0, R.r0>>), Ins("ADD", <<R.r1, R.r0>>),
       Ins("MOVW", <<R.r1, FP(4)>>), Ins("MOVBU", <<R.r0, FP(4)>>)>>, {<<<<1>>>>}) :
     typ \in {"i1", "i8", "i16", "ptr", "float"}, ret \in {"i8", "i16", "ptr", "double"}, n \in {0, 1}}

AllLinear ==
  {Amd64Moves(typ, {<<23>>, <<200>>}, ret) : typ \in {"i64", "ptr"}, ret \in {"i64", "i32"}}
  \cup {Amd64Moves("double", {<<56>>, <<200>>}, ret) : ret \in {"ptr", "double"}}
  \cup {Amd64Pair(typ) : typ \in {"i64", "ptr", "double"}}
  \cup {Amd64CPU(ret) : ret \in {"i64", "i32", "agg"}}
  \cup Arm64 \cup ArmFunctions \cup ArmCasts
  \cup {Void("arm", Arm, ArmAlphabet),
        Void("amd64", X86, <<Ins("MOVQ", <<FP(0), R.a>>), Ins("MOVQ", <<R.a, Mem("DI", "", 0)>>), Ins("MOVQ", <<FP(16), R.a>>)>>)}
=============================================================================
