------------------------------ MODULE MCModule ------------------------------
(***************************************************************************)
(* Files for the assembly of modules: every short sequence of DATA and     *)
(* GLOBL statements over few symbols and offsets, typed and native; files  *)
(* of functions that refer to each other, to data and to the outside; and  *)
(* native files with each kind of initialiser and function.                *)
(***************************************************************************)
EXTENDS ModuleAssembly

Dot(x)     == [form |-> "dot", pkg |-> "", name |-> x, local |-> FALSE]
Bare(x)    == [form |-> "bare", pkg |-> "", name |-> x, local |-> FALSE]
Static(x)  == [form |-> "bare", pkg |-> "", name |-> x, local |-> TRUE]
DotStatic(x) == [form |-> "dot", pkg |-> "", name |-> x, local |-> TRUE]
Qual(q, x) == [form |-> "qual", pkg |-> q, name |-> x, local |-> FALSE]

Data(s, off, width, kind, value, cells, to) ==
  [sym |-> s, off |-> off, ptrsize |-> width = 0, width |-> width, kind |-> kind, value |-> value, cells |-> cells, to |-> to]
Num(s, off, width, value) == Data(s, off, width, "int", value, <<>>, s)
Str(s, off, width, cells) == Data(s, off, width, "str", 0, cells, s)
Addr(s, off, width, to)   == Data(s, off, width, "addr", 0, <<>>, to)
Globl(s, flags, size) == [sym |-> s, flags |-> flags, symbolic |-> FALSE, size |-> size]
Symbolic(s) == [sym |-> s, flags |-> {}, symbolic |-> TRUE, size |-> 0]
Func(s, needs, uses) ==
  [sym |-> s, needs |-> needs, uses |-> uses, flags |-> {"NOSPLIT", "NOFRAME"}, zeroFrame |-> TRUE, ends |-> TRUE]
Use(how, s) == [how |-> how, sym |-> s]
\* The name under which a caller gives the signature of a function.
Full(s) == Name(IF s.form = "qual" THEN s.pkg ELSE IF s.form = "bare" /\ ~s.local THEN "" ELSE "p", s.name, s.local)
Sig(s, name, ret) == [key |-> Full(s), name |-> name, ret |-> ret]
File(entry, arch, globl, data, funcs, sigs) ==
  [entry |-> entry, arch |-> arch, globl |-> globl, data |-> data, funcs |-> funcs, sigs |-> sigs,
   imports |-> {Bare("ext")}, annotate |-> FALSE]
UpTo(S, n) == UNION {[1 .. m -> S] : m \in 0 .. n}

t == Static("t")
NativeEnd == <<Func(t, "linear", {})>>

\* Data alone: three statements over two symbols, meeting, apart and overlapping.
Statements ==
  {Num(Dot("x"), 0, 2, 7), Num(Dot("x"), 2, 2, 9), Num(Dot("x"), 1, 2, 6), Num(Dot("x"), 0, 4, 229), Num(Dot("x"), 9, 8, 1),
   Str(Dot("x"), 2, 4, <<3, 1>>), Addr(Dot("y"), 0, 0, Dot("x")), Num(Dot("y"), 4, 1, 5), Num(Bare("x"), 0, 1, 2)}
DataFiles ==
  {File("typed", arch, g, d, <<>>, <<>>) :
     arch \in {"amd64", "arm"}, d \in UpTo(Statements, 3),
     g \in {<<>>, <<Globl(Dot("x"), {"RODATA"}, 6), Globl(Dot("y"), {}, 0)>>, <<Symbolic(Dot("x")), Globl(Dot("x"), {}, 2)>>}}
DataErrors ==
  {File("typed", "arm64", <<g>>, <<d>>, <<>>, <<>>) :
     g \in {Globl(Dot("x"), {}, MaxGlobalSize + 1), Globl(Dot("x"), {}, -1), Globl(Static("x"), {}, 3)},
     d \in {Num(Static("x"), -1, 2, 1), Num(DotStatic("x"), 1, -2, 1), Num(Static("x"), MaxGlobalSize, 1, 1),
            Str(Static("x"), 0, 2, <<1, 1, 1>>), Num(Static("x"), 0, 1, 3)}}
NativeData_ ==
  {File("native", "arm64", g, d, NativeEnd, <<>>) :
     d \in UpTo({Num(Dot("x"), 0, 2, 7), Num(Dot("x"), 1, 2, 6), Num(Dot("x"), 2, 1, 3), Num(Dot("x"), 0, 3, 1), Num(Dot("x"), 7, 2, 1),
                 Addr(Dot("y"), 0, 8, Dot("x")), Addr(Dot("y"), 0, 0, t), Addr(Dot("y"), 8, 8, Bare("ext")),
                 Addr(Dot("y"), 8, 8, Bare("lost")), Addr(Dot("y"), 0, 4, t)}, 3),
     g \in {<<Globl(Dot("x"), {"RODATA", "NOPTR"}, 8), Globl(Dot("y"), {}, 16)>>, <<Globl(Dot("y"), {"RODATA"}, 9), Globl(Dot("x"), {}, 3)>>}}

\* Functions, references and signatures.
Uses(S) == {Use(how, s) : how \in {"call", "tail", "addr", "mem"}, s \in S}
Names == {Dot("f"), Static("h"), Dot("h"), Dot("x"), Static("x"), Bare("x"), Qual("q", "g")}
SigLists ==
  {<<Sig(Dot("f"), <<>>, "i64"), Sig(Static("h"), <<>>, "i64")>>,
   <<Sig(Dot("f"), <<Full(Dot("f"))>>, "i64"), Sig(Static("h"), <<>>, "i64"), Sig(Qual("q", "g"), <<Name("q", "other", FALSE)>>, "i64")>>,
   <<Sig(Dot("f"), <<>>, "i64"), Sig(Static("h"), <<>>, "i64"), Sig(Dot("h"), <<>>, "i64"), Sig(Qual("q", "g"), <<>>, "")>>,
   <<Sig(Dot("f"), <<Name("q", "g", FALSE)>>, "i64"), Sig(Qual("q", "g"), <<>>, "i64")>>,
   <<Sig(Dot("f"), <<>>, ""), Sig(Static("h"), <<>>, "i64"), Sig(Dot("x"), <<>>, "i64")>>}
FuncFiles ==
  {File("typed", "amd64", g, <<Num(s, 0, 2, 3)>>, <<Func(Dot("f"), n[1], {u, v}), Func(Static("h"), n[2], {})>>, sigs) :
     u \in Uses(Names), v \in Uses({Dot("f"), Static("x"), Qual("q", "g")}), sigs \in SigLists,
     s \in {Static("x"), Dot("x")}, g \in {<<>>, <<Globl(Dot("h"), {}, 0)>>},
     n \in {<<"cfg", "linear">>, <<"text", "cfg">>}}
\* Names that resolve alike: bare and qualified, of functions and of data, and
\* signatures that give another symbol.
OtherSigs ==
  {<<>>, <<Sig(Qual("q", "g"), <<Name("q", "b", FALSE)>>, "i64")>>, <<Sig(Qual("q", "g"), <<Name("q", "c", FALSE)>>, "i64")>>,
   <<Sig(Qual("q", "g"), <<Name("q", "c", FALSE)>>, "")>>,
   <<Sig(Qual("q", "g"), <<Name("q", "c", FALSE)>>, "i64"), Sig(Qual("q", "d"), <<Name("q", "c", FALSE)>>, "i64")>>}
AliasFiles ==
  {File("typed", "amd64", <<g>>, <<>>,
        <<Func(f, "cfg", {Use(how, s)}), Func(h, "linear", {Use("addr", Qual("q", "b"))})>>,
        <<Sig(f, IF named THEN <<Full(f)>> ELSE <<>>, "i64"), Sig(Static("h"), <<>>, "i64")>> \o more) :
     g \in {Globl(Dot("x"), {}, 0), Globl(Dot("x"), {}, 2), Globl(Bare("f"), {}, 2), Globl(Qual("q", "g"), {}, 2)}, f \in {Bare("f"), Dot("f"), Qual("p", "f")}, h \in {DotStatic("h"), Bare("f")},
     how \in {"call", "tail", "addr", "mem"}, s \in {Bare("x"), Bare("f"), Dot("f"), Qual("p", "x"), Qual("q", "g"), Qual("q", "b")},
     named \in BOOLEAN, more \in OtherSigs}
FuncErrors ==
  {[File("typed", "amd64", <<>>, <<>>, <<Func(Dot("f"), needs, {}), Func(g, "linear", {})>>, sigs) EXCEPT !.annotate = a] :
     needs \in {"linear", "text", "raw"}, g \in {Static("h"), Dot("f")}, sigs \in SigLists, a \in BOOLEAN}
NativeFuncs ==
  {[File("native", "amd64", <<g>>, <<>>, <<f, Func(s, "linear", {Use("call", t)})>>, <<>>) EXCEPT !.imports = {Bare("ext")}] :
     s \in {t, Static("u"), Dot("u")},
     g \in {Globl(Dot("x"), {"DUPOK"}, 8), Globl(Dot("x"), {"NOPTR"}, 8), Globl(Static("x"), {}, 8), Globl(Dot("x"), {}, 0), Symbolic(Dot("x"))},
     f \in {Func(t, "linear", {Use("addr", Dot("x")), Use("tail", Bare("ext"))}), Func(t, "linear", {Use("call", Dot("x"))}),
            [Func(t, "linear", {Use("call", t)}) EXCEPT !.flags = {"NOSPLIT"}], [Func(t, "linear", {}) EXCEPT !.flags = {}],
            [Func(t, "linear", {}) EXCEPT !.zeroFrame = FALSE], [Func(t, "linear", {}) EXCEPT !.ends = FALSE]}}

NativePlain == {File("native", arch, <<>>, <<>>, NativeEnd, <<>>) : arch \in {"amd64", "arm64"}}

AllFiles == NativePlain \cup DataFiles \cup DataErrors \cup NativeData_ \cup FuncFiles \cup AliasFiles \cup FuncErrors \cup NativeFuncs
=============================================================================
