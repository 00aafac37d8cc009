--------------------------- MODULE ModuleAssembly ---------------------------
(***************************************************************************)
(* From an assembly file to one LLVM module: DATA and GLOBL statements     *)
(* merged into globals, references declared, functions added, and the two  *)
(* ways a typed module is built (translate.go, translate_module.go,        *)
(* translate_module_direct.go).  A file of native assembly takes its own   *)
(* way (native_source.go, native_module.go).                               *)
(*                                                                         *)
(* A symbol of the source is [form, pkg, name, local]: form "dot" for      *)
(* (middle dot)x, "qual" for p(middle dot)x, "bare" for x; local for <>.   *)
(* A name of the module is [pkg, name, local].  Memory is counted in       *)
(* cells of CellBase values: [to, v], to empty or the symbol whose address *)
(* the cell is the v-th part of.                                           *)
(* The bodies of functions are left to the other modules; here a function  *)
(* is the symbols it refers to and what its lowering asks for.             *)
(***************************************************************************)
EXTENDS Integers, Sequences, FiniteSets, SequencesExt, FiniteSetsExt

CONSTANTS
  AssemblyFiles,    \* records: entry, arch, globl, data, funcs, sigs, imports, annotate
  CellBase,         \* values of a cell
  MaxGlobalSize,    \* maxDataGlobalSize
  SymbolicSize      \* the size given to a GLOBL of a symbolic size

ASSUME AssemblyAssumption ==
  /\ CellBase \in Nat \ {0, 1}
  /\ MaxGlobalSize \in Nat \ {0} /\ SymbolicSize \in 1 .. MaxGlobalSize

\* What the statements of a file are made of (parser.go, types.go); signatures
\* are a Go map from the names of functions.
Symbols ==
  [form : {"dot", "bare"}, pkg : {""}, name : STRING, local : BOOLEAN]
  \cup [form : {"qual"}, pkg : STRING \ {""}, name : STRING, local : BOOLEAN]
SymbolNames == [pkg : STRING, name : STRING, local : BOOLEAN]
GloblStatements == [sym : Symbols, flags : SUBSET STRING, symbolic : BOOLEAN, size : Int]
DataStatements ==
  [sym : Symbols, off : Int, ptrsize : BOOLEAN, width : Int, kind : {"int", "str", "addr"}, value : Int, cells : Seq(Int), to : Symbols]
Functions == [sym : Symbols, needs : {"linear", "text", "cfg", "raw"}, uses : SUBSET [how : {"call", "tail", "addr", "mem"}, sym : Symbols],
              flags : SUBSET STRING, zeroFrame : BOOLEAN, ends : BOOLEAN]
Signatures == [key : SymbolNames, name : {<<>>} \cup [1 .. 1 -> SymbolNames], ret : STRING]

ASSUME FilesAssumption ==
  \A f \in AssemblyFiles :
    /\ f.entry \in {"typed", "native"} /\ f.arch \in STRING /\ f.annotate \in BOOLEAN
    /\ f.globl \in Seq(GloblStatements) /\ f.data \in Seq(DataStatements)
    /\ f.funcs \in Seq(Functions) /\ f.sigs \in Seq(Signatures)
    /\ \A i, j \in DOMAIN f.sigs : f.sigs[i].key = f.sigs[j].key => i = j

VARIABLES
  file,      \* the source
  path,      \* "direct", "text" or "native"
  stage,     \* the part of the module being built
  at,        \* the statement next
  syms,      \* name :> [size, payloads: offset :> cells]
  cur,       \* the global being filled: [name, buf, todo], or <<>>
  mod,       \* the module: globals, functions, declarations, references
  result     \* "run", "module" or "error"

avars == <<file, path, stage, at, syms, cur, mod, result>>

Name(pkg, name, local) == [pkg |-> pkg, name |-> name, local |-> local]
EmptyMap == [x \in {} |-> 0]
EmptyModule == [globals |-> EmptyMap, funcs |-> <<>>, decls |-> {}, externs |-> {}, uses |-> {}]

(***************************************************************************)
(* Names: the resolver of the command, and the reading of data symbols.    *)
(***************************************************************************)
ThisPkg == "p"
resolveNoLocal(s) ==   \* mutant: <> is dropped
  Name(CASE s.form = "dot" -> ThisPkg [] s.form = "qual" -> s.pkg [] OTHER -> IF s.local THEN ThisPkg ELSE "", s.name, FALSE)
resolve(s) ==
  CASE s.form = "dot" -> Name(ThisPkg, s.name, s.local)
    [] s.form = "qual" -> Name(s.pkg, s.name, s.local)
    [] OTHER -> Name(IF s.local THEN ThisPkg ELSE "", s.name, s.local)
\* An unqualified name in data, or in the address of a symbol, is package-local.
resolveData(s) == IF s.form = "bare" THEN resolve([s EXCEPT !.form = "dot"]) ELSE resolve(s)

(***************************************************************************)
(* parseDATAStmt and parseGLOBLStmt.  A source statement has a value of    *)
(* kind "int", "str" (cells) or "addr" (a symbol), and a width in cells or *)
(* PTRSIZE.  An address is kept beside a value of zero.                    *)
(***************************************************************************)
PtrSize(arch) == IF arch \in {"amd64", "arm64", "wasm"} THEN 8 ELSE 4
parseWidth(arch, d) == IF d.ptrsize THEN PtrSize(arch) ELSE d.width
parseDATA(arch, d) ==
  LET width == parseWidth(arch, d)
  IN  IF width <= 0 \/ (d.kind = "str" /\ Len(d.cells) > width) THEN <<>>
      ELSE <<[sym |-> d.sym, off |-> d.off, width |-> width,
              value |-> IF d.kind = "int" THEN d.value ELSE 0,
              payload |-> IF d.kind = "str" THEN <<d.cells>> ELSE <<>>,
              addr |-> IF d.kind = "addr" THEN <<d.to>> ELSE <<>>]>>
parseGLOBL(g) ==
  IF g.symbolic THEN <<[g EXCEPT !.size = SymbolicSize]>>
  ELSE IF g.size < 0 THEN <<>>
  ELSE <<g>>

Parses ==
  /\ \A i \in DOMAIN file.globl : parseGLOBL(file.globl[i]) # <<>>
  /\ \A i \in DOMAIN file.data : parseDATA(file.arch, file.data[i]) # <<>>
Globls == [i \in DOMAIN file.globl |-> parseGLOBL(file.globl[i])[1]]
Datas  == [i \in DOMAIN file.data |-> parseDATA(file.arch, file.data[i])[1]]

(***************************************************************************)
(* One DATA statement: its end and its cells, little-endian.               *)
(***************************************************************************)
dataStmtFits(d) ==
  d.off >= 0 /\ d.width > 0 /\ d.width <= MaxGlobalSize /\ d.off <= MaxGlobalSize - d.width
Plain(v) == [to |-> <<>>, v |-> v]
Power[k \in 0 .. MaxGlobalSize] == IF k = 0 THEN 1 ELSE CellBase * Power[k - 1]
Cell(value, k) == Plain((value \div Power[k]) % CellBase)
dataStmtPayload(d) ==
  [k \in 0 .. d.width - 1 |->
     IF d.payload = <<>> THEN Cell(d.value, k)
     ELSE IF k < Len(d.payload[1]) THEN Plain(d.payload[1][k + 1]) ELSE Plain(0)]

Put(map, k, v) == [x \in DOMAIN map \cup {k} |-> IF x = k THEN v ELSE map[x]]
Sym(name) == IF name \in DOMAIN syms THEN syms[name] ELSE [size |-> 0, payloads |-> EmptyMap]
Larger(a, b) == IF a > b THEN a ELSE b

(***************************************************************************)
(* The stages of a path, each with the one behind it.                      *)
(***************************************************************************)
Stages(p) ==
  CASE p = "direct" -> [parse |-> "globl", globl |-> "data", data |-> "emit", emit |-> "funcs", funcs |-> "verify"]
    [] p = "text"   -> [parse |-> "externs", externs |-> "globl", globl |-> "data", data |-> "emit", emit |-> "decls",
                        decls |-> "funcs", funcs |-> "verify"]
    [] OTHER -> [parse |-> "prepare", prepare |-> "reserve", reserve |-> "initialise", initialise |-> "funcs", funcs |-> "verify"]
NextStage == Stages(path)[stage]
Goto(s) == stage' = s /\ at' = 1
Advance(n) == IF at < n THEN stage' = stage /\ at' = at + 1 ELSE Goto(NextStage)
Stay == UNCHANGED <<stage, at>>
In(s) == result = "run" /\ stage = s
Empty(s, n) == In(s) /\ n = 0 /\ Goto(NextStage) /\ UNCHANGED <<file, path, syms, cur, mod, result>>

\* An error ends the translation; what the direct path does not support
\* throws its module away and starts again as text.
Error == result' = "error" /\ UNCHANGED <<file, path, stage, at, syms, cur, mod>>
Fallback ==
  /\ path = "direct"
  /\ path' = "text" /\ stage' = Stages("text").parse /\ at' = 1
  /\ syms' = EmptyMap /\ cur' = <<>> /\ mod' = EmptyModule
  /\ UNCHANGED <<file, result>>

Parse ==
  /\ In("parse")
  /\ IF ~Parses \/ (file.globl = <<>> /\ file.data = <<>> /\ file.funcs = <<>>) THEN Error
     ELSE IF path = "direct" /\ file.annotate THEN Fallback
     ELSE /\ Goto(NextStage)
          /\ UNCHANGED <<file, path, syms, cur, mod, result>>

(***************************************************************************)
(* emitExternSBGlobals: what operands of kind symbol refer to and the file *)
(* does not define is an external global, unless it is a branch or a call. *)
(* Symbols in memory operands are not looked at.                           *)
(***************************************************************************)
DefinedTextOnly ==   \* mutant: data does not count
  {resolve(file.funcs[i].sym) : i \in DOMAIN file.funcs}
Defined ==
  {resolveData(Globls[i].sym) : i \in DOMAIN Globls} \cup {resolveData(Datas[i].sym) : i \in DOMAIN Datas}
  \cup {resolve(file.funcs[i].sym) : i \in DOMAIN file.funcs}
FuncUses == UNION {file.funcs[i].uses : i \in DOMAIN file.funcs}
SigNames == {file.sigs[i].key : i \in DOMAIN file.sigs}
Needed ==
  {resolveData(u.sym) : u \in {u \in FuncUses : u.how = "addr"}} \ (Defined \cup SigNames)

DeclareGlobals ==
  /\ In("externs")
  /\ mod' = [mod EXCEPT !.externs = Needed]
  /\ Goto(NextStage)
  /\ UNCHANGED <<file, path, syms, cur, result>>

\* emitExternFuncDecls: every signature that is no function of the file, under
\* the symbol the signature gives.
funcSigSymbol(name, sig) == IF sig.name # <<>> THEN sig.name[1] ELSE name
DeclareFuncs ==
  /\ In("decls")
  /\ mod' = [mod EXCEPT !.decls =
       {[key |-> s.key, name |-> funcSigSymbol(s.key, s)] :
          s \in {s \in Range(file.sigs) : s.ret # "" /\ s.key \notin {resolve(file.funcs[i].sym) : i \in DOMAIN file.funcs}}}]
  /\ Goto(NextStage)
  /\ UNCHANGED <<file, path, syms, cur, result>>

(***************************************************************************)
(* emitDataGlobals and emitDataGlobalsModule.                              *)
(***************************************************************************)
MergeGlobl ==
  \/ Empty("globl", Len(Globls))
  \/ /\ In("globl") /\ at \in DOMAIN Globls
     /\ LET g == Globls[at]
            n == resolveData(g.sym)
        IN  syms' = Put(syms, n, [Sym(n) EXCEPT !.size = Larger(@, g.size)])
     /\ Advance(Len(Globls))
     /\ UNCHANGED <<file, path, cur, mod, result>>

MergeData ==
  \/ Empty("data", Len(Datas))
  \/ /\ In("data") /\ at \in DOMAIN Datas
     /\ LET d == Datas[at]
            n == resolveData(d.sym)
        IN  IF ~dataStmtFits(d) THEN Error
            ELSE /\ syms' = Put(syms, n, [size |-> Larger(Sym(n).size, d.off + d.width),
                                          payloads |-> Put(Sym(n).payloads, d.off, dataStmtPayload(d))])
                 /\ Advance(Len(Datas))
                 /\ UNCHANGED <<file, path, cur, mod, result>>

\* Symbols are taken in the order of their names (text) or of a Go map
\* (direct): any of them next.  One of size 0 is left out.
Pending == {n \in DOMAIN syms : syms[n].size > 0} \ DOMAIN mod.globals
BeginGlobal ==
  /\ In("emit") /\ cur = <<>>
  /\ \E n \in Pending :
       IF syms[n].size > MaxGlobalSize THEN Error
       ELSE /\ cur' = <<[name |-> n, buf |-> [k \in 0 .. syms[n].size - 1 |-> Plain(0)], todo |-> DOMAIN syms[n].payloads]>>
            /\ Stay /\ UNCHANGED <<file, path, syms, mod, result>>

\* The payloads of a symbol are copied in the order of a Go map.
CopyPayload ==
  /\ In("emit") /\ cur # <<>>
  /\ \E off \in cur[1].todo :
       LET p == syms[cur[1].name].payloads[off]
           buf == cur[1].buf
       IN  IF off + Cardinality(DOMAIN p) > Cardinality(DOMAIN buf) THEN Error
           ELSE /\ cur' = <<[cur[1] EXCEPT !.todo = @ \ {off},
                               !.buf = [k \in DOMAIN buf |-> IF k - off \in DOMAIN p THEN p[k - off] ELSE buf[k]]]>>
                /\ Stay /\ UNCHANGED <<file, path, syms, mod, result>>

bestAlign(n) == Max({a \in {1, 2, 4, 8, 16} : n % a = 0})
EndGlobal ==
  /\ In("emit") /\ cur # <<>> /\ cur[1].todo = {}
  /\ mod' = [mod EXCEPT !.globals = Put(@, cur[1].name,
       [cells |-> cur[1].buf, const |-> TRUE, align |-> bestAlign(Cardinality(DOMAIN cur[1].buf))])]
  /\ cur' = <<>>
  /\ Stay /\ UNCHANGED <<file, path, syms, result>>
EndData ==
  /\ In("emit") /\ cur = <<>> /\ Pending = {}
  /\ Goto(NextStage)
  /\ UNCHANGED <<file, path, syms, cur, mod, result>>
(***************************************************************************)
(* The functions.  needs: "linear" (both linear translators take it),      *)
(* "text" (only the textual one does), "cfg" (a translator with a          *)
(* control-flow graph), "raw" (an immediate is unresolved).  Only the      *)
(* latter translators name symbols in what they emit.                      *)
(***************************************************************************)
SigsOf(name) == {s \in Range(file.sigs) : s.key = name}
SigOf(name) == CHOOSE s \in SigsOf(name) : TRUE
SigFits(name) ==
  SigsOf(name) # {} /\ SigOf(name).ret # "" /\ funcSigSymbol(name, SigOf(name)) = name

\* ptrFromSB for data, callSym and tailCallAndRet for functions.
Emitted(u) ==
  LET name == IF u.how \in {"call", "tail"} THEN resolve(u.sym) ELSE resolveData(u.sym)
  IN  IF u.how \in {"call", "tail"} /\ SigsOf(name) # {} THEN funcSigSymbol(name, SigOf(name)) ELSE name
Lowers(fn) == \A u \in fn.uses : u.how = "call" => SigsOf(resolve(u.sym)) # {}

AddFunction(fn, uses) ==
  /\ mod' = [mod EXCEPT !.funcs = Append(@, resolve(fn.sym)),
                        !.uses = @ \cup {[use |-> u, name |-> Emitted(u)] : u \in uses}]
  /\ Advance(Len(file.funcs))
  /\ UNCHANGED <<file, path, syms, cur, result>>

DirectFunc ==
  /\ In("funcs") /\ path = "direct" /\ at \in DOMAIN file.funcs
  /\ LET fn == file.funcs[at] IN
     IF ~SigFits(resolve(fn.sym)) THEN Error
     ELSE IF fn.needs # "linear" THEN Fallback
     ELSE AddFunction(fn, {})

TextFunc ==
  /\ In("funcs") /\ path = "text" /\ at \in DOMAIN file.funcs
  /\ LET fn == file.funcs[at] IN
     IF ~SigFits(resolve(fn.sym)) \/ fn.needs = "raw" \/ (fn.needs = "cfg" /\ ~Lowers(fn)) THEN Error
     ELSE AddFunction(fn, IF fn.needs = "cfg" THEN fn.uses ELSE {})

NoFuncs == path # "native" /\ Empty("funcs", Len(file.funcs))

\* What LLVM takes for a text: a name is introduced once, and what is used is
\* introduced.
Introduced == <<DOMAIN mod.globals, {d.name : d \in mod.decls}, mod.externs, Range(mod.funcs)>>
WellFormed ==
  /\ IsInjective(mod.funcs) /\ \A d, e \in mod.decls : d.name = e.name => d = e
  /\ \A i, j \in 1 .. 4 : i # j => Introduced[i] \cap Introduced[j] = {}
  /\ \A u \in mod.uses : \E i \in 1 .. 4 : u.name \in Introduced[i]
Verify ==
  /\ In("verify")
  /\ IF path = "text" /\ ~WellFormed THEN Error
     ELSE /\ result' = "module"
          /\ UNCHANGED <<file, path, stage, at, syms, cur, mod>>

(***************************************************************************)
(* Native assembly: nothing is guessed.  prepareNativeSource               *)
(***************************************************************************)
\* nativeSource: constants only.
NativeStatements ==
  /\ \A i \in DOMAIN file.data : file.data[i].kind # "str"
  /\ \A i \in DOMAIN file.globl : ~file.globl[i].symbolic
NativeText(fn) ==
  /\ fn.sym.form = "bare" /\ fn.sym.local
  /\ fn.zeroFrame /\ "NOSPLIT" \in fn.flags /\ fn.flags \subseteq {"NOSPLIT", "NOFRAME"}
  /\ \A u \in fn.uses : u.how = "call" => "NOFRAME" \in fn.flags
NativeGlobl(g) ==
  /\ g.sym.form = "dot" /\ ~g.sym.local
  /\ g.size > 0 /\ g.size <= MaxGlobalSize
  /\ g.flags \subseteq {"RODATA", "NOPTR"}

\* symbol: a function of the file, a global of the file (in data), an import.
Globals == {Globls[i].sym : i \in DOMAIN Globls}
Texts == {file.funcs[i].sym : i \in DOMAIN file.funcs}
Target(s) ==
  IF s \in Texts THEN <<"func", s>>
  ELSE IF s \in Globals THEN <<"global", s>>
  ELSE IF s \in file.imports THEN <<"import", s>>
  ELSE <<"none", s>>

\* dataValues: the statements of a global, sorted, apart and inside it.
OrderOf(g) ==
  CHOOSE o \in SetToSeqs({i \in DOMAIN Datas : Datas[i].sym = g.sym}) :
    \A a, b \in DOMAIN o : a < b => Datas[o[a]].off <= Datas[o[b]].off
DataOf(g) == [a \in DOMAIN OrderOf(g) |-> Datas[OrderOf(g)[a]]]
End(ds, i) == IF i = 0 THEN 0 ELSE ds[i].off + ds[i].width
ApartLoose(g) ==   \* mutant: only the end of the global is watched
  \A i \in DOMAIN DataOf(g) :
    LET d == DataOf(g)[i] IN d.off >= 0 /\ d.width > 0 /\ d.off + d.width <= g.size
Apart(g) ==
  \A i \in DOMAIN DataOf(g) :
    LET d == DataOf(g)[i]
        pos == End(DataOf(g), i - 1)
    IN  d.off >= pos /\ d.width > 0 /\ d.off <= g.size /\ d.width <= g.size - d.off
NativeValue(d) ==
  IF d.addr # <<>> THEN d.width = 8 /\ Target(d.addr[1])[1] # "none"
  ELSE d.payload = <<>> /\ d.width \in {1, 2, 4, 8}
dataValues(g) ==
  /\ Apart(g)
  /\ \A i \in DOMAIN DataOf(g) : NativeValue(DataOf(g)[i])

Prepare ==
  /\ In("prepare")
  /\ IF /\ file.funcs # <<>>
        /\ NativeStatements
        /\ IsInjective([i \in DOMAIN file.funcs |-> file.funcs[i].sym])
        /\ \A i \in DOMAIN file.funcs : NativeText(file.funcs[i])
        /\ IsInjective([i \in DOMAIN Globls |-> Globls[i].sym])
        /\ \A i \in DOMAIN Globls : NativeGlobl(Globls[i]) /\ dataValues(Globls[i])
        /\ \A i \in DOMAIN Datas : Datas[i].sym \in Globals
     THEN Goto("reserve") /\ UNCHANGED <<file, path, syms, cur, mod, result>>
     ELSE Error

\* A packed structure: filling between the statements, and behind the last.
Field(d) ==
  [k \in 1 .. d.width |-> IF d.addr # <<>> THEN [to |-> <<Target(d.addr[1])>>, v |-> k - 1] ELSE Cell(d.value, k - 1)]
Zeros(n) == IF n <= 0 THEN <<>> ELSE [k \in 1 .. n |-> Plain(0)]
Layout(ds, size) ==
  LET laid[i \in 0 .. Len(ds)] ==
        IF i = 0 THEN <<>> ELSE laid[i - 1] \o Zeros(ds[i].off - End(ds, i - 1)) \o Field(ds[i])
  IN  laid[Len(ds)] \o Zeros(size - End(ds, Len(ds)))

\* All globals are there before the first initialiser refers to one.
Reserve ==
  \/ Empty("reserve", Len(Globls))
  \/ /\ In("reserve") /\ at \in DOMAIN Globls
     /\ mod' = [mod EXCEPT !.globals = Put(@, resolve(Globls[at].sym),
          [cells |-> <<>>, const |-> "RODATA" \in Globls[at].flags, align |-> 8])]
     /\ Advance(Len(Globls))
     /\ UNCHANGED <<file, path, syms, cur, result>>
Initialise ==
  \/ Empty("initialise", Len(Globls))
  \/ /\ In("initialise") /\ at \in DOMAIN Globls
     /\ LET g == Globls[at]
            cells == Layout(DataOf(g), g.size)
        IN  mod' = [mod EXCEPT !.globals[resolve(g.sym)].cells = [k \in 0 .. Len(cells) - 1 |-> cells[k + 1]]]
     /\ Advance(Len(Globls))
     /\ UNCHANGED <<file, path, syms, cur, result>>

\* Each function in a naked carrier; its symbols are operands of the assembly.
NativeFunc ==
  /\ In("funcs") /\ path = "native" /\ at \in DOMAIN file.funcs
  /\ LET fn == file.funcs[at] IN
     IF ~fn.ends \/ \E u \in fn.uses : Target(u.sym)[1] \notin {"func", "import"} \cup (IF u.how = "addr" THEN {"global"} ELSE {})
     THEN Error
     ELSE AddFunction(fn, {})
AInit ==
  /\ file \in AssemblyFiles
  /\ path = (IF file.entry = "native" THEN "native" ELSE "direct")
  /\ stage = "parse" /\ at = 1
  /\ syms = EmptyMap /\ cur = <<>> /\ mod = EmptyModule
  /\ result = "run"

ANext ==
  \/ Parse \/ DeclareGlobals \/ DeclareFuncs
  \/ MergeGlobl \/ MergeData \/ BeginGlobal \/ CopyPayload \/ EndGlobal \/ EndData
  \/ DirectFunc \/ TextFunc \/ NoFuncs \/ Verify
  \/ Prepare \/ Reserve \/ Initialise \/ NativeFunc

ASpec == AInit /\ [][ANext]_avars

(***************************************************************************)
(* What the source says, symbol by symbol.                                 *)
(***************************************************************************)
Denoted(s) == Name(CASE s.form = "dot" -> ThisPkg [] s.form = "qual" -> s.pkg [] OTHER -> "", s.name, s.local)
DataSyms == Globals \cup {Datas[i].sym : i \in DOMAIN Datas}
StatementsOf(s) == {i \in DOMAIN file.data : Denoted(file.data[i].sym) = Denoted(s)}
Ends(s) ==
  {file.data[i].off + parseWidth(file.arch, file.data[i]) : i \in StatementsOf(s)}
  \cup {Globls[i].size : i \in {i \in DOMAIN Globls : Denoted(Globls[i].sym) = Denoted(s)}}
SourceSize(s) == Max(Ends(s))
Covers(i, k) == k - file.data[i].off \in 0 .. parseWidth(file.arch, file.data[i]) - 1
Overlapping(s) == \E k \in 0 .. SourceSize(s) - 1 : \E i, j \in StatementsOf(s) : i # j /\ Covers(i, k) /\ Covers(j, k)

\* The cell at k; typed modules hold zero for the address of a symbol.
SourceCell(s, k) ==
  LET stmts == {i \in StatementsOf(s) : Covers(i, k)}
      d == file.data[CHOOSE i \in stmts : TRUE]
      n == k - d.off
  IN  IF stmts = {} THEN Plain(0)
      ELSE CASE d.kind = "int" -> Plain((d.value \div Power[n]) % CellBase)
             [] d.kind = "str" -> Plain(IF n < Len(d.cells) THEN d.cells[n + 1] ELSE 0)
             [] OTHER -> IF path = "native" THEN [to |-> <<Target(d.to)>>, v |-> n] ELSE Plain(0)

\* The heuristic for unqualified names: x is the symbol (middle dot)x in data
\* and addresses, and a symbol of its own as a function.
Unqualified(s) == s.form = "bare"
Mixed(s) ==
  \E t \in DataSyms \cup Texts :
    /\ t.name = s.name /\ t.local = s.local
    /\ {Denoted(t).pkg, Denoted(s).pkg} = {"", ThisPkg}

\* Every symbol of DATA and GLOBL is in the module with the size and the cells
\* its statements give it, zero where there is none, in whatever order symbols
\* and payloads are taken (translate.go:461 "Deterministic output order."),
\* and on whichever path the module was built.  Native modules also keep
\* addresses (native_module.go:54 "byte-exact layout while retaining
\* pointer-typed relocations") and whether a symbol is read-only, and take no
\* overlapping statements; typed ones take them, and are excepted here.
DataExact ==
  result = "module" =>
    \A s \in {s \in DataSyms : ~Mixed(s) /\ SourceSize(s) > 0 /\ (path = "native" \/ ~Overlapping(s))} :
      /\ resolveData(s) \in DOMAIN mod.globals
      /\ LET g == mod.globals[resolveData(s)] IN
         /\ g.cells = [k \in 0 .. SourceSize(s) - 1 |-> SourceCell(s, k)]
         /\ path = "native" => ~Overlapping(s) /\ g.const = (\E i \in DOMAIN Globls : Globls[i].sym = s /\ "RODATA" \in Globls[i].flags)

\* A reference in a translated function names what the file defines for that
\* symbol, static symbols apart from the others of the same name; what the
\* file does not define is not captured by something else it does define.
\* Functions and data of one unqualified name are excepted, and functions to
\* which the caller of the translator gives another symbol (FuncSig.Name).
Renamed(s) == \E sig \in SigsOf(resolve(s)) : sig.name \notin {<<>>, <<sig.key>>}
ReferencesBind ==
  result = "module" /\ path = "text" =>
    \A u \in mod.uses : LET s == u.use.sym IN ~(Unqualified(s) /\ ~s.local) /\ ~Mixed(s) /\ ~Renamed(s) =>
      (u.name \in DOMAIN mod.globals \cup Range(mod.funcs)) <=>
        \E t \in DataSyms \cup Texts : Denoted(t) = Denoted(s) /\ (t \in Texts \/ SourceSize(t) > 0)

\* What can be wrong with a typed file.
BadData ==
  \/ ~Parses
  \/ \E i \in DOMAIN Datas : Datas[i].off < 0 \/ Datas[i].off + Datas[i].width > MaxGlobalSize
  \/ \E s \in DataSyms : SourceSize(s) > MaxGlobalSize
BadFunction(fn) ==
  \/ fn.needs = "raw"
  \/ \A s \in SigsOf(resolve(fn.sym)) : s.ret = "" \/ s.name \notin {<<>>, <<s.key>>}
HasFunction(s) == \E t \in Texts : Denoted(t) = Denoted(s)
HasData(s) == \E t \in DataSyms : Denoted(t) = Denoted(s) /\ SourceSize(t) > 0
Undeclared(name) == \A s \in SigsOf(name) : s.ret = ""
Unbound(u) ==
  CASE u.how = "call" -> Undeclared(resolve(u.sym))
    [] u.how = "tail" -> ~HasFunction(u.sym) /\ Undeclared(resolve(u.sym))
    [] u.how = "mem" -> ~HasData(u.sym) /\ (HasFunction(u.sym) => Unqualified(u.sym) /\ ~u.sym.local)
    [] OTHER -> \/ \E s \in SigsOf(resolveData(u.sym)) : s.name \notin {<<>>, <<s.key>>} \/ s.ret = ""
                \/ \E t \in DataSyms : resolveData(t) = resolveData(u.sym) /\ SourceSize(t) = 0
Clash ==
  \/ \E s \in DataSyms : Mixed(s) \/ SigsOf(resolveData(s)) # {}
  \/ \E i, j \in DOMAIN file.funcs : i # j /\ resolve(file.funcs[i].sym) = resolve(file.funcs[j].sym)
  \/ \E s, t \in Range(file.sigs) : s # t /\ funcSigSymbol(s.key, s) = funcSigSymbol(t.key, t)
  \/ \E s \in Range(file.sigs) : \/ \E t \in DataSyms : s.name = <<resolveData(t)>>
                                 \/ \E u \in FuncUses : u.how = "addr" /\ s.name = <<resolveData(u.sym)>> /\ s.name # <<s.key>>

\* TranslateModule fails only on a file that is wrong in itself (a statement
\* out of range, a function without a usable signature, a name for two things)
\* or that refers to what nothing introduces: a call without a signature, a
\* jump to no function, a memory operand that is not of this file, a symbol of
\* size zero.
\* In particular the lists of what is declared and of what is defined, which
\* different functions collect, never name anything twice.
RejectsOnlyUnresolvable ==
  result = "error" /\ path # "native" =>
    \/ file.globl = <<>> /\ file.data = <<>> /\ file.funcs = <<>>
    \/ BadData \/ Clash
    \/ \E i \in DOMAIN file.funcs :
         BadFunction(file.funcs[i]) \/ (file.funcs[i].needs = "cfg" /\ \E u \in file.funcs[i].uses : Unbound(u))
=============================================================================
