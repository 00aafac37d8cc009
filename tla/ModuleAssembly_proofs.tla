------------------------ MODULE ModuleAssembly_proofs ------------------------
(***************************************************************************)
(* Modules of every file: what a data symbol holds, what a reference       *)
(* binds to, and why a file may be refused.                                *)
(*                                                                         *)
(* The invariants follow the stages of a path.  Of typed modules: how much *)
(* of DATA and GLOBL is merged and what the symbols hold by then, which    *)
(* payloads a global has received, which functions are added.  Of native   *)
(* ones: which globals are reserved, and which are laid out.               *)
(***************************************************************************)
EXTENDS ModuleAssembly, FiniteSetTheorems, WellFoundedInduction, TLAPS

-----------------------------------------------------------------------------
(***************************************************************************)
(* The invariant of typed modules.                                         *)
(***************************************************************************)
TypedStages(p) ==
  {"parse", "globl", "data", "emit", "funcs", "verify"} \cup (IF p = "text" THEN {"externs", "decls"} ELSE {})
NativeStages == {"parse", "prepare", "reserve", "initialise", "funcs", "verify"}
Within(n) == at \in 1 .. Larger(1, n)

\* Where a translation may be.
ControlInv ==
  /\ file \in AssemblyFiles
  /\ path \in {"direct", "text", "native"} /\ (path = "native" <=> file.entry = "native")
  /\ result \in {"run", "module", "error"}
  /\ stage \in IF path = "native" THEN NativeStages ELSE TypedStages(path)
  /\ stage # "parse" => Parses
  /\ stage \in {"globl", "reserve", "initialise"} => Within(Len(file.globl))
  /\ stage = "data" => Within(Len(file.data))
  /\ stage = "funcs" => Within(Len(file.funcs))
  /\ DOMAIN mod = {"globals", "funcs", "decls", "externs", "uses"}
  /\ result = "module" => stage = "verify" /\ (path = "text" => WellFormed)

\* The statements merged so far.
GloblsMerged ==
  CASE stage = "globl" -> at - 1
    [] stage \in {"parse", "externs"} -> 0
    [] OTHER -> Len(file.globl)
DatasMerged ==
  CASE stage = "data" -> at - 1
    [] stage \in {"parse", "externs", "globl"} -> 0
    [] OTHER -> Len(file.data)
FuncsAdded ==
  CASE stage = "funcs" -> at - 1
    [] stage = "verify" -> Len(file.funcs)
    [] OTHER -> 0

GloblIs(i, n) == resolveData(Globls[i].sym) = n
DataIs(i, n) == resolveData(Datas[i].sym) = n

\* A symbol after m of the GLOBL and k of the DATA statements.
Merged(n, m, k) ==
  LET s == syms[n] IN
  /\ DOMAIN s = {"size", "payloads"} /\ s.size \in Nat
  /\ \A i \in 1 .. m : GloblIs(i, n) => Globls[i].size <= s.size
  /\ \A i \in 1 .. k : DataIs(i, n) => Datas[i].off + Datas[i].width <= s.size
  /\ \/ s.size = 0
     \/ \E i \in 1 .. m : GloblIs(i, n) /\ Globls[i].size = s.size
     \/ \E i \in 1 .. k : DataIs(i, n) /\ Datas[i].off + Datas[i].width = s.size
  /\ \A i \in 1 .. k : DataIs(i, n) => Datas[i].off \in DOMAIN s.payloads
  /\ \A off \in DOMAIN s.payloads : \E i \in 1 .. k :
       DataIs(i, n) /\ Datas[i].off = off /\ s.payloads[off] = dataStmtPayload(Datas[i])
SymsAre(m, k) ==
  /\ \A n : n \in DOMAIN syms <=> ((\E i \in 1 .. m : GloblIs(i, n)) \/ (\E i \in 1 .. k : DataIs(i, n)))
  /\ \A n \in DOMAIN syms : Merged(n, m, k)
  /\ \A i \in 1 .. k : dataStmtFits(Datas[i])
SymsInv == path # "native" => \A m, k : m = GloblsMerged /\ k = DatasMerged => SymsAre(m, k)

\* The cells of a global that has received some of its payloads.
IsFunction(f) == f = [k \in DOMAIN f |-> f[k]]
Filled(n, cells, done) ==
  /\ IsFunction(cells) /\ DOMAIN cells = 0 .. syms[n].size - 1
  /\ \A k \in DOMAIN cells :
       \/ cells[k] = Plain(0) /\ \A off \in done : k - off \notin DOMAIN syms[n].payloads[off]
       \/ \E off \in done : k - off \in DOMAIN syms[n].payloads[off] /\ cells[k] = syms[n].payloads[off][k - off]
Filling(c) ==
  /\ stage = "emit" /\ DOMAIN c = {"name", "buf", "todo"}
  /\ c.name \in Pending /\ c.todo \subseteq DOMAIN syms[c.name].payloads
  /\ Filled(c.name, c.buf, DOMAIN syms[c.name].payloads \ c.todo)
GlobalsDone ==
  \A n \in DOMAIN mod.globals :
    n \in DOMAIN syms /\ syms[n].size > 0 /\ Filled(n, mod.globals[n].cells, DOMAIN syms[n].payloads)
EmitInv ==
  path # "native" =>
    /\ cur = <<>> \/ (cur = <<cur[1]>> /\ Filling(cur[1]))
    /\ stage \in {"parse", "externs", "globl", "data"} => DOMAIN mod.globals = {}
    /\ stage \in {"decls", "funcs", "verify"} => Pending = {}
    /\ GlobalsDone

\* What is introduced and used once so many functions are added.
Declared ==
  {[key |-> s.key, name |-> funcSigSymbol(s.key, s)] :
     s \in {s \in Range(file.sigs) : s.ret # "" /\ s.key \notin {resolve(file.funcs[i].sym) : i \in DOMAIN file.funcs}}}
FuncNames == {resolve(file.funcs[i].sym) : i \in DOMAIN file.funcs}
FuncsAre(n) ==
  /\ mod.funcs \in Seq(FuncNames) /\ Len(mod.funcs) = n
  /\ \A i \in 1 .. n : mod.funcs[i] = resolve(file.funcs[i].sym) /\ SigFits(resolve(file.funcs[i].sym))
  /\ \A x \in mod.uses : \E i \in 1 .. n : \E u \in file.funcs[i].uses :
       /\ x = [use |-> u, name |-> Emitted(u)]
       /\ file.funcs[i].needs = "cfg" /\ Lowers(file.funcs[i])
FuncsInv ==
  path # "native" =>
    /\ \A n : n = FuncsAdded => FuncsAre(n)
    /\ path = "text" /\ stage \notin {"parse", "externs"} => mod.externs = Needed
    /\ path = "text" /\ stage \in {"funcs", "verify"} => mod.decls = Declared

Excused ==
  \/ file.globl = <<>> /\ file.data = <<>> /\ file.funcs = <<>>
  \/ BadData \/ Clash
  \/ \E i \in DOMAIN file.funcs :
       BadFunction(file.funcs[i]) \/ (file.funcs[i].needs = "cfg" /\ \E u \in file.funcs[i].uses : Unbound(u))
TypedInv == ControlInv /\ SymsInv /\ EmitInv /\ FuncsInv

-----------------------------------------------------------------------------
(***************************************************************************)
(* Statements and names.                                                   *)
(***************************************************************************)

\* A statement that parses keeps its symbol, and has a size or a width.
LEMMA GloblTypes ==
  ASSUME file \in AssemblyFiles, Parses
  PROVE  /\ DOMAIN Globls = 1 .. Len(file.globl) /\ Len(file.globl) \in Nat
         /\ \A i \in 1 .. Len(file.globl) :
              /\ Globls[i].size \in Nat /\ Globls[i].sym = file.globl[i].sym /\ Globls[i].sym \in Symbols
              /\ Globls[i].flags = file.globl[i].flags
<1>1. file.globl \in Seq(GloblStatements)
  BY FilesAssumption
<1>2. DOMAIN Globls = 1 .. Len(file.globl) /\ Len(file.globl) \in Nat
  BY <1>1 DEF Globls
<1>3. SUFFICES ASSUME NEW i \in 1 .. Len(file.globl)
               PROVE  /\ Globls[i].size \in Nat /\ Globls[i].sym = file.globl[i].sym /\ Globls[i].sym \in Symbols
                      /\ Globls[i].flags = file.globl[i].flags
  BY <1>2
<1>4. i \in DOMAIN file.globl /\ file.globl[i] \in GloblStatements
  BY <1>1
<1>5. parseGLOBL(file.globl[i]) # <<>>
  BY <1>4 DEF Parses
<1>6. Globls[i] = parseGLOBL(file.globl[i])[1]
  BY <1>4 DEF Globls
<1>7. QED
  BY <1>4, <1>5, <1>6, AssemblyAssumption DEF parseGLOBL, GloblStatements

LEMMA DataTypes ==
  ASSUME file \in AssemblyFiles, Parses
  PROVE  /\ DOMAIN Datas = 1 .. Len(file.data) /\ DOMAIN file.data = DOMAIN Datas /\ Len(file.data) \in Nat
         /\ \A i \in 1 .. Len(file.data) :
              /\ Datas[i].off \in Int /\ Datas[i].off = file.data[i].off
              /\ Datas[i].width \in Nat \ {0} /\ Datas[i].width = parseWidth(file.arch, file.data[i])
              /\ Datas[i].sym = file.data[i].sym /\ Datas[i].sym \in Symbols
              /\ \/ file.data[i].kind = "int" /\ Datas[i].value = file.data[i].value /\ Datas[i].payload = <<>> /\ Datas[i].addr = <<>>
                 \/ file.data[i].kind = "str" /\ Datas[i].value = 0 /\ Datas[i].payload = <<file.data[i].cells>> /\ Datas[i].addr = <<>>
                 \/ file.data[i].kind = "addr" /\ Datas[i].value = 0 /\ Datas[i].payload = <<>> /\ Datas[i].addr = <<file.data[i].to>>
<1>1. file.data \in Seq(DataStatements)
  BY FilesAssumption
<1>2. DOMAIN Datas = 1 .. Len(file.data) /\ DOMAIN file.data = DOMAIN Datas /\ Len(file.data) \in Nat
  BY <1>1 DEF Datas
<1> SUFFICES ASSUME NEW i \in 1 .. Len(file.data)
             PROVE  /\ Datas[i].off \in Int /\ Datas[i].off = file.data[i].off
                    /\ Datas[i].width \in Nat \ {0} /\ Datas[i].width = parseWidth(file.arch, file.data[i])
                    /\ Datas[i].sym = file.data[i].sym /\ Datas[i].sym \in Symbols
                    /\ \/ file.data[i].kind = "int" /\ Datas[i].value = file.data[i].value /\ Datas[i].payload = <<>> /\ Datas[i].addr = <<>>
                       \/ file.data[i].kind = "str" /\ Datas[i].value = 0 /\ Datas[i].payload = <<file.data[i].cells>> /\ Datas[i].addr = <<>>
                       \/ file.data[i].kind = "addr" /\ Datas[i].value = 0 /\ Datas[i].payload = <<>> /\ Datas[i].addr = <<file.data[i].to>>
  BY <1>2
<1>4. i \in DOMAIN file.data /\ file.data[i] \in DataStatements
  BY <1>1
<1>5. parseDATA(file.arch, file.data[i]) # <<>>
  BY <1>4 DEF Parses
<1>6. Datas[i] = parseDATA(file.arch, file.data[i])[1]
  BY <1>4 DEF Datas
<1>7. parseWidth(file.arch, file.data[i]) \in Int
  BY <1>4 DEF parseWidth, PtrSize, DataStatements
<1>8. parseWidth(file.arch, file.data[i]) > 0
  BY <1>5, <1>7 DEF parseDATA
<1>9. file.data[i].kind \in {"int", "str", "addr"}
  BY <1>4 DEF DataStatements
<1>10. QED
  BY <1>4, <1>5, <1>6, <1>7, <1>8, <1>9 DEF parseDATA, DataStatements

\* What a symbol consists of.
LEMMA SymbolForms ==
  ASSUME NEW s \in Symbols
  PROVE  /\ s.form \in {"dot", "qual", "bare"} /\ s.local \in BOOLEAN
         /\ s.form = "qual" <=> s.pkg # ""
         /\ s = [form |-> s.form, pkg |-> s.pkg, name |-> s.name, local |-> s.local]
BY DEF Symbols

\* In data a symbol has one name whichever way it is written.
LEMMA DataNames ==
  ASSUME NEW s \in Symbols
  PROVE  /\ resolveData(s) = Name(IF s.form = "qual" THEN s.pkg ELSE ThisPkg, s.name, s.local)
         /\ Denoted(s) = Name(CASE s.form = "dot" -> ThisPkg [] s.form = "qual" -> s.pkg [] OTHER -> "", s.name, s.local)
         /\ resolve(s) = Name(CASE s.form = "dot" -> ThisPkg [] s.form = "qual" -> s.pkg [] OTHER -> IF s.local THEN ThisPkg ELSE "", s.name, s.local)
BY DEF Symbols, resolveData, resolve, Denoted, Name, ThisPkg

\* What depends on the file alone.
LEMMA Frame ==
  ASSUME file' = file
  PROVE  /\ Globls' = Globls /\ Datas' = Datas /\ Parses' = Parses
         /\ Needed' = Needed /\ Declared' = Declared /\ DataSyms' = DataSyms /\ Texts' = Texts
         /\ \A n : SigsOf(n)' = SigsOf(n) /\ SigFits(n)' = SigFits(n)
         /\ \A u : Emitted(u)' = Emitted(u)
         /\ \A fn : Lowers(fn)' = Lowers(fn)
<1>1. Globls' = Globls /\ Datas' = Datas
  BY DEF Globls, Datas
<1>2. Parses' = Parses
  BY DEF Parses
<1>3. \A n : SigsOf(n)' = SigsOf(n)
  BY DEF SigsOf
<1>4. \A n : SigOf(n)' = SigOf(n)
  BY <1>3 DEF SigOf
<1>5. \A n : SigFits(n)' = SigFits(n)
  BY <1>3, <1>4 DEF SigFits
<1>6. \A u : Emitted(u)' = Emitted(u)
  BY <1>3, <1>4 DEF Emitted
<1>7. \A fn : Lowers(fn)' = Lowers(fn)
  BY <1>3 DEF Lowers
<1>8. Defined' = Defined /\ FuncUses' = FuncUses /\ SigNames' = SigNames
  BY <1>1 DEF Defined, FuncUses, SigNames
<1>9. Needed' = Needed
  BY <1>8 DEF Needed
<1>10. Declared' = Declared
  BY DEF Declared
<1>11. DataSyms' = DataSyms /\ Texts' = Texts
  BY <1>1 DEF DataSyms, Globals, Texts
<1>12. QED
  BY <1>1, <1>2, <1>3, <1>5, <1>6, <1>7, <1>9, <1>10, <1>11

\* Every step takes the file as it is, and only while the translation runs.
LEMMA StepsRun ==
  ASSUME ANext
  PROVE  /\ file' = file /\ result = "run" /\ result' \in {"run", "error", "module"}
         /\ path' = path \/ (path = "direct" /\ path' = "text" /\ stage' = "externs")
<1>1. Stages("text").parse = "externs"
  BY DEF Stages
<1>2. CASE Parse
  BY <1>1, <1>2 DEF Parse, In, Error, Fallback
<1>3. CASE DeclareGlobals \/ DeclareFuncs
  BY <1>3 DEF DeclareGlobals, DeclareFuncs, In
<1>4. CASE MergeGlobl \/ MergeData
  BY <1>4 DEF MergeGlobl, MergeData, Empty, In, Error
<1>5. CASE BeginGlobal \/ CopyPayload \/ EndGlobal \/ EndData
  BY <1>5 DEF BeginGlobal, CopyPayload, EndGlobal, EndData, In, Error
<1>6. CASE DirectFunc \/ TextFunc \/ NoFuncs \/ NativeFunc
  BY <1>1, <1>6 DEF DirectFunc, TextFunc, NoFuncs, NativeFunc, Empty, In, Error, Fallback, AddFunction
<1>7. CASE Verify \/ Prepare
  BY <1>7 DEF Verify, Prepare, In, Error
<1>8. CASE Reserve \/ Initialise
  BY <1>8 DEF Reserve, Initialise, Empty, In
<1>9. QED
  BY <1>2, <1>3, <1>4, <1>5, <1>6, <1>7, <1>8 DEF ANext

-----------------------------------------------------------------------------
(***************************************************************************)
(* Stages.                                                                 *)
(***************************************************************************)
LEMMA Advances ==
  ASSUME NEW n \in Nat, at \in 1 .. n, Advance(n)
  PROVE  \/ stage' = stage /\ at' = at + 1 /\ at' \in 1 .. n
         \/ stage' = NextStage /\ at' = 1 /\ at = n
BY DEF Advance, Goto

LEMMA Following ==
  /\ path = "direct" =>
       /\ stage = "parse" => NextStage = "globl"
       /\ stage = "globl" => NextStage = "data"
       /\ stage = "data" => NextStage = "emit"
       /\ stage = "emit" => NextStage = "funcs"
       /\ stage = "funcs" => NextStage = "verify"
  /\ path = "text" =>
       /\ stage = "parse" => NextStage = "externs"
       /\ stage = "externs" => NextStage = "globl"
       /\ stage = "globl" => NextStage = "data"
       /\ stage = "data" => NextStage = "emit"
       /\ stage = "emit" => NextStage = "decls"
       /\ stage = "decls" => NextStage = "funcs"
       /\ stage = "funcs" => NextStage = "verify"
  /\ path = "native" =>
       /\ stage = "parse" => NextStage = "prepare"
       /\ stage = "prepare" => NextStage = "reserve"
       /\ stage = "reserve" => NextStage = "initialise"
       /\ stage = "initialise" => NextStage = "funcs"
       /\ stage = "funcs" => NextStage = "verify"
BY DEF NextStage, Stages

LEMMA Lengths ==
  ASSUME file \in AssemblyFiles
  PROVE  /\ Len(file.globl) \in Nat /\ Len(Globls) = Len(file.globl) /\ DOMAIN Globls = 1 .. Len(file.globl)
         /\ Len(file.data) \in Nat /\ Len(Datas) = Len(file.data) /\ DOMAIN Datas = 1 .. Len(file.data)
         /\ Len(file.funcs) \in Nat /\ DOMAIN file.funcs = 1 .. Len(file.funcs)
<1>1. file.globl \in Seq(GloblStatements) /\ file.data \in Seq(DataStatements) /\ file.funcs \in Seq(Functions)
  BY FilesAssumption
<1>2. Globls \in [1 .. Len(file.globl) -> {Globls[i] : i \in 1 .. Len(file.globl)}]
  BY <1>1 DEF Globls
<1>3. Datas \in [1 .. Len(file.data) -> {Datas[i] : i \in 1 .. Len(file.data)}]
  BY <1>1 DEF Datas
<1>4. QED
  BY <1>1, <1>2, <1>3

LEMMA ControlStart == AInit => ControlInv
<1> SUFFICES ASSUME AInit PROVE ControlInv
  OBVIOUS
<1>1. file \in AssemblyFiles /\ file.entry \in {"typed", "native"}
  BY FilesAssumption DEF AInit
<1>2. QED
  BY <1>1 DEF AInit, ControlInv, EmptyModule, NativeStages, TypedStages

LEMMA ControlStep ==
  ASSUME ControlInv, ANext
  PROVE  ControlInv'
<1>1. /\ file' = file /\ result = "run" /\ result' \in {"run", "error", "module"}
      /\ path' = path \/ (path = "direct" /\ path' = "text" /\ stage' = "externs")
      /\ Parses' = Parses
  BY StepsRun, Frame
<1>2. /\ Len(file.globl) \in Nat /\ Len(Globls) = Len(file.globl) /\ DOMAIN Globls = 1 .. Len(file.globl)
      /\ Len(file.data) \in Nat /\ Len(Datas) = Len(file.data) /\ DOMAIN Datas = 1 .. Len(file.data)
      /\ Len(file.funcs) \in Nat /\ DOMAIN file.funcs = 1 .. Len(file.funcs)
  BY Lengths DEF ControlInv
<1>3. /\ file \in AssemblyFiles
      /\ path \in {"direct", "text", "native"} /\ (path = "native" <=> file.entry = "native")
      /\ stage \in IF path = "native" THEN NativeStages ELSE TypedStages(path)
      /\ stage # "parse" => Parses
      /\ stage \in {"globl", "reserve", "initialise"} => Within(Len(file.globl))
      /\ stage = "data" => Within(Len(file.data))
      /\ stage = "funcs" => Within(Len(file.funcs))
      /\ DOMAIN mod = {"globals", "funcs", "decls", "externs", "uses"}
  BY DEF ControlInv
\* A step to the next stage, which starts at its first statement.
<1>4. ASSUME Goto(NextStage), path' = path, stage # "verify", stage = "parse" => Parses
      PROVE  /\ stage' \in IF path = "native" THEN NativeStages ELSE TypedStages(path)
             /\ stage' # "parse" /\ Parses /\ at' = 1
             /\ Within(Len(file.globl))' /\ Within(Len(file.data))' /\ Within(Len(file.funcs))'
  BY <1>1, <1>2, <1>3, <1>4, Following DEF Goto, NativeStages, TypedStages, Within, Larger
<1>5. ASSUME Goto(NextStage), path' = path, stage # "verify", stage = "parse" => Parses, result' = "run", DOMAIN mod' = DOMAIN mod
      PROVE  ControlInv'
  BY <1>1, <1>2, <1>3, <1>4, <1>5 DEF ControlInv
\* A step to the next statement of a stage.
<1>6. ASSUME NEW n \in Nat, at \in 1 .. n, Advance(n), path' = path, stage \notin {"parse", "verify"}, result' = "run", DOMAIN mod' = DOMAIN mod,
             \/ stage \in {"globl", "reserve", "initialise"} /\ n = Len(file.globl)
             \/ stage = "data" /\ n = Len(file.data)
             \/ stage = "funcs" /\ n = Len(file.funcs)
      PROVE  ControlInv'
  <2>1. CASE Goto(NextStage)
    BY <1>5, <1>6, <2>1
  <2>2. CASE ~Goto(NextStage)
    <3>1. stage' = stage /\ at' = at + 1 /\ at' \in 1 .. n
      BY <1>6, <2>2, Advances DEF Goto
    <3>2. QED
      BY <1>1, <1>2, <1>3, <1>6, <3>1 DEF ControlInv, Within, Larger
  <2>3. QED
    BY <2>1, <2>2
\* A step inside a stage, and an error.
<1>7. ASSUME Stay, path' = path, result' = "run", DOMAIN mod' = DOMAIN mod
      PROVE  ControlInv'
  BY <1>1, <1>3, <1>7 DEF ControlInv, Stay, Within, Larger
<1>8. ASSUME Error
      PROVE  ControlInv'
  BY <1>1, <1>3, <1>8 DEF ControlInv, Error, Within, Larger
<1>9. ASSUME Fallback, result = "run", stage = "parse" => Parses
      PROVE  ControlInv'
  BY <1>1, <1>3, <1>9 DEF ControlInv, Fallback, Stages, EmptyModule, TypedStages
<1>10. CASE Parse
  BY <1>1, <1>5, <1>8, <1>9, <1>10 DEF Parse, In
<1>11. CASE DeclareGlobals \/ DeclareFuncs
  <2>1. DOMAIN mod' = DOMAIN mod /\ Goto(NextStage) /\ path' = path /\ stage \in {"externs", "decls"} /\ result' = "run"
    BY <1>11 DEF DeclareGlobals, DeclareFuncs, In
  <2>2. QED
    BY <1>5, <2>1
<1>12. CASE MergeGlobl
  BY <1>1, <1>2, <1>5, <1>6, <1>12 DEF MergeGlobl, Empty, In
<1>13. CASE MergeData
  BY <1>1, <1>2, <1>5, <1>6, <1>8, <1>13 DEF MergeData, Empty, In
<1>14. CASE BeginGlobal \/ CopyPayload
  BY <1>1, <1>7, <1>8, <1>14 DEF BeginGlobal, CopyPayload
<1>15. CASE EndGlobal
  BY <1>1, <1>7, <1>15 DEF EndGlobal
<1>16. CASE EndData
  BY <1>1, <1>5, <1>16 DEF EndData, In
<1>17. ASSUME NEW fn, NEW uses, AddFunction(fn, uses), In("funcs"), at \in DOMAIN file.funcs
       PROVE  ControlInv'
  <2>1. DOMAIN mod' = DOMAIN mod /\ path' = path /\ result' = "run" /\ stage = "funcs"
    BY <1>17 DEF AddFunction, In
  <2>2. QED
    BY <1>2, <1>6, <1>17, <2>1 DEF AddFunction
<1>18. CASE DirectFunc \/ TextFunc \/ NativeFunc
  BY <1>1, <1>8, <1>9, <1>17, <1>18 DEF DirectFunc, TextFunc, NativeFunc, In
<1>19. CASE NoFuncs
  BY <1>1, <1>5, <1>19 DEF NoFuncs, Empty, In
<1>20. CASE Verify
  <2>1. CASE Error
    BY <1>8, <2>1
  <2>2. CASE ~Error
    <3>1. /\ stage = "verify" /\ result' = "module" /\ (path = "text" => WellFormed)
          /\ path' = path /\ stage' = stage /\ at' = at /\ mod' = mod
      BY <1>20, <2>2 DEF Verify, In
    <3>2. WellFormed' = WellFormed
      BY <3>1 DEF WellFormed, Introduced
    <3>3. QED
      BY <1>1, <1>3, <3>1, <3>2 DEF ControlInv, Within, Larger
  <2>3. QED
    BY <2>1, <2>2
<1>21. CASE Prepare
  <2>1. CASE Error
    BY <1>8, <2>1
  <2>2. CASE ~Error
    <3>1. stage = "prepare" /\ Goto("reserve") /\ path' = path /\ mod' = mod /\ result' = "run"
      BY <1>1, <1>21, <2>2 DEF Prepare, In
    <3>2. path = "native"
      BY <1>3, <3>1 DEF TypedStages
    <3>3. QED
      BY <1>5, <3>1, <3>2, Following
  <2>3. QED
    BY <2>1, <2>2
<1>22. CASE Reserve \/ Initialise
  <2>1. \/ Empty("reserve", Len(Globls)) \/ Empty("initialise", Len(Globls))
        \/ /\ stage \in {"reserve", "initialise"} /\ at \in DOMAIN Globls /\ Advance(Len(Globls))
           /\ DOMAIN mod' = DOMAIN mod /\ path' = path /\ result' = "run"
    BY <1>22 DEF Reserve, Initialise, In
  <2>2. QED
    BY <1>1, <1>2, <1>5, <1>6, <2>1 DEF Empty, In
<1>23. QED
  BY <1>10, <1>11, <1>12, <1>13, <1>14, <1>15, <1>16, <1>18, <1>19, <1>20, <1>21, <1>22 DEF ANext

-----------------------------------------------------------------------------
(***************************************************************************)
(* Merging: after each statement a symbol has the size and the payloads    *)
(* that the statements so far give it.                                     *)
(***************************************************************************)
LEMMA SymsKept ==
  ASSUME file' = file, syms' = syms, NEW m, NEW k
  PROVE  SymsAre(m, k)' = SymsAre(m, k)
<1>1. Globls' = Globls /\ Datas' = Datas
  BY DEF Globls, Datas
<1>2. QED
  BY <1>1 DEF SymsAre, Merged, GloblIs, DataIs

\* Nothing is merged yet.
LEMMA SymsEmpty ==
  ASSUME syms = EmptyMap
  PROVE  SymsAre(0, 0)
<1>1. DOMAIN syms = {} /\ 1 .. 0 = {}
  BY DEF EmptyMap
<1>2. QED
  BY <1>1 DEF SymsAre

\* The symbol of a statement, before the statement.
LEMMA SymBefore ==
  ASSUME NEW m \in Nat, NEW k \in Nat, SymsAre(m, k), NEW n
  PROVE  /\ DOMAIN Sym(n) = {"size", "payloads"} /\ Sym(n).size \in Nat
         /\ \A i \in 1 .. m : GloblIs(i, n) => Globls[i].size <= Sym(n).size
         /\ \A i \in 1 .. k : DataIs(i, n) => Datas[i].off + Datas[i].width <= Sym(n).size
         /\ \/ Sym(n).size = 0
            \/ \E i \in 1 .. m : GloblIs(i, n) /\ Globls[i].size = Sym(n).size
            \/ \E i \in 1 .. k : DataIs(i, n) /\ Datas[i].off + Datas[i].width = Sym(n).size
         /\ \A i \in 1 .. k : DataIs(i, n) => Datas[i].off \in DOMAIN Sym(n).payloads
         /\ \A off \in DOMAIN Sym(n).payloads : \E i \in 1 .. k :
              DataIs(i, n) /\ Datas[i].off = off /\ Sym(n).payloads[off] = dataStmtPayload(Datas[i])
<1>1. CASE n \in DOMAIN syms
  BY <1>1 DEF SymsAre, Merged, Sym
<1>2. CASE n \notin DOMAIN syms
  <2>1. /\ \A i \in 1 .. m : ~GloblIs(i, n)
        /\ \A i \in 1 .. k : ~DataIs(i, n)
    BY <1>2 DEF SymsAre
  <2>2. Sym(n) = [size |-> 0, payloads |-> EmptyMap]
    BY <1>2 DEF Sym
  <2>3. DOMAIN Sym(n) = {"size", "payloads"} /\ Sym(n).size = 0 /\ DOMAIN Sym(n).payloads = {}
    BY <2>2 DEF EmptyMap
  <2>4. QED
    BY <2>1, <2>3
<1>3. QED
  BY <1>1, <1>2

LEMMA MergedKept ==
  ASSUME file' = file, NEW x, syms'[x] = syms[x], NEW m, NEW k, Merged(x, m, k)
  PROVE  Merged(x, m, k)'
<1>1. Globls' = Globls /\ Datas' = Datas
  BY DEF Globls, Datas
<1>2. \A i : GloblIs(i, x)' = GloblIs(i, x) /\ DataIs(i, x)' = DataIs(i, x)
  BY <1>1 DEF GloblIs, DataIs
<1>3. QED
  BY <1>1, <1>2 DEF Merged

LEMMA MergeGloblStep ==
  ASSUME file \in AssemblyFiles, Parses, file' = file,
         NEW m \in Nat, m + 1 \in 1 .. Len(file.globl), SymsAre(m, 0),
         syms' = Put(syms, resolveData(Globls[m + 1].sym),
                     [Sym(resolveData(Globls[m + 1].sym)) EXCEPT !.size = Larger(@, Globls[m + 1].size)])
  PROVE  SymsAre(m + 1, 0)'
<1> DEFINE g == Globls[m + 1]
           n == resolveData(g.sym)
           old == Sym(n)
           new == [size |-> Larger(old.size, g.size), payloads |-> old.payloads]
<1>1. g.size \in Nat /\ Globls' = Globls /\ Datas' = Datas /\ GloblIs(m + 1, n)
  BY GloblTypes, Frame DEF GloblIs
<1>2. 1 .. 0 = {} /\ 1 .. m + 1 = (1 .. m) \cup {m + 1} /\ m \in Nat /\ 0 \in Nat
  OBVIOUS
<1>3. /\ DOMAIN old = {"size", "payloads"} /\ old.size \in Nat
      /\ \A i \in 1 .. m : GloblIs(i, n) => Globls[i].size <= old.size
      /\ \/ old.size = 0
         \/ \E i \in 1 .. m : GloblIs(i, n) /\ Globls[i].size = old.size
      /\ DOMAIN old.payloads = {}
  BY <1>2, SymBefore
<1>4. new = [old EXCEPT !.size = Larger(@, g.size)]
  BY <1>3
<1>5. DOMAIN syms' = DOMAIN syms \cup {n} /\ syms'[n] = new /\ \A x \in DOMAIN syms : x # n => syms'[x] = syms[x]
  BY <1>4 DEF Put
<1>6. \A i \in 1 .. m : Globls[i].size \in Nat
  BY GloblTypes
<1>7. /\ new.size \in Nat /\ new.size >= g.size /\ new.size >= old.size /\ (new.size = g.size \/ new.size = old.size)
      /\ DOMAIN new = {"size", "payloads"} /\ DOMAIN new.payloads = {}
  BY <1>1, <1>3 DEF Larger
<1> HIDE DEF new, old, g
<1>8. \A x : x \in DOMAIN syms' <=> \E i \in 1 .. m + 1 : GloblIs(i, x)
  BY <1>1, <1>2, <1>5 DEF SymsAre, GloblIs, g
<1>9. ASSUME NEW x \in DOMAIN syms' PROVE Merged(x, m + 1, 0)'
  <2>1. CASE x = n
    <3>1. \A i \in 1 .. m + 1 : GloblIs(i, n) => Globls[i].size <= new.size
      BY <1>1, <1>2, <1>3, <1>6, <1>7 DEF g
    <3>2. new.size = 0 \/ \E i \in 1 .. m + 1 : GloblIs(i, n) /\ Globls[i].size = new.size
      BY <1>1, <1>2, <1>3, <1>7 DEF g
    <3>3. QED
      BY <1>1, <1>2, <1>5, <1>7, <2>1, <3>1, <3>2 DEF Merged, GloblIs, DataIs
  <2>2. CASE x # n
    <3>1. x \in DOMAIN syms /\ syms'[x] = syms[x] /\ Merged(x, m, 0) /\ ~GloblIs(m + 1, x)
      BY <1>5, <2>2 DEF SymsAre, GloblIs, g
    <3>2. QED
      BY <1>1, <1>2, <3>1 DEF Merged, GloblIs, DataIs
  <2>3. QED
    BY <2>1, <2>2
<1>10. QED
  BY <1>1, <1>2, <1>8, <1>9 DEF SymsAre, GloblIs, DataIs

LEMMA MergeDataStep ==
  ASSUME file \in AssemblyFiles, Parses, file' = file, NEW m \in 0 .. Len(file.globl),
         NEW k \in Nat, k + 1 \in 1 .. Len(file.data), SymsAre(m, k), dataStmtFits(Datas[k + 1]),
         syms' = Put(syms, resolveData(Datas[k + 1].sym),
                     [size |-> Larger(Sym(resolveData(Datas[k + 1].sym)).size, Datas[k + 1].off + Datas[k + 1].width),
                      payloads |-> Put(Sym(resolveData(Datas[k + 1].sym)).payloads, Datas[k + 1].off, dataStmtPayload(Datas[k + 1]))])
  PROVE  SymsAre(m, k + 1)'
<1>0. /\ m \in Nat /\ (\A i \in 1 .. m : i \in 1 .. Len(file.globl)) /\ (\A i \in 1 .. k : i \in 1 .. Len(file.data))
      /\ \A i \in 1 .. Len(file.globl) : Globls[i].size \in Nat
      /\ \A i \in 1 .. Len(file.data) : Datas[i].off \in Int /\ Datas[i].width \in Nat
  BY GloblTypes, DataTypes
<1> DEFINE d == Datas[k + 1]
           n == resolveData(d.sym)
           old == Sym(n)
           p == dataStmtPayload(d)
           new == [size |-> Larger(old.size, d.off + d.width), payloads |-> Put(old.payloads, d.off, p)]
<1>1. d.off \in Nat /\ d.width \in Nat /\ Globls' = Globls /\ Datas' = Datas /\ DataIs(k + 1, n)
  BY DataTypes, Frame DEF DataIs, dataStmtFits
<1>2. 1 .. k + 1 = (1 .. k) \cup {k + 1}
  OBVIOUS
<1>3. /\ old.size \in Nat
      /\ \A i \in 1 .. m : GloblIs(i, n) => Globls[i].size <= old.size
      /\ \A i \in 1 .. k : DataIs(i, n) => Datas[i].off + Datas[i].width <= old.size
      /\ \/ old.size = 0
         \/ \E i \in 1 .. m : GloblIs(i, n) /\ Globls[i].size = old.size
         \/ \E i \in 1 .. k : DataIs(i, n) /\ Datas[i].off + Datas[i].width = old.size
      /\ \A i \in 1 .. k : DataIs(i, n) => Datas[i].off \in DOMAIN old.payloads
      /\ \A off \in DOMAIN old.payloads : \E i \in 1 .. k :
           DataIs(i, n) /\ Datas[i].off = off /\ old.payloads[off] = dataStmtPayload(Datas[i])
  <2>1. m \in Nat /\ k \in Nat /\ SymsAre(m, k)
    BY <1>0
  <2> HIDE DEF n
  <2>2. QED
    BY <2>1, SymBefore
<1>4. /\ old.size \in Nat
      /\ \A i \in 1 .. m : Globls[i].size \in Nat
      /\ \A i \in 1 .. k : Datas[i].off \in Int /\ Datas[i].width \in Nat
  BY <1>0, <1>3
<1>5. DOMAIN syms' = DOMAIN syms \cup {n} /\ syms'[n] = new /\ \A x \in DOMAIN syms : x # n => syms'[x] = syms[x]
  BY DEF Put
<1>7. /\ new.size \in Nat /\ new.size >= d.off + d.width /\ new.size >= old.size /\ (new.size = d.off + d.width \/ new.size = old.size)
      /\ DOMAIN new = {"size", "payloads"}
  <2>1. new.size = Larger(old.size, d.off + d.width) /\ DOMAIN new = {"size", "payloads"}
    OBVIOUS
  <2>2. old.size \in Nat /\ d.off + d.width \in Nat
    BY <1>1, <1>4
  <2> HIDE DEF new, old, d
  <2>3. QED
    BY <2>1, <2>2 DEF Larger
<1>8. /\ DOMAIN new.payloads = DOMAIN old.payloads \cup {d.off} /\ new.payloads[d.off] = p
      /\ \A off \in DOMAIN old.payloads : off # d.off => new.payloads[off] = old.payloads[off]
  BY DEF Put
<1> HIDE DEF new, old, d, p
<1>9. \A x : x \in DOMAIN syms' <=> ((\E i \in 1 .. m : GloblIs(i, x)) \/ (\E i \in 1 .. k + 1 : DataIs(i, x)))
  BY <1>1, <1>2, <1>5 DEF SymsAre, DataIs, d
<1>10. ASSUME NEW x \in DOMAIN syms' PROVE Merged(x, m, k + 1)'
  <2>1. CASE x = n
    <3>1. \A i \in 1 .. m : GloblIs(i, n) => Globls[i].size <= new.size
      BY <1>3, <1>4, <1>7
    <3>2. \A i \in 1 .. k + 1 : DataIs(i, n) => Datas[i].off + Datas[i].width <= new.size
      <4>1. SUFFICES ASSUME NEW i \in 1 .. k + 1, DataIs(i, n) PROVE Datas[i].off + Datas[i].width <= new.size
        OBVIOUS
      <4>2. CASE i = k + 1
        BY <1>7, <4>2 DEF d
      <4>3. CASE i \in 1 .. k
        <5>1. Datas[i].off + Datas[i].width <= old.size
          BY <1>3, <4>1, <4>3
        <5>2. Datas[i].off \in Int /\ Datas[i].width \in Nat /\ old.size \in Nat
          BY <1>4, <4>3
        <5>3. QED
          BY <1>7, <5>1, <5>2
      <4>4. QED
        BY <1>2, <4>2, <4>3
    <3>3. \/ new.size = 0
          \/ \E i \in 1 .. m : GloblIs(i, n) /\ Globls[i].size = new.size
          \/ \E i \in 1 .. k + 1 : DataIs(i, n) /\ Datas[i].off + Datas[i].width = new.size
      BY <1>1, <1>2, <1>3, <1>7 DEF d
    <3>4. \A i \in 1 .. k + 1 : DataIs(i, n) => Datas[i].off \in DOMAIN new.payloads
      BY <1>2, <1>3, <1>8 DEF d
    <3>5. \A off \in DOMAIN new.payloads : \E i \in 1 .. k + 1 :
            DataIs(i, n) /\ Datas[i].off = off /\ new.payloads[off] = dataStmtPayload(Datas[i])
      <4>1. SUFFICES ASSUME NEW off \in DOMAIN new.payloads
                     PROVE  \E i \in 1 .. k + 1 : DataIs(i, n) /\ Datas[i].off = off /\ new.payloads[off] = dataStmtPayload(Datas[i])
        OBVIOUS
      <4>2. CASE off = d.off
        BY <1>1, <1>2, <1>8, <4>2 DEF d, p
      <4>3. CASE off # d.off
        <5>1. off \in DOMAIN old.payloads /\ new.payloads[off] = old.payloads[off]
          BY <1>8, <4>3
        <5>2. PICK i \in 1 .. k : DataIs(i, n) /\ Datas[i].off = off /\ old.payloads[off] = dataStmtPayload(Datas[i])
          BY <1>3, <5>1
        <5>3. QED
          BY <1>2, <5>1, <5>2
      <4>4. QED
        BY <4>2, <4>3
    <3>6. QED
      BY <1>1, <1>5, <1>7, <2>1, <3>1, <3>2, <3>3, <3>4, <3>5 DEF Merged, GloblIs, DataIs
  <2>2. CASE x # n
    <3>1. x \in DOMAIN syms /\ syms'[x] = syms[x] /\ Merged(x, m, k) /\ ~DataIs(k + 1, x)
      BY <1>5, <2>2 DEF SymsAre, DataIs, d
    <3>2. /\ \A i \in 1 .. k + 1 : DataIs(i, x) => i \in 1 .. k
          /\ \A i \in 1 .. k : i \in 1 .. k + 1
      BY <1>2, <3>1
    <3>3. Merged(x, m, k + 1)
      BY <3>1, <3>2 DEF Merged
    <3>4. QED
      BY <3>1, <3>3, MergedKept
  <2>3. QED
    BY <2>1, <2>2
<1>11. \A i \in 1 .. k + 1 : dataStmtFits(Datas[i])
  BY <1>2 DEF SymsAre
<1>12. QED
  BY <1>1, <1>9, <1>10, <1>11 DEF SymsAre, GloblIs, DataIs

LEMMA SymsStart == AInit => SymsInv
<1> SUFFICES ASSUME AInit PROVE SymsInv
  OBVIOUS
<1>1. GloblsMerged = 0 /\ DatasMerged = 0 /\ syms = EmptyMap
  BY DEF AInit, GloblsMerged, DatasMerged
<1>2. QED
  BY <1>1, SymsEmpty DEF SymsInv

LEMMA SymsStep ==
  ASSUME ControlInv, SymsInv, ANext
  PROVE  SymsInv'
<1>1. /\ file' = file /\ result = "run"
      /\ path' = path \/ (path = "direct" /\ path' = "text" /\ stage' = "externs")
      /\ file \in AssemblyFiles /\ path \in {"direct", "text", "native"} /\ (stage # "parse" => Parses)
      /\ stage \in IF path = "native" THEN NativeStages ELSE TypedStages(path)
  BY StepsRun DEF ControlInv
<1> SUFFICES ASSUME path # "native", path' # "native"
             PROVE  SymsInv'
  BY <1>1 DEF SymsInv
<1>2. /\ Len(file.globl) \in Nat /\ Len(Globls) = Len(file.globl) /\ DOMAIN Globls = 1 .. Len(file.globl)
      /\ Len(file.data) \in Nat /\ Len(Datas) = Len(file.data) /\ DOMAIN Datas = 1 .. Len(file.data)
      /\ Len(file.funcs) \in Nat /\ DOMAIN file.funcs = 1 .. Len(file.funcs)
  BY <1>1, Lengths
<1>3. /\ stage = "globl" => at \in 1 .. Larger(1, Len(file.globl))
      /\ stage = "data" => at \in 1 .. Larger(1, Len(file.data))
  BY DEF ControlInv, Within
<1>4. ASSUME syms' = syms, GloblsMerged' = GloblsMerged, DatasMerged' = DatasMerged
      PROVE  SymsInv'
  <2>1. SUFFICES ASSUME NEW m, NEW k, m = GloblsMerged', k = DatasMerged'
                 PROVE  SymsAre(m, k)'
    BY DEF SymsInv
  <2>2. SymsAre(m, k)
    BY <1>4, <2>1 DEF SymsInv
  <2>3. QED
    BY <1>1, <1>4, <2>2, SymsKept
\* Steps that leave the symbols alone.
<1>5. ASSUME syms' = syms, stage' = stage, at' = at
      PROVE  SymsInv'
  BY <1>1, <1>4, <1>5 DEF GloblsMerged, DatasMerged
<1>6. ASSUME syms' = syms, path' = path, Goto(NextStage),
             stage \notin {"globl", "data", "verify"} \/ (stage = "globl" /\ Len(file.globl) = 0) \/ (stage = "data" /\ Len(file.data) = 0)
      PROVE  SymsInv'
  <2>1. at' = 1 /\ stage' = NextStage
    BY <1>6 DEF Goto
  <2>2. stage \in {"globl", "data"} => at = 1
    BY <1>3, <1>6 DEF Larger
  <2>3. GloblsMerged' = GloblsMerged /\ DatasMerged' = DatasMerged
    BY <1>1, <1>6, <2>1, <2>2, Following DEF GloblsMerged, DatasMerged, TypedStages
  <2>4. QED
    BY <1>4, <1>6, <2>3
<1>7. ASSUME Error
      PROVE  SymsInv'
  BY <1>5, <1>7 DEF Error
<1>8. ASSUME Fallback
      PROVE  SymsInv'
  <2>1. stage' = "externs" /\ syms' = EmptyMap
    BY <1>8 DEF Fallback, Stages
  <2>2. (GloblsMerged = 0)' /\ (DatasMerged = 0)'
    BY <2>1 DEF GloblsMerged, DatasMerged
  <2>3. SymsAre(0, 0)'
    <3>1. DOMAIN syms' = {} /\ 1 .. 0 = {}
      BY <2>1 DEF EmptyMap
    <3>2. QED
      BY <3>1 DEF SymsAre
  <2>4. QED
    BY <2>2, <2>3 DEF SymsInv
<1>9. CASE Parse
  BY <1>6, <1>7, <1>8, <1>9 DEF Parse, In
<1>10. CASE DeclareGlobals \/ DeclareFuncs
  BY <1>6, <1>10 DEF DeclareGlobals, DeclareFuncs, In
<1>11. CASE MergeGlobl
  <2>1. CASE Empty("globl", Len(Globls))
    BY <1>2, <1>6, <2>1 DEF Empty, In
  <2>2. CASE ~Empty("globl", Len(Globls))
    <3> DEFINE m == at - 1
    <3>1. /\ stage = "globl" /\ at \in 1 .. Len(file.globl) /\ path' = path /\ Advance(Len(file.globl))
          /\ syms' = Put(syms, resolveData(Globls[at].sym),
                         [Sym(resolveData(Globls[at].sym)) EXCEPT !.size = Larger(@, Globls[at].size)])
      BY <1>2, <1>11, <2>2 DEF MergeGlobl, In
    <3>2. m \in Nat /\ m + 1 = at /\ GloblsMerged = m /\ DatasMerged = 0
      BY <3>1 DEF GloblsMerged, DatasMerged
    <3>3. (stage' = "globl" /\ at' = at + 1) \/ (stage' = "data" /\ at' = 1 /\ at = Len(file.globl))
      BY <1>1, <1>2, <3>1, Advances, Following
    <3>4. GloblsMerged' = m + 1 /\ DatasMerged' = 0
      BY <1>1, <3>1, <3>2, <3>3 DEF GloblsMerged, DatasMerged
    <3>5. SymsAre(m, 0)
      <4>1. \A n, k : n = m /\ k = 0 => SymsAre(n, k)
        BY <3>2 DEF SymsInv
      <4>2. QED
        BY <4>1
    <3> HIDE DEF m
    <3>6. ASSUME NEW n \in Nat, n = m PROVE SymsAre(n + 1, 0)'
      <4>1. n + 1 \in 1 .. Len(file.globl) /\ SymsAre(n, 0)
        BY <3>1, <3>2, <3>5, <3>6
      <4>2. syms' = Put(syms, resolveData(Globls[n + 1].sym),
                        [Sym(resolveData(Globls[n + 1].sym)) EXCEPT !.size = Larger(@, Globls[n + 1].size)])
        BY <3>1, <3>2, <3>6
      <4>3. QED
        BY <1>1, <3>1, <4>1, <4>2, MergeGloblStep
    <3>7. SUFFICES ASSUME NEW n, NEW k, n = GloblsMerged', k = DatasMerged' PROVE SymsAre(n, k)'
      BY DEF SymsInv
    <3>8. n - 1 \in Nat /\ n - 1 = m /\ (n - 1) + 1 = n /\ k = 0
      BY <3>2, <3>4, <3>7
    <3>9. QED
      BY <3>6, <3>8
  <2>3. QED
    BY <2>1, <2>2
<1>12. CASE MergeData
  <2>1. CASE Empty("data", Len(Datas))
    BY <1>2, <1>6, <2>1 DEF Empty, In
  <2>2. CASE Error
    BY <1>7, <2>2
  <2>3. CASE ~Empty("data", Len(Datas)) /\ ~Error
    <3> DEFINE k == at - 1
    <3>1. /\ stage = "data" /\ at \in 1 .. Len(file.data) /\ path' = path /\ Advance(Len(file.data)) /\ dataStmtFits(Datas[at])
          /\ syms' = Put(syms, resolveData(Datas[at].sym),
                         [size |-> Larger(Sym(resolveData(Datas[at].sym)).size, Datas[at].off + Datas[at].width),
                          payloads |-> Put(Sym(resolveData(Datas[at].sym)).payloads, Datas[at].off, dataStmtPayload(Datas[at]))])
      BY <1>2, <1>12, <2>3 DEF MergeData, In
    <3>2. k \in Nat /\ k + 1 = at /\ GloblsMerged = Len(file.globl) /\ DatasMerged = k
      BY <3>1 DEF GloblsMerged, DatasMerged
    <3>3. (stage' = "data" /\ at' = at + 1) \/ (stage' = "emit" /\ at' = 1 /\ at = Len(file.data))
      BY <1>1, <1>2, <3>1, Advances, Following
    <3>4. GloblsMerged' = Len(file.globl) /\ DatasMerged' = k + 1
      BY <1>1, <3>1, <3>2, <3>3 DEF GloblsMerged, DatasMerged
    <3> HIDE DEF k
    <3>5. ASSUME NEW m, NEW n \in Nat, m = Len(file.globl), n = k PROVE SymsAre(m, n + 1)'
      <4>1. SymsAre(m, n)
        BY <3>2, <3>5 DEF SymsInv
      <4>2. n + 1 \in 1 .. Len(file.data) /\ m \in 0 .. Len(file.globl) /\ dataStmtFits(Datas[n + 1])
        BY <1>2, <3>1, <3>2, <3>5
      <4>3. syms' = Put(syms, resolveData(Datas[n + 1].sym),
                        [size |-> Larger(Sym(resolveData(Datas[n + 1].sym)).size, Datas[n + 1].off + Datas[n + 1].width),
                         payloads |-> Put(Sym(resolveData(Datas[n + 1].sym)).payloads, Datas[n + 1].off, dataStmtPayload(Datas[n + 1]))])
        BY <3>1, <3>2, <3>5
      <4>4. QED
        BY <1>1, <3>1, <4>1, <4>2, <4>3, MergeDataStep
    <3>6. SUFFICES ASSUME NEW m, NEW n, m = GloblsMerged', n = DatasMerged' PROVE SymsAre(m, n)'
      BY DEF SymsInv
    <3>7. n - 1 \in Nat /\ n - 1 = k /\ (n - 1) + 1 = n /\ m = Len(file.globl)
      BY <3>2, <3>4, <3>6
    <3>8. QED
      BY <3>5, <3>7
  <2>4. QED
    BY <2>1, <2>2, <2>3
<1>14. CASE BeginGlobal \/ CopyPayload
  BY <1>5, <1>7, <1>14 DEF BeginGlobal, CopyPayload, Stay
<1>15. CASE EndGlobal
  BY <1>5, <1>15 DEF EndGlobal, Stay
<1>16. CASE EndData
  BY <1>6, <1>16 DEF EndData, In
<1>17. ASSUME NEW fn, NEW uses, AddFunction(fn, uses), In("funcs"), at \in DOMAIN file.funcs
       PROVE  SymsInv'
  <2>1. path' = path /\ stage = "funcs" /\ syms' = syms /\ Advance(Len(file.funcs))
    BY <1>17 DEF AddFunction, In
  <2>2. stage' \in {"funcs", "verify"}
    BY <1>1, <1>2, <1>17, <2>1, Advances, Following
  <2>3. QED
    BY <1>1, <1>4, <2>1, <2>2 DEF GloblsMerged, DatasMerged
<1>18. CASE DirectFunc \/ TextFunc \/ NativeFunc
  BY <1>7, <1>8, <1>17, <1>18 DEF DirectFunc, TextFunc, NativeFunc, In
<1>19. CASE NoFuncs
  BY <1>6, <1>19 DEF NoFuncs, Empty, In
<1>20. CASE Verify
  BY <1>5, <1>7, <1>20 DEF Verify
<1>21. CASE Prepare \/ Reserve \/ Initialise
  BY <1>1, <1>21 DEF Prepare, Reserve, Initialise, Empty, In, TypedStages
<1>22. QED
  BY <1>9, <1>10, <1>11, <1>12, <1>14, <1>15, <1>16, <1>18, <1>19, <1>20, <1>21 DEF ANext

-----------------------------------------------------------------------------
(***************************************************************************)
(* Emission: whatever the order of symbols and payloads.                   *)
(***************************************************************************)

\* A payload more.
LEMMA FilledMore ==
  ASSUME NEW n, NEW cells, NEW done, Filled(n, cells, done), NEW off
  PROVE  Filled(n, [k \in DOMAIN cells |-> IF k - off \in DOMAIN syms[n].payloads[off] THEN syms[n].payloads[off][k - off] ELSE cells[k]],
                done \cup {off})
<1> DEFINE p == syms[n].payloads
           new == [k \in DOMAIN cells |-> IF k - off \in DOMAIN p[off] THEN p[off][k - off] ELSE cells[k]]
<1>1. DOMAIN new = DOMAIN cells /\ IsFunction(new)
  BY DEF IsFunction
<1>2. ASSUME NEW k \in DOMAIN cells
      PROVE  \/ new[k] = Plain(0) /\ \A o \in done \cup {off} : k - o \notin DOMAIN p[o]
             \/ \E o \in done \cup {off} : k - o \in DOMAIN p[o] /\ new[k] = p[o][k - o]
  <2>1. CASE k - off \in DOMAIN p[off]
    BY <2>1
  <2>2. CASE k - off \notin DOMAIN p[off]
    <3>1. new[k] = cells[k]
      BY <2>2
    <3>2. \/ cells[k] = Plain(0) /\ \A o \in done : k - o \notin DOMAIN p[o]
          \/ \E o \in done : k - o \in DOMAIN p[o] /\ cells[k] = p[o][k - o]
      BY DEF Filled
    <3> HIDE DEF new
    <3>3. QED
      BY <2>2, <3>1, <3>2
  <2>3. QED
    BY <2>1, <2>2
<1> HIDE DEF new
<1>3. Filled(n, new, done \cup {off})
  BY <1>1, <1>2 DEF Filled
<1>4. QED
  BY <1>3 DEF new

LEMMA EmitStart == AInit => EmitInv
BY DEF AInit, EmitInv, GlobalsDone, EmptyModule, EmptyMap

LEMMA EmitStep ==
  ASSUME ControlInv, SymsInv, EmitInv, ANext
  PROVE  EmitInv'
<1>1. /\ file' = file /\ result = "run"
      /\ path' = path \/ (path = "direct" /\ path' = "text" /\ stage' = "externs")
      /\ path \in {"direct", "text", "native"}
      /\ stage \in IF path = "native" THEN NativeStages ELSE TypedStages(path)
      /\ DOMAIN mod = {"globals", "funcs", "decls", "externs", "uses"}
  BY StepsRun DEF ControlInv
<1> SUFFICES ASSUME path # "native", path' # "native"
             PROVE  EmitInv'
  BY <1>1 DEF EmitInv
<1>2. /\ cur = <<>> \/ (cur = <<cur[1]>> /\ Filling(cur[1]))
      /\ stage \in {"parse", "externs", "globl", "data"} => DOMAIN mod.globals = {}
      /\ stage \in {"decls", "funcs", "verify"} => Pending = {}
      /\ GlobalsDone
  BY DEF EmitInv
<1>3. stage # "emit" => cur = <<>>
  BY <1>2 DEF Filling
\* Symbols and globals as they are.
<1>4. ASSUME syms' = syms, mod'.globals = mod.globals
      PROVE  /\ Pending' = Pending
             /\ GlobalsDone'
  <2>1. Pending' = Pending
    BY <1>4 DEF Pending
  <2>2. GlobalsDone'
    BY <1>2, <1>4 DEF GlobalsDone, Filled
  <2>3. QED
    BY <2>1, <2>2
\* A global that is being filled.
<1>24. ASSUME NEW c, syms' = syms, mod'.globals = mod.globals, stage' = stage, Filling(c)
       PROVE  Filling(c)'
  BY <1>4, <1>24 DEF Filling, Filled
<1>5. ASSUME syms' = syms, mod'.globals = mod.globals, cur' = cur, stage # "emit",
             \/ stage' \in {"externs", "globl", "data", "emit"} /\ stage \in {"parse", "externs", "globl", "data"}
             \/ stage' \in {"funcs", "verify"} /\ stage \in {"decls", "funcs", "verify"}
      PROVE  EmitInv'
  BY <1>2, <1>3, <1>4, <1>5 DEF EmitInv
<1>6. ASSUME Error
      PROVE  EmitInv'
  <2>1. stage' = stage /\ cur' = cur /\ syms' = syms /\ mod' = mod
    BY <1>6 DEF Error
  <2>2. ASSUME cur = <<cur[1]>>, Filling(cur[1]) PROVE Filling(cur[1])'
    BY <1>24, <2>1, <2>2
  <2>3. QED
    BY <1>2, <1>4, <2>1, <2>2 DEF EmitInv
<1>7. ASSUME Fallback
      PROVE  EmitInv'
  BY <1>7 DEF Fallback, Stages, EmitInv, GlobalsDone, EmptyModule, EmptyMap
\* While statements are merged nothing is emitted.
<1>8. ASSUME mod'.globals = mod.globals, cur' = cur, stage \in {"globl", "data"}, stage' \in {"globl", "data", "emit"}
      PROVE  EmitInv'
  <2>1. cur' = <<>> /\ DOMAIN mod'.globals = {}
    BY <1>2, <1>3, <1>8
  <2>2. QED
    BY <1>8, <2>1 DEF EmitInv, GlobalsDone
<1>9. CASE Parse
  <2>1. CASE Goto(NextStage) /\ mod' = mod /\ cur' = cur /\ syms' = syms /\ path' = path /\ stage = "parse"
    BY <1>1, <1>5, <2>1, Following DEF Goto
  <2>2. QED
    BY <1>6, <1>7, <1>9, <2>1 DEF Parse, In
<1>10. CASE DeclareGlobals
  <2>1. stage = "externs" /\ Goto(NextStage) /\ path' = path /\ syms' = syms /\ cur' = cur /\ mod'.globals = mod.globals
    BY <1>1, <1>10 DEF DeclareGlobals, In
  <2>2. path = "text"
    BY <1>1, <2>1 DEF TypedStages
  <2>3. QED
    BY <1>5, <2>1, <2>2, Following DEF Goto
<1>11. CASE DeclareFuncs
  <2>1. stage = "decls" /\ Goto(NextStage) /\ path' = path /\ syms' = syms /\ cur' = cur /\ mod'.globals = mod.globals
    BY <1>1, <1>11 DEF DeclareFuncs, In
  <2>2. path = "text"
    BY <1>1, <2>1 DEF TypedStages
  <2>3. QED
    BY <1>5, <2>1, <2>2, Following DEF Goto
<1>12. CASE MergeGlobl \/ MergeData
  <2>1. CASE Error
    BY <1>6, <2>1
  <2>2. CASE ~Error
    <3>1. /\ mod' = mod /\ cur' = cur /\ stage \in {"globl", "data"} /\ path' = path
          /\ stage' = stage \/ stage' = NextStage
      BY <1>12, <2>2 DEF MergeGlobl, MergeData, Empty, In, Advance, Goto
    <3>2. stage' \in {"globl", "data", "emit"}
      BY <1>1, <3>1, Following
    <3>3. QED
      BY <1>8, <3>1, <3>2
  <2>3. QED
    BY <2>1, <2>2
<1>13. CASE BeginGlobal
  <2>1. CASE Error
    BY <1>6, <2>1
  <2>2. CASE ~Error
    <3>1. PICK n \in Pending :
            /\ cur' = <<[name |-> n, buf |-> [k \in 0 .. syms[n].size - 1 |-> Plain(0)], todo |-> DOMAIN syms[n].payloads]>>
            /\ stage' = stage /\ syms' = syms /\ mod' = mod
      BY <1>13, <2>2 DEF BeginGlobal, Stay
    <3>2. stage = "emit"
      BY <1>13 DEF BeginGlobal, In
    <3> DEFINE c == [name |-> n, buf |-> [k \in 0 .. syms[n].size - 1 |-> Plain(0)], todo |-> DOMAIN syms[n].payloads]
    <3>3. Filled(n, c.buf, {})
      BY DEF Filled, IsFunction
    <3>4. c.todo = DOMAIN syms[n].payloads /\ c.name = n /\ DOMAIN c = {"name", "buf", "todo"}
      OBVIOUS
    <3>5. cur' = <<c>> /\ cur'[1] = c
      BY <3>1
    <3> HIDE DEF c
    <3>6. DOMAIN syms[n].payloads \ c.todo = {}
      BY <3>4
    <3>7. Filling(c)
      BY <3>2, <3>3, <3>4, <3>6 DEF Filling
    <3>8. ASSUME NEW e, e = c PROVE EmitInv'
      <4>1. Filling(e)'
        BY <1>24, <3>1, <3>7, <3>8
      <4>2. cur' = <<e>> /\ cur'[1] = e
        BY <3>5, <3>8
      <4>3. Filling(cur[1])'
        BY <4>1, <4>2 DEF Filling, Filled
      <4>4. QED
        BY <1>4, <3>1, <3>2, <4>2, <4>3 DEF EmitInv
    <3>9. QED
      BY <3>8
  <2>3. QED
    BY <2>1, <2>2
<1>14. CASE CopyPayload
  <2>1. CASE Error
    BY <1>6, <2>1
  <2>2. CASE ~Error
    <3> DEFINE c == cur[1]
               buf == c.buf
               p == syms[c.name].payloads
    <3>1. stage = "emit" /\ cur # <<>> /\ cur = <<c>> /\ Filling(c)
      BY <1>2, <1>14 DEF CopyPayload, In
    <3>2. PICK off \in c.todo :
            /\ cur' = <<[c EXCEPT !.todo = @ \ {off},
                           !.buf = [k \in DOMAIN buf |-> IF k - off \in DOMAIN p[off] THEN p[off][k - off] ELSE buf[k]]]>>
            /\ stage' = stage /\ syms' = syms /\ mod' = mod
      BY <1>14, <2>2 DEF CopyPayload, Stay
    <3> DEFINE nb == [k \in DOMAIN buf |-> IF k - off \in DOMAIN p[off] THEN p[off][k - off] ELSE buf[k]]
               d == [c EXCEPT !.todo = @ \ {off}, !.buf = nb]
    <3>3. DOMAIN c = {"name", "buf", "todo"} /\ c.name \in Pending /\ c.todo \subseteq DOMAIN p /\ Filled(c.name, buf, DOMAIN p \ c.todo)
      BY <3>1 DEF Filling
    <3>4. cur' = <<d>> /\ cur'[1] = d
      BY <3>2
    <3>5. DOMAIN d = {"name", "buf", "todo"} /\ d.name = c.name /\ d.todo = c.todo \ {off} /\ d.buf = nb
      BY <3>3
    <3>6. Filled(c.name, nb, (DOMAIN p \ c.todo) \cup {off})
      BY <3>3, FilledMore
    <3>7. (DOMAIN p \ c.todo) \cup {off} = DOMAIN p \ d.todo
      BY <3>3, <3>5
    <3> HIDE DEF d, nb
    <3>8. Filling(d)
      BY <3>1, <3>3, <3>5, <3>6, <3>7 DEF Filling
    <3>9. ASSUME NEW e, e = d PROVE EmitInv'
      <4>1. Filling(e)'
        BY <1>24, <3>2, <3>8, <3>9
      <4>2. cur' = <<e>> /\ cur'[1] = e
        BY <3>4, <3>9
      <4>3. Filling(cur[1])'
        BY <4>1, <4>2 DEF Filling, Filled
      <4>4. QED
        BY <1>4, <3>1, <3>2, <4>2, <4>3 DEF EmitInv
    <3>10. QED
      BY <3>9
  <2>3. QED
    BY <2>1, <2>2
<1>15. CASE EndGlobal
  <2> DEFINE c == cur[1]
             g == [cells |-> c.buf, const |-> TRUE, align |-> bestAlign(Cardinality(DOMAIN c.buf))]
  <2>1. stage = "emit" /\ cur # <<>> /\ Filling(c) /\ c.todo = {}
    BY <1>2, <1>15 DEF EndGlobal, In
  <2>2. stage' = stage /\ syms' = syms /\ cur' = <<>> /\ mod'.globals = Put(mod.globals, c.name, g)
    BY <1>1, <1>15 DEF EndGlobal, Stay
  <2>3. c.name \in Pending /\ Filled(c.name, c.buf, DOMAIN syms[c.name].payloads)
    <3>1. DOMAIN syms[c.name].payloads \ c.todo = DOMAIN syms[c.name].payloads
      BY <2>1
    <3>2. QED
      BY <2>1, <3>1 DEF Filling
  <2>4. DOMAIN mod'.globals = DOMAIN mod.globals \cup {c.name} /\ mod'.globals[c.name] = g
        /\ \A n \in DOMAIN mod.globals : n # c.name => mod'.globals[n] = mod.globals[n]
    BY <2>2 DEF Put
  <2>5. g.cells = c.buf
    OBVIOUS
  <2> HIDE DEF g, c
  <2>6. GlobalsDone'
    <3>1. SUFFICES ASSUME NEW n \in DOMAIN mod'.globals
                   PROVE  n \in DOMAIN syms' /\ syms'[n].size > 0 /\ Filled(n, mod.globals[n].cells, DOMAIN syms[n].payloads)'
      BY DEF GlobalsDone
    <3>2. ASSUME NEW cells, cells = mod'.globals[n].cells
          PROVE  n \in DOMAIN syms /\ syms[n].size > 0 /\ Filled(n, cells, DOMAIN syms[n].payloads)
      BY <1>2, <2>3, <2>4, <2>5, <3>2 DEF Pending, GlobalsDone
    <3>3. QED
      BY <2>2, <3>2 DEF Filled
  <2>7. QED
    BY <2>1, <2>2, <2>6 DEF EmitInv
<1>16. CASE EndData
  <2>1. stage = "emit" /\ cur = <<>> /\ Pending = {} /\ Goto(NextStage) /\ path' = path /\ syms' = syms /\ cur' = cur /\ mod' = mod
    BY <1>16 DEF EndData, In
  <2>2. stage' \in {"decls", "funcs"}
    BY <1>1, <2>1, Following DEF Goto
  <2>3. QED
    BY <1>4, <2>1, <2>2 DEF EmitInv
<1>17. ASSUME stage = "funcs", path' = path, syms' = syms, cur' = cur, mod'.globals = mod.globals, stage' \in {stage, NextStage}
       PROVE  EmitInv'
  BY <1>1, <1>5, <1>17, Following
<1>18. ASSUME NEW fn, NEW uses, AddFunction(fn, uses), In("funcs")
       PROVE  EmitInv'
  BY <1>1, <1>17, <1>18 DEF AddFunction, In, Advance, Goto
<1>19. CASE DirectFunc \/ TextFunc \/ NativeFunc
  BY <1>6, <1>7, <1>18, <1>19 DEF DirectFunc, TextFunc, NativeFunc
<1>20. CASE NoFuncs
  BY <1>17, <1>20 DEF NoFuncs, Empty, In, Goto
<1>21. CASE Verify
  <2>1. CASE Error
    BY <1>6, <2>1
  <2>2. CASE ~Error
    BY <1>5, <1>21, <2>2 DEF Verify, In
  <2>3. QED
    BY <2>1, <2>2
<1>22. CASE Prepare \/ Reserve \/ Initialise
  BY <1>1, <1>22 DEF Prepare, Reserve, Initialise, Empty, In, TypedStages
<1>23. QED
  BY <1>9, <1>10, <1>11, <1>12, <1>13, <1>14, <1>15, <1>16, <1>19, <1>20, <1>21, <1>22 DEF ANext

-----------------------------------------------------------------------------
(***************************************************************************)
(* Functions and the names of a module.                                    *)
(***************************************************************************)
LEMMA FuncTypes ==
  ASSUME file \in AssemblyFiles
  PROVE  /\ \A i \in DOMAIN file.funcs :
              /\ file.funcs[i].sym \in Symbols
              /\ \A u \in file.funcs[i].uses : u.how \in {"call", "tail", "addr", "mem"} /\ u.sym \in Symbols
<1> SUFFICES ASSUME NEW i \in DOMAIN file.funcs
             PROVE  /\ file.funcs[i].sym \in Symbols
                    /\ \A u \in file.funcs[i].uses : u.how \in {"call", "tail", "addr", "mem"} /\ u.sym \in Symbols
  OBVIOUS
<1>1. file.funcs[i] \in Functions
  BY FilesAssumption
<1>2. file.funcs[i].sym \in Symbols /\ file.funcs[i].uses \in SUBSET [how : {"call", "tail", "addr", "mem"}, sym : Symbols]
  BY <1>1 DEF Functions
<1>3. QED
  BY <1>2

LEMMA FuncsStart == AInit => FuncsInv
<1> SUFFICES ASSUME AInit PROVE FuncsInv
  OBVIOUS
<1>1. FuncsAdded = 0 /\ mod.funcs = <<>> /\ mod.uses = {} /\ stage = "parse"
  BY DEF AInit, FuncsAdded, EmptyModule
<1>2. FuncsAre(0)
  BY <1>1 DEF FuncsAre
<1>3. QED
  BY <1>1, <1>2 DEF FuncsInv

LEMMA FuncsKept ==
  ASSUME file' = file, mod'.funcs = mod.funcs, mod'.uses = mod.uses, NEW n, FuncsAre(n)
  PROVE  FuncsAre(n)'
<1>1. /\ \A x : SigFits(x)' = SigFits(x)
      /\ \A u : Emitted(u)' = Emitted(u)
      /\ \A fn : Lowers(fn)' = Lowers(fn)
  BY Frame
<1>2. FuncNames' = FuncNames
  BY DEF FuncNames, resolve
<1>3. QED
  BY <1>1, <1>2 DEF FuncsAre

LEMMA AddStep ==
  ASSUME file \in AssemblyFiles, file' = file, DOMAIN mod = {"globals", "funcs", "decls", "externs", "uses"},
         NEW n \in Nat, n + 1 \in DOMAIN file.funcs, FuncsAre(n),
         SigFits(resolve(file.funcs[n + 1].sym)), NEW uses \in SUBSET file.funcs[n + 1].uses,
         uses # {} => file.funcs[n + 1].needs = "cfg" /\ Lowers(file.funcs[n + 1]),
         mod' = [mod EXCEPT !.funcs = Append(@, resolve(file.funcs[n + 1].sym)),
                            !.uses = @ \cup {[use |-> u, name |-> Emitted(u)] : u \in uses}]
  PROVE  FuncsAre(n + 1)'
<1> DEFINE fn == file.funcs[n + 1]
           new == {[use |-> u, name |-> Emitted(u)] : u \in uses}
<1>1. /\ \A x : SigFits(x)' = SigFits(x)
      /\ \A u : Emitted(u)' = Emitted(u)
      /\ \A f : Lowers(f)' = Lowers(f)
  BY Frame
<1>2. resolve(fn.sym) \in FuncNames /\ 1 .. n + 1 = (1 .. n) \cup {n + 1}
  BY FuncTypes DEF FuncNames
<1>3. mod'.funcs = Append(mod.funcs, resolve(fn.sym)) /\ mod'.uses = mod.uses \cup new
  OBVIOUS
<1>4. mod.funcs \in Seq(FuncNames) /\ Len(mod.funcs) = n
  BY DEF FuncsAre
<1>5. /\ mod'.funcs \in Seq(FuncNames) /\ Len(mod'.funcs) = n + 1
      /\ mod'.funcs[n + 1] = resolve(fn.sym) /\ \A i \in 1 .. n : mod'.funcs[i] = mod.funcs[i]
  BY <1>2, <1>3, <1>4
<1>6. \A i \in 1 .. n + 1 : mod'.funcs[i] = resolve(file.funcs[i].sym) /\ SigFits(resolve(file.funcs[i].sym))
  BY <1>2, <1>5 DEF FuncsAre
<1>7. ASSUME NEW x \in mod'.uses
      PROVE  \E i \in 1 .. n + 1 : \E u \in file.funcs[i].uses :
               /\ x = [use |-> u, name |-> Emitted(u)]
               /\ file.funcs[i].needs = "cfg" /\ Lowers(file.funcs[i])
  <2>1. CASE x \in mod.uses
    <3>1. PICK i \in 1 .. n : \E u \in file.funcs[i].uses :
            x = [use |-> u, name |-> Emitted(u)] /\ file.funcs[i].needs = "cfg" /\ Lowers(file.funcs[i])
      BY <2>1 DEF FuncsAre
    <3>2. QED
      BY <1>2, <3>1
  <2>2. CASE x \in new
    <3>1. PICK u \in uses : x = [use |-> u, name |-> Emitted(u)]
      BY <2>2
    <3>2. n + 1 \in 1 .. n + 1 /\ u \in file.funcs[n + 1].uses /\ file.funcs[n + 1].needs = "cfg" /\ Lowers(file.funcs[n + 1])
      BY <1>2, <3>1
    <3>3. QED
      BY <3>1, <3>2
  <2>3. QED
    BY <1>3, <2>1, <2>2
<1>8. FuncNames' = FuncNames
  BY DEF FuncNames, resolve
<1> HIDE DEF fn, new
<1>9. QED
  BY <1>1, <1>5, <1>6, <1>7, <1>8 DEF FuncsAre

LEMMA FuncsStep ==
  ASSUME ControlInv, FuncsInv, ANext
  PROVE  FuncsInv'
<1>1. /\ file' = file /\ result = "run"
      /\ path' = path \/ (path = "direct" /\ path' = "text" /\ stage' = "externs")
      /\ file \in AssemblyFiles /\ path \in {"direct", "text", "native"}
      /\ stage \in IF path = "native" THEN NativeStages ELSE TypedStages(path)
      /\ DOMAIN mod = {"globals", "funcs", "decls", "externs", "uses"}
      /\ Needed' = Needed /\ Declared' = Declared
  BY StepsRun, Frame DEF ControlInv
<1> SUFFICES ASSUME path # "native", path' # "native"
             PROVE  FuncsInv'
  BY <1>1 DEF FuncsInv
<1>2. Len(Globls) = Len(file.globl) /\ Len(Datas) = Len(file.data) /\ Len(file.funcs) \in Nat /\ DOMAIN file.funcs = 1 .. Len(file.funcs)
  BY <1>1, Lengths
<1>3. /\ \A n : n = FuncsAdded => FuncsAre(n)
      /\ path = "text" /\ stage \notin {"parse", "externs"} => mod.externs = Needed
      /\ path = "text" /\ stage \in {"funcs", "verify"} => mod.decls = Declared
      /\ stage = "funcs" => at \in 1 .. Larger(1, Len(file.funcs))
  BY DEF FuncsInv, ControlInv, Within
<1>4. ASSUME mod'.funcs = mod.funcs, mod'.uses = mod.uses, FuncsAdded' = FuncsAdded
      PROVE  \A n : n = FuncsAdded' => FuncsAre(n)'
  BY <1>1, <1>3, <1>4, FuncsKept
\* Steps that add no function and declare nothing.
<1>5. ASSUME mod' = mod, path' = path, stage' = stage, at' = at
      PROVE  FuncsInv'
  <2>1. FuncsAdded' = FuncsAdded
    BY <1>1, <1>5 DEF FuncsAdded
  <2>2. QED
    BY <1>1, <1>3, <1>4, <1>5, <2>1 DEF FuncsInv
<1>6. ASSUME mod'.funcs = mod.funcs, mod'.uses = mod.uses, mod'.externs = mod.externs, mod'.decls = mod.decls,
             path' = path, stage \notin {"parse", "externs", "decls", "funcs", "verify"}, stage' = stage \/ Goto(NextStage)
      PROVE  FuncsInv'
  <2>1. FuncsAdded' = 0 /\ FuncsAdded = 0 /\ stage' \notin {"parse", "externs", "verify"} /\ (stage' = "funcs" => path # "text")
    BY <1>1, <1>6, Following DEF FuncsAdded, Goto, TypedStages
  <2>2. QED
    BY <1>1, <1>3, <1>4, <1>6, <2>1 DEF FuncsInv
<1>7. ASSUME Error
      PROVE  FuncsInv'
  BY <1>5, <1>7 DEF Error
<1>8. ASSUME Fallback
      PROVE  FuncsInv'
  <2>1. stage' = "externs" /\ mod' = EmptyModule
    BY <1>8 DEF Fallback, Stages
  <2>2. FuncsAdded' = 0 /\ mod'.funcs = <<>> /\ mod'.uses = {}
    BY <2>1 DEF FuncsAdded, EmptyModule
  <2>3. FuncsAre(0)'
    BY <2>2 DEF FuncsAre
  <2>4. QED
    BY <2>1, <2>2, <2>3 DEF FuncsInv
<1>9. CASE Parse
  <2>1. CASE Goto(NextStage) /\ mod' = mod /\ path' = path /\ stage = "parse"
    <3>1. stage' \in {"externs", "globl"} /\ (stage' = "globl" => path = "direct")
      BY <1>1, <2>1, Following DEF Goto
    <3>2. FuncsAdded' = 0 /\ FuncsAdded = 0
      BY <2>1, <3>1 DEF FuncsAdded
    <3>3. QED
      BY <1>4, <2>1, <3>1, <3>2 DEF FuncsInv
  <2>2. QED
    BY <1>7, <1>8, <1>9, <2>1 DEF Parse, In
<1>10. CASE DeclareGlobals
  <2>1. stage = "externs" /\ Goto(NextStage) /\ path' = path /\ mod' = [mod EXCEPT !.externs = Needed]
    BY <1>10 DEF DeclareGlobals, In
  <2>2. path = "text" /\ stage' = "globl"
    BY <1>1, <2>1, Following DEF Goto, TypedStages
  <2>3. mod'.funcs = mod.funcs /\ mod'.uses = mod.uses /\ mod'.externs = Needed
    BY <1>1, <2>1
  <2>4. FuncsAdded' = FuncsAdded
    BY <2>1, <2>2 DEF FuncsAdded
  <2>5. QED
    BY <1>1, <1>4, <2>2, <2>3, <2>4 DEF FuncsInv
<1>11. CASE DeclareFuncs
  <2>1. stage = "decls" /\ Goto(NextStage) /\ path' = path /\ mod' = [mod EXCEPT !.decls = Declared]
    BY <1>11 DEF DeclareFuncs, In, Declared
  <2>2. path = "text" /\ stage' = "funcs" /\ at' = 1
    BY <1>1, <2>1, Following DEF Goto, TypedStages
  <2>3. mod'.funcs = mod.funcs /\ mod'.uses = mod.uses /\ mod'.externs = mod.externs /\ mod'.decls = Declared
    BY <1>1, <2>1
  <2>4. FuncsAdded' = FuncsAdded
    BY <2>1, <2>2 DEF FuncsAdded
  <2>5. QED
    BY <1>1, <1>3, <1>4, <2>1, <2>2, <2>3, <2>4 DEF FuncsInv
<1>12. CASE MergeGlobl \/ MergeData
  <2>1. CASE Error
    BY <1>7, <2>1
  <2>2. CASE ~Error
    <3>1. mod' = mod /\ stage \in {"globl", "data"} /\ path' = path /\ (stage' = stage \/ Goto(NextStage))
      BY <1>12, <2>2 DEF MergeGlobl, MergeData, Empty, In, Advance
    <3>2. QED
      BY <1>6, <3>1
  <2>3. QED
    BY <2>1, <2>2
<1>13. CASE BeginGlobal \/ CopyPayload
  <2>1. CASE Error
    BY <1>7, <2>1
  <2>2. CASE ~Error
    <3>1. mod' = mod /\ path' = path /\ stage' = stage /\ at' = at
      BY <1>13, <2>2 DEF BeginGlobal, CopyPayload, Stay
    <3>2. QED
      BY <1>5, <3>1
  <2>3. QED
    BY <2>1, <2>2
<1>14. CASE EndGlobal
  <2>1. /\ stage = "emit" /\ path' = path /\ stage' = stage
        /\ mod'.funcs = mod.funcs /\ mod'.uses = mod.uses /\ mod'.externs = mod.externs /\ mod'.decls = mod.decls
    BY <1>1, <1>14 DEF EndGlobal, In, Stay
  <2>2. QED
    BY <1>6, <2>1
<1>15. CASE EndData
  BY <1>6, <1>15 DEF EndData, In
<1>16. ASSUME NEW uses, AddFunction(file.funcs[at], uses), In("funcs"), at \in DOMAIN file.funcs, SigFits(resolve(file.funcs[at].sym)),
              uses \in SUBSET file.funcs[at].uses, uses # {} => file.funcs[at].needs = "cfg" /\ Lowers(file.funcs[at])
       PROVE  FuncsInv'
  <2>1. ASSUME NEW n, n = at - 1 PROVE FuncsAre(n + 1)' /\ n \in Nat /\ n + 1 = at
    <3>1. n \in Nat /\ n + 1 = at /\ FuncsAdded = n /\ n + 1 \in DOMAIN file.funcs
      BY <1>2, <1>16, <2>1 DEF In, FuncsAdded
    <3>2. FuncsAre(n)
      BY <1>3, <3>1
    <3>3. mod' = [mod EXCEPT !.funcs = Append(@, resolve(file.funcs[n + 1].sym)),
                             !.uses = @ \cup {[use |-> u, name |-> Emitted(u)] : u \in uses}]
      BY <1>16, <3>1 DEF AddFunction
    <3>4. /\ SigFits(resolve(file.funcs[n + 1].sym)) /\ uses \in SUBSET file.funcs[n + 1].uses
          /\ uses # {} => file.funcs[n + 1].needs = "cfg" /\ Lowers(file.funcs[n + 1])
      BY <1>16, <3>1
    <3>5. QED
      BY <1>1, <3>1, <3>2, <3>3, <3>4, AddStep
  <2>2. (stage' = "funcs" /\ at' = at + 1) \/ (stage' = "verify" /\ at = Len(file.funcs))
    BY <1>1, <1>2, <1>16, Advances, Following DEF AddFunction, In
  <2>3. FuncsAdded' = at /\ stage = "funcs" /\ path' = path /\ mod'.externs = mod.externs /\ mod'.decls = mod.decls
    BY <1>1, <1>2, <1>16, <2>2 DEF FuncsAdded, AddFunction, In
  <2>4. \A n : n = FuncsAdded' => FuncsAre(n)'
    <3>1. SUFFICES ASSUME NEW n, n = FuncsAdded' PROVE FuncsAre(n)'
      OBVIOUS
    <3>2. at \in Nat /\ n = at /\ n - 1 = at - 1 /\ (n - 1) + 1 = n
      BY <1>2, <1>16, <2>3, <3>1
    <3>3. QED
      BY <2>1, <3>2
  <2>5. QED
    BY <1>1, <1>3, <2>2, <2>3, <2>4 DEF FuncsInv
<1>17. CASE DirectFunc
  <2>1. \/ Error \/ Fallback
        \/ /\ AddFunction(file.funcs[at], {}) /\ In("funcs") /\ at \in DOMAIN file.funcs /\ SigFits(resolve(file.funcs[at].sym))
    BY <1>17 DEF DirectFunc
  <2>2. QED
    BY <1>7, <1>8, <1>16, <2>1
<1>18. CASE TextFunc
  <2> DEFINE fn == file.funcs[at]
             uses == IF fn.needs = "cfg" THEN fn.uses ELSE {}
  <2>1. \/ Error
        \/ /\ AddFunction(fn, uses) /\ In("funcs") /\ at \in DOMAIN file.funcs /\ SigFits(resolve(fn.sym))
           /\ (fn.needs = "cfg" => Lowers(fn))
    BY <1>18 DEF TextFunc
  <2>2. uses \in SUBSET fn.uses /\ (uses # {} => fn.needs = "cfg")
    OBVIOUS
  <2> HIDE DEF uses
  <2>3. QED
    BY <1>7, <1>16, <2>1, <2>2
<1>19. CASE NativeFunc
  BY <1>19 DEF NativeFunc
<1>20. CASE NoFuncs
  <2>1. stage = "funcs" /\ Len(file.funcs) = 0 /\ Goto(NextStage) /\ mod' = mod /\ path' = path
    BY <1>20 DEF NoFuncs, Empty, In
  <2>2. stage' = "verify" /\ at = 1
    BY <1>1, <1>3, <2>1, Following DEF Goto, Larger
  <2>3. FuncsAdded' = FuncsAdded
    BY <1>1, <2>1, <2>2 DEF FuncsAdded
  <2>4. QED
    BY <1>1, <1>3, <1>4, <2>1, <2>2, <2>3 DEF FuncsInv
<1>21. CASE Verify
  <2>1. CASE Error
    BY <1>7, <2>1
  <2>2. CASE ~Error
    BY <1>5, <1>21, <2>2 DEF Verify
  <2>3. QED
    BY <2>1, <2>2
<1>22. CASE Prepare \/ Reserve \/ Initialise
  BY <1>1, <1>22 DEF Prepare, Reserve, Initialise, Empty, In, TypedStages
<1>23. QED
  BY <1>9, <1>10, <1>11, <1>12, <1>13, <1>14, <1>15, <1>17, <1>18, <1>19, <1>20, <1>21, <1>22 DEF ANext

-----------------------------------------------------------------------------
(***************************************************************************)
(* Symbols of one name.                                                    *)
(***************************************************************************)

\* The three readings of a symbol.
DenotedPkg(s) == IF s.form = "dot" THEN "p" ELSE IF s.form = "qual" THEN s.pkg ELSE ""
ResolvedPkg(s) == IF s.form = "dot" THEN "p" ELSE IF s.form = "qual" THEN s.pkg ELSE IF s.local THEN "p" ELSE ""
DataPkg(s) == IF s.form = "qual" THEN s.pkg ELSE "p"
LEMMA Readings ==
  ASSUME NEW s \in Symbols
  PROVE  /\ Denoted(s) = Name(DenotedPkg(s), s.name, s.local)
         /\ resolve(s) = Name(ResolvedPkg(s), s.name, s.local)
         /\ resolveData(s) = Name(DataPkg(s), s.name, s.local)
<1>1. s.form \in {"dot", "qual", "bare"}
  BY SymbolForms
<1>2. CASE s.form = "dot"
  BY <1>2, Zenon DEF Denoted, resolve, resolveData, ThisPkg, DenotedPkg, ResolvedPkg, DataPkg
<1>3. CASE s.form = "qual"
  BY <1>3, Zenon DEF Denoted, resolve, resolveData, ThisPkg, DenotedPkg, ResolvedPkg, DataPkg
<1>4. CASE s.form = "bare"
  BY <1>4, DataNames DEF ThisPkg, DenotedPkg, ResolvedPkg, DataPkg
<1>5. QED
  BY <1>1, <1>2, <1>3, <1>4

LEMMA NameParts ==
  ASSUME NEW a, NEW b, NEW c, NEW d, NEW e, NEW f
  PROVE  /\ Name(a, b, c).pkg = a
         /\ Name(a, b, c) = Name(d, e, f) <=> a = d /\ b = e /\ c = f
<1>1. Name(a, b, c).pkg = a /\ Name(a, b, c).name = b /\ Name(a, b, c).local = c
  BY DEF Name
<1>2. Name(d, e, f).pkg = d /\ Name(d, e, f).name = e /\ Name(d, e, f).local = f
  BY DEF Name
<1>3. QED
  BY <1>1, <1>2

LEMMA SameDenoted ==
  ASSUME NEW s \in Symbols, NEW t \in Symbols, Denoted(t) = Denoted(s)
  PROVE  /\ t.name = s.name /\ t.local = s.local /\ (t.form = "bare" <=> s.form = "bare")
         /\ resolve(t) = resolve(s) /\ resolveData(t) = resolveData(s)
<1>1. /\ s.form \in {"dot", "qual", "bare"} /\ (s.form = "qual" <=> s.pkg # "")
      /\ t.form \in {"dot", "qual", "bare"} /\ (t.form = "qual" <=> t.pkg # "")
  BY SymbolForms
<1>2. t.name = s.name /\ t.local = s.local /\ DenotedPkg(t) = DenotedPkg(s)
  BY Readings, NameParts
<1>3. t.form = "bare" <=> s.form = "bare"
  BY <1>1, <1>2 DEF DenotedPkg
<1>4. ResolvedPkg(t) = ResolvedPkg(s) /\ DataPkg(t) = DataPkg(s)
  BY <1>1, <1>2, <1>3 DEF DenotedPkg, ResolvedPkg, DataPkg
<1>5. QED
  BY <1>2, <1>3, <1>4, Readings

\* Two symbols of one name in data, or of one function, denote one thing
\* unless one of them is unqualified and the other of this package.
LEMMA SameResolved ==
  ASSUME NEW s \in Symbols, NEW t \in Symbols,
         resolveData(t) = resolveData(s) \/ resolve(t) = resolve(s)
  PROVE  /\ t.name = s.name /\ t.local = s.local
         /\ Denoted(t) = Denoted(s) \/ {Denoted(t).pkg, Denoted(s).pkg} = {"", ThisPkg}
<1>1. /\ s.form \in {"dot", "qual", "bare"} /\ (s.form = "qual" <=> s.pkg # "")
      /\ t.form \in {"dot", "qual", "bare"} /\ (t.form = "qual" <=> t.pkg # "")
  BY SymbolForms
<1>2. t.name = s.name /\ t.local = s.local /\ (DataPkg(t) = DataPkg(s) \/ ResolvedPkg(t) = ResolvedPkg(s))
  BY Readings, NameParts
<1>3. DenotedPkg(t) = DenotedPkg(s) \/ (DenotedPkg(t) = "" /\ DenotedPkg(s) = "p") \/ (DenotedPkg(t) = "p" /\ DenotedPkg(s) = "")
  BY <1>1, <1>2 DEF DenotedPkg, ResolvedPkg, DataPkg
<1>4. Denoted(t).pkg = DenotedPkg(t) /\ Denoted(s).pkg = DenotedPkg(s)
  BY Readings, NameParts
<1>5. DenotedPkg(t) = DenotedPkg(s) => Denoted(t) = Denoted(s)
  BY <1>2, Readings
<1>6. QED
  BY <1>2, <1>3, <1>4, <1>5 DEF ThisPkg

LEMMA SameMixed ==
  ASSUME NEW s \in Symbols, NEW t \in Symbols, Denoted(t) = Denoted(s), Mixed(t)
  PROVE  Mixed(s)
BY SameDenoted DEF Mixed

\* So a symbol that is not written both ways is where its statements are.
LEMMA Apparent ==
  ASSUME file \in AssemblyFiles, Parses, NEW s \in Symbols, ~Mixed(s), NEW t \in DataSyms \cup Texts
  PROVE  t \in Symbols /\ (resolveData(t) = resolveData(s) \/ resolve(t) = resolve(s) => Denoted(t) = Denoted(s))
<1>1. t \in Symbols
  BY GloblTypes, DataTypes, FuncTypes DEF DataSyms, Globals, Texts
<1>2. QED
  BY <1>1, SameResolved DEF Mixed

-----------------------------------------------------------------------------
(***************************************************************************)
(* What the source gives a symbol is what it holds once merged.            *)
(***************************************************************************)
LEMMA MaxIs ==
  ASSUME NEW S \in SUBSET Int, NEW m \in S, \A y \in S : y <= m
  PROVE  Max(S) = m
<1>1. \A y \in S : m >= y
  OBVIOUS
<1>2. Max(S) \in S /\ \A y \in S : Max(S) >= y
  BY <1>1 DEF Max
<1>3. ASSUME NEW e \in S, \A y \in S : e >= y
      PROVE  e = m
  <2>1. e \in Int /\ m \in Int /\ e >= m /\ m >= e
    BY <1>1, <1>3
  <2>2. QED
    BY <2>1
<1>4. QED
  BY <1>2, <1>3

\* The ends of a symbol that has statements, read from what was parsed.
LEMMA EndsAre ==
  ASSUME file \in AssemblyFiles, Parses, NEW s \in Symbols
  PROVE  /\ Ends(s) \in SUBSET Int
         /\ \A i \in 1 .. Len(file.globl) : Denoted(Globls[i].sym) = Denoted(s) => Globls[i].size \in Ends(s)
         /\ \A i \in 1 .. Len(file.data) : Denoted(Datas[i].sym) = Denoted(s) => Datas[i].off + Datas[i].width \in Ends(s)
         /\ \A e \in Ends(s) :
              \/ \E i \in 1 .. Len(file.globl) : Denoted(Globls[i].sym) = Denoted(s) /\ e = Globls[i].size
              \/ \E i \in 1 .. Len(file.data) : Denoted(Datas[i].sym) = Denoted(s) /\ e = Datas[i].off + Datas[i].width
<1>1. /\ DOMAIN Globls = 1 .. Len(file.globl)
      /\ \A i \in 1 .. Len(file.globl) : Globls[i].size \in Nat
  BY GloblTypes
<1>2. /\ DOMAIN file.data = 1 .. Len(file.data)
      /\ \A i \in 1 .. Len(file.data) :
           /\ Datas[i].off \in Int /\ Datas[i].off = file.data[i].off /\ Datas[i].sym = file.data[i].sym
           /\ Datas[i].width \in Nat \ {0} /\ Datas[i].width = parseWidth(file.arch, file.data[i])
  BY DataTypes
<1>3. \A i : i \in StatementsOf(s) <=> i \in 1 .. Len(file.data) /\ Denoted(Datas[i].sym) = Denoted(s)
  BY <1>2 DEF StatementsOf
<1>4. \A e : e \in Ends(s) <=>
        \/ \E i \in 1 .. Len(file.globl) : Denoted(Globls[i].sym) = Denoted(s) /\ e = Globls[i].size
        \/ \E i \in StatementsOf(s) : e = file.data[i].off + parseWidth(file.arch, file.data[i])
  BY <1>1 DEF Ends
<1>5. \A i \in 1 .. Len(file.data) : file.data[i].off + parseWidth(file.arch, file.data[i]) = Datas[i].off + Datas[i].width
  BY <1>2
<1>6. \A e : e \in Ends(s) <=>
        \/ \E i \in 1 .. Len(file.globl) : Denoted(Globls[i].sym) = Denoted(s) /\ e = Globls[i].size
        \/ \E i \in 1 .. Len(file.data) : Denoted(Datas[i].sym) = Denoted(s) /\ e = Datas[i].off + Datas[i].width
  BY <1>3, <1>4, <1>5
<1>7. \A i \in 1 .. Len(file.data) : Datas[i].off + Datas[i].width \in Int
  BY <1>2
<1>8. QED
  BY <1>1, <1>6, <1>7

\* What is merged completely.
AllMerged == GloblsMerged = Len(file.globl) /\ DatasMerged = Len(file.data)

LEMMA SizeHeld ==
  ASSUME ControlInv, SymsInv, path # "native", Parses, AllMerged, NEW s \in DataSyms, ~Mixed(s)
  PROVE  /\ s \in Symbols /\ resolveData(s) \in DOMAIN syms
         /\ syms[resolveData(s)].size \in Nat /\ SourceSize(s) = syms[resolveData(s)].size
<1> DEFINE n == resolveData(s)
           M == Len(file.globl)
           K == Len(file.data)
<1>1. file \in AssemblyFiles /\ SymsAre(M, K)
  BY DEF ControlInv, SymsInv, AllMerged
<1>2. s \in Symbols
  BY <1>1, Apparent, GloblTypes, DataTypes DEF DataSyms, Globals
<1>3. /\ M \in Nat /\ DOMAIN Globls = 1 .. M
      /\ \A i \in 1 .. M : Globls[i].size \in Nat /\ Globls[i].sym \in DataSyms
  BY <1>1, GloblTypes DEF DataSyms, Globals
<1>4. /\ K \in Nat /\ DOMAIN Datas = 1 .. K
      /\ \A i \in 1 .. K : Datas[i].off \in Int /\ Datas[i].width \in Nat \ {0} /\ Datas[i].sym \in DataSyms
      /\ \A i \in 1 .. K : dataStmtFits(Datas[i])
  BY <1>1, DataTypes DEF DataSyms, SymsAre
<1>5. \A t \in DataSyms : t \in Symbols /\ (resolveData(t) = n <=> Denoted(t) = Denoted(s))
  BY <1>1, <1>2, Apparent, SameDenoted
<1>6. \/ \E i \in 1 .. M : GloblIs(i, n)
      \/ \E i \in 1 .. K : DataIs(i, n)
  BY <1>3, <1>4 DEF DataSyms, Globals, GloblIs, DataIs
<1>7. n \in DOMAIN syms /\ Merged(n, M, K)
  BY <1>1, <1>6 DEF SymsAre
<1> DEFINE size == syms[n].size
<1>8. /\ size \in Nat
      /\ \A i \in 1 .. M : GloblIs(i, n) => Globls[i].size <= size
      /\ \A i \in 1 .. K : DataIs(i, n) => Datas[i].off + Datas[i].width <= size
      /\ \/ size = 0
         \/ \E i \in 1 .. M : GloblIs(i, n) /\ Globls[i].size = size
         \/ \E i \in 1 .. K : DataIs(i, n) /\ Datas[i].off + Datas[i].width = size
  BY <1>7 DEF Merged
<1>9. /\ \A i \in 1 .. M : GloblIs(i, n) <=> Denoted(Globls[i].sym) = Denoted(s)
      /\ \A i \in 1 .. K : DataIs(i, n) <=> Denoted(Datas[i].sym) = Denoted(s)
  BY <1>3, <1>4, <1>5 DEF GloblIs, DataIs
<1> HIDE DEF n, M, K, size
<1>10. /\ Ends(s) \in SUBSET Int
       /\ \A i \in 1 .. M : GloblIs(i, n) => Globls[i].size \in Ends(s)
       /\ \A i \in 1 .. K : DataIs(i, n) => Datas[i].off + Datas[i].width \in Ends(s)
       /\ \A e \in Ends(s) :
            \/ \E i \in 1 .. M : GloblIs(i, n) /\ e = Globls[i].size
            \/ \E i \in 1 .. K : DataIs(i, n) /\ e = Datas[i].off + Datas[i].width
  BY <1>1, <1>2, <1>9, EndsAre DEF M, K
<1>11. \A e \in Ends(s) : e <= size
  BY <1>8, <1>10
<1>12. \A i \in 1 .. K : Datas[i].off + Datas[i].width > 0
  BY <1>4 DEF dataStmtFits
<1>13. size \in Ends(s)
  BY <1>3, <1>6, <1>8, <1>10, <1>12
<1>14. Max(Ends(s)) = size
  BY <1>10, <1>11, <1>13, MaxIs
<1>15. QED
  BY <1>2, <1>7, <1>8, <1>14 DEF SourceSize, n, size

\* The globals of a module are the symbols that have a size.
LEMMA GlobalsHeld ==
  ASSUME ControlInv, SymsInv, EmitInv, path # "native", stage \in {"decls", "funcs", "verify"}
  PROVE  /\ AllMerged /\ Parses
         /\ \A n : n \in DOMAIN mod.globals <=> n \in DOMAIN syms /\ syms[n].size > 0
<1>1. Pending = {} /\ GlobalsDone
  BY DEF EmitInv
<1>2. QED
  BY <1>1 DEF Pending, GlobalsDone, ControlInv, AllMerged, GloblsMerged, DatasMerged

-----------------------------------------------------------------------------
(***************************************************************************)
(* Induction over an initial part of the naturals: a set of numbers has a  *)
(* least one, since the finite sets of numbers below them are well-founded *)
(* under inclusion; so steps that are given one by one can be iterated.    *)
(***************************************************************************)
LEMMA LeastElement ==
  ASSUME NEW S \in SUBSET Nat, S # {}
  PROVE  \E n \in S : \A m \in S : n =< m
<1> DEFINE T == {0..(n - 1) : n \in S}
           R == StrictSubsetOrdering(Nat)
           F == FiniteSubsetsOf(Nat)
<1>1. IsWellFoundedOn(R, F) BY FS_StrictSubsetOrderingWellFounded
<1>2. T \subseteq F
  <2>1. \A n \in S : IsFiniteSet(0..(n - 1)) BY FS_Interval
  <2>2. \A n \in S : 0..(n-1) \subseteq Nat OBVIOUS
  <2>3. QED BY <2>1, <2>2 DEF FiniteSubsetsOf
<1>3. T # {} OBVIOUS
<1>4. \E x \in T : \A y \in T : ~ (<<y, x>> \in R)
  <2> HIDE DEF T, R, F
  <2>1. QED BY <1>1, <1>2, <1>3, WFMin
<1>5. PICK n \in S : \A m \in S : ~ (<<0..(m-1), 0..(n-1)>> \in R)
  BY <1>4
<1>6. ASSUME NEW m \in S, m < n PROVE FALSE
  <2>1. 0..(m-1) \in F /\ 0..(n-1) \in F  BY <1>2
  <2>2. 0..(m-1) \subseteq 0..(n-1) BY <1>6
  <2>3. m \in 0..(n-1) /\ m \notin 0..(m-1) BY <1>6
  <2>4. <<0..(m-1), 0..(n-1)>> \in R BY <2>1, <2>2, <2>3 DEF StrictSubsetOrdering
  <2>5. QED BY <2>4, <1>5
<1>7. QED BY <1>5, <1>6

\* f iterates the n steps G from c.
Steps(S, n) == [1 .. n -> [S -> S]]
Iterates(f, S, c, n, G) ==
  /\ f \in [0 .. n -> S] /\ f[0] = c
  /\ \A i \in 1 .. n : f[i] = G[i][f[i - 1]]

LEMMA Recursion ==
  ASSUME NEW S, NEW c \in S, NEW n \in Nat, NEW G \in Steps(S, n)
  PROVE  \E f : Iterates(f, S, c, n, G)
<1> DEFINE Good(m, f) == /\ f \in [0..m -> S] /\ f[0] = c
                         /\ \A i \in 1..m : f[i] = G[i][f[i - 1]]
           Bad == {m \in 0..n : ~ \E f : Good(m, f)}
<1>1. SUFFICES ASSUME Bad # {} PROVE FALSE
  <2>1. n \in 0..n  OBVIOUS
  <2>2. QED BY <2>1 DEF Iterates
<1>2. PICK m \in Bad : \A b \in Bad : m =< b
  <2>1. Bad \in SUBSET Nat  OBVIOUS
  <2> HIDE DEF Bad
  <2>2. QED BY <1>1, <2>1, LeastElement
<1>3. m # 0
  <2>1. Good(0, [i \in 0..0 |-> c])  OBVIOUS
  <2>2. QED BY <2>1
<1>4. m \in 1..n /\ m - 1 \in 0..n /\ ~ (m =< m - 1)  BY <1>3
<1>5. PICK f : Good(m - 1, f)
  <2>1. m - 1 \notin Bad  BY <1>2, <1>4
  <2>2. QED BY <1>4, <2>1
<1> DEFINE h == [i \in 0..m |-> IF i = m THEN G[m][f[m - 1]] ELSE f[i]]
<1>6. f[m - 1] \in S /\ G[m][f[m - 1]] \in S  BY <1>4, <1>5 DEF Steps
<1>7. h \in [0..m -> S]  BY <1>4, <1>5, <1>6
<1>8. h[0] = c  BY <1>4, <1>5
<1>9. ASSUME NEW i \in 1..m PROVE h[i] = G[i][h[i - 1]]
  <2>1. h[i - 1] = f[i - 1]  BY <1>4
  <2>2. CASE i = m  BY <2>1, <2>2, <1>4
  <2>3. CASE i # m
    <3>1. h[i] = f[i] /\ i \in 1..(m - 1)  BY <2>3, <1>4
    <3>2. QED BY <1>5, <2>1, <3>1
  <2>4. QED BY <2>2, <2>3
<1> HIDE DEF h
<1>10. Good(m, h)  BY <1>7, <1>8, <1>9
<1>11. QED BY <1>10

\* The powers of CellBase, as TLA+ defines a recursive function, are positive.
LEMMA PowerChoice ==
  Power = CHOOSE g : g = [k \in 0 .. MaxGlobalSize |-> IF k = 0 THEN 1 ELSE CellBase * g[k - 1]]
BY DEF Power

LEMMA PowerPositive == \A k \in 0 .. MaxGlobalSize : Power[k] \in Nat \ {0}
<1> DEFINE n == MaxGlobalSize
           S == Nat \ {0}
           G == [i \in 1 .. n |-> [x \in S |-> CellBase * x]]
<1>1. n \in Nat /\ CellBase \in Nat \ {0, 1} /\ 1 \in S
  BY AssemblyAssumption
<1>2. \A x \in S : CellBase * x \in S
  BY <1>1
<1>3. G \in Steps(S, n)
  BY <1>2 DEF Steps
<1>4. PICK f : Iterates(f, S, 1, n, G)
  <2> HIDE DEF S, G, n
  <2>1. QED
    BY <1>1, <1>3, Recursion
<1>5. f \in [0 .. n -> S] /\ f[0] = 1 /\ \A i \in 1 .. n : f[i] = G[i][f[i - 1]]
  BY <1>4 DEF Iterates
<1>6. ASSUME NEW k \in 0 .. n
      PROVE  f[k] = IF k = 0 THEN 1 ELSE CellBase * f[k - 1]
  <2>1. CASE k = 0
    BY <1>5, <2>1
  <2>2. CASE k # 0
    <3>1. k \in 1 .. n /\ k - 1 \in 0 .. n
      BY <1>1, <2>2
    <3>2. f[k - 1] \in S /\ f[k] = G[k][f[k - 1]]
      BY <1>5, <3>1
    <3>3. G[k][f[k - 1]] = CellBase * f[k - 1]
      BY <3>1, <3>2
    <3>4. QED
      BY <2>2, <3>2, <3>3
  <2>3. QED
    BY <2>1, <2>2
<1>7. f = [k \in 0 .. n |-> IF k = 0 THEN 1 ELSE CellBase * f[k - 1]]
  BY <1>5, <1>6
<1>8. Power = [k \in 0 .. n |-> IF k = 0 THEN 1 ELSE CellBase * Power[k - 1]]
  BY <1>7, PowerChoice
\* The least power that is not positive would follow a positive one.
<1> DEFINE Bad == {k \in 0 .. n : Power[k] \notin S}
<1>9. SUFFICES ASSUME Bad # {} PROVE FALSE
  BY DEF Bad
<1>10. PICK k \in Bad : \A b \in Bad : k =< b
  <2>1. Bad \in SUBSET Nat
    BY <1>1
  <2> HIDE DEF Bad
  <2>2. QED
    BY <1>9, <2>1, LeastElement
<1>11. k \in 0 .. n /\ Power[k] \notin S
  OBVIOUS
<1>12. CASE k = 0
  <2>1. Power[k] = 1
    BY <1>8, <1>11, <1>12
  <2>2. QED
    BY <1>11, <2>1
<1>13. CASE k # 0
  <2>1. k - 1 \in 0 .. n /\ ~ (k =< k - 1)
    BY <1>1, <1>11, <1>13
  <2>2. Power[k - 1] \in S
    BY <1>10, <2>1
  <2>3. Power[k] = CellBase * Power[k - 1]
    BY <1>8, <1>11, <1>13
  <2>4. QED
    BY <1>2, <1>11, <2>2, <2>3
<1>14. QED
  BY <1>12, <1>13

\* A value of zero, as which an address is kept, has cells of zero.
LEMMA ZeroCells == \A k \in 0 .. MaxGlobalSize : Cell(0, k) = Plain(0)
<1>1. SUFFICES ASSUME NEW k \in 0 .. MaxGlobalSize PROVE Cell(0, k) = Plain(0)
  OBVIOUS
<1>2. ASSUME NEW p \in Nat \ {0} PROVE (0 \div p) % CellBase = 0
  <2>1. 0 \div p = 0
    OBVIOUS
  <2>2. 0 % CellBase = 0
    BY AssemblyAssumption
  <2>3. QED
    BY <2>1, <2>2
<1>3. (0 \div Power[k]) % CellBase = 0
  BY <1>2, PowerPositive
<1>4. QED
  BY <1>3 DEF Cell

-----------------------------------------------------------------------------
(***************************************************************************)
(* What a typed module holds for a symbol.                                 *)
(***************************************************************************)

\* The cell a statement of the source gives, read from what was parsed.
LEMMA PayloadCell ==
  ASSUME file \in AssemblyFiles, Parses, path # "native", NEW j \in 1 .. Len(file.data), dataStmtFits(Datas[j]),
         NEW n \in 0 .. Datas[j].width - 1
  PROVE  dataStmtPayload(Datas[j])[n] =
           CASE file.data[j].kind = "int" -> Plain((file.data[j].value \div Power[n]) % CellBase)
             [] file.data[j].kind = "str" -> Plain(IF n < Len(file.data[j].cells) THEN file.data[j].cells[n + 1] ELSE 0)
             [] OTHER -> Plain(0)
<1> DEFINE d == Datas[j]
           e == file.data[j]
<1>1. /\ d.off \in Int /\ d.width \in Nat \ {0}
      /\ \/ e.kind = "int" /\ d.value = e.value /\ d.payload = <<>>
         \/ e.kind = "str" /\ d.payload = <<e.cells>>
         \/ e.kind = "addr" /\ d.value = 0 /\ d.payload = <<>>
  BY DataTypes
<1>2. n \in 0 .. MaxGlobalSize
  BY <1>1, AssemblyAssumption DEF dataStmtFits
<1>3. dataStmtPayload(d)[n] = IF d.payload = <<>> THEN Cell(d.value, n)
                              ELSE IF n < Len(d.payload[1]) THEN Plain(d.payload[1][n + 1]) ELSE Plain(0)
  BY DEF dataStmtPayload
<1> HIDE DEF d, e
<1>4. CASE e.kind = "int" /\ d.value = e.value /\ d.payload = <<>>
  <2>1. dataStmtPayload(d)[n] = Plain((e.value \div Power[n]) % CellBase)
    BY <1>3, <1>4 DEF Cell
  <2>2. QED
    BY <1>4, <2>1 DEF d, e
<1>5. CASE e.kind = "str" /\ d.payload = <<e.cells>>
  <2>1. dataStmtPayload(d)[n] = IF n < Len(e.cells) THEN Plain(e.cells[n + 1]) ELSE Plain(0)
    BY <1>3, <1>5
  <2>2. QED
    BY <1>5, <2>1 DEF d, e
<1>6. CASE e.kind = "addr" /\ d.value = 0 /\ d.payload = <<>>
  <2>1. dataStmtPayload(d)[n] = Plain(0)
    BY <1>2, <1>3, <1>6, ZeroCells
  <2>2. QED
    BY <1>6, <2>1 DEF d, e
<1>7. QED
  BY <1>1, <1>4, <1>5, <1>6

\* Which statements cover a cell of a symbol, read from what was parsed.
LEMMA Covering ==
  ASSUME file \in AssemblyFiles, Parses, NEW s \in Symbols, ~Mixed(s)
  PROVE  /\ \A i : i \in StatementsOf(s) <=> i \in 1 .. Len(file.data) /\ DataIs(i, resolveData(s))
         /\ \A i \in StatementsOf(s) : \A k \in Int :
              Covers(i, k) <=> k - Datas[i].off \in 0 .. Datas[i].width - 1
<1>1. /\ DOMAIN file.data = 1 .. Len(file.data)
      /\ \A i \in 1 .. Len(file.data) :
           /\ Datas[i].off = file.data[i].off /\ Datas[i].sym = file.data[i].sym
           /\ Datas[i].width = parseWidth(file.arch, file.data[i]) /\ Datas[i].sym \in DataSyms
  BY DataTypes DEF DataSyms
<1>2. \A t \in DataSyms : resolveData(t) = resolveData(s) <=> Denoted(t) = Denoted(s)
  BY Apparent, SameDenoted
<1>3. \A i : i \in StatementsOf(s) <=> i \in 1 .. Len(file.data) /\ DataIs(i, resolveData(s))
  BY <1>1, <1>2 DEF StatementsOf, DataIs
<1>4. QED
  BY <1>1, <1>3 DEF Covers

LEMMA TypedExact ==
  ASSUME ControlInv, SymsInv, EmitInv, result = "module", path # "native",
         NEW s \in DataSyms, ~Mixed(s), SourceSize(s) > 0, ~Overlapping(s)
  PROVE  /\ resolveData(s) \in DOMAIN mod.globals
         /\ mod.globals[resolveData(s)].cells = [k \in 0 .. SourceSize(s) - 1 |-> SourceCell(s, k)]
<1> DEFINE n == resolveData(s)
           size == syms[n].size
           p == syms[n].payloads
           cells == mod.globals[n].cells
           K == Len(file.data)
<1>1. file \in AssemblyFiles /\ stage = "verify" /\ Parses
  BY DEF ControlInv
<1>2. AllMerged /\ (n \in DOMAIN mod.globals <=> n \in DOMAIN syms /\ size > 0)
  BY <1>1, GlobalsHeld
<1>3. s \in Symbols /\ n \in DOMAIN syms /\ size \in Nat /\ SourceSize(s) = size
  BY <1>1, <1>2, SizeHeld
<1>4. n \in DOMAIN mod.globals /\ Filled(n, cells, DOMAIN p)
  BY <1>2, <1>3 DEF EmitInv, GlobalsDone
<1>5. /\ IsFunction(cells) /\ DOMAIN cells = 0 .. size - 1
      /\ \A k \in DOMAIN cells :
           \/ cells[k] = Plain(0) /\ \A off \in DOMAIN p : k - off \notin DOMAIN p[off]
           \/ \E off \in DOMAIN p : k - off \in DOMAIN p[off] /\ cells[k] = p[off][k - off]
  BY <1>4 DEF Filled
<1>6. Merged(n, Len(file.globl), K) /\ \A i \in 1 .. K : dataStmtFits(Datas[i])
  BY <1>2, <1>3 DEF SymsInv, AllMerged, SymsAre
<1>7. /\ \A i \in 1 .. K : DataIs(i, n) => Datas[i].off \in DOMAIN p /\ Datas[i].off + Datas[i].width <= size
      /\ \A off \in DOMAIN p : \E i \in 1 .. K : DataIs(i, n) /\ Datas[i].off = off /\ p[off] = dataStmtPayload(Datas[i])
  BY <1>6 DEF Merged
<1>8. /\ \A i : i \in StatementsOf(s) <=> i \in 1 .. K /\ DataIs(i, n)
      /\ \A i \in StatementsOf(s) : \A k \in Int : Covers(i, k) <=> k - Datas[i].off \in 0 .. Datas[i].width - 1
  BY <1>1, <1>3, Covering
<1>9. \A i \in 1 .. K : Datas[i].off \in Nat /\ Datas[i].width \in Nat \ {0} /\ DOMAIN dataStmtPayload(Datas[i]) = 0 .. Datas[i].width - 1
  <2>1. SUFFICES ASSUME NEW i \in 1 .. K
                 PROVE  Datas[i].off \in Nat /\ Datas[i].width \in Nat \ {0} /\ DOMAIN dataStmtPayload(Datas[i]) = 0 .. Datas[i].width - 1
    OBVIOUS
  <2>2. Datas[i].off \in Int /\ Datas[i].width \in Nat \ {0}
    BY <1>1, DataTypes
  <2>3. dataStmtFits(Datas[i])
    BY <1>6
  <2>4. QED
    BY <2>2, <2>3 DEF dataStmtFits, dataStmtPayload
<1>10. \A k \in 0 .. size - 1 : \A i, j \in StatementsOf(s) : Covers(i, k) /\ Covers(j, k) => i = j
  BY <1>3 DEF Overlapping
<1> HIDE DEF n, size, p, cells, K
<1>11. ASSUME NEW k \in 0 .. size - 1
       PROVE  cells[k] = SourceCell(s, k)
  <2> DEFINE stmts == {i \in StatementsOf(s) : Covers(i, k)}
  <2>1. CASE \E off \in DOMAIN p : k - off \in DOMAIN p[off] /\ cells[k] = p[off][k - off]
    <3>1. PICK off \in DOMAIN p : k - off \in DOMAIN p[off] /\ cells[k] = p[off][k - off]
      BY <2>1
    <3>2. PICK j \in 1 .. K : DataIs(j, n) /\ Datas[j].off = off /\ p[off] = dataStmtPayload(Datas[j])
      BY <1>7
    <3>3. j \in StatementsOf(s) /\ off \in Nat /\ k - off \in 0 .. Datas[j].width - 1 /\ Covers(j, k)
      BY <1>3, <1>8, <1>9, <3>1, <3>2
    <3>4. stmts = {j}
      BY <1>10, <3>3
    <3>5. (CHOOSE i \in stmts : TRUE) = j /\ stmts # {}
      BY <3>4
    <3>6. file.data[j].off = off
      BY <1>1, <3>2, DataTypes DEF K
    <3>7. cells[k] = CASE file.data[j].kind = "int" -> Plain((file.data[j].value \div Power[k - off]) % CellBase)
                       [] file.data[j].kind = "str" -> Plain(IF k - off < Len(file.data[j].cells) THEN file.data[j].cells[k - off + 1] ELSE 0)
                       [] OTHER -> Plain(0)
      BY <1>1, <1>6, <3>1, <3>2, <3>3, PayloadCell DEF K
    <3>8. SourceCell(s, k) = CASE file.data[j].kind = "int" -> Plain((file.data[j].value \div Power[k - off]) % CellBase)
                       [] file.data[j].kind = "str" -> Plain(IF k - off < Len(file.data[j].cells) THEN file.data[j].cells[k - off + 1] ELSE 0)
                       [] OTHER -> Plain(0)
      BY <3>5, <3>6 DEF SourceCell
    <3>9. QED
      BY <3>7, <3>8
  <2>2. CASE cells[k] = Plain(0) /\ \A off \in DOMAIN p : k - off \notin DOMAIN p[off]
    <3>1. ASSUME NEW i \in StatementsOf(s), Covers(i, k) PROVE FALSE
      <4>1. i \in 1 .. K /\ DataIs(i, n) /\ k - Datas[i].off \in 0 .. Datas[i].width - 1
        BY <1>3, <1>8, <3>1
      <4>2. Datas[i].off \in DOMAIN p /\ Datas[i].off + Datas[i].width <= size
        BY <1>7, <4>1
      <4>3. PICK j \in 1 .. K : DataIs(j, n) /\ Datas[j].off = Datas[i].off /\ p[Datas[i].off] = dataStmtPayload(Datas[j])
        BY <1>7, <4>2
      <4>4. Datas[i].off \in 0 .. size - 1 /\ Covers(i, Datas[i].off) /\ Covers(j, Datas[i].off) /\ j \in StatementsOf(s)
        <5>1. Datas[i].off \in Nat /\ Datas[i].width \in Nat \ {0} /\ Datas[j].width \in Nat \ {0}
          BY <1>9, <4>1
        <5>2. QED
          BY <1>3, <1>8, <4>1, <4>2, <4>3, <5>1
      <4>5. i = j
        BY <1>10, <4>4
      <4>6. DOMAIN p[Datas[i].off] = 0 .. Datas[i].width - 1
        BY <1>9, <4>1, <4>3, <4>5
      <4>7. QED
        BY <2>2, <4>1, <4>2, <4>6
    <3>2. stmts = {}
      BY <3>1
    <3>3. SourceCell(s, k) = Plain(0)
      BY <3>2 DEF SourceCell
    <3>4. QED
      BY <2>2, <3>3
  <2>3. QED
    BY <1>5, <2>1, <2>2
<1>12. cells = [k \in 0 .. SourceSize(s) - 1 |-> SourceCell(s, k)]
  BY <1>3, <1>5, <1>11 DEF IsFunction
<1>13. QED
  BY <1>4, <1>12 DEF n, cells

-----------------------------------------------------------------------------
(***************************************************************************)
(* References.                                                             *)
(***************************************************************************)

\* The functions of a module, once all are added.
LEMMA FuncsHeld ==
  ASSUME file \in AssemblyFiles, FuncsAre(Len(file.funcs))
  PROVE  /\ DOMAIN mod.funcs = DOMAIN file.funcs
         /\ \A i \in DOMAIN file.funcs : mod.funcs[i] = resolve(file.funcs[i].sym) /\ SigFits(resolve(file.funcs[i].sym))
         /\ \A n : n \in Range(mod.funcs) <=> \E t \in Texts : n = resolve(t)
<1>1. DOMAIN file.funcs = 1 .. Len(file.funcs)
  BY Lengths
<1>2. DOMAIN mod.funcs = 1 .. Len(mod.funcs) /\ Len(mod.funcs) = Len(file.funcs)
  BY DEF FuncsAre
<1>3. \A i \in DOMAIN file.funcs : mod.funcs[i] = resolve(file.funcs[i].sym) /\ SigFits(resolve(file.funcs[i].sym))
  BY <1>1 DEF FuncsAre
<1>4. QED
  BY <1>1, <1>2, <1>3 DEF Range, Texts

\* A signature is one of its name, and names it unless it renames it.
LEMMA EmittedName ==
  ASSUME NEW u, ~Renamed(u.sym), resolve(u.sym) = resolveData(u.sym)
  PROVE  Emitted(u) = resolve(u.sym)
<1> DEFINE n == resolve(u.sym)
<1>1. CASE u.how \in {"call", "tail"} /\ SigsOf(n) # {}
  <2>1. SigOf(n) \in SigsOf(n)
    BY <1>1 DEF SigOf
  <2>2. SigOf(n).key = n /\ SigOf(n).name \in {<<>>, <<SigOf(n).key>>}
    BY <2>1 DEF Renamed, SigsOf
  <2>3. funcSigSymbol(n, SigOf(n)) = n
    BY <2>2 DEF funcSigSymbol
  <2>4. QED
    BY <1>1, <2>3 DEF Emitted
<1>2. CASE ~(u.how \in {"call", "tail"} /\ SigsOf(n) # {})
  BY <1>2 DEF Emitted
<1>3. QED
  BY <1>1, <1>2

\* A symbol that is qualified, or static, is one name for data and functions.
LEMMA OneName ==
  ASSUME NEW s \in Symbols, ~(Unqualified(s) /\ ~s.local)
  PROVE  resolve(s) = resolveData(s)
<1>1. s.form \in {"dot", "qual", "bare"} /\ s.local \in BOOLEAN
  BY SymbolForms
<1>2. ResolvedPkg(s) = DataPkg(s)
  BY <1>1 DEF ResolvedPkg, DataPkg, Unqualified
<1>3. QED
  BY <1>2, Readings

LEMMA Binding ==
  ASSUME ControlInv, SymsInv, EmitInv, FuncsInv, result = "module", path = "text"
  PROVE  ReferencesBind
<1>1. /\ file \in AssemblyFiles /\ stage = "verify" /\ path # "native" /\ Parses
  BY DEF ControlInv
<1>2. AllMerged /\ \A n : n \in DOMAIN mod.globals <=> n \in DOMAIN syms /\ syms[n].size > 0
  BY <1>1, GlobalsHeld
<1>3. FuncsAre(Len(file.funcs))
  BY <1>1 DEF FuncsInv, FuncsAdded
<1>4. \A n : n \in Range(mod.funcs) <=> \E t \in Texts : n = resolve(t)
  BY <1>1, <1>3, FuncsHeld
<1> SUFFICES ASSUME NEW x \in mod.uses, NEW s, s = x.use.sym, ~(Unqualified(s) /\ ~s.local), ~Mixed(s), ~Renamed(s)
             PROVE  (x.name \in DOMAIN mod.globals \cup Range(mod.funcs)) <=>
                      \E t \in DataSyms \cup Texts : Denoted(t) = Denoted(s) /\ (t \in Texts \/ SourceSize(t) > 0)
  BY DEF ReferencesBind
<1>5. s \in Symbols /\ x.name = Emitted(x.use)
  <2>1. PICK i \in 1 .. Len(file.funcs) : \E u \in file.funcs[i].uses : x = [use |-> u, name |-> Emitted(u)]
    BY <1>3 DEF FuncsAre
  <2>2. PICK u \in file.funcs[i].uses : x = [use |-> u, name |-> Emitted(u)]
    BY <2>1
  <2>3. i \in DOMAIN file.funcs
    BY <1>1, Lengths
  <2>4. x.use = u /\ x.name = Emitted(u)
    BY <2>2
  <2>5. QED
    BY <1>1, <2>3, <2>4, FuncTypes
<1> DEFINE n == resolve(s)
<1>6. x.name = n /\ resolveData(s) = n
  BY <1>5, OneName, EmittedName
<1>7. \A t \in DataSyms \cup Texts :
        t \in Symbols /\ (resolveData(t) = n \/ resolve(t) = n => Denoted(t) = Denoted(s))
  BY <1>1, <1>5, <1>6, Apparent
<1>8. \A t \in DataSyms \cup Texts : Denoted(t) = Denoted(s) => resolve(t) = n /\ resolveData(t) = n /\ ~Mixed(t)
  BY <1>5, <1>6, <1>7, SameDenoted, SameMixed
<1>9. \A t \in DataSyms : Denoted(t) = Denoted(s) => n \in DOMAIN syms /\ SourceSize(t) = syms[n].size
  BY <1>1, <1>2, <1>8, SizeHeld
<1>10. n \in DOMAIN syms => \E t \in DataSyms : resolveData(t) = n
  <2>1. SUFFICES ASSUME n \in DOMAIN syms PROVE \E t \in DataSyms : resolveData(t) = n
    OBVIOUS
  <2>2. SymsAre(Len(file.globl), Len(file.data))
    BY <1>1, <1>2 DEF SymsInv, AllMerged
  <2>3. (\E i \in 1 .. Len(file.globl) : GloblIs(i, n)) \/ (\E i \in 1 .. Len(file.data) : DataIs(i, n))
    BY <2>1, <2>2 DEF SymsAre
  <2>4. \A i \in 1 .. Len(file.globl) : Globls[i].sym \in DataSyms
    BY <1>1, GloblTypes DEF DataSyms, Globals
  <2>5. \A i \in 1 .. Len(file.data) : Datas[i].sym \in DataSyms
    BY <1>1, DataTypes DEF DataSyms
  <2>6. QED
    BY <2>3, <2>4, <2>5 DEF GloblIs, DataIs
<1> HIDE DEF n
<1>11. n \in DOMAIN mod.globals <=> \E t \in DataSyms : Denoted(t) = Denoted(s) /\ SourceSize(t) > 0
  BY <1>2, <1>7, <1>9, <1>10
<1>12. n \in Range(mod.funcs) <=> \E t \in Texts : Denoted(t) = Denoted(s)
  BY <1>4, <1>7, <1>8
<1>13. QED
  <2>1. x.name \in DOMAIN mod.globals \cup Range(mod.funcs) <=> n \in DOMAIN mod.globals \/ n \in Range(mod.funcs)
    BY <1>6
  <2>2. QED
    BY <1>11, <1>12, <2>1

-----------------------------------------------------------------------------
(***************************************************************************)
(* Why a typed file may be refused.                                        *)
(***************************************************************************)
ErrInv == result = "error" /\ path # "native" => Excused

\* A name has one signature at most, which has a symbol or none.
LEMMA OneSignature ==
  ASSUME file \in AssemblyFiles
  PROVE  /\ \A n : \A s, t \in SigsOf(n) : s = t
         /\ \A s \in Range(file.sigs) : s \in SigsOf(s.key) /\ (s.name = <<>> \/ s.name = <<s.name[1]>>)
         /\ \A n : SigsOf(n) # {} => SigOf(n) \in SigsOf(n)
         /\ \A n : \A s \in SigsOf(n) : s = SigOf(n) /\ s \in Range(file.sigs) /\ s.key = n
<1>1. /\ file.sigs \in Seq(Signatures)
      /\ \A i, j \in DOMAIN file.sigs : file.sigs[i].key = file.sigs[j].key => i = j
  BY FilesAssumption
<1>2. \A n : \A s, t \in SigsOf(n) : s = t
  BY <1>1 DEF SigsOf, Range
<1>3. \A s \in Range(file.sigs) : s \in Signatures
  BY <1>1 DEF Range
<1>4. \A s \in Signatures : s.name = <<>> \/ s.name = <<s.name[1]>>
  <2>1. SUFFICES ASSUME NEW s \in Signatures PROVE s.name = <<>> \/ s.name = <<s.name[1]>>
    OBVIOUS
  <2>2. s.name = <<>> \/ s.name \in [1 .. 1 -> SymbolNames]
    BY DEF Signatures
  <2>3. ASSUME NEW e \in [1 .. 1 -> SymbolNames] PROVE e = <<e[1]>>
    <3>1. 1 .. 1 = {1}
      OBVIOUS
    <3>2. e \in Seq(SymbolNames) /\ Len(e) = 1
      BY <3>1
    <3>3. QED
      BY <3>2
  <2>4. QED
    BY <2>2, <2>3
<1>5. \A n : SigsOf(n) # {} => SigOf(n) \in SigsOf(n)
  BY DEF SigOf
<1>6. \A n : \A s \in SigsOf(n) : s \in Range(file.sigs) /\ s.key = n
  BY DEF SigsOf
<1>7. \A s \in Range(file.sigs) : s \in SigsOf(s.key)
  BY DEF SigsOf
<1>8. QED
  BY <1>2, <1>3, <1>4, <1>5, <1>6, <1>7

LEMMA UnfitSignature ==
  ASSUME file \in AssemblyFiles, NEW fn, ~SigFits(resolve(fn.sym))
  PROVE  BadFunction(fn)
<1> DEFINE n == resolve(fn.sym)
<1>1. SUFFICES ASSUME NEW s \in SigsOf(n), s.ret # "", s.name \in {<<>>, <<s.key>>}
               PROVE  SigFits(n)
  BY DEF BadFunction
<1>2. s = SigOf(n) /\ s.key = n /\ SigsOf(n) # {}
  BY OneSignature
<1>3. funcSigSymbol(n, s) = n
  <2>1. CASE s.name = <<>>
    BY <2>1 DEF funcSigSymbol
  <2>2. CASE s.name = <<s.key>>
    BY <1>2, <2>2 DEF funcSigSymbol
  <2>3. QED
    BY <1>1, <2>1, <2>2
<1>4. QED
  BY <1>1, <1>2, <1>3 DEF SigFits

\* A payload is inside its global.
LEMMA PayloadInside ==
  ASSUME ControlInv, SymsInv, EmitInv, path # "native", stage = "emit", cur # <<>>, NEW off \in cur[1].todo
  PROVE  ~(off + Cardinality(DOMAIN syms[cur[1].name].payloads[off]) > Cardinality(DOMAIN cur[1].buf))
<1> DEFINE c == cur[1]
           n == c.name
           p == syms[n].payloads
           K == Len(file.data)
<1>1. n \in DOMAIN syms /\ off \in DOMAIN p /\ DOMAIN c.buf = 0 .. syms[n].size - 1
  BY DEF EmitInv, Filling, Filled, Pending
<1>2. Parses /\ SymsAre(Len(file.globl), K) /\ file \in AssemblyFiles
  BY DEF ControlInv, SymsInv, GloblsMerged, DatasMerged
<1>3. Merged(n, Len(file.globl), K)
  BY <1>1, <1>2 DEF SymsAre
<1>4. PICK i \in 1 .. K : DataIs(i, n) /\ Datas[i].off = off /\ p[off] = dataStmtPayload(Datas[i])
  BY <1>1, <1>3 DEF Merged
<1>5. Datas[i].off + Datas[i].width <= syms[n].size /\ syms[n].size \in Nat
  BY <1>3, <1>4 DEF Merged
<1>6. Datas[i].off \in Int /\ Datas[i].width \in Nat \ {0}
  BY <1>2, DataTypes
<1>7. DOMAIN p[off] = 0 .. Datas[i].width - 1
  BY <1>4 DEF dataStmtPayload
<1> HIDE DEF c, n, p, K
<1>8. Cardinality(DOMAIN p[off]) = Datas[i].width
  <2>1. ASSUME NEW w \in Nat \ {0} PROVE Cardinality(0 .. w - 1) = w
    BY <2>1, FS_Interval
  <2>2. QED
    BY <1>6, <1>7, <2>1
<1>9. Cardinality(DOMAIN c.buf) = syms[n].size
  <2>1. ASSUME NEW w \in Nat PROVE Cardinality(0 .. w - 1) = w
    BY <2>1, FS_Interval
  <2>2. QED
    BY <1>1, <1>5, <2>1
<1>10. QED
  BY <1>4, <1>5, <1>6, <1>8, <1>9 DEF c, n, p

\* A symbol that is too large has a statement that makes it so.
LEMMA TooLarge ==
  ASSUME ControlInv, SymsInv, path # "native", stage = "emit", NEW n \in DOMAIN syms, syms[n].size > MaxGlobalSize
  PROVE  BadData \/ Clash
<1>1. AllMerged /\ Parses /\ file \in AssemblyFiles
  BY DEF AllMerged, GloblsMerged, DatasMerged, ControlInv
<1>2. SymsAre(Len(file.globl), Len(file.data))
  BY <1>1 DEF SymsInv, AllMerged
<1>3. Merged(n, Len(file.globl), Len(file.data)) /\ \A i \in 1 .. Len(file.data) : dataStmtFits(Datas[i])
  BY <1>2 DEF SymsAre
<1>4. ASSUME NEW i \in 1 .. Len(file.data), Datas[i].off + Datas[i].width = syms[n].size PROVE FALSE
  <2>1. dataStmtFits(Datas[i]) /\ Datas[i].off \in Int /\ Datas[i].width \in Nat \ {0}
    BY <1>1, <1>3, DataTypes
  <2>2. QED
    BY <1>4, <2>1, AssemblyAssumption DEF dataStmtFits
<1>5. PICK i \in 1 .. Len(file.globl) : GloblIs(i, n)
  BY <1>3, <1>4, AssemblyAssumption DEF Merged
<1> DEFINE s == Globls[i].sym
<1>6. s \in DataSyms /\ resolveData(s) = n
  BY <1>1, <1>5, GloblTypes DEF DataSyms, Globals, GloblIs
<1> HIDE DEF s
<1>7. CASE Mixed(s)
  BY <1>6, <1>7 DEF Clash
<1>8. CASE ~Mixed(s)
  BY <1>1, <1>6, <1>8, SizeHeld DEF BadData
<1>9. QED
  BY <1>7, <1>8

\* What a text introduces, before it is verified.
LEMMA IntroducedIs ==
  ASSUME ControlInv, SymsInv, EmitInv, FuncsInv, stage = "verify", path = "text"
  PROVE  /\ file \in AssemblyFiles /\ AllMerged /\ Parses /\ FuncsAre(Len(file.funcs))
         /\ mod.externs = Needed /\ mod.decls = Declared
         /\ \A n \in DOMAIN mod.globals : \E t \in DataSyms : resolveData(t) = n
         /\ \A t \in DataSyms : Mixed(t) \/ (SourceSize(t) \in Nat /\ (SourceSize(t) > 0 => resolveData(t) \in DOMAIN mod.globals))
         /\ \A n : n \in Range(mod.funcs) <=> \E t \in Texts : n = resolve(t)
         /\ \A n \in Range(mod.funcs) : SigFits(n)
<1>1. file \in AssemblyFiles /\ AllMerged /\ Parses /\ \A n : n \in DOMAIN mod.globals <=> n \in DOMAIN syms /\ syms[n].size > 0
  BY GlobalsHeld DEF ControlInv
<1>2. FuncsAre(Len(file.funcs)) /\ mod.externs = Needed /\ mod.decls = Declared
  BY DEF FuncsInv, FuncsAdded
<1>3. ASSUME NEW n \in DOMAIN mod.globals PROVE \E t \in DataSyms : resolveData(t) = n
  <2>1. n \in DOMAIN syms
    BY <1>1
  <2>2. SymsAre(Len(file.globl), Len(file.data))
    BY <1>1 DEF SymsInv, AllMerged
  <2>3. (\E i \in 1 .. Len(file.globl) : GloblIs(i, n)) \/ (\E i \in 1 .. Len(file.data) : DataIs(i, n))
    BY <2>1, <2>2 DEF SymsAre
  <2>4. \A i \in 1 .. Len(file.globl) : Globls[i].sym \in DataSyms
    BY <1>1, GloblTypes DEF DataSyms, Globals
  <2>5. \A i \in 1 .. Len(file.data) : Datas[i].sym \in DataSyms
    BY <1>1, DataTypes DEF DataSyms
  <2>6. QED
    BY <2>3, <2>4, <2>5 DEF GloblIs, DataIs
<1>4. ASSUME NEW t \in DataSyms, ~Mixed(t)
      PROVE  SourceSize(t) \in Nat /\ (SourceSize(t) > 0 => resolveData(t) \in DOMAIN mod.globals)
  BY <1>1, <1>4, SizeHeld
<1>5. /\ \A i \in DOMAIN file.funcs : mod.funcs[i] = resolve(file.funcs[i].sym) /\ SigFits(resolve(file.funcs[i].sym))
      /\ \A n : n \in Range(mod.funcs) <=> \E t \in Texts : n = resolve(t)
  BY <1>1, <1>2, FuncsHeld
<1>6. \A n \in Range(mod.funcs) : SigFits(n)
  BY <1>5 DEF Texts
<1>7. QED
  BY <1>1, <1>2, <1>3, <1>4, <1>5, <1>6

\* A function of the file keeps its name; another signature is declared.
LEMMA SignatureIntroduced ==
  ASSUME ControlInv, SymsInv, EmitInv, FuncsInv, stage = "verify", path = "text",
         NEW n, NEW s \in SigsOf(n), s.ret # ""
  PROVE  /\ s = SigOf(n)
         /\ n \in Range(mod.funcs) => funcSigSymbol(n, s) = n
         /\ n \notin Range(mod.funcs) => funcSigSymbol(n, s) \in {d.name : d \in mod.decls}
<1>1. file \in AssemblyFiles /\ mod.decls = Declared /\ \A x \in Range(mod.funcs) : SigFits(x)
  BY IntroducedIs
<1>2. \A x : x \in Range(mod.funcs) <=> \E t \in Texts : x = resolve(t)
  BY IntroducedIs
<1>3. s = SigOf(n) /\ s \in Range(file.sigs) /\ s.key = n
  BY <1>1, OneSignature
<1>4. n \notin Range(mod.funcs) => [key |-> s.key, name |-> funcSigSymbol(s.key, s)] \in mod.decls
  <2>1. SUFFICES ASSUME n \notin Range(mod.funcs) PROVE [key |-> s.key, name |-> funcSigSymbol(s.key, s)] \in Declared
    BY <1>1
  <2>2. s.key \notin {resolve(file.funcs[i].sym) : i \in DOMAIN file.funcs}
    BY <1>2, <1>3, <2>1 DEF Texts
  <2>3. s \in {x \in Range(file.sigs) : x.ret # "" /\ x.key \notin {resolve(file.funcs[i].sym) : i \in DOMAIN file.funcs}}
    BY <1>3, <2>2
  <2>4. QED
    BY <2>3 DEF Declared
<1>5. ASSUME n \notin Range(mod.funcs) PROVE funcSigSymbol(n, s) \in {d.name : d \in mod.decls}
  <2>1. [key |-> s.key, name |-> funcSigSymbol(s.key, s)].name = funcSigSymbol(n, s)
    BY <1>3
  <2>2. QED
    BY <1>4, <1>5, <2>1
<1>6. ASSUME n \in Range(mod.funcs) PROVE funcSigSymbol(n, s) = n
  BY <1>1, <1>3, <1>6 DEF SigFits
<1>7. QED
  BY <1>3, <1>5, <1>6

\* What is introduced twice clashes in the source.
LEMMA IntroducedOnce ==
  ASSUME ControlInv, SymsInv, EmitInv, FuncsInv, stage = "verify", path = "text", ~Clash
  PROVE  /\ IsInjective(mod.funcs) /\ \A d, e \in mod.decls : d.name = e.name => d = e
         /\ \A i, j \in 1 .. 4 : i # j => Introduced[i] \cap Introduced[j] = {}
<1>1. /\ file \in AssemblyFiles /\ AllMerged /\ Parses /\ FuncsAre(Len(file.funcs))
      /\ mod.externs = Needed /\ mod.decls = Declared
      /\ \A n \in DOMAIN mod.globals : \E t \in DataSyms : resolveData(t) = n
      /\ \A n : n \in Range(mod.funcs) <=> \E t \in Texts : n = resolve(t)
      /\ \A n \in Range(mod.funcs) : SigFits(n)
  BY IntroducedIs
<1>2. /\ \A s \in DataSyms : SigsOf(resolveData(s)) = {}
      /\ \A i, j \in DOMAIN file.funcs : i # j => resolve(file.funcs[i].sym) # resolve(file.funcs[j].sym)
      /\ \A s, t \in Range(file.sigs) : s # t => funcSigSymbol(s.key, s) # funcSigSymbol(t.key, t)
      /\ \A s \in Range(file.sigs) : \A t \in DataSyms : s.name # <<resolveData(t)>>
      /\ \A s \in Range(file.sigs) : \A u \in FuncUses : u.how = "addr" /\ s.name = <<resolveData(u.sym)>> => s.name = <<s.key>>
  BY DEF Clash
<1>3. IsInjective(mod.funcs)
  BY <1>1, <1>2, FuncsHeld DEF IsInjective
<1>4. ASSUME NEW d \in mod.decls
      PROVE  \E s \in Range(file.sigs) : /\ d = [key |-> s.key, name |-> funcSigSymbol(s.key, s)]
                                         /\ d.name = funcSigSymbol(s.key, s) /\ s.key \notin Range(mod.funcs)
  <2>1. PICK s \in Range(file.sigs) : d = [key |-> s.key, name |-> funcSigSymbol(s.key, s)] /\ s.key \notin {resolve(file.funcs[i].sym) : i \in DOMAIN file.funcs}
    BY <1>1 DEF Declared
  <2>2. s.key \notin Range(mod.funcs)
    BY <1>1, <2>1 DEF Texts
  <2>3. QED
    BY <2>1, <2>2
<1>5. \A d, e \in mod.decls : d.name = e.name => d = e
  <2>1. SUFFICES ASSUME NEW d \in mod.decls, NEW e \in mod.decls, d.name = e.name PROVE d = e
    OBVIOUS
  <2>2. PICK s \in Range(file.sigs) : d = [key |-> s.key, name |-> funcSigSymbol(s.key, s)] /\ d.name = funcSigSymbol(s.key, s)
    BY <1>4
  <2>3. PICK t \in Range(file.sigs) : e = [key |-> t.key, name |-> funcSigSymbol(t.key, t)] /\ e.name = funcSigSymbol(t.key, t)
    BY <1>4
  <2>4. s = t
    BY <1>2, <2>1, <2>2, <2>3
  <2>5. QED
    BY <2>2, <2>3, <2>4
<1>6. \A s \in Range(file.sigs) : /\ funcSigSymbol(s.key, s) = s.key \/ s.name = <<funcSigSymbol(s.key, s)>>
                                 /\ s \in SigsOf(s.key)
  BY <1>1, OneSignature DEF funcSigSymbol
<1>7. \A n \in Needed : n \notin Defined /\ n \notin SigNames /\ \E u \in FuncUses : u.how = "addr" /\ n = resolveData(u.sym)
  BY DEF Needed
<1>8. \A t \in DataSyms : resolveData(t) \in Defined
  BY DEF DataSyms, Globals, Defined
<1>9. \A t \in Texts : resolve(t) \in Defined
  BY DEF Texts, Defined
<1>10. \A s \in Range(file.sigs) : s.key \in SigNames
  BY DEF SigNames, Range
<1> DEFINE I1 == DOMAIN mod.globals
           I2 == {d.name : d \in mod.decls}
           I3 == mod.externs
           I4 == Range(mod.funcs)
<1>11. I1 \cap I2 = {}
  <2>1. SUFFICES ASSUME NEW n \in I1, NEW d \in mod.decls, n = d.name PROVE FALSE
    OBVIOUS
  <2>2. PICK s \in Range(file.sigs) : d.name = funcSigSymbol(s.key, s)
    BY <1>4
  <2>3. PICK t \in DataSyms : resolveData(t) = n
    BY <1>1
  <2>4. CASE funcSigSymbol(s.key, s) = s.key
    <3>1. s.key = resolveData(t) /\ s \in SigsOf(s.key)
      BY <1>6, <2>1, <2>2, <2>3, <2>4
    <3>2. QED
      BY <1>2, <3>1
  <2>5. CASE s.name = <<funcSigSymbol(s.key, s)>>
    BY <1>2, <1>6, <2>1, <2>2, <2>3, <2>5
  <2>6. QED
    BY <1>6, <2>4, <2>5
<1>12. I1 \cap I3 = {}
  BY <1>1, <1>7, <1>8
<1>13. I1 \cap I4 = {}
  BY <1>1, <1>2 DEF SigFits
<1>14. I2 \cap I3 = {}
  <2>1. SUFFICES ASSUME NEW n \in I3, NEW d \in mod.decls, n = d.name PROVE FALSE
    OBVIOUS
  <2>2. PICK s \in Range(file.sigs) : d.name = funcSigSymbol(s.key, s)
    BY <1>4
  <2>3. PICK u \in FuncUses : u.how = "addr" /\ n = resolveData(u.sym)
    BY <1>1, <1>7
  <2>4. s.key # n
    BY <1>1, <1>7, <1>10
  <2>5. CASE funcSigSymbol(s.key, s) = s.key
    BY <2>1, <2>2, <2>4, <2>5
  <2>6. CASE s.name = <<funcSigSymbol(s.key, s)>>
    <3>1. s.name = <<n>>
      BY <1>6, <2>1, <2>2, <2>6
    <3>2. s.name = <<s.key>>
      BY <1>2, <2>3, <3>1
    <3>3. QED
      BY <2>4, <3>1, <3>2
  <2>7. QED
    BY <1>6, <2>5, <2>6
<1>15. I2 \cap I4 = {}
  <2>1. SUFFICES ASSUME NEW n \in I4, NEW d \in mod.decls, n = d.name PROVE FALSE
    OBVIOUS
  <2>2. PICK s \in Range(file.sigs) : d.name = funcSigSymbol(s.key, s) /\ s.key \notin Range(mod.funcs)
    BY <1>4
  <2>3. SigsOf(n) # {} /\ funcSigSymbol(n, SigOf(n)) = n
    BY <1>1 DEF SigFits
  <2>4. SigOf(n) \in Range(file.sigs) /\ SigOf(n).key = n
    BY <1>1, <2>3, OneSignature
  <2>5. s # SigOf(n)
    BY <2>2, <2>4
  <2>6. QED
    BY <1>2, <2>1, <2>2, <2>3, <2>4, <2>5
<1>16. I3 \cap I4 = {}
  BY <1>1, <1>7, <1>9
<1> HIDE DEF I1, I2, I3, I4
<1>17. Introduced[1] = I1 /\ Introduced[2] = I2 /\ Introduced[3] = I3 /\ Introduced[4] = I4
  BY DEF Introduced, I1, I2, I3, I4
<1>18. \A i, j \in 1 .. 4 : i # j => Introduced[i] \cap Introduced[j] = {}
  <2>1. SUFFICES ASSUME NEW i \in {1, 2, 3, 4}, NEW j \in {1, 2, 3, 4}, i # j PROVE Introduced[i] \cap Introduced[j] = {}
    OBVIOUS
  <2>2. CASE i = 1
    BY <1>11, <1>12, <1>13, <1>17, <2>1, <2>2
  <2>3. CASE i = 2
    BY <1>11, <1>14, <1>15, <1>17, <2>1, <2>3
  <2>4. CASE i = 3
    BY <1>12, <1>14, <1>16, <1>17, <2>1, <2>4
  <2>5. CASE i = 4
    BY <1>13, <1>15, <1>16, <1>17, <2>1, <2>5
  <2>6. QED
    BY <2>1, <2>2, <2>3, <2>4, <2>5
<1>19. QED
  BY <1>3, <1>5, <1>18

\* What is used and nowhere introduced is unbound in the source.
LEMMA UsedUnbound ==
  ASSUME ControlInv, SymsInv, EmitInv, FuncsInv, stage = "verify", path = "text", ~Clash,
         NEW i \in 1 .. Len(file.funcs), NEW u \in file.funcs[i].uses, Lowers(file.funcs[i]),
         Emitted(u) \notin DOMAIN mod.globals, Emitted(u) \notin {d.name : d \in mod.decls},
         Emitted(u) \notin mod.externs, Emitted(u) \notin Range(mod.funcs)
  PROVE  Unbound(u)
<1>1. /\ file \in AssemblyFiles /\ AllMerged /\ Parses /\ FuncsAre(Len(file.funcs))
      /\ mod.externs = Needed /\ mod.decls = Declared
      /\ \A t \in DataSyms : Mixed(t) \/ (SourceSize(t) \in Nat /\ (SourceSize(t) > 0 => resolveData(t) \in DOMAIN mod.globals))
      /\ \A n : n \in Range(mod.funcs) <=> \E t \in Texts : n = resolve(t)
      /\ \A n \in Range(mod.funcs) : SigFits(n)
  BY IntroducedIs
<1>2. i \in DOMAIN file.funcs /\ u.how \in {"call", "tail", "addr", "mem"} /\ u.sym \in Symbols
  BY <1>1, Lengths, FuncTypes
<1>3. \A t \in DataSyms : SourceSize(t) \in Nat /\ (SourceSize(t) > 0 => resolveData(t) \in DOMAIN mod.globals)
  BY <1>1 DEF Clash
<1>4. \A t \in DataSyms \cup Texts : t \in Symbols
  BY <1>1, GloblTypes, DataTypes, FuncTypes DEF DataSyms, Globals, Texts
<1> DEFINE r == resolve(u.sym)
           n == resolveData(u.sym)
\* A jump or a call: the name is that of the signature.
<1>5. ASSUME u.how \in {"call", "tail"}, SigsOf(r) # {} \/ u.how = "tail"
      PROVE  Undeclared(r) /\ ~HasFunction(u.sym)
  <2>1. ASSUME NEW s \in SigsOf(r), s.ret # "" PROVE FALSE
    <3>1. /\ s = SigOf(r)
          /\ r \in Range(mod.funcs) => funcSigSymbol(r, s) = r
          /\ r \notin Range(mod.funcs) => funcSigSymbol(r, s) \in {d.name : d \in mod.decls}
      BY <2>1, SignatureIntroduced
    <3>2. Emitted(u) = funcSigSymbol(r, s)
      BY <1>5, <2>1, <3>1 DEF Emitted
    <3>3. QED
      BY <3>1, <3>2
  <2>2. ASSUME NEW t \in Texts, Denoted(t) = Denoted(u.sym) PROVE FALSE
    <3>1. r \in Range(mod.funcs)
      BY <1>1, <1>2, <1>4, <2>2, SameDenoted
    <3>2. SigsOf(r) # {} /\ SigOf(r).ret # ""
      BY <1>1, <3>1 DEF SigFits
    <3>3. SigOf(r) \in SigsOf(r)
      BY <1>1, <3>2, OneSignature
    <3>4. QED
      BY <2>1, <3>2, <3>3
  <2>3. QED
    BY <2>1, <2>2 DEF Undeclared, HasFunction
<1>6. CASE u.how = "call"
  <2>1. SigsOf(r) # {}
    BY <1>6 DEF Lowers
  <2>2. Undeclared(r)
    BY <1>5, <1>6, <2>1
  <2>3. QED
    BY <1>6, <2>2 DEF Unbound
<1>7. CASE u.how = "tail"
  <2>1. Undeclared(r) /\ ~HasFunction(u.sym)
    BY <1>5, <1>7
  <2>2. QED
    BY <1>7, <2>1 DEF Unbound
<1>8. CASE u.how = "mem"
  <2>1. Emitted(u) = n
    BY <1>8 DEF Emitted
  <2>2. ~HasData(u.sym)
    BY <1>2, <1>3, <1>4, <2>1, SameDenoted DEF HasData
  <2>3. HasFunction(u.sym) => Unqualified(u.sym) /\ ~u.sym.local
    BY <1>1, <1>2, <1>4, <2>1, SameDenoted, OneName DEF HasFunction
  <2>4. QED
    BY <1>8, <2>2, <2>3 DEF Unbound
<1>9. CASE u.how = "addr"
  <2>1. Emitted(u) = n
    BY <1>9 DEF Emitted
  <2>2. SUFFICES ASSUME \A s \in SigsOf(n) : s.ret # "" /\ s.name \in {<<>>, <<s.key>>},
                        \A t \in DataSyms : resolveData(t) = n => SourceSize(t) # 0
                 PROVE  FALSE
    BY <1>9 DEF Unbound
  <2>3. n \in Defined \cup SigNames
    <3>1. u \in FuncUses
      BY <1>2 DEF FuncUses
    <3>2. n \in {resolveData(x.sym) : x \in {x \in FuncUses : x.how = "addr"}}
      BY <1>9, <3>1
    <3>3. QED
      BY <1>1, <2>1, <3>2 DEF Needed
  <2>4. CASE n \in SigNames
    <3>1. PICK s \in Range(file.sigs) : s.key = n
      BY <2>4 DEF SigNames, Range
    <3>2. s \in SigsOf(n) /\ s.ret # "" /\ s.name \in {<<>>, <<n>>}
      BY <2>2, <3>1 DEF SigsOf
    <3>3. funcSigSymbol(n, s) = n
      <4>1. CASE s.name = <<>>
        BY <4>1 DEF funcSigSymbol
      <4>2. CASE s.name = <<n>>
        BY <4>2 DEF funcSigSymbol
      <4>3. QED
        BY <3>2, <4>1, <4>2
    <3>4. n \notin Range(mod.funcs) => funcSigSymbol(n, s) \in {d.name : d \in mod.decls}
      BY <3>2, SignatureIntroduced
    <3>5. QED
      BY <2>1, <3>3, <3>4
  <2>5. CASE n \in Defined
    <3>1. (\E t \in DataSyms : resolveData(t) = n) \/ (\E t \in Texts : resolve(t) = n)
      <4>1. (\E j \in DOMAIN Globls : resolveData(Globls[j].sym) = n) \/ (\E j \in DOMAIN Datas : resolveData(Datas[j].sym) = n)
            \/ \E j \in DOMAIN file.funcs : resolve(file.funcs[j].sym) = n
        BY <2>5 DEF Defined
      <4>2. QED
        BY <4>1 DEF DataSyms, Globals, Texts
    <3>2. ASSUME NEW t \in DataSyms, resolveData(t) = n PROVE FALSE
      <4>1. SourceSize(t) \in Nat /\ SourceSize(t) # 0 /\ (SourceSize(t) > 0 => n \in DOMAIN mod.globals)
        BY <1>3, <2>2, <3>2
      <4>2. QED
        BY <2>1, <4>1
    <3>3. ASSUME NEW t \in Texts, resolve(t) = n PROVE FALSE
      BY <1>1, <2>1, <3>3
    <3>4. QED
      BY <3>1, <3>2, <3>3
  <2>6. QED
    BY <2>3, <2>4, <2>5
<1>10. QED
  BY <1>2, <1>6, <1>7, <1>8, <1>9

\* A text that LLVM does not take.
LEMMA Malformed ==
  ASSUME ControlInv, SymsInv, EmitInv, FuncsInv, stage = "verify", path = "text", ~WellFormed
  PROVE  Excused
<1>1. CASE Clash
  BY <1>1 DEF Excused
<1>2. CASE ~Clash
  <2>1. PICK x \in mod.uses : \A i \in 1 .. 4 : x.name \notin Introduced[i]
    BY <1>2, IntroducedOnce DEF WellFormed
  <2>2. FuncsAre(Len(file.funcs)) /\ file \in AssemblyFiles
    BY IntroducedIs
  <2>3. PICK i \in 1 .. Len(file.funcs) : \E u \in file.funcs[i].uses :
          x = [use |-> u, name |-> Emitted(u)] /\ file.funcs[i].needs = "cfg" /\ Lowers(file.funcs[i])
    BY <2>2 DEF FuncsAre
  <2>4. PICK u \in file.funcs[i].uses : x = [use |-> u, name |-> Emitted(u)]
    BY <2>3
  <2>5. x.name = Emitted(u)
    BY <2>4
  <2>6. /\ Emitted(u) \notin DOMAIN mod.globals /\ Emitted(u) \notin {d.name : d \in mod.decls}
        /\ Emitted(u) \notin mod.externs /\ Emitted(u) \notin Range(mod.funcs)
    <3>1. /\ Introduced[1] = DOMAIN mod.globals /\ Introduced[2] = {d.name : d \in mod.decls}
          /\ Introduced[3] = mod.externs /\ Introduced[4] = Range(mod.funcs)
      BY DEF Introduced
    <3>2. 1 \in 1 .. 4 /\ 2 \in 1 .. 4 /\ 3 \in 1 .. 4 /\ 4 \in 1 .. 4
      OBVIOUS
    <3>3. QED
      BY <2>1, <2>5, <3>1, <3>2
  <2>7. Unbound(u)
    BY <1>2, <2>3, <2>6, UsedUnbound
  <2>8. i \in DOMAIN file.funcs
    BY <2>2, Lengths
  <2>9. QED
    BY <2>3, <2>7, <2>8 DEF Excused
<1>3. QED
  BY <1>1, <1>2

\* A step into an error is taken on a file that is wrong.
LEMMA ErrStep ==
  ASSUME ControlInv, SymsInv, EmitInv, FuncsInv, ANext, result' = "error", path' # "native"
  PROVE  Excused
<1>1. /\ result = "run" /\ file \in AssemblyFiles /\ path # "native"
      /\ stage \in TypedStages(path) /\ path \in {"direct", "text", "native"}
  BY StepsRun DEF ControlInv
<1>2. ~Fallback
  BY <1>1 DEF Fallback
<1>3. CASE Parse
  <2>1. ~Parses \/ (file.globl = <<>> /\ file.data = <<>> /\ file.funcs = <<>>)
    BY <1>1, <1>2, <1>3 DEF Parse
  <2>2. QED
    BY <2>1 DEF Excused, BadData
<1>4. CASE MergeData
  <2>1. at \in DOMAIN Datas /\ ~dataStmtFits(Datas[at]) /\ stage = "data"
    BY <1>1, <1>4 DEF MergeData, Empty, In
  <2>2. Parses
    BY <2>1 DEF ControlInv
  <2>3. ASSUME NEW j \in DOMAIN Datas, ~dataStmtFits(Datas[j]) PROVE BadData
    <3>1. Datas[j].off \in Int /\ Datas[j].width \in Nat \ {0}
      BY <1>1, <2>2, DataTypes
    <3>2. Datas[j].off < 0 \/ Datas[j].off + Datas[j].width > MaxGlobalSize
      BY <2>3, <3>1, AssemblyAssumption DEF dataStmtFits
    <3>3. QED
      BY <3>2 DEF BadData
  <2>4. QED
    BY <2>1, <2>3 DEF Excused
<1>5. CASE BeginGlobal
  <2>1. stage = "emit" /\ \E n \in DOMAIN syms : syms[n].size > MaxGlobalSize
    BY <1>1, <1>5 DEF BeginGlobal, In, Pending
  <2>2. QED
    BY <1>1, <2>1, TooLarge DEF Excused
<1>6. CASE CopyPayload
  <2>1. /\ stage = "emit" /\ cur # <<>>
        /\ \E off \in cur[1].todo : off + Cardinality(DOMAIN syms[cur[1].name].payloads[off]) > Cardinality(DOMAIN cur[1].buf)
    BY <1>1, <1>6 DEF CopyPayload, In
  <2>2. PICK off \in cur[1].todo : off + Cardinality(DOMAIN syms[cur[1].name].payloads[off]) > Cardinality(DOMAIN cur[1].buf)
    BY <2>1
  <2>3. QED
    BY <1>1, <2>1, <2>2, PayloadInside
<1>7. CASE DirectFunc \/ TextFunc
  <2> DEFINE fn == file.funcs[at]
  <2>1. /\ at \in DOMAIN file.funcs
        /\ ~SigFits(resolve(fn.sym)) \/ fn.needs = "raw" \/ (fn.needs = "cfg" /\ ~Lowers(fn))
    BY <1>1, <1>2, <1>7 DEF DirectFunc, TextFunc, AddFunction
  <2>2. CASE ~SigFits(resolve(fn.sym)) \/ fn.needs = "raw"
    <3>1. BadFunction(fn)
      <4> HIDE DEF fn
      <4>1. QED
        BY <1>1, <2>2, UnfitSignature DEF BadFunction
    <3>2. QED
      BY <2>1, <3>1 DEF Excused
  <2>3. CASE fn.needs = "cfg" /\ ~Lowers(fn)
    <3>1. PICK u \in fn.uses : u.how = "call" /\ SigsOf(resolve(u.sym)) = {}
      BY <2>3 DEF Lowers
    <3>2. Unbound(u)
      BY <3>1 DEF Unbound, Undeclared
    <3>3. QED
      BY <2>1, <2>3, <3>2 DEF Excused
  <2>4. QED
    BY <2>1, <2>2, <2>3
<1>8. CASE Verify
  <2>1. stage = "verify" /\ path = "text" /\ ~WellFormed
    BY <1>1, <1>8 DEF Verify, In
  <2>2. QED
    BY <2>1, Malformed
<1>9. CASE DeclareGlobals \/ DeclareFuncs \/ MergeGlobl \/ EndGlobal \/ EndData \/ NoFuncs
  BY <1>1, <1>9 DEF DeclareGlobals, DeclareFuncs, MergeGlobl, EndGlobal, EndData, NoFuncs, Empty
<1>10. CASE Prepare \/ Reserve \/ Initialise \/ NativeFunc
  BY <1>1, <1>10 DEF Prepare, Reserve, Initialise, NativeFunc, Empty, In, TypedStages
<1>11. QED
  BY <1>3, <1>4, <1>5, <1>6, <1>7, <1>8, <1>9, <1>10 DEF ANext

\* What excuses a refusal is in the file.
LEMMA ExcusedKept ==
  ASSUME file' = file
  PROVE  Excused' = Excused
<1>1. /\ Globls' = Globls /\ Datas' = Datas /\ Parses' = Parses /\ DataSyms' = DataSyms /\ Texts' = Texts
      /\ \A n : SigsOf(n)' = SigsOf(n)
  BY Frame
<1>2. FuncUses' = FuncUses
  BY DEF FuncUses
<1>3. \A s : SourceSize(s)' = SourceSize(s)
  <2>1. \A s : Ends(s)' = Ends(s)
    BY <1>1 DEF Ends, StatementsOf
  <2>2. QED
    BY <2>1 DEF SourceSize
<1>4. \A s : Mixed(s)' = Mixed(s)
  BY <1>1 DEF Mixed
<1>5. BadData' = BadData
  BY <1>1, <1>3 DEF BadData
<1>6. \A fn : BadFunction(fn)' = BadFunction(fn)
  BY <1>1 DEF BadFunction
<1>7. \A u : Unbound(u)' = Unbound(u)
  <2>1. \A s : HasFunction(s)' = HasFunction(s) /\ HasData(s)' = HasData(s)
    BY <1>1, <1>3 DEF HasFunction, HasData
  <2>2. \A n : Undeclared(n)' = Undeclared(n)
    BY <1>1 DEF Undeclared
  <2>3. QED
    BY <1>1, <1>3, <2>1, <2>2 DEF Unbound
<1>8. Clash' = Clash
  BY <1>1, <1>2, <1>4 DEF Clash
<1>9. QED
  BY <1>5, <1>6, <1>7, <1>8 DEF Excused

-----------------------------------------------------------------------------
(***************************************************************************)
(* Statements in the order of their offsets.                               *)
(***************************************************************************)
Orders(S) == {o \in [1 .. Cardinality(S) -> S] : \A a, b \in 1 .. Cardinality(S) : a # b => o[a] # o[b]}
Sorted(o) == \A a, b \in DOMAIN o : a < b => Datas[o[a]].off <= Datas[o[b]].off

\* Of finitely many statements one is not before any other.
LEMMA LastStatement ==
  ASSUME NEW S, IsFiniteSet(S), S # {}, \A i \in S : Datas[i].off \in Int
  PROVE  \E i \in S : \A j \in S : Datas[j].off <= Datas[i].off
<1> DEFINE Behind(i) == {j \in S : Datas[j].off > Datas[i].off}
           Counts == {Cardinality(Behind(i)) : i \in S}
<1>1. \A i \in S : IsFiniteSet(Behind(i)) /\ Cardinality(Behind(i)) \in Nat
  <2>1. \A i \in S : Behind(i) \in SUBSET S
    OBVIOUS
  <2> HIDE DEF Behind
  <2>2. QED
    BY <2>1, FS_Subset, FS_CardinalityType
<1>2. PICK c \in Counts : \A m \in Counts : c =< m
  <2>1. Counts \in SUBSET Nat /\ Counts # {}
    BY <1>1
  <2> HIDE DEF Counts
  <2>2. QED
    BY <2>1, LeastElement
<1>3. PICK i \in S : c = Cardinality(Behind(i))
  BY <1>2
<1>4. SUFFICES ASSUME NEW j \in S, Datas[j].off > Datas[i].off PROVE FALSE
  OBVIOUS
<1>5. Behind(j) \in SUBSET Behind(i) /\ j \in Behind(i) /\ j \notin Behind(j)
  BY <1>4
<1>6. Cardinality(Behind(j)) \in Counts
  OBVIOUS
<1> HIDE DEF Behind, Counts
<1>7. Cardinality(Behind(j)) <= Cardinality(Behind(i)) /\ (Cardinality(Behind(i)) = Cardinality(Behind(j)) => Behind(i) = Behind(j))
  BY <1>1, <1>5, FS_Subset
<1>8. Cardinality(Behind(i)) =< Cardinality(Behind(j))
  BY <1>2, <1>3, <1>6
<1>9. QED
  BY <1>1, <1>4, <1>5, <1>7, <1>8

\* So they can be sorted: all but the last, and the last behind them.
LEMMA SortedOrder ==
  ASSUME NEW T, IsFiniteSet(T), \A i \in T : Datas[i].off \in Int
  PROVE  \E o \in Orders(T) : Sorted(o)
<1> DEFINE Bad == {c \in Nat : \E S \in SUBSET T : Cardinality(S) = c /\ ~\E o \in Orders(S) : Sorted(o)}
<1>1. SUFFICES ASSUME Bad # {} PROVE FALSE
  <2>1. Cardinality(T) \in Nat /\ T \in SUBSET T
    BY FS_CardinalityType
  <2>2. QED
    BY <2>1
<1>2. PICK c \in Bad : \A b \in Bad : c =< b
  <2>1. Bad \in SUBSET Nat
    OBVIOUS
  <2> HIDE DEF Bad
  <2>2. QED
    BY <1>1, <2>1, LeastElement
<1>3. PICK S \in SUBSET T : Cardinality(S) = c /\ ~\E o \in Orders(S) : Sorted(o)
  OBVIOUS
<1>4. c \in Nat /\ IsFiniteSet(S)
  BY FS_Subset
<1>5. S # {}
  <2>1. SUFFICES ASSUME S = {} PROVE FALSE
    OBVIOUS
  <2>2. Cardinality(S) = 0 /\ 1 .. 0 = {}
    BY <2>1, FS_EmptySet
  <2>3. [x \in {} |-> 0] \in Orders(S) /\ Sorted([x \in {} |-> 0])
    BY <2>1, <2>2 DEF Orders, Sorted
  <2>4. QED
    BY <1>3, <2>3
<1>6. PICK i \in S : \A j \in S : Datas[j].off <= Datas[i].off
  BY <1>4, <1>5, LastStatement
<1> DEFINE R == S \ {i}
<1>7. IsFiniteSet(R) /\ Cardinality(R) = c - 1 /\ c - 1 \in Nat
  <2>1. IsFiniteSet(R) /\ Cardinality(R) = c - 1
    BY <1>3, <1>4, <1>6, FS_RemoveElement
  <2>2. QED
    BY <2>1, FS_CardinalityType
<1>8. PICK o \in Orders(R) : Sorted(o)
  <2>1. c - 1 \notin Bad
    BY <1>2, <1>4
  <2>2. R \in SUBSET T
    OBVIOUS
  <2> HIDE DEF R
  <2>3. QED
    BY <1>7, <2>1, <2>2
<1> DEFINE p == [a \in 1 .. c |-> IF a = c THEN i ELSE o[a]]
<1>9. /\ o \in [1 .. c - 1 -> R] /\ \A a, b \in 1 .. c - 1 : a # b => o[a] # o[b]
      /\ \A a, b \in 1 .. c - 1 : a < b => Datas[o[a]].off <= Datas[o[b]].off
  BY <1>7, <1>8 DEF Orders, Sorted
<1>10. \A a \in 1 .. c : a = c \/ a \in 1 .. c - 1
  BY <1>4
<1>11. p \in Orders(S)
  <2>1. p \in [1 .. c -> S]
    BY <1>9, <1>10
  <2>2. ASSUME NEW a \in 1 .. c, NEW b \in 1 .. c, a # b PROVE p[a] # p[b]
    BY <1>9, <1>10, <2>2
  <2> HIDE DEF p
  <2>3. QED
    BY <1>3, <2>1, <2>2 DEF Orders
<1>12. Sorted(p)
  <2>1. DOMAIN p = 1 .. c
    OBVIOUS
  <2>2. ASSUME NEW a \in 1 .. c, NEW b \in 1 .. c, a < b PROVE Datas[p[a]].off <= Datas[p[b]].off
    <3>1. a \in 1 .. c - 1 /\ p[a] = o[a] /\ o[a] \in R
      BY <1>4, <1>9, <2>2
    <3>2. CASE b = c
      BY <1>6, <3>1, <3>2
    <3>3. CASE b # c
      <4>1. b \in 1 .. c - 1 /\ p[b] = o[b]
        BY <1>10, <3>3
      <4>2. QED
        BY <1>9, <2>2, <3>1, <4>1
    <3>4. QED
      BY <3>2, <3>3
  <2> HIDE DEF p
  <2>3. QED
    BY <2>1, <2>2 DEF Sorted
<1>13. QED
  BY <1>3, <1>11, <1>12

\* OrderOf takes each statement of a global once, in such an order.
StatementsIn(g) == {i \in DOMAIN Datas : Datas[i].sym = g.sym}
LEMMA OrderIs ==
  ASSUME file \in AssemblyFiles, Parses, NEW g, NEW n, n = Len(DataOf(g))
  PROVE  /\ n \in Nat /\ DOMAIN DataOf(g) = 1 .. n /\ OrderOf(g) \in [1 .. n -> StatementsIn(g)]
         /\ \A a \in 1 .. n : DataOf(g)[a] = Datas[OrderOf(g)[a]]
         /\ \A a, b \in 1 .. n : a < b => DataOf(g)[a].off <= DataOf(g)[b].off
         /\ \A a, b \in 1 .. n : a # b => OrderOf(g)[a] # OrderOf(g)[b]
         /\ \A i \in StatementsIn(g) : \E a \in 1 .. n : OrderOf(g)[a] = i
<1> DEFINE S == StatementsIn(g)
           c == Cardinality(S)
           o == OrderOf(g)
           ds == DataOf(g)
<1>1. /\ DOMAIN Datas = 1 .. Len(file.data) /\ Len(file.data) \in Nat
      /\ \A i \in 1 .. Len(file.data) : Datas[i].off \in Int
  BY DataTypes
<1>2. IsFiniteSet(S) /\ c \in Nat /\ \A i \in S : Datas[i].off \in Int
  <2>1. S \in SUBSET (1 .. Len(file.data))
    BY <1>1 DEF StatementsIn
  <2>2. IsFiniteSet(1 .. Len(file.data))
    <3>1. ASSUME NEW m \in Nat PROVE IsFiniteSet(1 .. m)
      BY FS_Interval
    <3>2. QED
      BY <1>1, <3>1
  <2> HIDE DEF S
  <2>3. IsFiniteSet(S)
    BY <2>1, <2>2, FS_Subset
  <2>4. QED
    BY <1>1, <2>1, <2>3, FS_CardinalityType
<1>3. o \in Orders(S) /\ Sorted(o)
  <2>1. \E x \in Orders(S) : Sorted(x)
    <3> HIDE DEF S
    <3>1. QED
      BY <1>2, SortedOrder
  <2>2. o = CHOOSE x \in Orders(S) : Sorted(x)
    BY DEF OrderOf, SetToSeqs, Orders, Sorted, StatementsIn
  <2>3. QED
    BY <2>1, <2>2
<1>4. /\ o \in [1 .. c -> S] /\ \A a, b \in 1 .. c : a # b => o[a] # o[b]
      /\ \A a, b \in 1 .. c : a < b => Datas[o[a]].off <= Datas[o[b]].off
  BY <1>3 DEF Orders, Sorted
<1>5. ds \in [1 .. c -> {Datas[i] : i \in S}] /\ \A a \in 1 .. c : ds[a] = Datas[o[a]]
  BY <1>4 DEF DataOf
<1>6. Len(ds) = c /\ DOMAIN ds = 1 .. c
  <2> HIDE DEF ds, S, c
  <2>1. ds \in Seq({Datas[i] : i \in S})
    BY <1>2, <1>5
  <2>2. QED
    BY <1>2, <1>5, <2>1
<1>7. \A i \in S : \E a \in 1 .. c : o[a] = i
  <2>1. o \in Injection(1 .. c, S)
    BY <1>4 DEF Injection, IsInjective
  <2>2. IsFiniteSet(1 .. c) /\ Cardinality(1 .. c) = c
    BY <1>2, FS_Interval
  <2> HIDE DEF S, c, o
  <2>3. Cardinality(S) = c
    BY DEF c
  <2>4. o \in Surjection(1 .. c, S)
    BY <1>2, <2>1, <2>2, <2>3, FS_Injection
  <2>5. QED
    BY <2>4 DEF Surjection
<1> HIDE DEF c, o, ds, S
<1>8. QED
  <2>1. n = c
    BY <1>6 DEF ds
  <2>2. n \in Nat /\ DOMAIN ds = 1 .. n /\ o \in [1 .. n -> S]
    BY <1>2, <1>4, <1>6, <2>1
  <2>3. /\ \A a \in 1 .. n : ds[a] = Datas[o[a]]
        /\ \A a, b \in 1 .. n : a < b => ds[a].off <= ds[b].off
        /\ \A a, b \in 1 .. n : a # b => o[a] # o[b]
        /\ \A i \in S : \E a \in 1 .. n : o[a] = i
    BY <1>4, <1>5, <1>7, <2>1
  <2>4. QED
    BY <2>2, <2>3 DEF o, ds, S

-----------------------------------------------------------------------------
(***************************************************************************)
(* The cells of a packed structure.                                        *)
(***************************************************************************)
Inside(ds, size) ==
  /\ Len(ds) \in Nat /\ size \in Nat
  /\ \A i \in 1 .. Len(ds) : /\ ds[i].off \in Int /\ ds[i].width \in Nat \ {0}
                             /\ ds[i].off >= End(ds, i - 1) /\ ds[i].off + ds[i].width <= size
  /\ \A a, b \in 1 .. Len(ds) : a < b => ds[a].off <= ds[b].off
CellSet(ds) == {Plain(0)} \cup UNION {{Field(ds[i])[k] : k \in 1 .. ds[i].width} : i \in 1 .. Len(ds)}
Gap(ds, i) == ds[i].off - End(ds, i - 1)

\* The recursive function of Layout, as TLA+ defines it.
Laid(ds) == CHOOSE laid : laid = [i \in 0 .. Len(ds) |-> IF i = 0 THEN <<>> ELSE laid[i - 1] \o Zeros(Gap(ds, i)) \o Field(ds[i])]
LEMMA LayoutIs ==
  ASSUME NEW ds, NEW size
  PROVE  Layout(ds, size) = Laid(ds)[Len(ds)] \o Zeros(size - End(ds, Len(ds)))
BY DEF Layout, Laid, Gap

\* Statements end one behind the other.
LEMMA EndsGrow ==
  ASSUME NEW ds, NEW size, Inside(ds, size)
  PROVE  /\ End(ds, 0) = 0
         /\ \A i \in 1 .. Len(ds) : End(ds, i) = ds[i].off + ds[i].width
         /\ \A i \in 0 .. Len(ds) : End(ds, i) \in 0 .. size
         /\ \A i \in 1 .. Len(ds) : Gap(ds, i) \in Nat
         /\ \A a, b \in 1 .. Len(ds) : a < b => End(ds, a) <= ds[b].off /\ End(ds, a) <= End(ds, b - 1)
<1>1. End(ds, 0) = 0 /\ \A i \in 1 .. Len(ds) : End(ds, i) = ds[i].off + ds[i].width
  BY DEF End
<1>2. /\ Len(ds) \in Nat /\ size \in Nat
      /\ \A i \in 1 .. Len(ds) : /\ ds[i].off \in Int /\ ds[i].width \in Nat \ {0}
                                 /\ ds[i].off >= End(ds, i - 1) /\ ds[i].off + ds[i].width <= size
      /\ \A a, b \in 1 .. Len(ds) : a < b => ds[a].off <= ds[b].off
  BY DEF Inside
<1>3. ASSUME NEW i \in 1 .. Len(ds) PROVE ds[i].off >= 0
  <2>1. 1 \in 1 .. Len(ds) /\ ds[1].off >= 0
    <3>1. 1 \in 1 .. Len(ds) /\ End(ds, 1 - 1) = 0
      BY <1>1, <1>2
    <3>2. ds[1].off >= End(ds, 1 - 1)
      BY <1>2, <3>1
    <3>3. QED
      BY <3>1, <3>2
  <2>2. i = 1 \/ 1 < i
    BY <1>2
  <2>3. ds[1].off <= ds[i].off /\ ds[1].off \in Int /\ ds[i].off \in Int
    BY <1>2, <2>1, <2>2
  <2>4. QED
    BY <2>1, <2>3
<1>4. ASSUME NEW i \in 1 .. Len(ds) PROVE End(ds, i) \in 0 .. size
  <2>1. ds[i].off \in Int /\ ds[i].off >= 0 /\ ds[i].width \in Nat \ {0} /\ ds[i].off + ds[i].width <= size
    BY <1>2, <1>3
  <2>2. QED
    BY <1>1, <1>2, <2>1
<1>5. \A i \in 0 .. Len(ds) : End(ds, i) \in 0 .. size
  BY <1>1, <1>2, <1>4
<1>6. ASSUME NEW i \in 1 .. Len(ds) PROVE Gap(ds, i) \in Nat
  <2>1. i - 1 \in 0 .. Len(ds)
    BY <1>2
  <2>2. End(ds, i - 1) \in 0 .. size /\ ds[i].off \in Int /\ ds[i].off >= End(ds, i - 1)
    BY <1>2, <1>5, <2>1
  <2>3. QED
    BY <2>2 DEF Gap
<1>7. ASSUME NEW a \in 1 .. Len(ds), NEW b \in 1 .. Len(ds), a < b
      PROVE  End(ds, a) <= ds[b].off
  <2>1. a + 1 \in 1 .. Len(ds) /\ (a + 1) - 1 = a /\ (a + 1 = b \/ a + 1 < b)
    BY <1>2, <1>7
  <2>2. End(ds, a) <= ds[a + 1].off /\ ds[a + 1].off \in Int /\ ds[b].off \in Int /\ End(ds, a) \in Int
    BY <1>2, <1>4, <2>1
  <2>3. ds[a + 1].off <= ds[b].off
    BY <1>2, <2>1, <2>2
  <2>4. QED
    BY <2>2, <2>3
<1>8. ASSUME NEW a \in 1 .. Len(ds), NEW b \in 1 .. Len(ds), a < b
      PROVE  End(ds, a) <= End(ds, b - 1)
  <2>1. b - 1 \in 1 .. Len(ds) /\ (a = b - 1 \/ a < b - 1)
    BY <1>2, <1>8
  <2>2. End(ds, a) \in Int /\ End(ds, b - 1) \in Int /\ End(ds, b - 1) = ds[b - 1].off + ds[b - 1].width
    BY <1>1, <1>4, <2>1
  <2>3. CASE a < b - 1
    <3>1. End(ds, a) <= ds[b - 1].off /\ ds[b - 1].off \in Int /\ ds[b - 1].width \in Nat
      BY <1>2, <1>7, <2>1, <2>3
    <3>2. QED
      BY <2>2, <3>1
  <2>4. QED
    BY <2>1, <2>2, <2>3
<1>9. QED
  BY <1>1, <1>5, <1>6, <1>7, <1>8

\* The parts of a structure are sequences of its cells.
LEMMA Parts ==
  ASSUME NEW ds, NEW size, Inside(ds, size)
  PROVE  /\ \A n \in Nat : /\ Zeros(n) \in Seq(CellSet(ds)) /\ Len(Zeros(n)) = n
                           /\ \A k \in 1 .. n : Zeros(n)[k] = Plain(0)
         /\ \A i \in 1 .. Len(ds) : Field(ds[i]) \in Seq(CellSet(ds)) /\ Len(Field(ds[i])) = ds[i].width
<1>1. ASSUME NEW n \in Nat
      PROVE  /\ Zeros(n) \in Seq(CellSet(ds)) /\ Len(Zeros(n)) = n
             /\ \A k \in 1 .. n : Zeros(n)[k] = Plain(0)
  <2>1. Plain(0) \in CellSet(ds)
    BY DEF CellSet
  <2>2. CASE n = 0
    BY <2>2 DEF Zeros
  <2>3. CASE n # 0
    <3>1. Zeros(n) = [k \in 1 .. n |-> Plain(0)]
      BY <2>3 DEF Zeros
    <3> HIDE DEF CellSet
    <3>2. Zeros(n) \in [1 .. n -> CellSet(ds)]
      BY <2>1, <3>1
    <3>3. QED
      BY <3>1, <3>2
  <2>4. QED
    BY <2>2, <2>3
<1>2. ASSUME NEW i \in 1 .. Len(ds)
      PROVE  Field(ds[i]) \in Seq(CellSet(ds)) /\ Len(Field(ds[i])) = ds[i].width
  <2> DEFINE w == ds[i].width
  <2>1. w \in Nat
    BY DEF Inside
  <2>2. \A k \in 1 .. w : Field(ds[i])[k] \in CellSet(ds)
    BY DEF CellSet
  <2>3. Field(ds[i]) = [k \in 1 .. w |-> Field(ds[i])[k]]
    BY DEF Field
  <2>4. Field(ds[i]) \in [1 .. w -> CellSet(ds)]
    BY <2>2, <2>3
  <2> HIDE DEF w
  <2>5. QED
    BY <2>1, <2>4 DEF w
<1>3. QED
  BY <1>1, <1>2

\* The function exists, and appends a filling and a field at each step.
LEMMA LaidIs ==
  ASSUME NEW ds, NEW size, Inside(ds, size)
  PROVE  /\ Laid(ds) \in [0 .. Len(ds) -> Seq(CellSet(ds))] /\ Laid(ds)[0] = <<>>
         /\ \A i \in 1 .. Len(ds) : Laid(ds)[i] = Laid(ds)[i - 1] \o Zeros(Gap(ds, i)) \o Field(ds[i])
<1> DEFINE n == Len(ds)
           S == Seq(CellSet(ds))
           G == [i \in 1 .. n |-> [x \in S |-> x \o Zeros(Gap(ds, i)) \o Field(ds[i])]]
<1>1. n \in Nat /\ <<>> \in S
  BY DEF Inside
<1>2. ASSUME NEW i \in 1 .. n, NEW x \in S PROVE x \o Zeros(Gap(ds, i)) \o Field(ds[i]) \in S
  <2>1. Zeros(Gap(ds, i)) \in S /\ Field(ds[i]) \in S
    BY Parts, EndsGrow
  <2>2. QED
    BY <2>1
<1>3. G \in Steps(S, n)
  BY <1>2 DEF Steps
<1>4. PICK f : Iterates(f, S, <<>>, n, G)
  <2> HIDE DEF S, G, n
  <2>1. QED
    BY <1>1, <1>3, Recursion
<1>5. f \in [0 .. n -> S] /\ f[0] = <<>> /\ \A i \in 1 .. n : f[i] = G[i][f[i - 1]]
  BY <1>4 DEF Iterates
<1>6. ASSUME NEW i \in 1 .. n PROVE i - 1 \in 0 .. n /\ f[i] = f[i - 1] \o Zeros(Gap(ds, i)) \o Field(ds[i])
  <2>1. i - 1 \in 0 .. n /\ f[i - 1] \in S
    <3> HIDE DEF n, S, G
    <3>1. i - 1 \in 0 .. n
      BY <1>1
    <3>2. QED
      BY <1>5, <3>1
  <2>2. G[i][f[i - 1]] = f[i - 1] \o Zeros(Gap(ds, i)) \o Field(ds[i])
    BY <2>1
  <2>3. QED
    BY <1>5, <2>1, <2>2
<1> HIDE DEF S, G
<1>7. ASSUME NEW i \in 0 .. n PROVE f[i] = IF i = 0 THEN <<>> ELSE f[i - 1] \o Zeros(Gap(ds, i)) \o Field(ds[i])
  <2>1. i = 0 \/ i \in 1 .. n
    BY <1>1
  <2>2. QED
    BY <1>5, <1>6, <2>1
<1>8. f = [i \in 0 .. n |-> IF i = 0 THEN <<>> ELSE f[i - 1] \o Zeros(Gap(ds, i)) \o Field(ds[i])]
  BY <1>5, <1>7
<1>9. Laid(ds) = CHOOSE laid : laid = [i \in 0 .. n |-> IF i = 0 THEN <<>> ELSE laid[i - 1] \o Zeros(Gap(ds, i)) \o Field(ds[i])]
  BY DEF Laid
<1> DEFINE L == Laid(ds)
<1>10. L = [i \in 0 .. n |-> IF i = 0 THEN <<>> ELSE L[i - 1] \o Zeros(Gap(ds, i)) \o Field(ds[i])]
  BY <1>8, <1>9
<1> HIDE DEF L, n
<1>11. L[0] = <<>> /\ DOMAIN L = 0 .. n /\ \A i \in 1 .. n : L[i] = L[i - 1] \o Zeros(Gap(ds, i)) \o Field(ds[i])
  <2>1. DOMAIN L = 0 .. n
    BY <1>10
  <2>2. ASSUME NEW i \in 0 .. n PROVE L[i] = IF i = 0 THEN <<>> ELSE L[i - 1] \o Zeros(Gap(ds, i)) \o Field(ds[i])
    BY <1>10
  <2>3. 0 \in 0 .. n /\ \A i \in 1 .. n : i \in 0 .. n /\ i # 0
    BY <1>1
  <2>4. QED
    BY <2>1, <2>2, <2>3
<1> DEFINE Bad == {i \in 0 .. n : L[i] \notin S}
<1>12. Bad = {}
  <2>1. SUFFICES ASSUME Bad # {} PROVE FALSE
    OBVIOUS
  <2>2. PICK i \in Bad : \A b \in Bad : i =< b
    <3>1. Bad \in SUBSET Nat
      BY <1>1
    <3> HIDE DEF Bad
    <3>2. QED
      BY <2>1, <3>1, LeastElement
  <2>3. i \in 0 .. n /\ L[i] \notin S
    OBVIOUS
  <2>4. i # 0
    BY <1>1, <1>11, <2>3
  <2>5. i \in 1 .. n /\ i - 1 \in 0 .. n /\ ~(i =< i - 1)
    BY <1>1, <2>3, <2>4
  <2>6. L[i - 1] \in S
    BY <2>2, <2>5
  <2>7. QED
    BY <1>2, <1>11, <2>3, <2>5, <2>6
<1>13. L \in [0 .. n -> S]
  BY <1>10, <1>12
<1>14. QED
  BY <1>11, <1>13 DEF L, n, S

\* One sequence behind the other.
LEMMA Concatenation ==
  ASSUME NEW C, NEW s \in Seq(C), NEW t \in Seq(C)
  PROVE  /\ s \o t \in Seq(C) /\ Len(s \o t) = Len(s) + Len(t)
         /\ \A k \in 1 .. Len(s) : (s \o t)[k] = s[k]
         /\ \A k \in 1 .. Len(t) : (s \o t)[Len(s) + k] = t[k]
OBVIOUS

\* A statement that ends before k does not cover it.
LEMMA Beyond ==
  ASSUME NEW e \in Int, NEW k \in Int, NEW o \in Int, NEW v \in Nat, o + v <= e, e <= k
  PROVE  k - o \notin 0 .. v - 1
OBVIOUS

\* The cell at k of the first i statements: of the one that covers it, or
\* zero.
CoveredBy(ds, a, k) == k - ds[a].off \in 0 .. ds[a].width - 1
CellIs(ds, i, k, c) ==
  \/ \E a \in 1 .. i : CoveredBy(ds, a, k) /\ c = Field(ds[a])[k - ds[a].off + 1]
  \/ c = Plain(0) /\ \A a \in 1 .. i : ~CoveredBy(ds, a, k)

\* One statement more: what is before it stays, its gap is zero, its field is
\* its cells.
LEMMA OneMore ==
  ASSUME NEW ds, NEW size, Inside(ds, size), NEW i \in 1 .. Len(ds), NEW L \in Seq(CellSet(ds)),
         Len(L) = End(ds, i - 1), \A k \in 0 .. End(ds, i - 1) - 1 : CellIs(ds, i - 1, k, L[k + 1]),
         NEW M, M = L \o Zeros(Gap(ds, i)) \o Field(ds[i])
  PROVE  Len(M) = End(ds, i) /\ \A k \in 0 .. End(ds, i) - 1 : CellIs(ds, i, k, M[k + 1])
<1> DEFINE e == End(ds, i - 1)
           z == Zeros(Gap(ds, i))
           f == Field(ds[i])
           off == ds[i].off
           w == ds[i].width
           C == CellSet(ds)
<1>1. /\ Len(ds) \in Nat /\ i \in Nat /\ i - 1 \in 0 .. Len(ds) /\ off \in Int /\ w \in Nat \ {0}
      /\ 1 .. i = (1 .. i - 1) \cup {i}
  BY DEF Inside
<1>2. e \in Nat /\ Gap(ds, i) \in Nat /\ Gap(ds, i) = off - e /\ End(ds, i) = off + w
  <2>1. e \in 0 .. size /\ Gap(ds, i) \in Nat /\ End(ds, i) = off + w
    BY <1>1, EndsGrow
  <2>2. QED
    BY <2>1 DEF Gap
<1>3. \A a \in 1 .. i - 1 : End(ds, a) \in Int /\ End(ds, a) <= e /\ End(ds, a) = ds[a].off + ds[a].width /\ ds[a].off \in Int /\ ds[a].width \in Nat
  <2>1. SUFFICES ASSUME NEW a \in 1 .. i - 1
                 PROVE  End(ds, a) \in Int /\ End(ds, a) <= e /\ End(ds, a) = ds[a].off + ds[a].width /\ ds[a].off \in Int /\ ds[a].width \in Nat
    OBVIOUS
  <2>2. a \in 1 .. Len(ds) /\ a \in 0 .. Len(ds) /\ a < i
    BY <1>1
  <2>3. ds[a].off \in Int /\ ds[a].width \in Nat
    BY <2>2 DEF Inside
  <2>4. End(ds, a) \in 0 .. size /\ End(ds, a) <= e /\ End(ds, a) = ds[a].off + ds[a].width
    BY <2>2, EndsGrow
  <2>5. QED
    BY <2>3, <2>4
<1>4. /\ z \in Seq(C) /\ Len(z) = off - e /\ \A k \in 1 .. off - e : z[k] = Plain(0)
      /\ f \in Seq(C) /\ Len(f) = w
  BY <1>2, Parts
<1> HIDE DEF e, z, f, off, w, C
<1>5. L \in Seq(C) /\ Len(L) = e /\ M = (L \o z) \o f
  BY DEF C, e, z, f
<1>n. off - e \in Nat /\ off \in Nat /\ w \in Nat /\ e + (off - e) = off
  BY <1>1, <1>2
<1>6. /\ L \o z \in Seq(C) /\ Len(L \o z) = e + (off - e)
      /\ \A k \in 1 .. e : (L \o z)[k] = L[k]
      /\ \A k \in 1 .. off - e : (L \o z)[e + k] = z[k]
  <2>1. L \in Seq(C) /\ z \in Seq(C)
    BY <1>4, <1>5
  <2>1a. L \o z \in Seq(C)
    BY <2>1, Concatenation
  <2>2. /\ Len(L \o z) = Len(L) + Len(z)
        /\ \A k \in 1 .. Len(L) : (L \o z)[k] = L[k]
        /\ \A k \in 1 .. Len(z) : (L \o z)[Len(L) + k] = z[k]
    <3>1. \A s, t \in Seq(C) :
            /\ Len(s \o t) = Len(s) + Len(t)
            /\ \A k \in 1 .. Len(s) : (s \o t)[k] = s[k]
            /\ \A k \in 1 .. Len(t) : (s \o t)[Len(s) + k] = t[k]
      OBVIOUS
    <3>2. QED
      BY <2>1, <3>1, Zenon
  <2>3. Len(L) = e /\ Len(z) = off - e
    BY <1>4, <1>5
  <2>4. QED
    BY <2>1a, <2>2, <2>3
<1>7. Len(L \o z) = off
  BY <1>6, <1>n
<1>8. /\ Len(M) = off + w
      /\ \A k \in 1 .. off : M[k] = (L \o z)[k]
      /\ \A k \in 1 .. w : M[off + k] = f[k]
  <2>1. L \o z \in Seq(C) /\ f \in Seq(C)
    BY <1>4, <1>6
  <2>2. /\ Len((L \o z) \o f) = Len(L \o z) + Len(f)
        /\ \A k \in 1 .. Len(L \o z) : ((L \o z) \o f)[k] = (L \o z)[k]
        /\ \A k \in 1 .. Len(f) : ((L \o z) \o f)[Len(L \o z) + k] = f[k]
    BY <2>1, Concatenation
  <2>3. Len(f) = w /\ M = (L \o z) \o f
    BY <1>4, <1>5
  <2>4. QED
    BY <1>7, <2>2, <2>3
<1>9. ASSUME NEW k \in 0 .. off + w - 1
      PROVE  CellIs(ds, i, k, M[k + 1])
  <2>0. k \in Int /\ 0 <= k /\ k < off + w
    BY <1>n
  <2>1. CASE k < e
    <3>1. k \in 0 .. e - 1 /\ k + 1 \in 1 .. e /\ k + 1 \in 1 .. off
      BY <1>1, <1>2, <2>0, <2>1
    <3>2. M[k + 1] = L[k + 1]
      BY <1>6, <1>8, <3>1
    <3>3. CellIs(ds, i - 1, k, L[k + 1])
      BY <3>1 DEF e
    <3>4. ~CoveredBy(ds, i, k)
      <4>1. k - off \notin 0 .. w - 1
        BY <1>1, <1>2, <2>0, <2>1
      <4>2. QED
        BY <4>1 DEF CoveredBy, off, w
    <3>5. QED
      BY <1>1, <3>2, <3>3, <3>4 DEF CellIs
  <2>2. CASE e <= k /\ k < off
    <3>1. k + 1 \in 1 .. off /\ (k + 1) - e \in 1 .. off - e /\ e + ((k + 1) - e) = k + 1
      BY <1>1, <1>2, <2>0, <2>2
    <3>2. M[k + 1] = Plain(0)
      <4>1. M[k + 1] = (L \o z)[k + 1]
        BY <1>8, <3>1
      <4>2. (L \o z)[e + ((k + 1) - e)] = z[(k + 1) - e]
        BY <1>6, <3>1
      <4>3. z[(k + 1) - e] = Plain(0)
        BY <1>4, <3>1
      <4>4. QED
        BY <3>1, <4>1, <4>2, <4>3
    <3>3. ASSUME NEW a \in 1 .. i PROVE ~CoveredBy(ds, a, k)
      <4>1. CASE a = i
        <5>1. k - off \notin 0 .. w - 1
          BY <1>1, <2>0, <2>2
        <5>2. QED
          BY <4>1, <5>1 DEF CoveredBy, off, w
      <4>2. CASE a # i
        <5>1. a \in 1 .. i - 1
          BY <1>1, <4>2
        <5>2. PICK o \in Int, v \in Nat : o = ds[a].off /\ v = ds[a].width /\ o + v <= e
          BY <1>3, <5>1
        <5>3. k - o \notin 0 .. v - 1
          <6>1. e \in Int /\ k \in Int /\ e <= k
            BY <1>2, <2>0, <2>2
          <6>2. QED
            BY <6>1, <5>2, Beyond
        <5>4. QED
          BY <5>2, <5>3 DEF CoveredBy
      <4>3. QED
        BY <4>1, <4>2
    <3>4. QED
      BY <3>2, <3>3 DEF CellIs
  <2>3. CASE off <= k
    <3>1. k - off \in 0 .. w - 1 /\ k - off + 1 \in 1 .. w /\ off + (k - off + 1) = k + 1
      BY <1>n, <2>0, <2>3
    <3>2. M[k + 1] = f[k - off + 1]
      BY <1>8, <3>1
    <3>3. CoveredBy(ds, i, k) /\ i \in 1 .. i
      BY <1>1, <3>1 DEF CoveredBy, off, w
    <3>4. QED
      BY <3>2, <3>3 DEF CellIs, f, off
  <2>4. k < e \/ (e <= k /\ k < off) \/ off <= k
    BY <1>2, <1>n, <2>0
  <2>5. QED
    BY <2>1, <2>2, <2>3, <2>4
<1>10. QED
  <2>1. End(ds, i) = off + w
    BY <1>2
  <2>2. Len(M) = off + w
    BY <1>8
  <2>3. \A k \in 0 .. off + w - 1 : CellIs(ds, i, k, M[k + 1])
    BY <1>9
  <2>4. \A k \in 0 .. End(ds, i) - 1 : CellIs(ds, i, k, M[k + 1])
    <3>1. SUFFICES ASSUME NEW k \in 0 .. End(ds, i) - 1 PROVE CellIs(ds, i, k, M[k + 1])
      OBVIOUS
    <3>2. k \in 0 .. off + w - 1
      BY <1>n, <2>1
    <3>3. QED
      BY <2>3, <3>2
  <2>5. QED
    BY <2>1, <2>2, <2>4, Zenon

LEMMA LaidCells ==
  ASSUME NEW ds, NEW size, Inside(ds, size), NEW i \in 0 .. Len(ds)
  PROVE  Len(Laid(ds)[i]) = End(ds, i) /\ \A k \in 0 .. End(ds, i) - 1 : CellIs(ds, i, k, Laid(ds)[i][k + 1])
<1> DEFINE Good(j) == Len(Laid(ds)[j]) = End(ds, j) /\ \A k \in 0 .. End(ds, j) - 1 : CellIs(ds, j, k, Laid(ds)[j][k + 1])
           Bad == {j \in 0 .. Len(ds) : ~Good(j)}
<1>1. SUFFICES ASSUME Bad # {} PROVE FALSE
  OBVIOUS
<1>2. Len(ds) \in Nat
  BY DEF Inside
<1>3. PICK j \in Bad : \A b \in Bad : j =< b
  <2>1. Bad \in SUBSET Nat
    BY <1>2
  <2> HIDE DEF Bad
  <2>2. QED
    BY <1>1, <2>1, LeastElement
<1>4. j \in 0 .. Len(ds) /\ ~Good(j)
  OBVIOUS
<1>5. /\ Laid(ds) \in [0 .. Len(ds) -> Seq(CellSet(ds))] /\ Laid(ds)[0] = <<>>
      /\ \A m \in 1 .. Len(ds) : Laid(ds)[m] = Laid(ds)[m - 1] \o Zeros(Gap(ds, m)) \o Field(ds[m])
  BY LaidIs
<1>6. CASE j = 0
  <2>1. End(ds, 0) = 0 /\ Len(Laid(ds)[0]) = 0
    BY <1>5, EndsGrow
  <2>2. Good(0)
    BY <2>1
  <2>3. QED
    BY <1>4, <1>6, <2>2
<1>7. CASE j # 0
  <2>1. j \in 1 .. Len(ds) /\ j - 1 \in 0 .. Len(ds) /\ ~(j =< j - 1)
    BY <1>2, <1>4, <1>7
  <2>2. Good(j - 1)
    BY <1>3, <2>1
  <2>3. Laid(ds)[j - 1] \in Seq(CellSet(ds)) /\ Laid(ds)[j] = Laid(ds)[j - 1] \o Zeros(Gap(ds, j)) \o Field(ds[j])
    BY <1>5, <2>1
  <2>4. Good(j)
    BY <2>1, <2>2, <2>3, OneMore
  <2>5. QED
    BY <1>4, <2>4
<1>8. QED
  BY <1>6, <1>7

\* The structure has the size of the global, and the cells of its statements.
LEMMA LayoutCells ==
  ASSUME NEW ds, NEW size, Inside(ds, size)
  PROVE  /\ Len(Layout(ds, size)) = size
         /\ \A k \in 0 .. size - 1 : CellIs(ds, Len(ds), k, Layout(ds, size)[k + 1])
<1> DEFINE n == Len(ds)
           L == Laid(ds)[n]
           e == End(ds, n)
           z == Zeros(size - e)
           C == CellSet(ds)
<1>1. n \in Nat /\ size \in Nat /\ n \in 0 .. n
  BY DEF Inside
<1>2. L \in Seq(C) /\ Len(L) = e /\ \A k \in 0 .. e - 1 : CellIs(ds, n, k, L[k + 1])
  <2>1. L \in Seq(C)
    BY <1>1, LaidIs
  <2>2. QED
    BY <1>1, <2>1, LaidCells
<1>3. e \in 0 .. size /\ size - e \in Nat
  <2>1. e \in 0 .. size
    BY <1>1, EndsGrow
  <2> HIDE DEF e
  <2>2. QED
    BY <1>1, <2>1
<1>4. z \in Seq(C) /\ Len(z) = size - e /\ \A k \in 1 .. size - e : z[k] = Plain(0)
  BY <1>3, Parts
<1>5. Layout(ds, size) = L \o z
  BY LayoutIs
<1>6. \A a \in 1 .. n : ds[a].off + ds[a].width <= e /\ ds[a].off \in Int /\ ds[a].width \in Nat
  <2>1. SUFFICES ASSUME NEW a \in 1 .. n PROVE ds[a].off + ds[a].width <= e /\ ds[a].off \in Int /\ ds[a].width \in Nat
    OBVIOUS
  <2>2. ds[a].off \in Int /\ ds[a].width \in Nat /\ End(ds, a) = ds[a].off + ds[a].width
    BY EndsGrow DEF Inside
  <2>3. CASE a = n
    BY <2>2, <2>3
  <2>4. CASE a # n
    <3>1. a < n /\ n \in 1 .. Len(ds)
      BY <1>1, <2>4
    <3>2. End(ds, a) <= ds[n].off /\ End(ds, n) = ds[n].off + ds[n].width /\ ds[n].off \in Int /\ ds[n].width \in Nat
      BY <3>1, EndsGrow DEF Inside
    <3>3. QED
      BY <2>2, <3>2
  <2>5. QED
    BY <2>3, <2>4
<1> HIDE DEF n, L, e, z, C
<1>n. e \in Nat /\ e + (size - e) = size
  BY <1>1, <1>3
<1>7. /\ Len(L \o z) = e + (size - e)
      /\ \A k \in 1 .. e : (L \o z)[k] = L[k]
      /\ \A k \in 1 .. size - e : (L \o z)[e + k] = z[k]
  <2>1. L \in Seq(C) /\ z \in Seq(C)
    BY <1>2, <1>4
  <2>2. /\ Len(L \o z) = Len(L) + Len(z)
        /\ \A k \in 1 .. Len(L) : (L \o z)[k] = L[k]
        /\ \A k \in 1 .. Len(z) : (L \o z)[Len(L) + k] = z[k]
    BY <2>1, Concatenation
  <2>3. Len(L) = e /\ Len(z) = size - e
    BY <1>2, <1>4
  <2>4. QED
    BY <2>2, <2>3
<1>8. Len(L \o z) = size
  BY <1>7, <1>n
<1>9. ASSUME NEW k \in 0 .. size - 1 PROVE CellIs(ds, n, k, (L \o z)[k + 1])
  <2>0. k \in Int /\ 0 <= k /\ k < size
    BY <1>1
  <2>1. CASE k < e
    <3>1. k \in 0 .. e - 1 /\ k + 1 \in 1 .. e
      BY <1>n, <2>0, <2>1
    <3>2. QED
      BY <1>2, <1>7, <3>1
  <2>2. CASE e <= k
    <3>1. (k + 1) - e \in 1 .. size - e /\ e + ((k + 1) - e) = k + 1
      BY <1>1, <1>n, <2>0, <2>2
    <3>2. (L \o z)[k + 1] = Plain(0)
      <4>1. (L \o z)[e + ((k + 1) - e)] = z[(k + 1) - e]
        BY <1>7, <3>1
      <4>2. z[(k + 1) - e] = Plain(0)
        BY <1>4, <3>1
      <4>3. QED
        BY <3>1, <4>1, <4>2
    <3>3. ASSUME NEW a \in 1 .. n PROVE ~CoveredBy(ds, a, k)
      <4>1. PICK o \in Int, v \in Nat : o = ds[a].off /\ v = ds[a].width /\ o + v <= e
        BY <1>6
      <4>2. k - o \notin 0 .. v - 1
        BY <1>n, <2>0, <2>2, <4>1, Beyond
      <4>3. QED
        BY <4>1, <4>2 DEF CoveredBy
    <3>4. QED
      BY <3>2, <3>3 DEF CellIs
  <2>3. k < e \/ e <= k
    BY <1>n, <2>0
  <2>4. QED
    BY <2>1, <2>2, <2>3
<1>10. QED
  BY <1>5, <1>8, <1>9 DEF n

-----------------------------------------------------------------------------
(***************************************************************************)
(* Native modules: what prepareNativeSource has found holds while globals  *)
(* are reserved and initialised, and each holds what its statements give.  *)
(***************************************************************************)
NativeReady ==
  /\ NativeStatements
  /\ \A i \in 1 .. Len(file.globl) : NativeGlobl(Globls[i]) /\ Apart(Globls[i])
  /\ \A i, j \in 1 .. Len(file.globl) : Globls[i].sym = Globls[j].sym => i = j
  /\ \A i \in 1 .. Len(file.data) : Datas[i].sym \in Globals
Reserved ==
  CASE stage = "reserve" -> at - 1
    [] stage \in {"parse", "prepare"} -> 0
    [] OTHER -> Len(file.globl)
Initialised ==
  CASE stage = "initialise" -> at - 1
    [] stage \in {"parse", "prepare", "reserve"} -> 0
    [] OTHER -> Len(file.globl)

\* The cells of a global, by the statement that covers each.
HoldsAt(i, k, c) == k - Datas[i].off \in 0 .. Datas[i].width - 1 /\ c = Field(Datas[i])[k - Datas[i].off + 1]
NativeCells(g, cells) ==
  /\ IsFunction(cells) /\ DOMAIN cells = 0 .. g.size - 1
  /\ \A k \in 0 .. g.size - 1 :
       \/ \E i \in StatementsIn(g) : HoldsAt(i, k, cells[k])
       \/ cells[k] = Plain(0) /\ \A i \in StatementsIn(g) : k - Datas[i].off \notin 0 .. Datas[i].width - 1
GlobalFor(i) == mod.globals[resolve(Globls[i].sym)]
NativeGlobals(n, m) ==
  /\ DOMAIN mod.globals = {resolve(Globls[i].sym) : i \in 1 .. n}
  /\ \A i \in 1 .. n : DOMAIN GlobalFor(i) = {"cells", "const", "align"} /\ GlobalFor(i).const = ("RODATA" \in Globls[i].flags)
  /\ \A i \in 1 .. m : NativeCells(Globls[i], GlobalFor(i).cells)
NativeInv ==
  path = "native" =>
    /\ stage \notin {"parse", "prepare"} => NativeReady
    /\ \A n, m : n = Reserved /\ m = Initialised => NativeGlobals(n, m)

\* What depends on the file alone.
LEMMA NativeFrame ==
  ASSUME file' = file
  PROVE  /\ NativeReady' = NativeReady
         /\ \A i, k, c : HoldsAt(i, k, c)' = HoldsAt(i, k, c)
         /\ \A g : StatementsIn(g)' = StatementsIn(g)
<1>1. Globls' = Globls /\ Datas' = Datas /\ Texts' = Texts /\ Globals' = Globals
  BY Frame DEF Globals
<1>2. \A g : StatementsIn(g)' = StatementsIn(g)
  BY <1>1 DEF StatementsIn
<1>3. \A s : Target(s)' = Target(s)
  BY <1>1 DEF Target
<1>4. \A d : Field(d)' = Field(d)
  BY <1>3 DEF Field
<1>5. \A i, k, c : HoldsAt(i, k, c)' = HoldsAt(i, k, c)
  BY <1>1, <1>4 DEF HoldsAt
<1>6. \A g : OrderOf(g)' = OrderOf(g)
  BY <1>1 DEF OrderOf
<1>7. \A g : DataOf(g)' = DataOf(g)
  BY <1>1, <1>6 DEF DataOf
<1>8. \A g : Apart(g)' = Apart(g)
  BY <1>7 DEF Apart
<1>9. \A g : NativeGlobl(g)' = NativeGlobl(g)
  BY DEF NativeGlobl
<1>10. NativeReady' = NativeReady
  <2>1. NativeStatements' = NativeStatements
    BY DEF NativeStatements
  <2>2. QED
    BY <1>1, <1>8, <2>1 DEF NativeReady, NativeGlobl
<1>11. QED
  BY <1>2, <1>5, <1>10

\* A global of native assembly is one symbol.
LEMMA NativeNames ==
  ASSUME NEW s \in Symbols, NEW t \in Symbols, s.form = "dot", t.form = "dot",
         resolve(s) = resolve(t) \/ Denoted(s) = Denoted(t)
  PROVE  s = t
<1>1. s.name = t.name /\ s.local = t.local
  BY SameResolved, SameDenoted
<1>2. /\ s = [form |-> s.form, pkg |-> s.pkg, name |-> s.name, local |-> s.local] /\ s.pkg = ""
      /\ t = [form |-> t.form, pkg |-> t.pkg, name |-> t.name, local |-> t.local] /\ t.pkg = ""
  BY SymbolForms
<1>3. QED
  BY <1>1, <1>2

\* The statements of a global are inside it, one behind the other.
LEMMA ApartInside ==
  ASSUME file \in AssemblyFiles, Parses, NEW g, Apart(g), g.size \in Nat
  PROVE  Inside(DataOf(g), g.size)
<1> DEFINE n == Len(DataOf(g))
           ds == DataOf(g)
<1>1. /\ n \in Nat /\ DOMAIN ds = 1 .. n /\ OrderOf(g) \in [1 .. n -> StatementsIn(g)]
      /\ \A a \in 1 .. n : ds[a] = Datas[OrderOf(g)[a]]
      /\ \A a, b \in 1 .. n : a < b => ds[a].off <= ds[b].off
  BY OrderIs
<1>2. ASSUME NEW a \in 1 .. n PROVE ds[a].off \in Int /\ ds[a].width \in Nat \ {0}
  <2>1. OrderOf(g)[a] \in 1 .. Len(file.data)
    BY <1>1, DataTypes DEF StatementsIn
  <2>2. QED
    BY <1>1, <2>1, DataTypes
<1>3. ASSUME NEW a \in 1 .. n PROVE ds[a].off >= End(ds, a - 1) /\ ds[a].off + ds[a].width <= g.size
  <2>1. ds[a].off >= End(ds, a - 1) /\ ds[a].width <= g.size - ds[a].off
    BY <1>1 DEF Apart
  <2>2. ds[a].off \in Int /\ ds[a].width \in Nat
    BY <1>2
  <2> HIDE DEF ds
  <2>3. QED
    BY <2>1, <2>2
<1> HIDE DEF ds
<1>4. QED
  BY <1>1, <1>2, <1>3 DEF Inside, n, ds

\* What is laid out for a global is what its statements give.
LEMMA LaidOut ==
  ASSUME file \in AssemblyFiles, Parses, NEW g, Apart(g), g.size \in Nat, NEW L, L = Layout(DataOf(g), g.size)
  PROVE  NativeCells(g, [k \in 0 .. Len(L) - 1 |-> L[k + 1]])
<1> DEFINE n == Len(DataOf(g))
           ds == DataOf(g)
           cells == [k \in 0 .. Len(L) - 1 |-> L[k + 1]]
<1>1. /\ OrderOf(g) \in [1 .. n -> StatementsIn(g)]
      /\ \A a \in 1 .. n : ds[a] = Datas[OrderOf(g)[a]]
      /\ \A i \in StatementsIn(g) : \E a \in 1 .. n : OrderOf(g)[a] = i
  <2> HIDE DEF n
  <2>1. n = Len(DataOf(g))
    BY DEF n
  <2>2. QED
    BY <2>1, OrderIs
<1>2. Len(L) = g.size /\ \A k \in 0 .. g.size - 1 : CellIs(ds, n, k, L[k + 1])
  BY ApartInside, LayoutCells
<1>3. IsFunction(cells) /\ DOMAIN cells = 0 .. g.size - 1 /\ \A k \in 0 .. g.size - 1 : cells[k] = L[k + 1]
  BY <1>2 DEF IsFunction
<1> HIDE DEF n, ds, cells
<1>4. ASSUME NEW k \in 0 .. g.size - 1
      PROVE  \/ \E i \in StatementsIn(g) : HoldsAt(i, k, cells[k])
             \/ cells[k] = Plain(0) /\ \A i \in StatementsIn(g) : k - Datas[i].off \notin 0 .. Datas[i].width - 1
  <2>1. CellIs(ds, n, k, cells[k])
    BY <1>2, <1>3
  <2>2. CASE \E a \in 1 .. n : CoveredBy(ds, a, k) /\ cells[k] = Field(ds[a])[k - ds[a].off + 1]
    <3>1. PICK a \in 1 .. n : CoveredBy(ds, a, k) /\ cells[k] = Field(ds[a])[k - ds[a].off + 1]
      BY <2>2
    <3>2. OrderOf(g)[a] \in StatementsIn(g) /\ ds[a] = Datas[OrderOf(g)[a]]
      BY <1>1
    <3>3. HoldsAt(OrderOf(g)[a], k, cells[k])
      BY <3>1, <3>2 DEF HoldsAt, CoveredBy
    <3>4. QED
      BY <3>2, <3>3
  <2>3. CASE cells[k] = Plain(0) /\ \A a \in 1 .. n : ~CoveredBy(ds, a, k)
    <3>1. ASSUME NEW i \in StatementsIn(g) PROVE k - Datas[i].off \notin 0 .. Datas[i].width - 1
      <4>1. PICK a \in 1 .. n : OrderOf(g)[a] = i
        BY <1>1
      <4>2. ds[a] = Datas[i] /\ ~CoveredBy(ds, a, k)
        BY <1>1, <2>3, <4>1
      <4>3. QED
        BY <4>2 DEF CoveredBy
    <3>2. QED
      BY <2>3, <3>1
  <2>4. QED
    BY <2>1, <2>2, <2>3 DEF CellIs
<1>5. NativeCells(g, cells)
  BY <1>3, <1>4 DEF NativeCells
<1>6. QED
  BY <1>5 DEF cells

LEMMA NativeStart == AInit => NativeInv
<1> SUFFICES ASSUME AInit PROVE NativeInv
  OBVIOUS
<1>1. stage = "parse" /\ DOMAIN mod.globals = {}
  BY DEF AInit, EmptyModule, EmptyMap
<1>2. Reserved = 0 /\ Initialised = 0
  BY <1>1 DEF Reserved, Initialised
<1>3. NativeGlobals(0, 0)
  BY <1>1 DEF NativeGlobals
<1>4. QED
  BY <1>1, <1>2, <1>3 DEF NativeInv

\* What is left alone stays what it was.
LEMMA NativeKept ==
  ASSUME file' = file, mod'.globals = mod.globals, NEW n, NEW m
  PROVE  NativeGlobals(n, m)' = NativeGlobals(n, m)
<1>1. Globls' = Globls /\ Datas' = Datas
  BY Frame
<1>2. \A i : GlobalFor(i)' = GlobalFor(i)
  BY <1>1 DEF GlobalFor
<1>3. \A i, k, c : HoldsAt(i, k, c)' = HoldsAt(i, k, c)
  BY NativeFrame
<1>4. \A g : StatementsIn(g)' = StatementsIn(g)
  BY NativeFrame
<1>5. \A g, cells : NativeCells(g, cells)' = NativeCells(g, cells)
  BY <1>1, <1>3, <1>4 DEF NativeCells
<1>6. QED
  BY <1>1, <1>2, <1>5 DEF NativeGlobals

\* Reserving one more global.
LEMMA ReserveStep ==
  ASSUME ControlInv, path = "native", NativeReady, Parses, NEW n \in Nat, n + 1 \in 1 .. Len(file.globl),
         NativeGlobals(n, 0), file' = file,
         mod' = [mod EXCEPT !.globals = Put(@, resolve(Globls[n + 1].sym),
                   [cells |-> <<>>, const |-> "RODATA" \in Globls[n + 1].flags, align |-> 8])]
  PROVE  NativeGlobals(n + 1, 0)'
<1> DEFINE x == resolve(Globls[n + 1].sym)
           r == [cells |-> <<>>, const |-> "RODATA" \in Globls[n + 1].flags, align |-> 8]
           N == Len(file.globl)
<1>1. Globls' = Globls /\ N \in Nat /\ \A i \in 1 .. N : Globls[i].sym \in Symbols
  BY Frame, GloblTypes DEF ControlInv
<1>2. "globals" \in DOMAIN mod
  BY DEF ControlInv
<1>3. mod'.globals = Put(mod.globals, x, r)
  BY <1>2
<1> HIDE DEF r
<1>4. DOMAIN mod'.globals = DOMAIN mod.globals \cup {x} /\ mod'.globals[x] = r
      /\ \A y \in DOMAIN mod.globals : y # x => mod'.globals[y] = mod.globals[y]
  BY <1>3 DEF Put
<1>5. \A i \in 1 .. n : i \in 1 .. N /\ resolve(Globls[i].sym) \in DOMAIN mod.globals
  BY <1>1 DEF NativeGlobals
<1>6. ASSUME NEW i \in 1 .. n PROVE resolve(Globls[i].sym) # x
  <2>1. i \in 1 .. N /\ i # n + 1
    BY <1>5
  <2>2. Globls[i].sym.form = "dot" /\ Globls[n + 1].sym.form = "dot"
    BY <2>1 DEF NativeReady, NativeGlobl
  <2>3. Globls[i].sym # Globls[n + 1].sym
    BY <2>1 DEF NativeReady
  <2>4. QED
    BY <1>1, <2>1, <2>2, <2>3, NativeNames
<1> HIDE DEF x
<1>7. DOMAIN mod'.globals = {resolve(Globls[i].sym) : i \in 1 .. n + 1}
  <2>1. DOMAIN mod.globals = {resolve(Globls[i].sym) : i \in 1 .. n}
    BY DEF NativeGlobals
  <2>2. 1 .. n + 1 = (1 .. n) \cup {n + 1}
    OBVIOUS
  <2>3. QED
    BY <1>4, <2>1, <2>2 DEF x
<1>8. ASSUME NEW i \in 1 .. n + 1
      PROVE  DOMAIN mod'.globals[resolve(Globls[i].sym)] = {"cells", "const", "align"}
             /\ mod'.globals[resolve(Globls[i].sym)].const = ("RODATA" \in Globls[i].flags)
  <2>1. CASE i = n + 1
    <3>1. mod'.globals[resolve(Globls[i].sym)] = r
      BY <1>4, <2>1 DEF x
    <3>2. QED
      BY <2>1, <3>1 DEF r
  <2>2. CASE i # n + 1
    <3>1. i \in 1 .. n
      BY <2>2
    <3>2. mod'.globals[resolve(Globls[i].sym)] = GlobalFor(i)
      BY <1>4, <1>5, <1>6, <3>1 DEF GlobalFor
    <3>3. QED
      BY <3>1, <3>2 DEF NativeGlobals
  <2>3. QED
    BY <2>1, <2>2
<1> DEFINE h(i) == mod'.globals[resolve(Globls[i].sym)]
<1>9. \A i : GlobalFor(i)' = h(i)
  BY <1>1 DEF GlobalFor
<1>10. \A i \in 1 .. n + 1 : DOMAIN h(i) = {"cells", "const", "align"} /\ h(i).const = ("RODATA" \in Globls[i].flags)
  BY <1>8
<1> HIDE DEF h
<1>11. 1 .. 0 = {}
  OBVIOUS
<1>12. QED
  BY <1>1, <1>7, <1>9, <1>10, <1>11 DEF NativeGlobals

\* Initialising one more.
LEMMA InitialiseStep ==
  ASSUME ControlInv, path = "native", NativeReady, Parses, NEW m \in Nat, m + 1 \in 1 .. Len(file.globl),
         NativeGlobals(Len(file.globl), m), file' = file,
         NEW L, L = Layout(DataOf(Globls[m + 1]), Globls[m + 1].size),
         mod' = [mod EXCEPT !.globals[resolve(Globls[m + 1].sym)].cells = [k \in 0 .. Len(L) - 1 |-> L[k + 1]]],
         NEW n, n = Len(file.globl)
  PROVE  NativeGlobals(n, m + 1)'
<1> DEFINE x == resolve(Globls[m + 1].sym)
           c == [k \in 0 .. Len(L) - 1 |-> L[k + 1]]
<1>1. Globls' = Globls /\ Datas' = Datas /\ n \in Nat /\ file \in AssemblyFiles
      /\ \A i \in 1 .. n : Globls[i].sym \in Symbols /\ Globls[i].size \in Nat
  BY Frame, GloblTypes DEF ControlInv
<1>2. NativeCells(Globls[m + 1], c)
  BY <1>1, LaidOut DEF NativeReady
<1>3. /\ "globals" \in DOMAIN mod /\ DOMAIN mod.globals = {resolve(Globls[i].sym) : i \in 1 .. n}
      /\ \A i \in 1 .. n : DOMAIN GlobalFor(i) = {"cells", "const", "align"} /\ GlobalFor(i).const = ("RODATA" \in Globls[i].flags)
      /\ \A i \in 1 .. m : NativeCells(Globls[i], GlobalFor(i).cells)
  BY DEF ControlInv, NativeGlobals
<1> HIDE DEF c
<1>4. mod' = [mod EXCEPT !.globals[x].cells = c]
  BY DEF c
<1>5. mod'.globals = [mod.globals EXCEPT ![x] = [mod.globals[x] EXCEPT !.cells = c]]
  BY <1>3, <1>4
<1>6. x \in DOMAIN mod.globals /\ GlobalFor(m + 1) = mod.globals[x]
  BY <1>3 DEF GlobalFor
<1>7. /\ DOMAIN mod'.globals = DOMAIN mod.globals /\ mod'.globals[x] = [mod.globals[x] EXCEPT !.cells = c]
      /\ \A y \in DOMAIN mod.globals : y # x => mod'.globals[y] = mod.globals[y]
  BY <1>5, <1>6
<1>8. DOMAIN mod.globals[x] = {"cells", "const", "align"} /\ mod.globals[x].const = ("RODATA" \in Globls[m + 1].flags)
  BY <1>3, <1>6
<1>9. DOMAIN mod'.globals[x] = {"cells", "const", "align"} /\ mod'.globals[x].cells = c
      /\ mod'.globals[x].const = ("RODATA" \in Globls[m + 1].flags)
  BY <1>7, <1>8
<1>10. ASSUME NEW i \in 1 .. n, i # m + 1 PROVE mod'.globals[resolve(Globls[i].sym)] = GlobalFor(i)
  <2>1. Globls[i].sym.form = "dot" /\ Globls[m + 1].sym.form = "dot"
    BY DEF NativeReady, NativeGlobl
  <2>2. Globls[i].sym # Globls[m + 1].sym
    BY <1>10 DEF NativeReady
  <2>3. resolve(Globls[i].sym) # x
    BY <1>1, <2>1, <2>2, NativeNames
  <2>4. resolve(Globls[i].sym) \in DOMAIN mod.globals
    BY <1>3
  <2> HIDE DEF x
  <2>5. QED
    BY <1>7, <2>3, <2>4 DEF GlobalFor
<1> DEFINE h(i) == mod'.globals[resolve(Globls[i].sym)]
<1>11. h(m + 1) = mod'.globals[x]
  OBVIOUS
<1> HIDE DEF x
<1>12. ASSUME NEW i \in 1 .. n PROVE DOMAIN h(i) = {"cells", "const", "align"} /\ h(i).const = ("RODATA" \in Globls[i].flags)
  <2>1. CASE i = m + 1
    BY <1>9, <1>11, <2>1
  <2>2. CASE i # m + 1
    <3>1. h(i) = GlobalFor(i)
      BY <1>10, <2>2
    <3>2. QED
      BY <1>3, <3>1
  <2>3. QED
    BY <2>1, <2>2
<1>13. ASSUME NEW i \in 1 .. m + 1 PROVE NativeCells(Globls[i], h(i).cells)
  <2>1. CASE i = m + 1
    BY <1>2, <1>9, <1>11, <2>1
  <2>2. CASE i # m + 1
    <3>1. i \in 1 .. m /\ i \in 1 .. n
      BY <2>2
    <3>2. h(i) = GlobalFor(i)
      BY <1>10, <2>2, <3>1
    <3>3. QED
      BY <1>3, <3>1, <3>2
  <2>3. QED
    BY <2>1, <2>2
<1>14. \A i : GlobalFor(i)' = h(i)
  BY <1>1 DEF GlobalFor
<1> HIDE DEF h
<1>15. \A g, cells : NativeCells(g, cells)' = NativeCells(g, cells)
  <2>1. \A i, k, v : HoldsAt(i, k, v)' = HoldsAt(i, k, v)
    BY NativeFrame
  <2>2. \A g : StatementsIn(g)' = StatementsIn(g)
    BY NativeFrame
  <2>3. QED
    BY <1>1, <2>1, <2>2 DEF NativeCells
<1>16. DOMAIN mod'.globals = {resolve(Globls[i].sym) : i \in 1 .. n}
  BY <1>3, <1>7
<1>17. QED
  BY <1>1, <1>12, <1>13, <1>14, <1>15, <1>16 DEF NativeGlobals

LEMMA NativeStep ==
  ASSUME ControlInv, NativeInv, ANext
  PROVE  NativeInv'
<1>1. /\ file' = file /\ result = "run"
      /\ path' = path \/ (path = "direct" /\ path' = "text" /\ stage' = "externs")
  BY StepsRun
<1>2. SUFFICES ASSUME path = "native", path' = "native" PROVE NativeInv'
  BY <1>1 DEF NativeInv
<1>3. /\ stage \notin {"parse", "prepare"} => NativeReady
      /\ \A n, m : n = Reserved /\ m = Initialised => NativeGlobals(n, m)
  BY <1>2 DEF NativeInv
<1>4. /\ stage \in NativeStages /\ file \in AssemblyFiles /\ (stage # "parse" => Parses)
      /\ stage \in {"reserve", "initialise"} => Within(Len(file.globl))
  BY <1>2 DEF ControlInv
<1>5. /\ Len(file.globl) \in Nat /\ Len(Globls) = Len(file.globl) /\ DOMAIN Globls = 1 .. Len(file.globl)
      /\ DOMAIN Datas = 1 .. Len(file.data)
  BY <1>4, Lengths
<1>6. NativeReady' = NativeReady /\ Len(file'.globl) = Len(file.globl)
  BY <1>1, NativeFrame
\* A step that leaves the globals alone, and is at as many of them.
<1>7. ASSUME mod'.globals = mod.globals, Reserved' = Reserved, Initialised' = Initialised,
             stage' \notin {"parse", "prepare"} => NativeReady
      PROVE  NativeInv'
  <2>1. ASSUME NEW n, NEW m, n = Reserved', m = Initialised' PROVE NativeGlobals(n, m)'
    <3>1. NativeGlobals(n, m)
      BY <1>3, <1>7, <2>1
    <3>2. QED
      BY <1>1, <1>7, <3>1, NativeKept
  <2>2. QED
    BY <1>6, <1>7, <2>1 DEF NativeInv
<1>8. CASE UNCHANGED <<stage, at, mod>>
  <2>1. Reserved' = Reserved /\ Initialised' = Initialised
    BY <1>6, <1>8 DEF Reserved, Initialised
  <2>2. QED
    BY <1>3, <1>7, <1>8, <2>1
<1>9. CASE Error
  BY <1>8, <1>9 DEF Error
<1>10. CASE Parse /\ ~Error
  <2>1. stage = "parse" /\ stage' = "prepare" /\ mod' = mod
    BY <1>2, <1>10, Following DEF Parse, In, Goto
  <2>2. Reserved' = Reserved /\ Initialised' = Initialised
    BY <2>1 DEF Reserved, Initialised
  <2>3. QED
    BY <1>7, <2>1, <2>2
<1>11. CASE Prepare /\ ~Error
  <2>1. /\ stage = "prepare" /\ stage' = "reserve" /\ at' = 1 /\ mod' = mod
        /\ NativeStatements
        /\ IsInjective([i \in DOMAIN Globls |-> Globls[i].sym])
        /\ \A i \in DOMAIN Globls : NativeGlobl(Globls[i]) /\ dataValues(Globls[i])
        /\ \A i \in DOMAIN Datas : Datas[i].sym \in Globals
    BY <1>11 DEF Prepare, In, Goto
  <2>2. Reserved' = Reserved /\ Initialised' = Initialised
    BY <2>1 DEF Reserved, Initialised
  <2>3. NativeReady
    BY <1>5, <2>1 DEF NativeReady, IsInjective, dataValues
  <2>4. QED
    BY <1>7, <2>1, <2>2, <2>3
<1>12. CASE Empty("reserve", Len(Globls))
  <2>1. stage = "reserve" /\ stage' = "initialise" /\ at' = 1 /\ mod' = mod /\ Len(file.globl) = 0
    BY <1>2, <1>5, <1>12, Following DEF Empty, In, Goto
  <2>2. at = 1
    BY <1>4, <2>1 DEF Within, Larger
  <2>3. Reserved' = Reserved /\ Initialised' = Initialised
    BY <1>6, <2>1, <2>2 DEF Reserved, Initialised
  <2>4. QED
    BY <1>3, <1>7, <2>1, <2>3
<1>13. CASE Reserve /\ ~Empty("reserve", Len(Globls))
  <2>1. /\ stage = "reserve" /\ at \in 1 .. Len(file.globl) /\ Advance(Len(file.globl))
        /\ mod' = [mod EXCEPT !.globals = Put(@, resolve(Globls[at].sym),
                     [cells |-> <<>>, const |-> "RODATA" \in Globls[at].flags, align |-> 8])]
    BY <1>5, <1>13 DEF Reserve, In
  <2>2. ASSUME NEW a, a = at PROVE NativeGlobals(a, 0)'
    <3>1. a - 1 \in Nat /\ (a - 1) + 1 = a /\ (a - 1) + 1 \in 1 .. Len(file.globl)
      BY <1>5, <2>1, <2>2
    <3>2. Reserved = a - 1 /\ Initialised = 0
      BY <2>1, <2>2 DEF Reserved, Initialised
    <3>3. NativeGlobals(a - 1, 0) /\ NativeReady /\ Parses
      BY <1>3, <1>4, <2>1, <3>2
    <3>4. mod' = [mod EXCEPT !.globals = Put(@, resolve(Globls[(a - 1) + 1].sym),
                     [cells |-> <<>>, const |-> "RODATA" \in Globls[(a - 1) + 1].flags, align |-> 8])]
      BY <2>1, <2>2, <3>1
    <3>5. NativeGlobals((a - 1) + 1, 0)'
      BY <1>1, <1>2, <3>1, <3>3, <3>4, ReserveStep
    <3>6. QED
      BY <3>1, <3>5
  <2>3. Reserved' = at /\ Initialised' = 0 /\ stage' \notin {"parse", "prepare"}
    BY <1>2, <1>5, <1>6, <2>1, Advances, Following DEF Reserved, Initialised
  <2>4. QED
    BY <1>3, <1>6, <2>1, <2>2, <2>3 DEF NativeInv
<1>14. CASE Empty("initialise", Len(Globls))
  <2>1. stage = "initialise" /\ stage' = "funcs" /\ mod' = mod /\ Len(file.globl) = 0
    BY <1>2, <1>5, <1>14, Following DEF Empty, In, Goto
  <2>2. at = 1
    BY <1>4, <2>1 DEF Within, Larger
  <2>3. Reserved' = Reserved /\ Initialised' = Initialised
    BY <1>6, <2>1, <2>2 DEF Reserved, Initialised
  <2>4. QED
    BY <1>3, <1>7, <2>1, <2>3
<1>15. CASE Initialise /\ ~Empty("initialise", Len(Globls))
  <2>1. /\ stage = "initialise" /\ at \in 1 .. Len(file.globl) /\ Advance(Len(file.globl))
        /\ \A L : L = Layout(DataOf(Globls[at]), Globls[at].size) =>
             mod' = [mod EXCEPT !.globals[resolve(Globls[at].sym)].cells = [k \in 0 .. Len(L) - 1 |-> L[k + 1]]]
    BY <1>5, <1>15 DEF Initialise, In
  <2>2. ASSUME NEW a, a = at, NEW n, n = Len(file.globl) PROVE NativeGlobals(n, a)'
    <3>1. a - 1 \in Nat /\ (a - 1) + 1 = a /\ (a - 1) + 1 \in 1 .. Len(file.globl)
      BY <1>5, <2>1, <2>2
    <3>2. Reserved = Len(file.globl) /\ Initialised = a - 1
      BY <2>1, <2>2 DEF Reserved, Initialised
    <3>3. NativeGlobals(Len(file.globl), a - 1) /\ NativeReady /\ Parses
      BY <1>3, <1>4, <2>1, <3>2
    <3>4. ASSUME NEW L, L = Layout(DataOf(Globls[(a - 1) + 1]), Globls[(a - 1) + 1].size)
          PROVE  mod' = [mod EXCEPT !.globals[resolve(Globls[(a - 1) + 1].sym)].cells = [k \in 0 .. Len(L) - 1 |-> L[k + 1]]]
      <4>1. (a - 1) + 1 = at
        BY <2>2, <3>1
      <4>2. L = Layout(DataOf(Globls[at]), Globls[at].size)
        BY <3>4, <4>1
      <4>3. mod' = [mod EXCEPT !.globals[resolve(Globls[at].sym)].cells = [k \in 0 .. Len(L) - 1 |-> L[k + 1]]]
        BY <2>1, <4>2
      <4>4. QED
        BY <4>1, <4>3
    <3>5. ASSUME NEW L, L = Layout(DataOf(Globls[(a - 1) + 1]), Globls[(a - 1) + 1].size)
          PROVE  NativeGlobals(n, (a - 1) + 1)'
      BY <1>1, <1>2, <2>2, <3>1, <3>3, <3>4, <3>5, InitialiseStep
    <3>6. QED
      BY <3>1, <3>5
  <2>3. Reserved' = Len(file.globl) /\ Initialised' = at /\ stage' \notin {"parse", "prepare"}
    BY <1>2, <1>5, <1>6, <2>1, Advances, Following DEF Reserved, Initialised
  <2>4. QED
    BY <1>3, <1>6, <2>1, <2>2, <2>3 DEF NativeInv
\* Functions are added behind all of them.
<1>16. ASSUME stage \in {"funcs", "verify"}, stage' \in {"funcs", "verify"}, mod'.globals = mod.globals
       PROVE  NativeInv'
  <2>1. Reserved' = Reserved /\ Initialised' = Initialised
    BY <1>6, <1>16 DEF Reserved, Initialised
  <2>2. QED
    BY <1>3, <1>7, <1>16, <2>1
<1>17. CASE NativeFunc /\ ~Error
  <2>1. stage = "funcs" /\ DOMAIN mod = {"globals", "funcs", "decls", "externs", "uses"} /\ Advance(Len(file.funcs))
    BY <1>17 DEF NativeFunc, In, AddFunction, ControlInv
  <2>2. mod'.globals = mod.globals
    BY <1>17, <2>1 DEF NativeFunc, AddFunction
  <2>3. stage' \in {"funcs", "verify"}
    BY <1>2, <2>1, Following DEF Advance, Goto
  <2>4. QED
    BY <1>16, <2>1, <2>2, <2>3
<1>18. CASE Verify /\ ~Error
  BY <1>8, <1>18 DEF Verify
\* The others are of typed modules.
<1>19. ~(DeclareGlobals \/ DeclareFuncs \/ MergeGlobl \/ MergeData \/ BeginGlobal \/ CopyPayload \/ EndGlobal \/ EndData)
  BY <1>4 DEF DeclareGlobals, DeclareFuncs, MergeGlobl, MergeData, BeginGlobal, CopyPayload, EndGlobal, EndData, Empty, In, NativeStages
<1>20. ~(DirectFunc \/ TextFunc \/ NoFuncs)
  BY <1>2 DEF DirectFunc, TextFunc, NoFuncs
<1>21. QED
  BY <1>9, <1>10, <1>11, <1>12, <1>13, <1>14, <1>15, <1>17, <1>18, <1>19, <1>20 DEF ANext

\* A native module is made only of statements that are apart, and holds their
\* cells, the addresses among them, and which globals are read-only.
LEMMA NativeExact ==
  ASSUME ControlInv, NativeInv, result = "module", path = "native", NEW s \in DataSyms
  PROVE  /\ resolveData(s) \in DOMAIN mod.globals
         /\ mod.globals[resolveData(s)].cells = [k \in 0 .. SourceSize(s) - 1 |-> SourceCell(s, k)]
         /\ ~Overlapping(s)
         /\ mod.globals[resolveData(s)].const = (\E i \in DOMAIN Globls : Globls[i].sym = s /\ "RODATA" \in Globls[i].flags)
<1> DEFINE N == Len(file.globl)
           K == Len(file.data)
<1>1. file \in AssemblyFiles /\ stage = "verify" /\ Parses
  BY DEF ControlInv
<1>2. NativeReady /\ NativeGlobals(N, N)
  BY <1>1 DEF NativeInv, Reserved, Initialised
<1>3. /\ DOMAIN Globls = 1 .. N
      /\ \A i \in 1 .. N : Globls[i].size \in Nat /\ Globls[i].sym \in Symbols /\ Globls[i].sym.form = "dot"
  BY <1>1, <1>2, GloblTypes DEF NativeReady, NativeGlobl
<1>4. PICK j \in 1 .. N : Globls[j].sym = s
  <2>1. s \in Globals
    BY <1>1, <1>2, DataTypes DEF NativeReady, DataSyms
  <2>2. QED
    BY <1>3, <2>1 DEF Globals
<1> DEFINE g == Globls[j]
<1>5. s \in Symbols /\ s.form = "dot" /\ resolveData(s) = resolve(s) /\ g.sym = s /\ g.size \in Nat
  BY <1>3, <1>4 DEF resolveData
<1>6. resolveData(s) \in DOMAIN mod.globals /\ mod.globals[resolveData(s)] = GlobalFor(j)
  BY <1>2, <1>4, <1>5 DEF NativeGlobals, GlobalFor
<1>7. /\ GlobalFor(j).const = ("RODATA" \in g.flags)
      /\ NativeCells(g, GlobalFor(j).cells)
      /\ Apart(g) /\ \A i \in DOMAIN Globls : Globls[i].sym = s => i = j
  BY <1>2, <1>3, <1>4 DEF NativeGlobals, NativeReady
<1>8. /\ DOMAIN Datas = 1 .. K /\ DOMAIN file.data = 1 .. K
      /\ \A i \in 1 .. K : /\ Datas[i].off \in Int /\ Datas[i].off = file.data[i].off
                           /\ Datas[i].width \in Nat \ {0} /\ Datas[i].width = parseWidth(file.arch, file.data[i])
                           /\ Datas[i].sym = file.data[i].sym /\ Datas[i].sym \in Symbols /\ Datas[i].sym.form = "dot"
  <2>1. ASSUME NEW i \in 1 .. K PROVE Datas[i].sym.form = "dot"
    <3>1. Datas[i].sym \in Globals
      BY <1>2 DEF NativeReady
    <3>2. QED
      BY <1>3, <3>1 DEF Globals
  <2>2. QED
    BY <1>1, <2>1, DataTypes
\* The statements of the symbol are those of the global.
<1>9. \A t \in Symbols : t.form = "dot" => (Denoted(t) = Denoted(s) <=> t = s)
  BY <1>5, NativeNames
<1>10. StatementsOf(s) = StatementsIn(g)
  BY <1>5, <1>8, <1>9 DEF StatementsOf, StatementsIn
<1>11. \A i \in StatementsIn(g) : i \in 1 .. K
  BY <1>8 DEF StatementsIn
<1>12. \A i \in StatementsIn(g) : \A k : Covers(i, k) <=> k - Datas[i].off \in 0 .. Datas[i].width - 1
  BY <1>8, <1>11 DEF Covers
<1> HIDE DEF N, K, g
\* They lie inside it, one behind the other.
<1> DEFINE ds == DataOf(g)
           n == Len(ds)
           o == OrderOf(g)
<1>13. Inside(ds, g.size)
  BY <1>1, <1>5, <1>7, ApartInside
<1>14. /\ o \in [1 .. n -> StatementsIn(g)] /\ n \in Nat
       /\ \A a \in 1 .. n : ds[a] = Datas[o[a]]
       /\ \A i \in StatementsIn(g) : \E a \in 1 .. n : o[a] = i
  <2> HIDE DEF n
  <2>1. n = Len(DataOf(g))
    BY DEF n
  <2>2. QED
    BY <1>1, <2>1, OrderIs
<1>15. /\ \A a \in 1 .. n : End(ds, a) = ds[a].off + ds[a].width /\ End(ds, a) \in 0 .. g.size
       /\ \A a, b \in 1 .. n : a < b => End(ds, a) <= ds[b].off
  BY <1>13, <1>14, EndsGrow
<1> HIDE DEF ds, n, o
<1>16. \A i \in StatementsIn(g) : Datas[i].off + Datas[i].width <= g.size
  BY <1>5, <1>14, <1>15
<1>17. ASSUME NEW i \in StatementsIn(g), NEW h \in StatementsIn(g), i # h, NEW k \in Int, Covers(i, k), Covers(h, k)
       PROVE  FALSE
  <2>1. PICK a \in 1 .. n : o[a] = i
    BY <1>14
  <2>2. PICK b \in 1 .. n : o[b] = h
    BY <1>14
  <2>3. a < b \/ b < a
    BY <1>14, <1>17, <2>1, <2>2
  <2>4. ds[a] = Datas[i] /\ ds[b] = Datas[h]
    BY <1>14, <2>1, <2>2
  <2>5. Datas[i].off + Datas[i].width <= Datas[h].off \/ Datas[h].off + Datas[h].width <= Datas[i].off
    BY <1>15, <2>3, <2>4
  <2>6. /\ Datas[i].off \in Int /\ Datas[i].width \in Nat /\ Datas[h].off \in Int /\ Datas[h].width \in Nat
        /\ k - Datas[i].off \in 0 .. Datas[i].width - 1 /\ k - Datas[h].off \in 0 .. Datas[h].width - 1
    BY <1>8, <1>11, <1>12, <1>17
  <2>7. QED
    BY <2>5, <2>6
<1>18. SourceSize(s) = g.size
  <2>1. /\ Ends(s) \in SUBSET Int
        /\ \A i \in 1 .. Len(file.globl) : Denoted(Globls[i].sym) = Denoted(s) => Globls[i].size \in Ends(s)
        /\ \A e \in Ends(s) :
              \/ \E i \in 1 .. Len(file.globl) : Denoted(Globls[i].sym) = Denoted(s) /\ e = Globls[i].size
              \/ \E i \in 1 .. Len(file.data) : Denoted(Datas[i].sym) = Denoted(s) /\ e = Datas[i].off + Datas[i].width
    BY <1>1, <1>5, EndsAre
  <2>2. g.size \in Ends(s)
    BY <1>4, <1>5, <2>1 DEF g, N
  <2>3. ASSUME NEW e \in Ends(s) PROVE e <= g.size
    <3>1. CASE \E i \in 1 .. Len(file.globl) : Denoted(Globls[i].sym) = Denoted(s) /\ e = Globls[i].size
      <4>1. PICK i \in 1 .. Len(file.globl) : Denoted(Globls[i].sym) = Denoted(s) /\ e = Globls[i].size
        BY <3>1
      <4>2. i = j
        BY <1>3, <1>7, <1>9, <4>1 DEF N
      <4>3. QED
        BY <1>5, <4>1, <4>2 DEF g
    <3>2. CASE \E i \in 1 .. Len(file.data) : Denoted(Datas[i].sym) = Denoted(s) /\ e = Datas[i].off + Datas[i].width
      <4>1. PICK i \in 1 .. Len(file.data) : Denoted(Datas[i].sym) = Denoted(s) /\ e = Datas[i].off + Datas[i].width
        BY <3>2
      <4>2. i \in StatementsIn(g)
        BY <1>5, <1>8, <1>9, <4>1 DEF StatementsIn, K
      <4>3. QED
        BY <1>16, <4>1, <4>2
    <3>3. QED
      BY <2>1, <3>1, <3>2
  <2>4. Max(Ends(s)) = g.size
    BY <2>1, <2>2, <2>3, MaxIs
  <2>5. QED
    BY <2>4 DEF SourceSize
<1>19. ~Overlapping(s)
  <2>1. SUFFICES ASSUME Overlapping(s) PROVE FALSE
    OBVIOUS
  <2>2. PICK k \in 0 .. g.size - 1 : \E i, h \in StatementsIn(g) : i # h /\ Covers(i, k) /\ Covers(h, k)
    BY <1>10, <1>18, <2>1 DEF Overlapping
  <2>3. k \in Int
    BY <1>5
  <2>4. QED
    BY <1>17, <2>2, <2>3
\* The cell the source gives.
<1>20. ASSUME NEW k \in 0 .. g.size - 1, NEW i \in StatementsIn(g), NEW c, HoldsAt(i, k, c)
       PROVE  c = SourceCell(s, k)
  <2> DEFINE d == file.data[i]
             m == k - Datas[i].off
             stmts == {h \in StatementsOf(s) : Covers(h, k)}
  <2>1. k \in Int /\ Datas[i].off \in Int /\ Datas[i].width \in Nat /\ m \in 0 .. Datas[i].width - 1
    BY <1>5, <1>8, <1>11, <1>20 DEF HoldsAt
  <2>2. Covers(i, k)
    BY <1>12, <2>1
  <2>3. stmts = {i}
    BY <1>10, <1>17, <2>1, <2>2
  <2>4. stmts # {} /\ (CHOOSE h \in stmts : TRUE) = i
    BY <2>3
  <2>5. c = Field(Datas[i])[m + 1]
    BY <1>20 DEF HoldsAt
  <2>6. /\ i \in 1 .. Len(file.data) /\ d.kind # "str" /\ Datas[i].off = d.off
        /\ \/ d.kind = "int" /\ Datas[i].value = d.value /\ Datas[i].addr = <<>>
           \/ d.kind = "addr" /\ Datas[i].addr = <<d.to>>
    <3>1. i \in 1 .. Len(file.data) /\ i \in DOMAIN file.data
      BY <1>8, <1>11 DEF K
    <3>2. d.kind # "str"
      BY <1>2, <3>1 DEF NativeReady, NativeStatements
    <3>3. QED
      BY <1>1, <3>1, <3>2, DataTypes
  <2>7. m + 1 \in 1 .. Datas[i].width /\ (m + 1) - 1 = m
    BY <2>1
  <2>8. SourceCell(s, k) = CASE d.kind = "int" -> Plain((d.value \div Power[m]) % CellBase)
                             [] d.kind = "str" -> Plain(IF m < Len(d.cells) THEN d.cells[m + 1] ELSE 0)
                             [] OTHER -> [to |-> <<Target(d.to)>>, v |-> m]
    BY <2>4, <2>6 DEF SourceCell
  <2> HIDE DEF d, m
  <2>9. CASE d.kind = "int" /\ Datas[i].value = d.value /\ Datas[i].addr = <<>>
    <3>1. Field(Datas[i])[m + 1] = Cell(d.value, m)
      BY <2>7, <2>9 DEF Field
    <3>2. QED
      BY <2>5, <2>8, <2>9, <3>1 DEF Cell
  <2>10. CASE d.kind = "addr" /\ Datas[i].addr = <<d.to>>
    <3>1. Field(Datas[i])[m + 1] = [to |-> <<Target(d.to)>>, v |-> m]
      BY <2>7, <2>10 DEF Field
    <3>2. QED
      BY <2>5, <2>8, <2>10, <3>1
  <2>11. QED
    BY <2>6, <2>9, <2>10 DEF d
<1> DEFINE cells == GlobalFor(j).cells
<1>21. ASSUME NEW k \in 0 .. g.size - 1 PROVE cells[k] = SourceCell(s, k)
  <2>1. \/ \E i \in StatementsIn(g) : HoldsAt(i, k, cells[k])
        \/ cells[k] = Plain(0) /\ \A i \in StatementsIn(g) : k - Datas[i].off \notin 0 .. Datas[i].width - 1
    BY <1>7 DEF NativeCells
  <2>2. CASE cells[k] = Plain(0) /\ \A i \in StatementsIn(g) : k - Datas[i].off \notin 0 .. Datas[i].width - 1
    <3>1. {i \in StatementsOf(s) : Covers(i, k)} = {}
      BY <1>10, <1>12, <2>2
    <3>2. SourceCell(s, k) = Plain(0)
      BY <3>1 DEF SourceCell
    <3>3. QED
      BY <2>2, <3>2
  <2>3. QED
    BY <1>20, <2>1, <2>2
<1>22. cells = [k \in 0 .. SourceSize(s) - 1 |-> SourceCell(s, k)]
  <2>1. IsFunction(cells) /\ DOMAIN cells = 0 .. g.size - 1
    BY <1>7 DEF NativeCells
  <2> HIDE DEF cells
  <2>2. QED
    BY <1>18, <1>21, <2>1 DEF IsFunction
<1>23. GlobalFor(j).const = (\E i \in DOMAIN Globls : Globls[i].sym = s /\ "RODATA" \in Globls[i].flags)
  <2>1. (\E i \in DOMAIN Globls : Globls[i].sym = s /\ "RODATA" \in Globls[i].flags) <=> "RODATA" \in g.flags
    BY <1>3, <1>4, <1>7 DEF g, N
  <2> DEFINE P == "RODATA" \in g.flags
             Q == \E i \in DOMAIN Globls : Globls[i].sym = s /\ "RODATA" \in Globls[i].flags
  <2>2. GlobalFor(j).const = P /\ (P <=> Q)
    BY <1>7, <2>1
  <2>3. P \in BOOLEAN /\ Q \in BOOLEAN
    OBVIOUS
  <2>4. P = Q
    <3> HIDE DEF P, Q
    <3>1. P = TRUE \/ P = FALSE
      BY <2>3
    <3>2. Q = TRUE \/ Q = FALSE
      BY <2>3
    <3>3. QED
      BY <2>2, <3>1, <3>2
  <2>5. GlobalFor(j).const = Q
    BY <2>2, <2>4, Zenon
  <2>6. QED
    BY <2>5 DEF Q
<1>24. QED
  BY <1>6, <1>19, <1>22, <1>23

-----------------------------------------------------------------------------
(***************************************************************************)
(* The invariant and what follows from it.                                 *)
(***************************************************************************)
LEMMA TypedStep == TypedInv /\ [ANext]_avars => TypedInv'
<1>1. SUFFICES ASSUME TypedInv, [ANext]_avars PROVE TypedInv'
  OBVIOUS
<1>2. CASE ANext
  BY <1>1, <1>2, ControlStep, SymsStep, EmitStep, FuncsStep DEF TypedInv
<1>3. CASE UNCHANGED avars
  <2>1. /\ file' = file /\ path' = path /\ stage' = stage /\ at' = at /\ syms' = syms /\ cur' = cur /\ mod' = mod /\ result' = result
    BY <1>3 DEF avars
  <2>2. Globls' = Globls /\ Datas' = Datas /\ Parses' = Parses
    BY <2>1, Frame
  <2>3. ControlInv'
    <3>1. WellFormed' = WellFormed
      BY <2>1 DEF WellFormed, Introduced, IsInjective, Range
    <3>2. QED
      BY <1>1, <2>1, <2>2, <3>1 DEF TypedInv, ControlInv, Within, Larger
  <2>4. SymsInv'
    <3>1. GloblsMerged' = GloblsMerged /\ DatasMerged' = DatasMerged
      BY <2>1 DEF GloblsMerged, DatasMerged
    <3>2. QED
      BY <1>1, <2>1, <3>1, SymsKept DEF TypedInv, SymsInv
  <2>5. EmitInv'
    <3>1. Pending' = Pending
      BY <2>1 DEF Pending
    <3>2. \A n, cells, done : Filled(n, cells, done)' = Filled(n, cells, done)
      BY <2>1 DEF Filled
    <3>3. \A c : Filling(c)' = Filling(c)
      BY <2>1, <3>1, <3>2 DEF Filling
    <3>4. GlobalsDone' = GlobalsDone
      BY <2>1, <3>2 DEF GlobalsDone
    <3>5. QED
      BY <1>1, <2>1, <3>1, <3>3, <3>4 DEF TypedInv, EmitInv
  <2>6. FuncsInv'
    <3>1. FuncsAdded' = FuncsAdded /\ Needed' = Needed /\ Declared' = Declared
      BY <2>1, Frame DEF FuncsAdded
    <3>2. mod'.funcs = mod.funcs /\ mod'.uses = mod.uses
      BY <2>1
    <3>3. QED
      BY <1>1, <2>1, <3>1, <3>2, FuncsKept DEF TypedInv, FuncsInv
  <2>7. QED
    BY <2>3, <2>4, <2>5, <2>6 DEF TypedInv
<1>4. QED
  BY <1>1, <1>2, <1>3

\* While a typed module is built, its symbols hold what the statements
\* merged so far give them, a global holds the payloads it has received, and
\* its functions and references are those of the source taken so far.
THEOREM TypedInvariant == ASpec => []TypedInv
<1>1. AInit => TypedInv
  BY ControlStart, SymsStart, EmitStart, FuncsStart DEF TypedInv
<1>2. QED
  BY <1>1, TypedStep, PTL DEF ASpec

\* References of a module bind to the functions and data of the file that the
\* source means (ptrFromSB, callSym, resolveSymFunc), for every file.
THEOREM ReferencesBindAlways == ASpec => []ReferencesBind
<1>1. TypedInv => ReferencesBind
  BY Binding DEF TypedInv, ReferencesBind
<1>2. QED
  BY <1>1, TypedInvariant, PTL

\* A typed file is refused only when it is wrong in itself or refers to what
\* nothing introduces (TranslateModule, emitExternSBGlobals,
\* emitExternFuncDecls): what three functions collect never clashes otherwise.
THEOREM RejectsOnlyUnresolvableAlways == ASpec => []RejectsOnlyUnresolvable
<1>1. AInit => ErrInv
  BY DEF AInit, ErrInv
<1>2. TypedInv /\ ErrInv /\ [ANext]_avars => ErrInv'
  <2>1. SUFFICES ASSUME TypedInv, ErrInv, [ANext]_avars PROVE ErrInv'
    OBVIOUS
  <2>2. CASE ANext
    <3>1. file' = file
      BY <2>2, StepsRun
    <3>2. QED
      BY <2>1, <2>2, <3>1, ErrStep, ExcusedKept DEF TypedInv, ErrInv
  <2>3. CASE UNCHANGED avars
    <3>1. file' = file /\ result' = result /\ path' = path
      BY <2>3 DEF avars
    <3>2. QED
      BY <2>1, <3>1, ExcusedKept DEF ErrInv
  <2>4. QED
    BY <2>1, <2>2, <2>3
<1>3. ErrInv => RejectsOnlyUnresolvable
  BY DEF ErrInv, Excused, RejectsOnlyUnresolvable
<1>4. QED
  BY <1>1, <1>2, <1>3, TypedInvariant, PTL DEF ASpec

\* While a native module is built, what was found of its statements holds and
\* the globals so far are those of the source: reserved with their attribute,
\* initialised with the cells of their statements.
THEOREM NativeInvariant == ASpec => []NativeInv
<1>1. AInit => NativeInv
  BY NativeStart
<1>2. TypedInv /\ NativeInv /\ [ANext]_avars => NativeInv'
  <2>1. SUFFICES ASSUME TypedInv, NativeInv, [ANext]_avars PROVE NativeInv'
    OBVIOUS
  <2>2. ControlInv
    BY <2>1 DEF TypedInv
  <2>3. CASE ANext
    BY <2>1, <2>2, <2>3, NativeStep
  <2>4. CASE UNCHANGED avars
    <3>1. file' = file /\ path' = path /\ stage' = stage /\ at' = at /\ mod' = mod
      BY <2>4 DEF avars
    <3>2. NativeReady' = NativeReady /\ Reserved' = Reserved /\ Initialised' = Initialised
      BY <3>1, NativeFrame DEF Reserved, Initialised
    <3>3. ASSUME NEW n, NEW m PROVE NativeGlobals(n, m)' = NativeGlobals(n, m)
      BY <3>1, NativeKept
    <3>4. QED
      BY <2>1, <3>1, <3>2, <3>3 DEF NativeInv
  <2>5. QED
    BY <2>1, <2>3, <2>4
<1>3. QED
  BY <1>1, <1>2, TypedInvariant, PTL DEF ASpec

\* Every symbol of DATA and GLOBL is in the module with the size and the cells
\* its statements give it, for every file and in whatever order symbols and
\* payloads are taken (emitDataGlobals, emitDataGlobalsModule); native modules
\* also keep addresses and what is read-only, and take no overlapping
\* statements (dataValues, TranslateNativeModule).
THEOREM DataExactAlways == ASpec => []DataExact
<1>1. TypedInv /\ NativeInv => DataExact
  <2>1. SUFFICES ASSUME TypedInv, NativeInv, result = "module",
                        NEW s \in {s \in DataSyms : ~Mixed(s) /\ SourceSize(s) > 0 /\ (path = "native" \/ ~Overlapping(s))}
                 PROVE  /\ resolveData(s) \in DOMAIN mod.globals
                        /\ mod.globals[resolveData(s)].cells = [k \in 0 .. SourceSize(s) - 1 |-> SourceCell(s, k)]
                        /\ path = "native" => /\ ~Overlapping(s)
                                              /\ mod.globals[resolveData(s)].const = (\E i \in DOMAIN Globls : Globls[i].sym = s /\ "RODATA" \in Globls[i].flags)
    BY Zenon DEF DataExact
  <2>2. ControlInv /\ SymsInv /\ EmitInv /\ s \in DataSyms /\ ~Mixed(s) /\ SourceSize(s) > 0
    BY <2>1 DEF TypedInv
  <2>3. CASE path = "native"
    BY <2>1, <2>2, <2>3, NativeExact
  <2>4. CASE path # "native"
    <3>1. ~Overlapping(s)
      BY <2>1, <2>4
    <3>2. QED
      BY <2>1, <2>2, <2>4, <3>1, TypedExact
  <2>5. QED
    BY <2>3, <2>4
<1>2. QED
  BY <1>1, TypedInvariant, NativeInvariant, PTL
=============================================================================
