--------------------------- MODULE WasmSignature ---------------------------
(***************************************************************************)
(* InferWASMAssemblyFuncSig: the signature of a file-local helper, found   *)
(* from one pass over its text.  The state of the pass is a record: the    *)
(* stack of [typ, regs] (regs the registers whose type the value has), the *)
(* types of registers, the registers read before a write in the text, the  *)
(* written ones, the type returned, and the open controls.                 *)
(***************************************************************************)
EXTENDS WasmSource

InferInit(regs) ==
  [ok |-> TRUE, st |-> <<>>, types |-> [r \in regs |-> NoType],
   inputs |-> {}, written |-> {}, ret |-> NoType, ctl |-> <<>>]

InferValue(typ) == [typ |-> typ, regs |-> {}]

InferTop(f) == IF f.st = <<>> THEN InferValue(NoType) ELSE f.st[Len(f.st)]
InferPop(f) == IF f.st = <<>> THEN f ELSE [f EXCEPT !.st = SubSeq(@, 1, Len(@) - 1)]
InferPush(f, v) == [f EXCEPT !.st = Append(@, v)]

\* require: the value, and every register it stands for, has this type.
Require(f, v, typ) ==
  IF typ = NoType THEN f ELSE
  [f EXCEPT !.ok = /\ @
                   /\ v.typ \in {NoType, typ}
                   /\ \A r \in v.regs : f.types[r] \in {NoType, typ},
            !.types = [r \in DOMAIN @ |-> IF r \in v.regs THEN typ ELSE @[r]]]

RequireTop(f, typ) == InferPop(Require(f, InferTop(f), typ))

RECURSIVE RequireAll(_, _)
RequireAll(f, ts) ==
  IF ts = <<>> THEN f ELSE RequireAll(RequireTop(f, Head(ts)), Tail(ts))

InferGet(f, r) ==
  InferPush([f EXCEPT !.inputs = IF r \in f.written THEN @ ELSE @ \cup {r}],
            [typ |-> f.types[r], regs |-> {r}])

InferSet(f, r) ==
  LET v == InferTop(f)
      g == [InferPop(f) EXCEPT !.written = @ \cup {r}]
  IN Require(g, [typ |-> NoType, regs |-> {r}], v.typ)

InferSelectSwapped(f) ==  \* mutant
  LET g == InferPop(InferPop(f)) IN InferPush(RequireTop(g, "i32"), InferTop(f))

\* Select gives both values the type of the one that has one.
InferSelect(f) ==
  LET g == RequireTop(f, "i32")
      no == InferTop(g)
      yes == InferTop(InferPop(g))
      typ == IF yes.typ # NoType THEN yes.typ ELSE no.typ
      h == InferPop(InferPop(g))
  IN InferPush(Require(Require(h, yes, typ), no, typ), InferValue(typ))

InferOpen(f, ins) ==
  LET g == IF ins.op = "IF" THEN RequireTop(f, "i32") ELSE f
  IN [g EXCEPT !.ctl = Append(@, [base |-> g.st, res |-> ins.typ])]

\* The value on top of the innermost control has the type of its result.
RequireResult(f) ==
  LET c == f.ctl[Len(f.ctl)]
  IN IF f.ctl # <<>> /\ c.res # NoType /\ Len(f.st) > Len(c.base)
     THEN Require(f, InferTop(f), c.res) ELSE f

InferElse(f) == [RequireResult(f) EXCEPT !.st = f.ctl[Len(f.ctl)].base]

InferEnd(f) ==
  LET c == f.ctl[Len(f.ctl)]
  IN [RequireResult(f) EXCEPT !.ctl = SubSeq(@, 1, Len(@) - 1),
                              !.st = c.base \o (IF c.res = NoType THEN <<>> ELSE <<InferValue(c.res)>>)]

InferReturn(f) ==
  LET typ == InferTop(f).typ
      g == [f EXCEPT !.st = <<>>]
  IN IF typ = NoType THEN g
     ELSE [g EXCEPT !.ret = typ, !.ok = @ /\ f.ret \in {NoType, typ}]

\* One iteration of the loop over fn.Instrs.
InferStep(f, ins) ==
  CASE ins.op = "GET"  -> InferGet(f, ins.r)
    [] ins.op = "SET"  -> InferSet(f, ins.r)
    [] ins.op = "TEE"  -> InferPush(InferSet(f, ins.r), InferTop(f))
    [] ins.op = "SELECT" -> InferSelect(f)
    [] ins.op = "STOREFP" -> RequireTop(f, ins.typ)
    [] ins.op \in Openers -> InferOpen(f, ins)
    [] ins.op = "BRIF" -> RequireTop(f, "i32")
    [] ins.op = "ELSE" -> InferElse(f)
    [] ins.op = "END"  -> InferEnd(f)
    [] ins.op = "BR"   -> [RequireResult(f) EXCEPT !.st = <<>>]
    [] ins.op = "DROP" -> InferPop(f)
    [] ins.op \in {"CALL", "CALLNORESUME", "WASMCALL"} -> [f EXCEPT !.st = <<InferValue(NoType)>>]
    [] ins.op \in {"RET", "WASMRETURN", "RETUNWIND", "RETTAIL"} -> InferReturn(f)
    [] ins.op = "GETSP" -> f
    [] OTHER -> LET g == RequireAll(f, In(ins, f.types))
                    out == Out(ins, f.types)
                IN IF out = <<>> THEN g ELSE InferPush(g, InferValue(Head(out)))

\* wasmDefaultRegisterType, for the registers R0, R1, ...
DefaultType == "i64"

\* The signature: input registers with their types, and the result.
Inferred(f) ==
  [args |-> [r \in f.inputs |-> IF f.types[r] = NoType THEN DefaultType ELSE f.types[r]],
   ret  |-> f.ret]
=============================================================================
