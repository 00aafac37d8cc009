---------------------------- MODULE WasmLowering ----------------------------
(***************************************************************************)
(* translateFuncWASM: a function of WebAssembly in Plan 9 syntax becomes   *)
(* LLVM code.  The operand stack exists only while translating: its values *)
(* are names of LLVM values.  Structured control becomes labels, the Go    *)
(* ABI's calls become a switch at the entry that jumps behind the call a   *)
(* function was left at.                                                   *)
(*                                                                         *)
(* "read" chooses a valid program, instruction by instruction, and infers  *)
(* the signature of a helper; "translate" is the loop over fn.Instrs;      *)
(* "run" executes source and emitted code side by side.                    *)
(*                                                                         *)
(* The emitted code is a sequence segs: segs[i] is what instruction i      *)
(* emitted.  An emitted operation that yields a value names it by its      *)
(* place <<i, k>>; the cast of an operand is part of its use.              *)
(***************************************************************************)
EXTENDS WasmSignature, FiniteSets, TLC

CONSTANTS
  Functions,  \* records [abi, frame, ret, reg, order, arg, alphabet, max, inputs, straight]
  MaxSteps    \* bound on the instructions of a run: loops need not end

VARIABLES
  fn,         \* the function under translation
  prog,       \* its instructions
  phase,      \* "read", "translate", "run" or "rejected"
  valid,      \* the validator's state
  infer,      \* the signature inference's state
  gaps,       \* what of the program the translator is known not to take
  stack,      \* operand stack of the translator
  controls,   \* open control frames, the function's first
  blockTerminated, pendingName, rootBranchUsed,
  result,     \* results[0]: a sequence of at most one value
  segs,       \* emitted code
  stacks,     \* history: the operand stack before each instruction
  src, low    \* the two machines

trVars == <<stack, controls, blockTerminated, pendingName, rootBranchUsed, result, segs, stacks>>
vars == <<fn, prog, phase, valid, infer, gaps, trVars, src, low>>

Abi == fn.abi                      \* "direct", "helper" (native, Go stack) or "go"
useGoStack == Abi # "direct"
goABI == Abi = "go"
Here == Len(segs) + 1              \* insIndex
At == prog[Here]

-----------------------------------------------------------------------------
(***************************************************************************)
(* Values of the operand stack, and emitted operations.                    *)
(***************************************************************************)
ConstVal(typ, n)  == [typ |-> typ, const |-> TRUE, n |-> n, k |-> 0, stackAddr |-> FALSE]
TmpVal(typ, i, k) == [typ |-> typ, const |-> FALSE, n |-> i, k |-> k, stackAddr |-> FALSE]
StackAddr         == [ConstVal("i32", 0) EXCEPT !.stackAddr = TRUE]


\* An operand: cast(v, to, signed).
CastUnsigned(v, to, signed) == [v |-> v, to |-> to, signed |-> FALSE]  \* mutant
Cast(v, to, signed) == [v |-> v, to |-> to, signed |-> signed]

\* An emitted operation: its kind, the LLVM operation or access type, the
\* type of its value, its operands, and what else it names: a register, a
\* label, a slot, an offset.
Op(o, f, typ, args, x) == [o |-> o, f |-> f, typ |-> typ, args |-> args, x |-> x]
Label(l)          == Op("label", "", NoType, <<>>, l)
Br(l)             == Op("br", "", NoType, <<>>, l)
CondBr(c, l1, l2) == Op("condbr", "", NoType, <<Cast(c, "i32", FALSE)>>, <<l1, l2>>)
RetVoid           == Op("ret", "", NoType, <<>>, 0)
RetVal(v, typ)    == Op("ret", "", typ, <<Cast(v, typ, FALSE)>>, 0)
RetFlag(n)        == RetVal(ConstVal("i32", n), "i32")
MoveSP(n)         == Op("sp", "", NoType, <<>>, n)
Unreachable       == Op("unreachable", "", NoType, <<>>, 0)

PopN(n) == SubSeq(stack, 1, Len(stack) - n)
Nth(k)  == stack[Len(stack) + 1 - k]      \* k-th from the top
CanPop(n) == Len(stack) >= n /\ \A k \in 1..n : ~Nth(k).stackAddr

\* sig.ArgRegs and sig.Args: the parameters of the emitted function.
ArgTypes == IF Abi = "helper" THEN Inferred(infer).args ELSE [r \in {} |-> NoType]

\* registerType: the loop that records the types of argument registers stops at
\* the first R register, so the slot of every R register, also that of a later
\* argument, has the type of the first one.
FirstArg == CHOOSE r \in DOMAIN ArgTypes : \A q \in DOMAIN ArgTypes : fn.order[r] <= fn.order[q]
wasmRType == IF DOMAIN ArgTypes = {} THEN "i64" ELSE ArgTypes[FirstArg]
registerType(r) == wasmRType

\* physicalRet
physicalRet == CASE Abi = "helper" -> Inferred(infer).ret
                 [] OTHER -> RetType(fn)

Frame(kind, name, at, base, res) ==
  [kind |-> kind, name |-> name, at |-> at, base |-> base, res |-> res, inElse |-> FALSE]
Root == Frame("FUNC", "", 0, <<>>, physicalRet)

-----------------------------------------------------------------------------
(***************************************************************************)
(* Reading: any valid continuation of the program.                         *)
(***************************************************************************)
NameBefore(p) ==
  IF p # <<>> /\ p[Len(p)].op = "LABEL" THEN p[Len(p)].r ELSE ""

Dead(v) == VTop(v).dead

\* Is the result stored, whichever way control takes to the end of p?
StoredStraight(p) ==
  \E j \in DOMAIN p : /\ p[j].op \in {"STOREFP", "MOVRES"}
                      /\ \A k \in j..Len(p) : p[k].op \notin Openers \cup {"ELSE", "END"}

\* Where the emitted code is known to part from the source: a direct result is
\* the one stored last in the text, RET f(SB) keeps the frame, a function that
\* resumes in a block with a result has passed by the alloca of that result.
\* Functions of a run that is straight leave this out.
Parts(ins) ==
  /\ ~Dead(valid)
  /\ \/ ins.op = "RET" /\ Abi = "direct" /\ fn.ret # NoType /\ ~StoredStraight(prog)
     \/ ins.op = "RETTAIL" /\ goABI /\ fn.frame # 0
     \/ ins.op = "CALL" /\ goABI /\ \E i \in 2..Len(valid.ctl) : valid.ctl[i].res # NoType

\* What the translator refuses although it is valid: controls opened in dead
\* code are not tracked, a branch to a loop stores the loop's result, a call
\* needs an empty operand stack.  And where inference goes wrong: it takes the
\* value on top at a Br for that of the innermost block, whatever block the Br
\* leaves, and the value on top at a return of a function that returns nothing
\* for its result.
Gaps(ins) ==
  {g \in {"deadOpen", "loopResult", "callStack", "innermost", "leftover"} :
     CASE g = "deadOpen"   -> ins.op \in Openers /\ Dead(valid)
       [] g = "loopResult" -> ins.op \in {"BR", "BRIF"}
                              /\ LET f == valid.ctl[Len(valid.ctl) - ins.n]
                                 IN f.op = "LOOP" /\ f.res # NoType
       [] g = "callStack"  -> ins.op \in {"CALL", "CALLNORESUME"}
                              /\ (valid.st # <<>> \/ \E j \in DOMAIN prog : prog[j].op = "STOREFP")
       [] g = "leftover"   -> ins.op \in {"RET", "WASMRETURN"} /\ RetType(fn) = NoType /\ valid.st # <<>>
       [] g = "innermost"  -> /\ ins.op = "BR" /\ ins.n > 0 /\ VTop(valid).res # NoType
                              /\ Len(valid.st) > VTop(valid).height
                              /\ valid.st[Len(valid.st)] # VTop(valid).res}

Read ==
  /\ phase = "read"
  /\ Len(prog) < fn.max
  /\ \E ins \in fn.alphabet :
       /\ NameBefore(prog) # "" => ins.op \in Openers
       /\ ins.op = "LABEL" => \A j \in DOMAIN prog : prog[j] # ins
       /\ fn.straight => ~Parts(ins)
       \* Of dead code, and of what is refused, little is enough.
       /\ Dead(valid) => ins.op \in {"ELSE", "END"} \/ prog[Len(prog)].op \in Diverts
       /\ gaps # {} => ins.op \in {"ELSE", "END"} \cup Diverts
       /\ LET v == VStep(valid, ins, fn.reg, NameBefore(prog)) IN
          /\ v.ok
          /\ Len(v.ctl) + Len(prog) <= fn.max  \* room for the ENDs
          /\ Len(v.st) <= 3
          /\ valid' = v
       /\ prog' = Append(prog, ins)
       /\ gaps' = gaps \cup Gaps(ins)
       /\ infer' = IF Abi = "helper" THEN InferStep(infer, ins) ELSE infer
  /\ UNCHANGED <<fn, phase, trVars, src, low>>

\* A helper is translated under the signature that was found for it.
ReadEnd ==
  /\ phase = "read"
  /\ prog # <<>>
  /\ Len(valid.ctl) = 1
  /\ Dead(valid) \/ (RetType(fn) = NoType /\ valid.st = <<>>) \/ (Abi = "helper" /\ prog[Len(prog)].op = "END")
  /\ phase' = IF infer.ok THEN "translate" ELSE "rejected"
  /\ controls' = <<Root>>
  /\ UNCHANGED <<fn, prog, valid, infer, gaps, stack, blockTerminated, pendingName, rootBranchUsed,
                 result, segs, stacks, src, low>>

-----------------------------------------------------------------------------
(***************************************************************************)
(* The loop over fn.Instrs, one instruction a step.                        *)
(***************************************************************************)
LlvmOp == [add |-> "add", sub |-> "sub", mul |-> "mul", and |-> "and", or |-> "or", xor |-> "xor",
           divs |-> "sdiv", divu |-> "udiv", rems |-> "srem", remu |-> "urem",
           shl |-> "shl", shrs |-> "ashr", shru |-> "lshr"]
LlvmPred == [eq |-> "eq", ne |-> "ne", lts |-> "slt", ltu |-> "ult", gts |-> "sgt", gtu |-> "ugt",
             les |-> "sle", leu |-> "ule", ges |-> "sge", geu |-> "uge"]

Next1(ops) ==
  /\ segs' = Append(segs, ops)
  /\ stacks' = Append(stacks, stack)
Steady == UNCHANGED <<fn, prog, phase, valid, infer, gaps, src, low>>

Operands(ops) ==
  /\ phase = "translate" /\ Here <= Len(prog) /\ At.op \in ops
  /\ ~blockTerminated

\* Pop n operands and push the value of the last operation emitted.
Compute(n, emitted) ==
  /\ CanPop(n)
  /\ Next1(emitted)
  /\ stack' = Append(PopN(n), TmpVal(emitted[Len(emitted)].typ, Here, Len(emitted)))
  /\ UNCHANGED <<controls, blockTerminated, pendingName, rootBranchUsed, result>>
  /\ Steady

\* emitIntBinary
LowerBinary ==
  /\ Operands({"bin"})
  /\ Compute(2, <<Op("bin", LlvmOp[At.f], At.typ,
                     <<Cast(Nth(2), At.typ, FALSE), Cast(Nth(1), At.typ, FALSE)>>, 0)>>)

\* emitLocalCall: a file-local helper of two arguments, popped last first and
\* cast to the types of its signature; its result is pushed.
LowerLocalCall ==
  /\ Operands({"WASMCALL"})
  /\ Compute(2, <<Op("WASMCALL", "", At.typ,
                     <<Cast(Nth(2), At.typ, FALSE), Cast(Nth(1), At.typ, FALSE)>>, 0)>>)

\* emitIntCompare
LowerCompare ==
  \/ /\ Operands({"cmp"})
     /\ Compute(2, <<Op("cmp", LlvmPred[At.f], "i32",
                        <<Cast(Nth(2), At.typ, FALSE), Cast(Nth(1), At.typ, FALSE)>>, At.typ)>>)
  \/ /\ Operands({"eqz"})
     /\ Compute(1, <<Op("cmp", "eq", "i32",
                        <<Cast(Nth(1), At.typ, FALSE), Cast(ConstVal(At.typ, 0), At.typ, FALSE)>>, At.typ)>>)

LowerConvert ==
  /\ Operands({"WRAP", "EXTENDS", "EXTENDU"})
  /\ LET to == IF At.op = "WRAP" THEN "i32" ELSE "i64"
     IN Compute(1, <<Op("cast", "", to, <<Cast(Nth(1), to, At.op = "EXTENDS")>>, 0)>>)

LowerSelect ==
  /\ Operands({"SELECT"})
  /\ CanPop(1) /\ Nth(2).typ = Nth(3).typ
  /\ Compute(3, <<Op("select", "", Nth(3).typ,
                     <<Cast(Nth(1), "i32", FALSE), Cast(Nth(3), Nth(3).typ, FALSE),
                       Cast(Nth(2), Nth(2).typ, FALSE)>>, 0)>>)

\* emitMemoryLoad: the access, then the extension to the result.
LowerLoad ==
  /\ Operands({"load"})
  /\ Compute(1, <<Op("load", "", At.f, <<Cast(Nth(1), "i32", FALSE)>>, At.n),
                  Op("cast", "", At.typ, <<Cast(TmpVal(At.f, Here, 1), At.typ, At.r = "signed")>>, 0)>>)

\* emitMemoryStore
LowerStore ==
  /\ Operands({"store"})
  /\ CanPop(2)
  /\ Next1(<<Op("store", "", At.f, <<Cast(Nth(2), "i32", FALSE), Cast(Nth(1), At.f, FALSE)>>, At.n)>>)
  /\ stack' = PopN(2)
  /\ UNCHANGED <<controls, blockTerminated, pendingName, rootBranchUsed, result>>
  /\ Steady

LowerConst ==
  /\ Operands({"const", "DROP"})
  /\ At.op = "DROP" => stack # <<>>
  /\ Next1(<<>>)
  /\ stack' = IF At.op = "DROP" THEN PopN(1) ELSE Append(stack, ConstVal(At.typ, At.n))
  /\ UNCHANGED <<controls, blockTerminated, pendingName, rootBranchUsed, result>>
  /\ Steady

\* The stack pointer is a register of the Go ABI; the direct one has only a
\* marker for the address of the frame.
LowerGet ==
  \/ /\ Operands({"GET"})
     /\ Compute(0, <<Op("getreg", "", registerType(At.r), <<>>, At.r)>>)
  \/ /\ Operands({"GETSP"}) /\ useGoStack
     /\ Compute(0, <<Op("getsp", "", "i32", <<>>, 0)>>)
  \/ /\ Operands({"GETSP"}) /\ ~useGoStack
     /\ Next1(<<>>)
     /\ stack' = Append(stack, StackAddr)
     /\ UNCHANGED <<controls, blockTerminated, pendingName, rootBranchUsed, result>>
     /\ Steady

\* storeRegister casts; Tee leaves the cast value.
LowerSet ==
  /\ Operands({"SET", "TEE"})
  /\ CanPop(1)
  /\ LET typ == registerType(At.r) IN
     /\ Next1(<<Op("cast", "", typ, <<Cast(Nth(1), typ, FALSE)>>, 0),
                Op("setreg", "", typ, <<Cast(TmpVal(typ, Here, 1), typ, FALSE)>>, At.r)>>)
     /\ stack' = IF At.op = "TEE" THEN Append(PopN(1), TmpVal(typ, Here, 1)) ELSE PopN(1)
  /\ UNCHANGED <<controls, blockTerminated, pendingName, rootBranchUsed, result>>
  /\ Steady

-----------------------------------------------------------------------------
(***************************************************************************)
(* The frame.  With the Go ABI arguments and results are cells of the Go   *)
(* stack; directly, an argument is a parameter and the result is whatever  *)
(* value was stored last in the text.                                      *)
(***************************************************************************)
ArgOff == 0
ResOff == 8
goFrameAddress(off) == fn.frame + 8 + off
ArgVal == TmpVal("i64", 0, 1)

FrameParam(typ) ==
  IF useGoStack THEN Op("ldstk", "", typ, <<>>, goFrameAddress(ArgOff))
  ELSE Op("cast", "", typ, <<Cast(ArgVal, typ, FALSE)>>, 0)

FrameResult(v, typ) ==
  IF useGoStack THEN Op("ststk", "", typ, <<Cast(v, typ, FALSE)>>, goFrameAddress(ResOff))
  ELSE Op("cast", "", fn.ret, <<Cast(v, fn.ret, FALSE)>>, 0)
StoredResult(k) == IF useGoStack THEN result ELSE <<TmpVal(fn.ret, Here, k)>>

LowerFrameLoad ==
  /\ Operands({"LOADFP"})
  /\ Compute(0, <<FrameParam(At.typ)>>)

\* A store to the frame takes the value, and the marker below it.
LowerFrameStore ==
  /\ Operands({"STOREFP"})
  /\ CanPop(1)
  /\ Next1(<<FrameResult(Nth(1), At.typ)>>)
  /\ stack' = IF Len(stack) > 1 /\ Nth(2).stackAddr THEN PopN(2) ELSE PopN(1)
  /\ result' = StoredResult(1)
  /\ UNCHANGED <<controls, blockTerminated, pendingName, rootBranchUsed>>
  /\ Steady

\* MOVD between the frame and a register.
LowerMove ==
  /\ Operands({"MOVARG", "MOVRES"})
  /\ LET typ == registerType(At.r)
     IN IF At.op = "MOVARG"
        THEN /\ Next1(<<FrameParam("i64"), Op("setreg", "", typ, <<Cast(TmpVal("i64", Here, 1), typ, FALSE)>>, At.r)>>)
             /\ UNCHANGED result
        ELSE /\ Next1(<<Op("getreg", "", typ, <<>>, At.r), FrameResult(TmpVal(typ, Here, 1), "i64")>>)
             /\ result' = StoredResult(2)
  /\ UNCHANGED <<stack, controls, blockTerminated, pendingName, rootBranchUsed>>
  /\ Steady

-----------------------------------------------------------------------------
(***************************************************************************)
(* Structured control.                                                     *)
(***************************************************************************)
EndLabel(frame)  == <<"end", frame.at>>
LoopLabel(frame) == <<"loop", frame.at>>
ElseLabel(frame) == <<"else", frame.at>>
ThenLabel(frame) == <<"then", frame.at>>
Innermost == controls[Len(controls)]

\* storeBlockResult
HasResult(frame, st) ==
  frame.res = NoType \/ (Len(st) > Len(frame.base) /\ ~st[Len(st)].stackAddr)
StoreBlockResult(frame, st) ==
  IF frame.res = NoType THEN <<>>
  ELSE <<Op("stslot", "", frame.res, <<Cast(st[Len(st)], frame.res, FALSE)>>, frame.at)>>

\* finishControlPath
CanFinishOnlyLive(frame) == HasResult(frame, stack)  \* mutant
CanFinish(frame) == blockTerminated \/ HasResult(frame, stack)
FinishPath(frame) ==
  IF blockTerminated THEN <<>>
  ELSE StoreBlockResult(frame, stack) \o <<Br(EndLabel(frame))>>

LowerOpen ==
  /\ Operands(Openers)
  /\ At.op = "IF" => CanPop(1)
  /\ LET base  == IF At.op = "IF" THEN PopN(1) ELSE stack
         frame == Frame(At.op, pendingName, Here, base, At.typ)
         alloca == IF At.typ = NoType THEN <<>> ELSE <<Op("alloca", "", At.typ, <<>>, Here)>>
     IN /\ Next1(alloca \o
                 CASE At.op = "LOOP" -> <<Br(LoopLabel(frame)), Label(LoopLabel(frame))>>
                   [] At.op = "IF" -> <<CondBr(Nth(1), ThenLabel(frame), ElseLabel(frame)),
                                        Label(ThenLabel(frame))>>
                   [] OTHER -> <<>>)
        /\ stack' = base
        /\ controls' = Append(controls, frame)
  /\ pendingName' = ""
  /\ UNCHANGED <<blockTerminated, rootBranchUsed, result>>
  /\ Steady

LowerElse ==
  /\ phase = "translate" /\ Here <= Len(prog) /\ At.op = "ELSE"
  /\ Innermost.kind = "IF" /\ ~Innermost.inElse /\ CanFinish(Innermost)
  /\ Next1(Append(FinishPath(Innermost), Label(ElseLabel(Innermost))))
  /\ stack' = Innermost.base
  /\ controls' = [controls EXCEPT ![Len(controls)].inElse = TRUE]
  /\ blockTerminated' = FALSE
  /\ UNCHANGED <<pendingName, rootBranchUsed, result>>
  /\ Steady

\* An If without Else gets an empty second arm.
EmptyElseMissing(frame) == <<>>  \* mutant
EmptyElse(frame) ==
  IF frame.kind = "IF" /\ ~frame.inElse
  THEN <<Label(ElseLabel(frame)), Br(EndLabel(frame))>> ELSE <<>>

LowerEnd ==
  /\ phase = "translate" /\ Here <= Len(prog) /\ At.op = "END"
  /\ Len(controls) > 1 /\ CanFinish(Innermost)
  /\ EmptyElse(Innermost) # <<>> => Innermost.res = NoType
  /\ LET before == FinishPath(Innermost) \o EmptyElse(Innermost) \o <<Label(EndLabel(Innermost))>>
     IN IF Innermost.res = NoType
        THEN Next1(before) /\ stack' = Innermost.base
        ELSE /\ Next1(Append(before, Op("ldslot", "", Innermost.res, <<>>, Innermost.at)))
             /\ stack' = Append(Innermost.base, TmpVal(Innermost.res, Here, Len(before) + 1))
  /\ controls' = SubSeq(controls, 1, Len(controls) - 1)
  /\ blockTerminated' = FALSE
  /\ UNCHANGED <<pendingName, rootBranchUsed, result>>
  /\ Steady

\* controlTarget: by depth, or the innermost frame of the name.
Targets(ins) ==
  IF ins.r = "" THEN {Len(controls) - ins.n} \cap DOMAIN controls
  ELSE {i \in DOMAIN controls :
          /\ controls[i].name = ins.r
          /\ \A j \in (i + 1)..Len(controls) : controls[j].name # ins.r}

\* emitBranch.  Br takes the value it carries off the stack, BrIf leaves it.
LowerBranch ==
  /\ Operands({"BR", "BRIF"})
  /\ At.op = "BRIF" => CanPop(1)
  /\ \E i \in Targets(At) :
       LET target == controls[i]
           st     == IF At.op = "BRIF" THEN PopN(1) ELSE stack
           to     == IF target.kind = "LOOP" THEN LoopLabel(target) ELSE EndLabel(target)
           onward == <<"cont", Here>>
       IN /\ HasResult(target, st)
          /\ Next1(StoreBlockResult(target, st) \o
                   IF At.op = "BR" THEN <<Br(to)>> ELSE <<CondBr(Nth(1), to, onward), Label(onward)>>)
          /\ stack' = IF At.op = "BR" /\ target.res # NoType THEN SubSeq(st, 1, Len(st) - 1) ELSE st
          /\ rootBranchUsed' = (rootBranchUsed \/ target.kind = "FUNC")
  /\ blockTerminated' = (At.op = "BR")
  /\ UNCHANGED <<controls, pendingName, result>>
  /\ Steady

\* A label names the control that follows it.
LowerLabel ==
  /\ phase = "translate" /\ Here <= Len(prog) /\ At.op = "LABEL"
  /\ pendingName' = At.r
  /\ Next1(<<>>)
  /\ UNCHANGED <<stack, controls, blockTerminated, rootBranchUsed, result>>
  /\ Steady

\* Behind an unconditional branch nothing is lowered until a label is.
LowerDead ==
  /\ phase = "translate" /\ Here <= Len(prog)
  /\ blockTerminated /\ At.op \notin {"ELSE", "END", "LABEL"}
  /\ Next1(<<>>)
  /\ UNCHANGED <<stack, controls, blockTerminated, pendingName, rootBranchUsed, result>>
  /\ Steady

-----------------------------------------------------------------------------
(***************************************************************************)
(* Returns and calls.                                                      *)
(***************************************************************************)
\* The way back to the caller, over the frame and the return address.
GiveBackFrame(n) == MoveSP(n)  \* mutant
GiveBack(n) == MoveSP(n + 8)

\* emitReturn: what it emits, or nothing when a value is missing.
ReturnOps ==
  CASE goABI -> <<GiveBack(fn.frame), RetFlag(0)>>
    [] physicalRet = NoType -> <<RetVoid>>
    [] result # <<>> -> IF result[1].typ = physicalRet THEN <<RetVal(result[1], physicalRet)>> ELSE <<>>
    [] stack # <<>> /\ ~Nth(1).stackAddr /\ Nth(1).typ = physicalRet -> <<RetVal(Nth(1), physicalRet)>>
    [] OTHER -> <<>>

\* emitRawReturn
RawReturnOps ==
  CASE physicalRet = NoType -> <<RetVoid>>
    [] CanPop(1) -> <<RetVal(Nth(1), physicalRet)>>
    [] OTHER -> <<>>

\* emitTailCall: the frame is not given back, the target returns instead.
TailOps == <<Op("tail", "", NoType, <<>>, 0)>>

\* The code of a return; a tail call returns what its target returns.
LeaveOps ==
  CASE At.op = "WASMRETURN" /\ useGoStack -> RawReturnOps
    [] At.op \in {"RET", "WASMRETURN"} -> ReturnOps
    [] At.op = "RETUNWIND" -> IF goABI THEN <<GiveBack(fn.frame), RetFlag(1)>> ELSE <<>>
    [] At.op \in {"RETTAIL", "JMP"} -> TailOps
    [] At.op = "UNDEF" -> <<Unreachable>>

LowerReturn ==
  /\ Operands(Returns \cup {"UNDEF"})
  /\ LeaveOps # <<>>
  /\ Next1(LeaveOps)
  /\ blockTerminated' = TRUE
  /\ UNCHANGED <<stack, controls, pendingName, rootBranchUsed, result>>
  /\ Steady

\* pcID: calls are numbered in the text; 0 is the entry.
callPCs(i) == Cardinality({j \in 1..i : prog[j].op \in {"CALL", "CALLNORESUME"}})
ResumeLabel(i) == <<"resume", i>>
canResume(i) == goABI /\ prog[i].op = "CALL"

\* emitGoCall: the return address goes onto the Go stack; a callee that
\* unwinds makes this function unwind, and it is entered again behind the call.
LowerCall ==
  /\ Operands({"CALL", "CALLNORESUME"})
  /\ useGoStack /\ stack = <<>>
  /\ LET unwind == <<"unwind", Here>>
         onward == IF canResume(Here) THEN ResumeLabel(Here) ELSE <<"cont", Here>>
     IN Next1(<<MoveSP(0 - 8),
                Op("ststk", "", "i64", <<Cast(ConstVal("i64", callPCs(Here)), "i64", FALSE)>>, 0),
                Op("gocall", "", "i32", <<>>, 0),
                CondBr(TmpVal("i32", Here, 3), unwind, onward),
                Label(unwind), IF canResume(Here) THEN RetFlag(1) ELSE Unreachable,
                Label(onward)>>)
  /\ UNCHANGED <<stack, controls, blockTerminated, pendingName, rootBranchUsed, result>>
  /\ Steady

\* The end of the text: an implicit return, and the label that branches out of
\* the function go to.
Epilogue ==
  IF blockTerminated THEN <<>>
  ELSE IF Abi = "helper" /\ physicalRet # NoType THEN <<Unreachable>> ELSE ReturnOps
RootLabel ==
  IF ~rootBranchUsed THEN <<>>
  ELSE <<Label(EndLabel(Root))>> \o
       IF physicalRet = NoType THEN <<RetVoid>>
       ELSE <<Op("ldslot", "", physicalRet, <<>>, 0),
              RetVal(TmpVal(physicalRet, Here, Len(Epilogue) + 2), physicalRet)>>
\* What makes translateFuncWASM fail at an instruction.
Unlowerable ==
  /\ ~blockTerminated \/ At.op \in {"ELSE", "END"}
  /\ \/ At.op \in {"bin", "cmp", "store", "WASMCALL"} /\ ~CanPop(2)
     \/ At.op \in {"eqz", "WRAP", "EXTENDS", "EXTENDU", "load", "SET", "TEE", "STOREFP", "IF", "BRIF"} /\ ~CanPop(1)
     \/ At.op = "SELECT" /\ ~(CanPop(1) /\ Len(stack) > 2 /\ Nth(2).typ = Nth(3).typ)
     \/ At.op = "DROP" /\ stack = <<>>
     \/ At.op = "ELSE" /\ ~(Innermost.kind = "IF" /\ ~Innermost.inElse /\ CanFinish(Innermost))
     \/ At.op = "END" /\ ~(Len(controls) > 1 /\ CanFinish(Innermost)
                           /\ (EmptyElse(Innermost) # <<>> => Innermost.res = NoType))
     \/ At.op = "BR" /\ ~\E i \in Targets(At) : HasResult(controls[i], stack)
     \/ At.op = "BRIF" /\ CanPop(1) /\ ~\E i \in Targets(At) : HasResult(controls[i], PopN(1))
     \/ At.op \in Returns /\ LeaveOps = <<>>
     \/ At.op \in {"CALL", "CALLNORESUME"} /\ ~(useGoStack /\ stack = <<>>)

AtEnd == phase = "translate" /\ Here = Len(prog) + 1

Fails ==
  \/ phase = "translate" /\ Here <= Len(prog) /\ Unlowerable
  \/ AtEnd /\ (Len(controls) # 1 \/ (~blockTerminated /\ Epilogue = <<>>))

RejectFunc ==
  /\ Fails
  /\ phase' = "rejected"
  /\ UNCHANGED <<fn, prog, valid, infer, gaps, trVars, src, low>>

-----------------------------------------------------------------------------
(***************************************************************************)
(* The emitted function: env holds the values of this activation, slots    *)
(* what its allocas hold, stk the cells of the Go stack that matter.       *)
(***************************************************************************)
Known(s, c) == c.v.const \/ <<c.v.n, c.v.k>> \in DOMAIN s.env
Val(s, c) ==
  LET w == Bits[c.v.typ]
      x == IF c.v.const THEN Word2(w, c.v.n) ELSE s.env[<<c.v.n, c.v.k>>]
  IN CASE c.to = c.v.typ                   -> x
       [] Bits[c.to] < Bits[c.v.typ]       -> Word2(Bits[c.to], x)
       [] c.signed                         -> SignExtend(c.v.typ, c.to, x)
       [] OTHER                            -> x

LlvmBin(o, w, x, y) ==
  CASE o = "shl"  -> Shl(w, x, y)
    [] o = "lshr" -> Lshr(w, x, y)
    [] o = "ashr" -> Ashr(w, x, y)
    [] o = "sdiv" -> WasmBin("divs", w, x, y)
    [] o = "udiv" -> WasmBin("divu", w, x, y)
    [] o = "srem" -> WasmBin("rems", w, x, y)
    [] o = "urem" -> WasmBin("remu", w, x, y)
    [] OTHER      -> WasmBin(o, w, x, y)
LlvmCmp(p, w, x, y) ==
  WasmCmp(CASE p = "slt" -> "lts" [] p = "ult" -> "ltu" [] p = "sgt" -> "gts" [] p = "ugt" -> "gtu"
            [] p = "sle" -> "les" [] p = "ule" -> "leu" [] p = "sge" -> "ges" [] p = "uge" -> "geu"
            [] OTHER -> p, w, x, y)

Places(l) == {p \in UNION {{i} \X DOMAIN segs[i] : i \in DOMAIN segs} :
                LET op == segs[p[1]][p[2]] IN op.o = "label" /\ op.x = l}
Place(l) == CHOOSE p \in Places(l) : TRUE

Bad(s) == [s EXCEPT !.bad = TRUE, !.how = "undef"]
Halt(s, how, val) == [s EXCEPT !.how = how, !.val = val]

\* One operation that goes on to the next; its value, if any, is named i, k.
Effect(s, op, i, k, outcome) ==
  LET arg(n) == Val(s, op.args[n])
      yield(x) == [s EXCEPT !.env = (<<i, k>> :> x) @@ @]
      cell == s.sp + op.x
      w == Bits[op.typ]
  IN CASE op.o = "bin"    -> yield(LlvmBin(op.f, w, arg(1), arg(2)))
       [] op.o = "WASMCALL" -> yield(Helper(w, arg(1), arg(2)))
       [] op.o = "cmp"    -> yield(Bool2Int(LlvmCmp(op.f, Bits[op.x], arg(1), arg(2))))
       [] op.o = "cast"   -> yield(arg(1))
       [] op.o = "select" -> yield(IF arg(1) # 0 THEN arg(2) ELSE arg(3))
       [] op.o = "load"   -> yield(MemWord(s.mem, arg(1) + op.x, Bits[op.typ]))
       [] op.o = "store"  -> [s EXCEPT !.mem = MemWrite(@, arg(1) + op.x, op.typ, arg(2))]
       [] op.o = "getreg" -> yield(s.regs[op.x])
       [] op.o = "setreg" -> [s EXCEPT !.regs[op.x] = arg(1)]
       [] op.o = "getsp"  -> yield(s.sp)
       [] op.o = "sp"     -> [s EXCEPT !.sp = @ + op.x]
       [] op.o = "ldstk"  -> IF cell \in DOMAIN s.stk THEN yield(Word2(w, s.stk[cell])) ELSE Bad(s)
       [] op.o = "ststk"  -> [s EXCEPT !.stk = (cell :> arg(1)) @@ @]
       [] op.o = "alloca" -> [s EXCEPT !.slots = (op.x :> 0) @@ @]
       [] op.o = "stslot" -> IF op.x \in DOMAIN s.slots THEN [s EXCEPT !.slots[op.x] = arg(1)] ELSE Bad(s)
       [] op.o = "ldslot" -> IF op.x \in DOMAIN s.slots THEN yield(s.slots[op.x]) ELSE Bad(s)
       [] op.o = "gocall" -> IF outcome = "unwinds" THEN yield(1)
                             ELSE [yield(0) EXCEPT !.sp = @ + 8]
       [] op.o = "label"  -> s

\* Segment i from operation k on, across jumps, to the end of a segment.
RECURSIVE Exec(_, _, _, _)
Exec(s, i, k, outcome) ==
  IF s.how # "run" THEN s
  ELSE IF k > Len(segs[i]) THEN [s EXCEPT !.pc = i + 1]
  ELSE LET op == segs[i][k]
           goto(l) == LET p == Place(l) IN Exec(s, p[1], p[2] + 1, outcome)
       IN CASE \E n \in DOMAIN op.args : ~Known(s, op.args[n]) -> Bad(s)
            [] op.o = "br" -> goto(op.x)
            [] op.o = "condbr" -> goto(op.x[IF Val(s, op.args[1]) # 0 THEN 1 ELSE 2])
            [] op.o = "ret" -> Halt(s, "ret", IF op.args = <<>> THEN 0 ELSE Val(s, op.args[1]))
            [] op.o = "tail" -> Halt(s, "tail", 0)
            [] op.o = "unreachable" -> Halt(s, "undef", 0)
            [] OTHER -> Exec(Effect(s, op, i, k, outcome), i, k + 1, outcome)

\* The caller passes the arguments, each cast to its type; the function casts
\* them to the type of their slot.  The other registers start at zero.
Passed(regs) ==
  [r \in DOMAIN regs |-> IF r \in DOMAIN ArgTypes
                         THEN Word2(Bits[registerType(r)], Word2(Bits[ArgTypes[r]], regs[r])) ELSE 0]

\* The source has the parameters its author gave it: here, every register.
Given(regs) == IF Abi = "helper" THEN regs ELSE [r \in DOMAIN regs |-> 0]

\* The entry: the registers are allocas, the arguments go into theirs, and
\* pc_b says which call to continue behind.
Enter(s, pcb) ==
  LET fresh == [s EXCEPT !.how = "run", !.val = 0, !.slots = (0 :> 0),
                         !.env = (<<0, 1>> :> fn.arg),
                         !.regs = Passed(@)]
      at == {i \in DOMAIN prog : goABI /\ prog[i].op = "CALL" /\ callPCs(i) = pcb}
  IN CASE pcb = 0 -> [fresh EXCEPT !.sp = @ - (IF goABI THEN fn.frame ELSE 0), !.pc = 1]
       [] at # {} -> LET p == Place(ResumeLabel(CHOOSE i \in at : TRUE))
                     IN Exec(fresh, p[1], p[2] + 1, "returns")
       [] OTHER -> Bad(fresh)

LowInit(regs, mem) ==
  [pc |-> 1, env |-> <<>>, slots |-> <<>>, regs |-> regs, mem |-> mem, sp |-> EntrySP,
   stk |-> (EntrySP + 8 + ArgOff :> fn.arg) @@ (EntrySP + 8 + ResOff :> 0),
   how |-> "run", val |-> 0, bad |-> FALSE]

\* When the callee unwinds this activation ends; once the callee has returned,
\* the scheduler enters the function at the return address.
LowStep(outcome) ==
  LET t == Exec(low, low.pc, 1, outcome)
  IN IF outcome = "unwinds" /\ t.how = "ret" /\ t.val = 1
     THEN Enter([t EXCEPT !.sp = @ + 8], t.stk[t.sp]) ELSE t

FinishFunc ==
  /\ AtEnd /\ ~Fails
  /\ Next1(Epilogue \o RootLabel)
  /\ blockTerminated' = TRUE
  /\ phase' = "run"
  /\ \E inp \in fn.inputs :
       /\ src' = SrcInit(fn, Given(inp.regs), inp.mem)
       /\ low' = Enter(LowInit(inp.regs, inp.mem), 0)
  /\ UNCHANGED <<fn, prog, valid, infer, gaps, stack, controls, pendingName, rootBranchUsed, result>>

Outcomes ==
  IF src.pc \notin DOMAIN prog THEN {"returns"}
  ELSE IF canResume(src.pc) THEN {"returns", "unwinds"} ELSE {"returns"}

Run ==
  /\ phase = "run" /\ src.how = "run" /\ low.how = "run"
  /\ src.pc = low.pc
  /\ SrcDefined(prog, src)
  /\ src.steps < MaxSteps
  /\ \E outcome \in Outcomes :
       /\ src' = [SrcStep(prog, fn, src, outcome) EXCEPT !.steps = @ + 1]
       /\ low' = LowStep(outcome)
  /\ UNCHANGED <<fn, prog, phase, valid, infer, gaps, trVars>>
-----------------------------------------------------------------------------
Machine0 == [how |-> "none"]

Init ==
  /\ fn \in Functions
  /\ prog = <<>> /\ phase = "read"
  /\ valid = VInit(RetType(fn))
  /\ infer = InferInit(DOMAIN fn.reg)
  /\ gaps = {}
  /\ stack = <<>> /\ pendingName = "" /\ result = <<>>
  /\ controls = <<>>
  /\ blockTerminated = FALSE /\ rootBranchUsed = FALSE
  /\ segs = <<>> /\ stacks = <<>>
  /\ src = Machine0 /\ low = Machine0

Lower ==
  \/ LowerBinary \/ LowerLocalCall \/ LowerCompare \/ LowerConvert \/ LowerSelect \/ LowerLoad \/ LowerStore
  \/ LowerConst \/ LowerGet \/ LowerSet
  \/ LowerFrameLoad \/ LowerFrameStore \/ LowerMove
  \/ LowerOpen \/ LowerElse \/ LowerEnd \/ LowerBranch \/ LowerLabel \/ LowerDead
  \/ LowerReturn \/ LowerCall

Next == Read \/ ReadEnd \/ Lower \/ RejectFunc \/ FinishFunc \/ Run

Spec == Init /\ [][Next]_vars

-----------------------------------------------------------------------------
(***************************************************************************)
(* Properties                                                              *)
(***************************************************************************)
\* The translator's tables are in step with the text: one segment and one
\* recorded stack an instruction, controls that nest, every jump of a finished
\* function to exactly one label.
JumpsOf(op) == IF op.o = "br" THEN {op.x} ELSE IF op.o = "condbr" THEN {op.x[1], op.x[2]} ELSE {}
WasmTypeOK ==
  /\ phase \in {"read", "translate", "run", "rejected"}
  /\ Len(stacks) = Len(segs) /\ Len(segs) <= Len(prog) + 1
  /\ phase = "translate" => /\ controls # <<>> /\ controls[1] = Root
                            /\ \A i \in 2..Len(controls) : controls[i].at > controls[i - 1].at
  /\ phase = "run" =>
       \A i \in DOMAIN segs : \A k \in DOMAIN segs[i] :
         \A l \in JumpsOf(segs[i][k]) : Cardinality(Places(l)) = 1

\* What the translation of a helper rests on: a slot is as wide as its register,
\* and a value that a wider slot filled up with zeros is not sign-extended.
Named == {prog[i].r : i \in {i \in DOMAIN prog : prog[i].op \in {"GET", "SET", "TEE"}}}
OneType == \A r \in Named : registerType(r) = fn.reg[r]
SlotsHold ==
  Abi = "helper" =>
    /\ \A r \in Named : Bits[registerType(r)] >= Bits[fn.reg[r]]
    /\ \A i \in DOMAIN prog : prog[i].op = "EXTENDS" /\ segs[i] # <<>> =>
         stacks[i][Len(stacks[i])].typ = "i32"

\* Between two instructions the emitted function is where the source is:
\* registers, memory, the Go stack pointer, the result, and operand by operand
\* the LLVM values that the translator had on its stack hold what the operand
\* stack holds.  Values are computed on every path that uses them, also after
\* a resumed call.  (An address of the Go stack that a store to the frame
\* takes may stay behind on the translator's stack.)  This is so for a helper
\* whose slots hold its registers, SlotsHold, in a run that has read no
\* register which is neither an argument nor written; registers that are
\* neither are not compared.
Plain(st) == SelectSeq(st, LAMBDA x : x < EntrySP \div 2)
Agree ==
  LET here == stacks[src.pc]
      uses == [n \in DOMAIN here |-> Cast(here[n], here[n].typ, FALSE)]
  IN /\ \A n \in DOMAIN uses : Known(low, uses[n])
     /\ Plain([n \in DOMAIN uses |-> Val(low, uses[n])]) = Plain(src.st)
Told == src.fresh \subseteq infer.inputs
SameRegs ==
  \A r \in IF Abi = "helper" THEN infer.inputs \cup src.set ELSE DOMAIN src.regs :
    src.regs[r] = low.regs[r]
StackAgrees ==
  phase = "run" /\ SlotsHold /\ (Abi = "helper" => Told) =>
    /\ ~low.bad
    /\ src.how = "run" /\ low.how = "run" =>
         /\ src.pc = low.pc
         /\ SameRegs /\ src.mem = low.mem /\ src.sp = low.sp
         /\ goABI => src.res = low.stk[EntrySP + 8 + ResOff]
         /\ Agree

\* A function ends as its source does: by return, by tail call or by not
\* returning at all; with the same value, the unwind flag of the Go ABI, and
\* the same stack pointer.  For a helper as in StackAgrees, and when the result
\* found for it is the one it has.
EndsAgree ==
  phase = "run" /\ "run" \notin {src.how} \cap {low.how}
                /\ SlotsHold /\ (Abi = "helper" => Told /\ physicalRet = fn.ret) =>
    /\ src.how = low.how
    /\ src.how = "ret" => src.val = low.val
    /\ src.how # "undef" => src.sp = low.sp /\ src.mem = low.mem

\* A valid function is refused only for one of the known gaps, or at a Select
\* of two registers, or a register and a value, of different types by their
\* slots though not by the source.
RejectsOnlyUntranslatable ==
  phase = "rejected" =>
    \/ gaps # {}
    \/ Here <= Len(prog) /\ At.op = "SELECT" /\ ~OneType

\* The signature inferred for a helper, against what its code does:
\*   - a register some run reads before it writes it is an argument, unless the
\*     text writes it first, inside a control the run did not take;
\*   - a register has the type of the instruction that consumes what a Get of
\*     it pushed, unless a call in between made the inference forget;
\*   - where a value is returned that the instruction which computes it types,
\*     the function returns a value of that type;
\*   - no other type is found than these have, and the function is not refused.
FirstSet(r) == CHOOSE i \in DOMAIN prog :
                 /\ prog[i].op \in {"SET", "TEE"} /\ prog[i].r = r
                 /\ \A j \in 1..(i - 1) : prog[j].op \in {"SET", "TEE"} => prog[j].r # r
InsideControl(i) ==
  Cardinality({j \in 1..i : prog[j].op \in Openers}) > Cardinality({j \in 1..i : prog[j].op = "END"})

Source(v) == IF v.const \/ v.n \notin DOMAIN prog THEN Ins("const", "", v.typ, 0, "") ELSE prog[v.n]
CallBetween(i, j) == \E k \in i..j : prog[k].op \in {"CALL", "CALLNORESUME", "WASMCALL"}
TypedOps == {"bin", "cmp", "eqz", "WRAP", "EXTENDS", "EXTENDU", "load", "store", "IF", "BRIF"}
Consumed(r) ==
  \E j \in DOMAIN prog :
    /\ prog[j].op \in TypedOps /\ segs[j] # <<>>
    /\ \E k \in DOMAIN In(prog[j], fn.reg) :
         LET v == stacks[j][Len(stacks[j]) + 1 - k]
         IN Source(v).op = "GET" /\ Source(v).r = r /\ ~CallBetween(v.n, j)
ReturnsTyped ==
  \E j \in DOMAIN prog :
    /\ prog[j].op = "WASMRETURN" /\ segs[j] # <<>> /\ stacks[j] # <<>>
    /\ Source(stacks[j][Len(stacks[j])]).op \in (TypedOps \ {"store", "IF", "BRIF"}) \cup {"const", "END"}
SignatureSound ==
  /\ phase # "read" /\ Abi = "helper" /\ gaps \cap {"innermost", "leftover"} = {} => infer.ok
  /\ phase = "run" /\ Abi = "helper" =>
       /\ \A r \in src.fresh \ infer.inputs : InsideControl(FirstSet(r))
       /\ "innermost" \notin gaps =>
            \A r \in DOMAIN fn.reg : infer.types[r] \in (IF Consumed(r) THEN {} ELSE {NoType}) \cup {fn.reg[r]}
       /\ "leftover" \notin gaps =>
            infer.ret \in (IF ReturnsTyped THEN {} ELSE {NoType}) \cup {fn.ret}
=============================================================================
