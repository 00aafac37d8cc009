----------------------------- MODULE FrameAccess -----------------------------
(***************************************************************************)
(* A function body on the frame FrameLayout lays out: loads and stores of  *)
(* operands name+off(FP), stores through $name+off(FP), and RET, as the    *)
(* lowerings for arm (arm_ctx.go, arm_eval.go, arm_fp.go) and 386          *)
(* (amd64_ctx.go) execute them, next to the frame in memory that the       *)
(* source program sees.  A value is a sequence of bytes, the low one first.*)
(*                                                                         *)
(* arm keeps a slot in an alloca of its own, 386 keeps all of them in one  *)
(* array of bytes, the classic frame.  Both have words of four bytes.      *)
(***************************************************************************)
EXTENDS FrameLayout

CONSTANTS
  Targets,         \* a subset of {"arm", "386"}
  MaxVariables,    \* bodies are run for declarations of at most so many
  MaxInstrs,       \* and execute at most so many instructions
  Store64Params    \* whether an arm body stores to the low half of a
                   \* parameter of 64 bits

(* Words of both processors have four bytes, and what is passed as one     *)
(* value has the size of an LLVM scalar, or none.                          *)
ASSUME BodyAssumption ==
  /\ Targets \subseteq {"arm", "386"}
  /\ FrameWord = 4 /\ ValueWord = 4
  /\ \A t \in Types : Shape[t] = "value" => ValueSize[t] \in {0, 1, 2, 4, 8}
  /\ MaxVariables \in Nat /\ MaxInstrs \in Nat /\ Store64Params \in BOOLEAN

Undef == -1        \* a byte nothing has been said about
Registers == {0, 1}
Zero4 == [i \in 1..4 |-> 0]
Immediate == <<101, 102, 103, 104>>

VARIABLES
  target, stage,   \* "layout", "body", "returned" or "rejected"
  instrs,          \* instructions executed
  mem, reg,        \* the allocas and the registers of the LLVM function
  written,         \* fpResWritten and fpResAddrTaken: indices of results
  returned,        \* the value of each result
  frame, realReg   \* the frame and the registers of the source program

llvm == <<mem, reg, written, returned>>
real == <<frame, realReg>>
bodyVars == <<target, stage, instrs, llvm, real>>
vars == <<layoutVars, bodyVars>>

------------------------------------------------------------------------------
(* Slots found by offset.  fpParams is a map filled in the order of the    *)
(* list, and so is fpResAllocaOff: the last slot of an offset stays.       *)
(* fpResultSlotByOffset searches the list: the first slot of an offset.    *)
LastAt(slots, o) == {s \in slots : /\ s.offset = o
                                   /\ \A u \in slots : u.offset = o
                                                         => u.index =< s.index}
FirstAt(slots, o) == {s \in slots : /\ s.offset = o
                                    /\ \A u \in slots : u.offset = o
                                                          => u.index >= s.index}
Is64(s) == TypeSize(s.type) = 8
IsEmpty(s) == TypeSize(s.type) = 0
HighHalfAt(slots, o) == {s \in slots : Is64(s) /\ o = s.offset + 4}

(* Byte i of a slot: of its alloca, or of the classic frame.               *)
Loc(s, i) ==
  IF target = "386" THEN <<"frame", s.offset + i, 0>>
  ELSE IF s \in paramSlots THEN <<"arg", s.offset, i>> ELSE <<"ret", s.index, i>>
Content(s) == [i \in 1..TypeSize(s.type) |-> mem[Loc(s, i - 1)]]
Fit(n, bytes) == [i \in 1..n |-> IF i =< Len(bytes) THEN bytes[i] ELSE 0]
HighHalf(s) == SubSeq(Content(s), 5, 8)

(* Put bytes into slot s from its byte d on. *)
Put(s, d, bytes) ==
  [l \in DOMAIN mem |->
     IF \E i \in DOMAIN bytes : l = Loc(s, d + i - 1)
     THEN bytes[CHOOSE i \in DOMAIN bytes : l = Loc(s, d + i - 1)]
     ELSE mem[l]]

------------------------------------------------------------------------------
(* emitEntryAllocasAndArgInit: parameters go to their slots, results and   *)
(* registers start at zero.  An argument byte is a number of its own.      *)
Slots == paramSlots \cup resultSlots
ParamByte(o) ==
  IF \E s \in paramSlots : s.offset =< o /\ o < SlotEnd(s) THEN o + 1 ELSE Undef
InitialBytes ==
  UNION {{<<Loc(s, i), IF s \in paramSlots THEN s.offset + i + 1 ELSE 0>> :
            i \in 0..TypeSize(s.type) - 1} : s \in Slots}

(* Two parameters of one offset (one of them of size zero) give two        *)
(* allocas of one name on arm.  Bodies of functions with an empty result   *)
(* in front of another are left out: operands of the second find the first.*)
Enter ==
  /\ phase = "done" /\ withFrame /\ stage = "layout"
  /\ Len(params) + Len(results) =< MaxVariables
  /\ \A s, u \in resultSlots : s.offset = u.offset => s = u
  /\ stage' = IF target = "arm" /\ \E s, u \in paramSlots :
                                     s # u /\ s.offset = u.offset
              THEN "rejected" ELSE "body"
  /\ mem' = [l \in {p[1] : p \in InitialBytes} |->
               (CHOOSE p \in InitialBytes : p[1] = l)[2]]
  /\ frame' = [o \in 0..off - 1 |-> ParamByte(o)]
  /\ UNCHANGED <<layoutVars, target, instrs, reg, written, returned, realReg>>

(* What a program may name: a part and the width of its type; the halves   *)
(* of a part of 64 bits on their own.                                      *)
Operands ==
  UNION {IF IsEmpty(s) THEN {}
         ELSE IF Is64(s) THEN {<<s.offset, 4>>, <<s.offset + 4, 4>>}
         ELSE {<<s.offset, TypeSize(s.type)>>} : s \in Slots}

(* evalFPValue32: a parameter, or the high half of one.                    *)
EvalArm(o) ==
  LET exact == LastAt(paramSlots, o)
      high  == HighHalfAt(paramSlots, o)
  IN IF exact # {} THEN {Fit(4, Content(s)) : s \in {u \in exact : ~IsEmpty(u)}}
     ELSE {HighHalf(s) : s \in high}

(* evalFPToI64: parameters, results, the high halves of either, and zero   *)
(* for an offset of no slot.                                               *)
EvalX86(o) ==
  LET exact  == LastAt(paramSlots, o)
      result == {s \in FirstAt(resultSlots, o) : ~IsEmpty(s)}
      high   == HighHalfAt(paramSlots, o)
      hiRes  == HighHalfAt(resultSlots, o)
  IN IF exact # {} THEN {Fit(8, Content(s)) : s \in {u \in exact : ~IsEmpty(u)}}
     ELSE IF high # {} THEN {Fit(8, HighHalf(s)) : s \in high}
     ELSE IF result # {} THEN {Fit(8, Content(s)) : s \in result}
     ELSE IF hiRes # {} THEN {Fit(8, HighHalf(s)) : s \in hiRes}
     ELSE {Fit(8, <<>>)}

(* MOVW and MOVBU of arm, MOVL and MOVBLZX of 386.                         *)
EvalFP(o, width) ==
  IF target = "arm" THEN EvalArm(o)
  ELSE {Fit(4, Fit(width, v)) : v \in EvalX86(o)}

\* mutant: a word stored to half of a result clears the other half
StoreArmClears(o, v) ==
  LET exact == {s \in LastAt(paramSlots, o) : ~IsEmpty(s)}
      half  == {s \in resultSlots : Is64(s) /\ o \in {s.offset, s.offset + 4}}
      high  == HighHalfAt(resultSlots, o)
      first == {s \in FirstAt(resultSlots, o) : ~IsEmpty(s)}
  IN IF exact # {}
     THEN {<<Put(s, 0, Fit(TypeSize(s.type), v)), {}>> : s \in exact}
     ELSE {<<Put(s, 0, IF s \in high THEN Zero4 \o v ELSE Fit(TypeSize(s.type), v)),
             {s.index}>> : s \in half \cup first}

(* storeFP32 and storeFPResult32: the memory after the store and the index *)
(* of the result that is marked as written; no element when the store is   *)
(* rejected.                                                               *)
StoreArm(o, v) ==
  LET exact == LastAt(paramSlots, o)
      half  == {s \in resultSlots : Is64(s) /\ o \in {s.offset, s.offset + 4}}
      first == FirstAt(resultSlots, o)
  IN IF exact # {}
     THEN {<<Put(s, 0, Fit(TypeSize(s.type), v)), {}>> :
             s \in {u \in exact : ~IsEmpty(u)}}
     ELSE IF half # {} THEN {<<Put(s, o - s.offset, v), {s.index}>> : s \in half}
     ELSE {<<Put(s, 0, Fit(TypeSize(s.type), v)), {s.index}>> :
             s \in {u \in first : ~IsEmpty(u)}}

(* storeFPResult on 386, which also stores to parameters, of one width.    *)
StoreX86(o, v) ==
  LET exact == LastAt(paramSlots, o)
      half  == {s \in resultSlots : Is64(s) /\ Len(v) = 4
                                    /\ o \in {s.offset, s.offset + 4}}
      first == FirstAt(resultSlots, o)
  IN IF exact # {}
     THEN {<<Put(s, 0, v), {}>> : s \in {u \in exact : TypeSize(u.type) = Len(v)}}
     ELSE IF half # {} THEN {<<Put(s, o - s.offset, v), {s.index}>> : s \in half}
     ELSE {<<Put(s, 0, Fit(TypeSize(s.type), v)), {s.index}>> :
             s \in {u \in first : ~IsEmpty(u)}}

StoreFP(o, width, v) ==
  IF target = "arm" THEN StoreArm(o, v) ELSE StoreX86(o, Fit(width, v))

RealLoad(o, width) ==
  [i \in 1..4 |-> IF i =< width THEN frame[o + i - 1] ELSE 0]
RealStore(o, width, v) ==
  [p \in DOMAIN frame |-> IF p \in o..(o + width - 1) THEN v[p - o + 1] ELSE frame[p]]

------------------------------------------------------------------------------
Executing == stage = "body" /\ instrs < MaxInstrs
Executed == instrs' = instrs + 1 /\ UNCHANGED <<layoutVars, target, stage, returned>>
Rejected ==
  /\ stage' = "rejected"
  /\ UNCHANGED <<layoutVars, target, instrs, llvm, real>>

(* MOVW $imm, R *)
Const(r) ==
  /\ Executing /\ Executed
  /\ reg' = [reg EXCEPT ![r] = Immediate]
  /\ realReg' = [realReg EXCEPT ![r] = Immediate]
  /\ UNCHANGED <<mem, written, frame>>

(* MOVW x+off(FP), R *)
Load(o, width, r) ==
  /\ Executing /\ Executed
  /\ \E v \in EvalFP(o, width) : reg' = [reg EXCEPT ![r] = v]
  /\ realReg' = [realReg EXCEPT ![r] = RealLoad(o, width)]
  /\ UNCHANGED <<mem, written, frame>>

LoadRejected(o, width) ==
  Executing /\ EvalFP(o, width) = {} /\ Rejected

Storable(o) ==
  target = "arm" /\ ~Store64Params =>
    ~\E s \in LastAt(paramSlots, o) : Is64(s)

(* MOVW R, x+off(FP) *)
Store(o, width, r) ==
  /\ Executing /\ Executed /\ Storable(o)
  /\ \E after \in StoreFP(o, width, reg[r]) :
       mem' = after[1] /\ written' = written \cup after[2]
  /\ frame' = RealStore(o, width, realReg[r])
  /\ UNCHANGED <<reg, realReg>>

StoreRejected(o, width, r) ==
  Executing /\ Storable(o) /\ StoreFP(o, width, reg[r]) = {} /\ Rejected

(* MOVW $x+off(FP), R1; MOVW R, d(R1) with the address of a result: it     *)
(* counts as written from here on.                                         *)
StoreThroughAddress(s, d, r) ==
  /\ Executing /\ Executed
  /\ LET width == IF TypeSize(s.type) = 1 THEN 1 ELSE 4
         v     == Fit(width, reg[r])
     IN /\ d + width =< TypeSize(s.type)
        /\ \E u \in LastAt(resultSlots, s.offset) : mem' = Put(u, d, v)
        /\ frame' = RealStore(s.offset + d, width, realReg[r])
  /\ written' = written \cup {u.index : u \in FirstAt(resultSlots, s.offset)}
  /\ UNCHANGED <<reg, realReg>>

(* loadRetSlotFallback: a result that is never written is taken from a     *)
(* register, R0 on arm, the integer register of its turn on 386.           *)
Fallback(s) ==
  LET r == IF target = "arm" THEN 0 ELSE s.index IN IF r \in Registers THEN reg[r] ELSE Zero4

(* RET: lowerRET. *)
Return ==
  /\ stage = "body"
  /\ \A s \in resultSlots : IsEmpty(s) => s.index \in written
  /\ returned' = [n \in {s.index : s \in resultSlots} |->
        LET s == CHOOSE u \in resultSlots : u.index = n
        IN IF n \in written THEN Content(s)
           ELSE Fit(TypeSize(s.type), Fallback(s))]
  /\ stage' = "returned"
  /\ UNCHANGED <<layoutVars, target, instrs, mem, reg, written, real>>

ReturnRejected ==
  /\ stage = "body"
  /\ \E s \in resultSlots : IsEmpty(s) /\ s.index \notin written
  /\ Rejected

------------------------------------------------------------------------------
FInit ==
  /\ Init
  /\ target \in Targets /\ stage = "layout" /\ instrs = 0
  /\ mem = <<>> /\ written = {} /\ returned = <<>> /\ frame = <<>>
  /\ reg = [r \in Registers |-> Zero4]
  /\ realReg = [r \in Registers |-> [i \in 1..4 |-> Undef]]

Body ==
  \/ \E r \in Registers :
       \/ Const(r)
       \/ \E x \in Operands : \/ Load(x[1], x[2], r)
                              \/ Store(x[1], x[2], r)
                              \/ StoreRejected(x[1], x[2], r)
       \/ \E s \in resultSlots, d \in {0, 4} : StoreThroughAddress(s, d, r)
  \/ \E x \in Operands : LoadRejected(x[1], x[2])
  \/ Return \/ ReturnRejected

FNext == (LayoutNext /\ UNCHANGED bodyVars) \/ Enter \/ Body
FSpec == FInit /\ [][FNext]_vars

------------------------------------------------------------------------------
(* Translated and source program agree on every byte the program has       *)
(* defined: in the registers, in every slot of the frame whatever the      *)
(* order of stores to its parts and halves, and in the results handed back *)
(* by RET.                                                                 *)
FrameAgrees ==
  /\ \A r \in Registers : \A i \in 1..4 :
       realReg[r][i] # Undef => reg[r][i] = realReg[r][i]
  /\ stage \in {"body", "returned"} =>
       \A s \in Slots : \A i \in 1..TypeSize(s.type) :
         frame[s.offset + i - 1] # Undef
           => Content(s)[i] = frame[s.offset + i - 1]
  /\ stage = "returned" =>
       \A s \in resultSlots : \A i \in 1..TypeSize(s.type) :
         frame[s.offset + i - 1] # Undef
           => returned[s.index][i] = frame[s.offset + i - 1]
==============================================================================
