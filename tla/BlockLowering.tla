--------------------------- MODULE BlockLowering ---------------------------
(***************************************************************************)
(* Control-flow lowering of one Plan 9 function: the CFG translators of    *)
(* arm64, arm, amd64 and 386 (<arch>_blocks.go, lowerBlocks, lowerInstr    *)
(* and lowerBranch).                                                       *)
(*                                                                         *)
(* The translator first cuts the instruction list into named blocks        *)
(* ("split"), then emits every block with a terminator ("lower").  The     *)
(* result is then run side by side with the source ("run"): both machines  *)
(* share the outcome of every conditional branch, so they must always be   *)
(* about to execute the same instruction.                                  *)
(*                                                                         *)
(* A program is a record [arch, code, labels, llvm]: code is the sequence  *)
(* of instructions without the labels, labels the sequence of labels in    *)
(* text order, each with the index `at' of the instruction that follows    *)
(* it, and llvm[l] what <arch>LLVMBlockName makes of the label l.          *)
(***************************************************************************)
EXTENDS Integers, Sequences

CONSTANTS
  Labels,     \* label names, none of which starts with anon_
  Programs    \* the functions under translation

VARIABLES
  prog,          \* the function: fn.Instrs
  phase,         \* "split", "lower", "error", "run" or "refused"
  li, nl,        \* instructions and labels consumed by the splitter
  anon,          \* number of synthetic block names handed out
  blocks,        \* Seq of [name, lo, hi]: instrs lo..hi of prog.code
  bi, ii,        \* block and instruction being lowered
  flagsWritten,  \* a flag write has been lowered
  fpResWritten,  \* a store to the result slot has been lowered
  ir,            \* Seq of emitted terminators, one per lowered block
  srcPc, srcHow, \* source machine: next instruction, "run" or how it ended
  stored,        \* the source has stored its result slot
  lowBlk, lowPc, lowHow, \* lowered machine
  retFrom        \* where the executed ret took its value from

splitVars == <<li, nl, anon>>
lowerVars == <<bi, ii, flagsWritten, fpResWritten, ir>>
runVars   == <<srcPc, srcHow, stored, lowBlk, lowPc, lowHow, retFrom>>
vars == <<prog, phase, splitVars, blocks, lowerVars, runVars>>

Arch == prog.arch
N == Len(prog.code)
Op(i) == prog.code[i].op
Tgt(i) == prog.code[i].tgt

-----------------------------------------------------------------------------
(***************************************************************************)
(* Mnemonics.  SplitOps is isTerminator of the architecture's splitter;    *)
(* Jumps, FlagBranches and RegBranches are the cases of its lowerBranch.   *)
(***************************************************************************)
ArmConds == {"BEQ", "BNE", "BLO", "BHI", "BLT", "BGE", "BLE", "BGT", "BHS",
             "BLS", "BMI", "BPL", "BVS", "BVC", "BCC", "BCS"}

X86Conds == {"JE", "JEQ", "JZ", "JNE", "JNZ", "JL", "JLT", "JLE", "JG", "JGT",
             "JGE", "JS", "JNS", "JB", "JLO", "JBE", "JA", "JHI", "JAE",
             "JHS", "JLS", "JNA", "JNC", "JC", "JCC"}

X86 == {"amd64", "386"}  \* one translator for both

Jumps == IF Arch \in X86 THEN {"JMP"} ELSE {"B", "JMP"}

RegConds == {"CBZ", "CBNZ", "TBZ", "TBNZ", "CBZW", "CBNZW"}

FlagBranches == IF Arch \in X86 THEN X86Conds
                ELSE ArmConds \cup (IF Arch = "arm" THEN {"B.cond"} ELSE {})

RegBranches == IF Arch = "arm64" THEN RegConds ELSE {}

CondBranches == FlagBranches \cup RegBranches

SplitOpsJumps == {"RET", "B", "JMP"}  \* mutant: conditional branches forgotten
SplitOps ==
  {"RET"} \cup
  IF Arch \in X86 THEN X86Conds \cup {"JMP"}
  ELSE {"B", "JMP"} \cup
       (IF Arch = "arm" THEN ArmConds \cup {"B.cond"}
        ELSE (ArmConds \ {"BCS"}) \cup {"CBZ", "CBNZ", "TBZ", "TBNZ"})

\* Operations whose lowering reports terminated = true.
LowerTerms == {"RET"} \cup Jumps \cup CondBranches
              \cup (IF Arch \in {"arm", "386"} THEN {"UNDEF"} ELSE {})

(***************************************************************************)
(* Operations that matter besides control flow: those that write the flag  *)
(* slots and those that store to the Go result slot ret+off(FP).           *)
(***************************************************************************)
SetsFlags    == {"CMP"}
StoresResult == {"MOVRET"}

(***************************************************************************)
(* The functions: what the assembler accepts, and the limits of the        *)
(* translators.  Labels stand in text order, once each, and are defined    *)
(* where a branch names them; a branch has a target.  Left out are         *)
(* conditional branches to a symbol (taken for the label of that name) and *)
(* to n(PC) on arm64 (an approximation), the three branches isTerminator   *)
(* of arm64 forgets, UNDEF where it is lowered as a no-op, and labels that *)
(* start with anon_, which the splitter takes for names of its own.        *)
(*                                                                         *)
(* The LLVM name of a label is its own (<<"label", l>>), that of another   *)
(* label of which only letters and digits were the same, that of a         *)
(* synthetic block or of the entry block, or that of a value (%t1,         *)
(* %reg_R0) or an inner block of the function (<<"value", 0>>).            *)
(***************************************************************************)
Branches == {"B", "JMP", "B.cond"} \cup ArmConds \cup RegConds \cup X86Conds

LabelsInOrder(p) ==
  /\ p.labels \in Seq([name : Labels, at : Int])
  /\ \A k \in 1..Len(p.labels) : p.labels[k].at \in 1..(Len(p.code) + 1)
  /\ \A j, k \in 1..Len(p.labels) :
       /\ j < k => p.labels[j].at <= p.labels[k].at
       /\ p.labels[j].name = p.labels[k].name => j = k

Translatable(arch, ins) ==
  /\ ins.op \in Branches => \/ ins.tgt.kind \in {"label", "pc"}
                            \/ ins.tgt.kind = "sym" /\ ins.op \in {"B", "JMP"}
  /\ ins.op = "UNDEF" => arch \in {"arm", "386"}
  /\ arch = "arm64" => /\ ins.op \notin {"BCS", "CBZW", "CBNZW"}
                       /\ ins.op \in Branches /\ ins.tgt.kind = "pc" => ins.op \in {"B", "JMP"}

WellFormed(p) ==
  /\ p.arch \in {"arm64", "arm"} \cup X86
  /\ p.code \in Seq([op : STRING, tgt : [kind : {"none", "label", "pc", "sym"},
                                         label : Labels, off : Int]])
  /\ LabelsInOrder(p)
  /\ p.llvm \in [Labels -> ({"label"} \X Labels) \cup ({"anon"} \X Nat)
                           \cup {<<"entry", 0>>, <<"value", 0>>}]
  /\ \A i \in 1..Len(p.code) :
       /\ Translatable(p.arch, p.code[i])
       /\ p.code[i].tgt.kind = "label" =>
            \E k \in 1..Len(p.labels) : p.labels[k].name = p.code[i].tgt.label

ASSUME ProgramsAssumption == \A p \in Programs : WellFormed(p)

\* Names of blocks: those the splitter gives, and what LLVM gets to see.
LabelName(l) == <<"label", l>>
AnonName(k)  == <<"anon", k>>
EntryName    == <<"entry", 0>>
ValueName    == <<"value", 0>>

LLVMBlockName(name) == IF name[1] = "label" THEN prog.llvm[name[2]] ELSE name

-----------------------------------------------------------------------------
(***************************************************************************)
(* Splitting: one action per iteration of the loop over fn.Instrs.         *)
(***************************************************************************)

\* Indices of PC-relative branch targets, at which arm and amd64 also cut.
SplitAt ==
  IF Arch = "arm64" THEN {}
  ELSE {t \in 1..N : \E i \in 1..N : /\ Op(i) \in Jumps \cup FlagBranches
                                     /\ Tgt(i).kind = "pc"
                                     /\ t = i + Tgt(i).off}

Cur == blocks[Len(blocks)]
CurEmpty == Cur.lo > Cur.hi
CurNotEntry == Cur.name[1] # "entry"  \* mutant: any block may be renamed
CurAnon == Cur.name[1] = "anon"

NewBlock(name, at) == [name |-> name, lo |-> at, hi |-> at - 1]

\* The last block takes one more instruction, or another name.
Grow(bs, at)     == [bs EXCEPT ![Len(bs)] = [name |-> @.name, lo |-> @.lo, hi |-> at]]
Rename(bs, name) == [bs EXCEPT ![Len(bs)] = [name |-> name, lo |-> @.lo, hi |-> @.hi]]

LabelHere == nl < Len(prog.labels) /\ prog.labels[nl + 1].at = li + 1

\* A label opens a block; an empty synthetic block takes the label's name.
SplitLabel ==
  /\ phase = "split"
  /\ LabelHere
  /\ nl' = nl + 1
  /\ LET name == LabelName(prog.labels[nl + 1].name)
     IN blocks' = IF CurEmpty /\ CurAnon
                  THEN Rename(blocks, name)
                  ELSE Append(blocks, NewBlock(name, li + 1))
  /\ UNCHANGED <<prog, phase, li, anon, lowerVars, runVars>>

\* The blocks once instruction li + 1 is in the last of them: cutBefore says
\* that a PC-relative target starts a synthetic block.
WithInstr(cutBefore) ==
  IF cutBefore
  THEN Grow(Append(blocks, NewBlock(AnonName(anon + 1), li + 1)), li + 1)
  ELSE Grow(blocks, li + 1)

SplitInstr ==
  /\ phase = "split"
  /\ ~LabelHere
  /\ li < N
  /\ LET cutBefore == li + 1 \in SplitAt /\ ~CurEmpty
         used      == IF cutBefore THEN anon + 1 ELSE anon
         cutAfter  == Op(li + 1) \in SplitOps
     IN /\ anon' = IF cutAfter THEN used + 1 ELSE used
        /\ blocks' = IF cutAfter
                     THEN Append(WithInstr(cutBefore),
                                 NewBlock(AnonName(used + 1), li + 2))
                     ELSE WithInstr(cutBefore)
  /\ li' = li + 1
  /\ UNCHANGED <<prog, phase, nl, lowerVars, runVars>>

\* A trailing empty synthetic block is dropped; lowering starts at block 1.
SplitDone ==
  /\ phase = "split"
  /\ ~LabelHere
  /\ li = N
  /\ blocks' = IF Len(blocks) > 1 /\ CurEmpty /\ CurAnon
               THEN SubSeq(blocks, 1, Len(blocks) - 1) ELSE blocks
  /\ phase' = "lower"
  /\ UNCHANGED <<prog, splitVars, lowerVars, runVars>>

-----------------------------------------------------------------------------
(***************************************************************************)
(* Branch targets.  A label names its block; n(PC) is resolved per         *)
(* architecture.  The result is a set of at most one block name.           *)
(***************************************************************************)
NextName == IF bi < Len(blocks) THEN {blocks[bi + 1].name} ELSE {}

\* arm: the branch is taken to be the last instruction of its block; the
\* first block that starts at the target is chosen.
ArmPCTargetFromStart(off) ==  \* mutant: counted from the start of the block
  {blocks[b].name : b \in {c \in 1..Len(blocks) : blocks[c].lo = blocks[bi].lo + off}}
ArmPCTarget(off) ==
  LET at == {b \in 1..Len(blocks) : blocks[b].lo = blocks[bi].hi + off}
  IN {blocks[b].name : b \in {c \in at : \A d \in at : c <= d}}

\* amd64: blockByIdx maps a start index to the last block starting there.
Amd64PCTarget(off) ==
  LET at == {b \in 1..Len(blocks) : blocks[b].lo = ii + off}
  IN {blocks[b].name : b \in {c \in at : \A d \in at : d <= c}}

\* arm64: block-relative approximation, different for each family of
\* conditional branches; a jump to n(PC) is no branch to a block.
Arm64PCTarget(off) ==
  IF Op(ii) \in Jumps THEN {}
  ELSE IF Op(ii) \in FlagBranches THEN NextName
  ELSE IF off <= 0 \/ bi = Len(blocks) THEN {blocks[bi].name} ELSE NextName

PCTarget(off) == IF Arch = "arm64" THEN Arm64PCTarget(off)
                 ELSE IF Arch = "arm" THEN ArmPCTarget(off) ELSE Amd64PCTarget(off)

BranchTarget ==
  IF Tgt(ii).kind = "label" THEN {LabelName(Tgt(ii).label)}
  ELSE IF Tgt(ii).kind = "pc" THEN PCTarget(Tgt(ii).off) ELSE {}

Term(kind, to, fall) == [kind |-> kind, to |-> to, fall |-> fall, at |-> ii]
Br(to)          == Term("br", to, EntryName)
CondBr(to, fall) == Term("condbr", to, fall)
End(kind)       == Term(kind, EntryName, EntryName)

\* lowerBlocks goes on with the next block.
EmitTerm(t) ==
  /\ ir' = Append(ir, t)
  /\ bi' = bi + 1
  /\ ii' = IF bi < Len(blocks) THEN blocks[bi + 1].lo ELSE ii
  /\ UNCHANGED <<prog, phase, splitVars, blocks, flagsWritten, fpResWritten, runVars>>

Reject ==
  /\ phase' = "error"
  /\ UNCHANGED <<prog, splitVars, blocks, lowerVars, runVars>>

Lowering == phase = "lower" /\ bi <= Len(blocks)
AtInstr  == Lowering /\ ii <= blocks[bi].hi

-----------------------------------------------------------------------------
(***************************************************************************)
(* Lowering: one action per kind of instruction, lowerInstr in order.      *)
(***************************************************************************)
LowerPlainForgets ==  \* mutant: fpResWritten is that of the last instruction
  /\ AtInstr
  /\ Op(ii) \notin LowerTerms
  /\ flagsWritten' = (flagsWritten \/ Op(ii) \in SetsFlags)
  /\ fpResWritten' = (Op(ii) \in StoresResult)
  /\ ii' = ii + 1
  /\ UNCHANGED <<prog, phase, splitVars, blocks, bi, ir, runVars>>

LowerPlain ==
  /\ AtInstr
  /\ Op(ii) \notin LowerTerms
  /\ flagsWritten' = (flagsWritten \/ Op(ii) \in SetsFlags)
  /\ fpResWritten' = (fpResWritten \/ Op(ii) \in StoresResult)
  /\ ii' = ii + 1
  /\ UNCHANGED <<prog, phase, splitVars, blocks, bi, ir, runVars>>

\* RET, or RET f(SB): lowerRET reads the result slot only when a store to it
\* has already been lowered.
LowerRet ==
  /\ AtInstr
  /\ Op(ii) = "RET"
  /\ EmitTerm(End(IF Tgt(ii).kind = "sym" THEN "tail"
                  ELSE IF fpResWritten THEN "retslot" ELSE "retreg"))

\* UNDEF ends an arm or 386 block with `unreachable'.
LowerUndef ==
  /\ AtInstr
  /\ Op(ii) = "UNDEF" /\ "UNDEF" \in LowerTerms
  /\ EmitTerm(End("undef"))

\* arm64 takes n(PC) for a memory operand: it jumps to what the slot of the
\* register PC holds, plus n.
JumpsThroughPC(i) == Arch = "arm64" /\ Op(i) \in Jumps /\ Tgt(i).kind = "pc"

LowerJump ==
  /\ AtInstr
  /\ Op(ii) \in Jumps
  /\ \/ /\ Tgt(ii).kind = "sym"
        /\ EmitTerm(End("tail"))
     \/ JumpsThroughPC(ii) /\ EmitTerm(End("indirect"))
     \/ \E to \in BranchTarget : EmitTerm(Br(to))
     \/ /\ Tgt(ii).kind # "sym" /\ ~JumpsThroughPC(ii)
        /\ BranchTarget = {}
        /\ Reject

\* condValue refuses a flag nobody has written (arm64, arm); every
\* conditional branch needs a following block to fall into.
LowerCond ==
  /\ AtInstr
  /\ Op(ii) \in CondBranches
  /\ LET refused == Arch \notin X86 /\ Op(ii) \in FlagBranches /\ ~flagsWritten
     IN \/ /\ ~refused
           /\ \E to \in BranchTarget, fall \in NextName : EmitTerm(CondBr(to, fall))
        \/ (refused \/ BranchTarget = {} \/ NextName = {}) /\ Reject

\* The block ran out of instructions: branch to the next, or return zero.
LowerFallthrough ==
  /\ Lowering
  /\ ii > blocks[bi].hi
  /\ EmitTerm(IF bi < Len(blocks) THEN Term("glide", blocks[bi + 1].name, EntryName)
              ELSE End("retzero"))

\* What LLVM asks of the labels: each defined once and no value's name, the
\* targets of a branch among them, and none of them the entry block.
DefinedOnce(name) ==
  \E b \in 1..Len(blocks) :
    {c \in 1..Len(blocks) : LLVMBlockName(blocks[c].name) = LLVMBlockName(name)} = {b}

TermTargets(t) == IF t.kind = "condbr" THEN {t.to, t.fall}
                  ELSE IF t.kind \in {"br", "glide"} THEN {t.to} ELSE {}

LabelsVerify ==
  /\ \A b \in 1..Len(blocks) : /\ DefinedOnce(blocks[b].name)
                              /\ LLVMBlockName(blocks[b].name) # ValueName
  /\ \A k \in 1..Len(ir) : \A to \in TermTargets(ir[k]) :
       DefinedOnce(to) /\ LLVMBlockName(to) # EntryName

LowerDone ==
  /\ phase = "lower"
  /\ bi > Len(blocks)
  /\ phase' = IF LabelsVerify THEN "run" ELSE "refused"
  /\ UNCHANGED <<prog, splitVars, blocks, lowerVars, runVars>>

-----------------------------------------------------------------------------
(***************************************************************************)
(* Execution.  The source machine is the assembler's meaning of the        *)
(* program: a label is the instruction after it, n(PC) counts              *)
(* instructions, and control falls through from each to the next.          *)
(***************************************************************************)
LabelAt(l) == {prog.labels[k].at : k \in {j \in 1..Len(prog.labels) :
                                             prog.labels[j].name = l}}

SrcTargets(i) ==
  IF Tgt(i).kind = "label" THEN LabelAt(Tgt(i).label)
  ELSE IF Tgt(i).kind = "pc" THEN {i + Tgt(i).off} ELSE {}

SrcEnd(how)  == srcHow' = how /\ srcPc' = srcPc
SrcGoto(pc)  == srcHow' = "run" /\ srcPc' = pc

SrcTail == Op(srcPc) \in {"RET"} \cup Jumps /\ Tgt(srcPc).kind = "sym"

SrcBranches(taken) == \/ Op(srcPc) \in Jumps /\ Tgt(srcPc).kind # "sym"
                      \/ Op(srcPc) \in CondBranches /\ taken

SrcInstr(taken) ==
  \/ SrcTail /\ SrcEnd("tail")
  \/ Op(srcPc) = "RET" /\ ~SrcTail /\ SrcEnd("ret")
  \/ Op(srcPc) = "UNDEF" /\ SrcEnd("undef")
  \/ SrcBranches(taken) /\ \E pc \in SrcTargets(srcPc) : SrcGoto(pc)
  \/ /\ Op(srcPc) \notin {"RET", "UNDEF"} \cup Jumps
     /\ ~SrcBranches(taken)
     /\ SrcGoto(srcPc + 1)

SrcStep(taken) ==
  \/ srcPc > N /\ SrcEnd("off") /\ UNCHANGED stored
  \/ /\ srcPc <= N
     /\ stored' = (stored \/ Op(srcPc) \in StoresResult)
     /\ SrcInstr(taken)

\* The lowered machine: branches go to the block of that name.
LowEnd(how, from) == /\ lowHow' = how
                     /\ retFrom' = from
                     /\ UNCHANGED <<lowBlk, lowPc>>
LowGoto(name) ==
  /\ \E b \in 1..Len(blocks) : /\ LLVMBlockName(blocks[b].name) = LLVMBlockName(name)
                               /\ lowBlk' = b
                               /\ lowPc' = blocks[b].lo
  /\ UNCHANGED <<lowHow, retFrom>>

LowTerm(t, taken) ==
  \/ t.kind = "br" /\ LowGoto(t.to)
  \/ t.kind = "condbr" /\ LowGoto(IF taken THEN t.to ELSE t.fall)
  \/ t.kind = "retslot" /\ LowEnd("ret", "slot")
  \/ t.kind = "retreg" /\ LowEnd("ret", "reg")
  \/ t.kind = "retzero" /\ LowEnd("off", "none")
  \/ t.kind \in {"tail", "undef", "indirect"} /\ LowEnd(t.kind, "none")

LowStep(taken) ==
  \/ /\ lowPc < ir[lowBlk].at
     /\ lowPc' = lowPc + 1
     /\ UNCHANGED <<lowBlk, lowHow, retFrom>>
  \/ lowPc >= ir[lowBlk].at /\ LowTerm(ir[lowBlk], taken)

Running == phase = "run" /\ srcHow = "run" /\ lowHow = "run"

\* The branch emitted between two blocks is no instruction of the source.
AtGlide == ir[lowBlk].kind = "glide" /\ lowPc = ir[lowBlk].at

Glide ==
  /\ Running
  /\ AtGlide
  /\ LowGoto(ir[lowBlk].to)
  /\ UNCHANGED <<prog, phase, splitVars, blocks, lowerVars, srcPc, srcHow, stored>>

Exec(taken) ==
  /\ Running
  /\ ~AtGlide
  /\ SrcStep(taken)
  /\ LowStep(taken)
  /\ UNCHANGED <<prog, phase, splitVars, blocks, lowerVars>>

-----------------------------------------------------------------------------
Init ==
  /\ prog \in Programs
  /\ phase = "split"
  /\ li = 0 /\ nl = 0 /\ anon = 0
  /\ blocks = <<NewBlock(EntryName, 1)>>
  /\ bi = 1 /\ ii = 1 /\ flagsWritten = FALSE /\ fpResWritten = FALSE
  /\ ir = <<>>
  /\ srcPc = 1 /\ srcHow = "run" /\ stored = FALSE
  /\ lowBlk = 1 /\ lowPc = 1 /\ lowHow = "run" /\ retFrom = "none"

Translate == \/ SplitLabel \/ SplitInstr \/ SplitDone
             \/ LowerPlain \/ LowerRet \/ LowerUndef \/ LowerJump \/ LowerCond
             \/ LowerFallthrough \/ LowerDone

Next == Translate \/ Glide \/ \E taken \in BOOLEAN : Exec(taken)

Spec == Init /\ [][Next]_vars

-----------------------------------------------------------------------------
(***************************************************************************)
(* Properties.                                                             *)
(***************************************************************************)
\* The lowered function executes exactly the instructions of the source, in
\* the same order, and ends where and how the source ends: no instruction is
\* lost at a block boundary, no branch lands beside its target
\* (isTerminator against lowerBranch, splitAt against resolveBranchTarget).
\* It speaks of functions whose labels LLVM accepts, and of a run until it
\* reaches a jump to n(PC) on arm64, which leaves the function altogether.
Lockstep ==
  phase = "run" /\ lowHow # "indirect" => /\ srcHow = lowHow
                                          /\ srcHow = "run" => srcPc = lowPc

\* Two labels of the text get one LLVM name, or one of them a name that the
\* translator itself gives to a block or a value.
LabelsClash ==
  \/ \E j, k \in 1..Len(prog.labels) :
       /\ j # k
       /\ prog.llvm[prog.labels[j].name] = prog.llvm[prog.labels[k].name]
  \/ \E k \in 1..Len(prog.labels) : prog.llvm[prog.labels[k].name][1] # "label"

BranchesToText == \E i \in 1..N : Tgt(i).kind = "pc" /\ i + Tgt(i).off = 1

\* The blocks of an emitted function have labels of their own and a branch
\* names one that exists and is not the entry block: renaming and dropping
\* synthetic blocks leaves neither a dangling nor a duplicate label.  The
\* exceptions are in the text: labels that <arch>LLVMBlockName makes equal to
\* another name, and a branch that counts back to TEXT.
BranchesResolve ==
  phase \in {"run", "refused"} => LabelsVerify \/ LabelsClash \/ BranchesToText

\* What follows UNDEF in its block is dropped: such code cannot be reached.
AfterUndef(j) ==
  \E u \in 1..(j - 1) :
    /\ Op(u) = "UNDEF" /\ "UNDEF" \in LowerTerms
    /\ \A i \in u..(j - 1) : Op(i) \notin SplitOps /\ i + 1 \notin SplitAt
    /\ \A k \in 1..Len(prog.labels) : prog.labels[k].at \notin (u + 1)..j

\* A function is refused only for a reason the code names: a target outside
\* the function, a conditional branch with nothing after it, or a flag
\* condition before any flag write in the text that can be reached.
RejectsOnlyUntranslatable ==
  phase = "error" =>
    \E i \in 1..N :
      \/ Tgt(i).kind = "pc" /\ i + Tgt(i).off \notin 1..N
      \/ /\ Op(i) \in CondBranches
         /\ i = N
         /\ \A k \in 1..Len(prog.labels) : prog.labels[k].at # N + 1
      \/ /\ Op(i) \in FlagBranches
         /\ \A j \in 1..(i - 1) : Op(j) \in SetsFlags => AfterUndef(j)

\* lowerRET: a run that has stored its result returns what it stored, if the
\* text has a store in front of the RET that ends the run, whatever path led
\* to it.  (fpResWritten is a fact of the text that is lowered; a RET all of
\* whose stores follow it in the text, or stand dropped behind an UNDEF,
\* returns a register.)
StoredResultReturned ==
  /\ phase = "run" /\ lowHow = "ret" /\ stored
  /\ \E j \in 1..(srcPc - 1) : Op(j) \in StoresResult /\ ~AfterUndef(j)
  => retFrom = "slot"

=============================================================================
