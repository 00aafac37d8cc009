# plan9asm in TLA+

plan9asm translates Go's Plan 9 assembly (386, amd64, arm, arm64, wasm) into
LLVM IR.  This directory holds TLA+ models of the translator and of its tools,
the TLC configurations that check them, and proofs checked by TLAPS.

Run a check with `tlc -config X.cfg M` and a proof with `tlapm M.tla`.  The
list of runs, the map from definitions to source lines, the hazards and the
findings are in `PROJECT.json`.

## 1. The system

A package's assembly goes through these stages, one after the other:

    source text -> preprocess -> Parse -> File (functions, DATA, GLOBL)
      -> per function: split into blocks, lower every instruction
      -> LLVM text, or an LLVM module built directly

The translator is sequential and keeps no state between functions; the code it
emits runs on many threads.  So there are three kinds of hard behaviour: state
of the *text* that the translator takes for state of the *execution* (flags
written, result stored, repeat prefix), the meaning of *emitted* code next to
the processor's (branches, atomics, flags), and the tools that talk to the
network.

| Component | State | Operations | Interacts with | What makes it correct |
|---|---|---|---|---|
| Preprocessor (`preprocess.go`) | macro table, stack of conditionals, comment and continuation state | one per directive; expansion of a line | parser reads its lines | the lines a C preprocessor would select and expand, in order |
| Parser (`parser.go`, `types.go`, `instruction.go`) | current function | TEXT, DATA, GLOBL, labels, instructions, operands | fills `File` | every operand denotes what the assembler reads |
| Control-flow translation (`*_blocks.go`, `*_translate*.go`, `*_lower_branch.go`) | block list, current block, `flagsWritten`, `fpResWritten`, `repeatPrefix` | split; lower each instruction; branches, calls, RET, fallthrough | calls every `lower…` function, asks the context for slots | the emitted function takes the path of the source |
| Function context (`*_ctx.go`, `*_needed.go`, `*_eval.go`, `*_fp.go`) | allocas of registers, flags, exclusive monitor, frame slots | loads and stores of operands | all lowerings | a slot is the register it stands for |
| Integer arithmetic and flags (`*_lower_arith.go`, `*_flags.go`, `*_lower_cond.go`, …) | flag slots | about 200 mnemonics | branches read the flag slots | result and flags as the processor's |
| Atomics (`*_lower_atomic.go`) | `exclusive_*` slots per call, shared memory | load/store exclusive, LSE, CMPXCHG, XADD, XCHG | threads share memory | atomic calls, retry loops that end |
| Data movement, strings (`*_lower_data.go`, `*_lower_mov.go`, `amd64_lower_string.go`, `arm_lower_movm.go`) | registers, memory, `repeatPrefix` | moves, MOVM, REP | context | width and sign of every move |
| Vectors, floats, x87 (`*_lower_vec.go`, `*_fpops.go`, `amd64_lower_x87.go`) | vector slots, eight x87 slots | lanes, shuffles, conversions | context | lanes where the processor puts them |
| WebAssembly (`wasm_*.go`) | open blocks, operand stack, Go stack pointer, PC_B | structured control, calls, resume | Go ABI of wasm | a function that was left at a call continues after it |
| Modules (`translate*.go`, `go_translate.go`) | signatures, globals, declarations | one pass over `File` | LLVM, go/types | a symbol is one global or function (the direct path lets LLVM rename a second one, the text paths refuse it), DATA where GLOBL has room |
| Native emission (`native_*.go`) | label names | one rewriting per instruction | external assembler | the same instruction in another syntax |
| plan9asmdiscover | cursor, worker pool, scan state in reports | page of the index, inspect a module, report | module index and proxy over HTTP | no module skipped or lost, runs end |
| Other tools (`plan9asm`, `plan9asmll`, `plan9asmscan`, `plan9asmcorpus`) | none between runs | list, translate, compile, compare | go list, llc | reports agree with what was done |

## 2. The modules

| Module | Models | Composes |
|---|---|---|
| `BlockLowering` | splitting and lowering of one function, then source and emitted function side by side | — |
| `MCBlockLowering` | the functions TLC tries | `BlockLowering` |
| `BlockLowering_proofs` | theorems about `BlockLowering` | `BlockLowering` |
| `ExclusiveMonitor` | every atomic instruction as lowered, threads over shared cells | — |
| `AtomicMemory` | what an atomic call promises: it takes effect once, between call and return | — |
| `AtomicLoops` | the Go runtime's retry loops built from those instructions | `ExclusiveMonitor`; implements `AtomicMemory` |
| `AtomicLoops_proofs` | theorems about `ExclusiveMonitor`, and the refinement of `AtomicMemory` | `AtomicLoops` |
| `IndexReader` | `readIndex`, batch after batch, while the feed grows | — |
| `IndexReader_proofs` | theorems about `IndexReader` | `IndexReader` |
| `InspectPool` | `inspectModules`: feeder, workers, collector; and later runs with `-seen-report` | — |
| `InspectPool_proofs` | theorems about `InspectPool` | `InspectPool` |
| `Words`, `WordOps` | LLVM's integer operations on words of n bits | — |
| `ArmFlags` | the flag slots of arm and arm64, and the processor's flags | `Words` |
| `Alu_proofs` | theorems about `Alu` on arm64 and arm, `ArmFlags` and the operations of `WordOps` | `Alu` |
| `Arm64Alu`, `ArmAlu`, `X86Alu` | the integer instructions as lowered | `ArmFlags`, `WordOps` |
| `Arm64Arch`, `ArmArch`, `X86Arch` | the same instructions as the processor defines them | `Arm64Alu`, `ArmAlu`, `X86Alu` (operands) |
| `Alu` | a program run by both, one instruction after the other | the six above |
| `MacroExpansion` | `expandPPLine` and what it calls, and the assembler's lexer | — |
| `Preprocess` | the loop of `preprocess` over the lines of a file, and its second pass | `MacroExpansion` |
| `FrameLayout` | `goFuncSigForDeclaredFunc`: the slots and the LLVM types of a Go signature | — |
| `FrameAccess` | operands `name+off(FP)` in a function body, on arm and 386 | `FrameLayout` |
| `FrameAccess_proofs` | theorems about `FrameLayout` and `FrameAccess` | `FrameAccess` |
| `LinearSource` | what straight-line functions of amd64, arm and arm64 mean | `WordOps` |
| `LinearLowering` | both linear translators, the choice between them and the processor, in step | `LinearSource` |
| `LinearLowering_proofs` | theorems about `LinearLowering` | `LinearLowering` |
| `ModuleAssembly` | one file to one module: DATA, GLOBL, declarations, functions; direct, text and native | — |
| `ModuleAssembly_proofs` | theorems about `ModuleAssembly` | `ModuleAssembly` |
| `WasmSource` | WebAssembly and the Go ABI of wasm: typing, validation, execution | `WordOps` |
| `WasmSignature` | `InferWASMAssemblyFuncSig` | `WasmSource` |
| `WasmLowering` | `translateFuncWASM`, then source and emitted function side by side | `WasmSignature` |
| `MC…` | constants for TLC | the module of that name |

### 2.1 BlockLowering

The state is the translator's: `li`, `nl`, `anon` and `blocks` are the loop
variables of `<arch>SplitBlocks`; `bi`, `ii`, `flagsWritten`, `fpResWritten`
those of `lowerBlocks`; `ir` holds the terminator emitted for each block.
`SplitLabel`, `SplitInstr` and `SplitDone` are the iterations of the splitter
and its end (dropping a trailing empty block); the `Lower…` actions are the
cases of `lowerInstr` that end a block, `LowerPlain` everything else, and
`LowerFallthrough` the code after the instruction loop.  `SplitOps` and
`LowerTerms` are the two hand-kept lists of terminators, one per architecture.

Blocks carry the names the splitter gives them.  LLVM sees what
`<arch>LLVMBlockName` makes of those: everything but letters and digits becomes
`_`, a leading digit gets a prefix, `entry` becomes `bb_entry`.  The field
`llvm` of a program is that function on its labels; a label may get the name of
another label (`a.b` and `a_b`), of a synthetic block, of the entry block or of
a value of the function (`%t1`, `%reg_R0`).  Nothing in the code looks for such
clashes, nor for a branch to the entry block, which LLVM does not allow;
`LabelsVerify` says what LLVM asks for, and `LowerDone` ends in `refused` where
it does not get it.

Once the function is lowered and LLVM accepts its labels, two machines run: the source as the assembler
reads it (a label is the next instruction, `n(PC)` counts instructions) and
the emitted blocks, where a branch goes to the block of that LLVM name.  Both see the same outcome of every conditional branch.
Registers and memory are abstracted away: only whether a flag, or the result
slot, has been written is kept.

`StoredResultReturned` relates the two: a run that stored its result returns
what it stored, provided some store stands in front of the RET in the text.

`WellFormed` says which functions the model is about, and `ProgramsAssumption`
that the constant `Programs` has no others.  A part of it is what the assembler
guarantees: labels stand in the order of the text, each once, and a branch to
a label finds it.  The rest, `Translatable`, names the limits:

* a conditional branch to a symbol is left out: the code takes `name(SB)` for
  the label of that name and emits a branch to a block that may not exist (an
  unconditional one is a tail call, and in the model);
* `n(PC)` in a conditional branch on arm64 is left out (the code calls its
  target conservative);
* CBZW, CBNZW and BCS on arm64 are left out, which `isTerminator` forgets;
* UNDEF is in the model on arm and 386 only: arm64 and amd64 lower it as a
  no-op ("historical amd64 approximation");
* labels that start with `anon_` are left out: the splitter takes their blocks
  for synthetic ones, which it renames and drops.

`B n(PC)` on arm64 is in the model as the code has it: accepted, as a jump
through the slot of a register PC (`JumpsThroughPC`), which leaves the
function.  `Lockstep` speaks of a run up to such a jump.

Beyond the model: calls and the marshalling of tail calls; RET under a
condition on arm (lowered as an unconditional RET); label names equal to
synthetic ones (`anon_1`, `entry`).

### 2.2 ExclusiveMonitor, AtomicLoops, AtomicMemory

The emitted code has no exclusive monitor: the load-exclusive saves address,
value and size in the `exclusive_*` slots of its call, and the store-exclusive
is a `cmpxchg` against the saved value, guarded by valid, address and size.
`ExclusiveMonitor` has one action per lowering; memory is a sequence of cells
of base `Base`, so that a wide access covers several cells and a narrow one
its low part.  Sizes, and which mnemonic uses which, are constants, so the
mixed-size errors of the tables in `arm64AtomicLoadStoreType` and
`arm64AtomicStoreExclusiveType` are in the model.  `PlainLoad` and
`PlainStore` are the lowering of a LOCK-prefixed instruction that is not in
`amd64_lower_atomic.go`; only the run `loops_lock` uses them.

`AtomicLoops` puts a program counter over it: LDAXR/STLXR loops, LSE
instructions, CMPXCHG loops and plain LDAR/STLR, as the Go runtime's
`internal/runtime/atomic` uses them.  `AtomicMemory` is its specification:
`Start`, `TakeEffect`, `Return`; `CallsAreAtomic` is the refinement, with the
effect mapped to the instruction that writes (or, for a failed compare, reads)
memory.  LLVM's memory model is taken as sequentially consistent per access,
which is what the `seq_cst` orderings the code emits give; what a data race of
plain accesses may do beyond reading an old value is not modelled.  A
reservation that is a saved value cannot see a cell that was changed and
changed back; the loops modelled only depend on the value, and the runs show
they stay atomic.

### 2.3 IndexReader

`cursor`, `entries` and `pageSize` are the variables of `readIndex`; `since`
is the `-since` of the next batch, set to the `next_since` of the last one as
the documentation tells the operator to.  `seen` and `seenAt` are functions of
`entries`.  `Publish` is the index itself; a request sees the feed of that
moment.  `Fault` is an attempt that `doHTTPRequest` repeats or gives up on.
`ReadEntry` is one round of the loop over the page (lines 328-342), `at` and
`newEntries` its counters; `EndPage` is what follows the loop: the report, or
the cursor of the next page.  `SharedAssumption` says that the entries of one
timestamp fit a page.

### 2.4 InspectPool

The goroutines of `inspectModules`: the feeder (`Take`, `CloseTasks`,
`CloseOutputs`), the workers (three requests of `inspectIndexedModule`, then
the sends) and the collector.  A send on an unbuffered channel is one action
with its receive.  `Retry` and `RequestFails` stand for every way a request
ends badly: a transient status, a timeout, 404, a ZIP that is too large or
unreadable.  `NextRun` is the same command later with all reports passed as
`-seen-report`.  `Publish` is the module proxy: a newer version may appear at
any moment, so between the three requests for a module and before its match is
reported; what a version holds never changes.  `resolved` is the answer of
`@latest` a worker goes on with; `answered` (in this run) and `inspected` are
history.  Ranged reading of the remote ZIP and the filters on file names are
abstracted to whether the version has assembly.

### 2.5 Alu

The question is whether the emitted integer code, run on the slots of a
function, holds what the processor would hold.  `low` is the emitted code's
state: register slots, the four flag slots and `flagsWritten`; `hw` the
processor's registers and flags.  An action executes one instruction of the
program on both sides: on `low` by the operator named after the lowering
(`LowerSubs`, `LowerARMALU`, …), which uses LLVM's operations in the order the
code emits them, on `hw` by an `Arch…` operator stated over integers
(`AddWithCarry` with a wide sum, fields by division).  Instructions are records
of mnemonic, width, operands and condition.

`StoreFlagCond` is worth a note: arm stores the flags of a conditional
instruction one by one, and each store evaluates the condition again on the
slots as the earlier stores left them.

amd64 has four flag slots, zero, sign, overflow and carry, and they are not the
processor's flags: after a comparison the sign slot says "less than", after
arithmetic it is the sign of the result, and many instructions leave slots
alone whose flags the processor changes or leaves open.  So equality of all
flags at all times is not what the code offers.  `Exact` names, for each
instruction, the slots that are the processor's flags after it, `Needs` the
flags an instruction reads, and the model runs an instruction only when the
flags it needs are exact.  `SlotsExact` then says that what `Exact` promises
holds after every sequence of instructions, including those that leave flags
alone on purpose (INC and the carry, shifts by zero).  A "less than" after
arithmetic may be read only where there was no overflow.  Flags that nobody
may read are set to false on the processor's side, which keeps the state space
small.  `X86Defined` leaves out what the processor leaves undefined: the scan
of zero, a quotient that does not fit, a BZHI index beyond a byte.

`A64Operands` and `A32Operands` say what an instruction of a program looks
like: what the parser and the lowerings let through.  With `A64Exact` they are
`ProgramsAssumption`, which TLC evaluates on the program of the run and the
theorems assume of every program.  `A64Exact` leaves out two instructions
whatever the state: MADD and MSUB with factors and addend in different
registers (their order), and raw TST words other than that of a register with
itself, the only one the lowering knows.

All other instructions are in the programs with all their operands and under
all conditions.  Whether what the code emits for them is right depends on the
state they are reached in, so the limits are guards on the run (`A64Safe`,
`A32Safe`, conjuncts of `Execute64` and `Execute32`):

* ADCS and SBCS on arm64 are run where the comparison that stands for the carry
  finds it; it does not when a carry (or a borrow) in makes the result equal to
  the operand it is compared with (arm64_lower_arith.go:163);
* a division is run where the divisor is not zero (the division stands in front
  of the select that guards it);
* on arm, an instruction that sets flags under a condition is run where its
  condition still holds while the new flags are written one after the other
  (`KeepsHolding`): each store reads the condition off the slots again
  (arm_flags.go:41-56).  ADC.S and SBC.S are further run only under conditions
  that do not read the carry and hold on all the new flags;
* a comparison with a condition is run where that condition holds: the lowering
  drops it (arm_lower_arith.go:111-146).

What the processor side takes as given: arm's V and C are false at entry; a
program that adds with carry has written the carry; at entry of an arm64
function the flags are all clear or all set.  What `Poison` stands for: LLVM leaves the
result of a shift by the width or more, and a division by zero, open, so the
model stores a value that is no word.

Left out of the programs, because the lowering and the processor part there
(each is a hazard in `PROJECT.json`): MADD and MSUB with a multiplier that
differs from the addend (Go writes the addend second, the lowering takes the
third source); other raw TST words;
EXTR by zero.  Left out because they are not modelled: MULAL and MULAWT on
signed operands, MUL.S, shift amounts in registers for arm operands, flags
after a shifted logical operand, CRC32, system registers; on amd64 LEA, memory
destinations, the stack instructions (PUSHQ, POPFQ), CPUID and RDTSC.

### 2.6 Preprocess, MacroExpansion

The variables are those of `preprocess`: `macros`, `lines`, `active`,
`ifStack`, `inBlockComment`, and `def` for the definition that goes on
(`defCont` and its companions).  `ReadLine` is one iteration of the loop, with
one disjunct for each case in the order of the code; `EndOfFile` ends a
definition, rejects an open conditional and expands the lines that remain, in
any order of equally long macro names (they come from a Go map).  The file is
chosen line by line as it is read.

`SelectionAgrees` compares with a reading of the file as nested groups, without
a stack or a flag (`Selected`); `ExpansionAgrees` with the assembler's lexer
(`Lex`), which replaces a macro where it reads it, with the definitions in
front of it.  A name is a whole token here.  Where the code departs from the
assembler, the files of the run do not go: `#undef` is ignored and of several
definitions the last counts for the whole file, also in front of it; a use in
front of the definition is expanded; `#if 1` is false; a block comment that
opens behind `//` is a block comment; `$NAME` is replaced inside longer names;
names joined by a middle dot are expanded; an object macro with an empty body
is not removed inside a line; expansion stops 16 levels deep.

### 2.7 FrameLayout, FrameAccess

`FrameLayout` walks over parameters and results as
`goLLVMArgsAndFrameSlotsForTuple` does, one variable an action, with `off` the
running offset.  A slot is `[offset, type, index, field]`; parameters keep a
string as one value with fields, results are flattened.  Sizes and alignments
are those `types.Sizes` gives for a target.  `FrameMatchesABI0` states the
layout of Go's stack-based convention on its own, `ValuesCovered` that every
part of an argument or result has one slot and the other way round.

`FrameAccess` then executes a body on such a frame: loads, stores, stores
through the address of a result, RET.  One side is the frame in memory, the
other the emitted code: an alloca per slot on arm, with two halves of a 64-bit
slot; one array of bytes on 386.  A byte the source left open may be anything.
`BodyAssumption` fixes what both processors have in common: words of four
bytes, and values of 0, 1, 2, 4 or 8 bytes, the sizes of LLVM's scalars.

Left out of the bodies, by `Store64Params = FALSE`: on arm, storing a word to
the low half of a 64-bit parameter clears the high half, and the high half
itself cannot be stored to.  Left out altogether:
the address of a result used to store into the part behind it; a result behind
an empty one, which is found under the index of the empty one; MOVB of a
signed byte parameter (zero-extended on arm); signatures without a frame are
not flattened.

### 2.8 LinearSource, LinearLowering

Functions without control flow take a shorter way, and there are two of them:
the module builder (`direct`) and the writer of text (`text`), which is used
when the builder meets something it cannot express.  Both keep the SSA value
of each register.  The model reads a function instruction by instruction;
processor, text and builder execute it in lockstep, and an SSA value is
represented by the word it evaluates to.  `NeedsCFG` and the
`func…Needs…CFG` operators decide per processor whether a function gets here
at all.  `PathsAgree` compares the two translators, `ResultsAgree` the one
used with the processor.

`notes` collects what is known to be lost, and `Excuses` lists it: stores to
memory, to frame slots that are no results, and memory or symbol operands of
arithmetic that the lists of `func…Needs…CFG` let through (ARM, and ADDQ, SUBQ
and XORQ on amd64); `MOVB` on ARM, which zero-extends; loads, all of 64 bits;
floats that pass through a register or are left in the return register, which
are converted; a result slot read back; a narrow write after a wide one;
register shifts by the width or more; MRS, which reads zero; a missing RET, which returns zero.

`LinearAssumption` says what a function is made of: its operands and the
calling convention name registers of `f.regs`, immediates are words, the slots
of its frame have scalar types, every instruction has the operands its opcode
takes, and the arguments fit their types.  It says nothing of which types
occur together, nor of the order of instructions.

`RejectsOnlyUntranslatable` lists why a function may fail.  One reason is the
code's own: `emitCast` has no case for i1 to i8, i1 or i8 to i16, floats or
integers narrower than i32 to or from a pointer, and float to or from double
(`NoCast`), so `MOVBU` of a bool parameter on ARM, or a byte returned as a
16-bit word, is refused unless the direct path, which casts all integers, got
to the end.  The note "cast" says that such a pair of types met.

### 2.9 ModuleAssembly

A file is a list of DATA, GLOBL and function statements; a function is only
the symbols it refers to, how, and what its lowering needs.  `stage` walks over
the parts of `translateIRText` or `translateModuleDirect` (merge, extern
globals, declarations, globals, functions), `Fallback` discards the direct
module.  `cur` is a global being filled, from payloads in any order, since they
come from a Go map.  Native files go through `Prepare`, `Reserve`,
`Initialise` and `NativeFunc`.

Excepted, since the code departs from the assembler there: overlapping DATA of
typed files is written in map order; addresses in DATA are zero in typed
modules; all typed globals are constant; a symbol in a memory operand, or a
jump to a function of another package without a signature, is not declared;
a GLOBL of size zero is taken for defined but not emitted; bare and dotted
names of data are one, those of functions are two.  `RejectsOnlyUnresolvable`
lists what may be wrong with a file (`BadData`, `BadFunction`, `Unbound`,
`Clash`); a signature that gives its function the name of another symbol is
among the clashes.  `FilesAssumption` says what the parser delivers:
statements of the shapes of `GloblStatements`, `DataStatements` and
`Functions`, with any number in any field, and at most one signature for a
name, since signatures are a Go map.

### 2.10 WasmSource, WasmSignature, WasmLowering

`read` chooses a valid function over the alphabet of its family, with
WebAssembly's own validation (`VStep`), and runs signature inference over it;
`translate` is the loop of `translateFuncWASM`, one action per group of
instructions; `run` executes source and emitted code next to each other, the
call of the Go ABI included: a callee returns or unwinds, an unwound function
is entered again later with the number of the call, and everything that lived
in LLVM values is gone (`LowStep`).

`StackAgrees` compares at every instruction what the translator's operand
stack holds with WebAssembly's.  `gaps` names what the translator is known to
refuse or lose.

A helper is translated under the signature inferred for it.  The slots of its R
registers all have one type, that of the first argument: the loop that records
the types of the arguments stops there (wasm_translate.go:133), and an argument
is cast to the type of its slot on entry (212).  A helper with an i32 and an i64
argument, in this order, therefore computes with half of its second argument;
with the order turned round its i32 register lies in an i64 slot, which zeros
fill up, so that a sign extension of it does nothing and a Select between it and
an i32 value is refused (1369).  The run has both kinds (`Mixed`), next to
helpers whose registers have one type.  `StackAgrees` and `EndsAgree` are stated
for the helpers whose slots hold their registers (`SlotsHold`), which have no
slot narrower than its register and sign-extend no widened one; without this
premise TLC finds the truncated argument in a function of three instructions.
`RejectsOnlyUntranslatable` lists the Select among the reasons.  The source
machine has every register for a parameter, so that one the inference missed
shows: `SignatureSound` compares the inputs found with the registers that runs
read before they write them, the types found with the instructions that consume
what a Get pushed, the result with the instructions whose values are returned.
It leaves out, and the run has each of them: a register the text writes first
inside a control that the run passes by (not an argument for the code, and zero
on entry), operands below a call (their types are forgotten), a Br over a block
of another result type, and operands that lie under a return of nothing.

Left out of the functions, as the code departs there: `RET f(SB)` from a function with a frame, which leaves the stack pointer below the
return address (`emitTailCall`, wasm_translate.go:584, does not give the frame
back); a RET in front of the store of a direct result; a call in a block with
a result; controls opened in dead code; shift counts of the width or more and divisions that
trap, which LLVM leaves undefined.

## 3. The runs

| Run | Expect | Checks | Bounds and why they are enough |
|---|---|---|---|
| `blocks` | pass | `Lockstep`, `BranchesResolve`, `RejectsOnlyUntranslatable`, `StoredResultReturned` | all functions of up to three instructions and two labels on four architectures, on arm64 with tail calls. The splitter looks at one instruction and the current block, the resolvers at one branch and one target: three instructions give a branch, a target and something between them or lost. Functions of up to two instructions also with two labels of one LLVM name and with a label that gets the name of a synthetic block, of the entry block or of a value |
| `monitor` | pass | `SlotsMatchReservation`, `NoUpdateLost` | two threads, two cells, all three widths, two operand values: one pair and one interfering write at any point, of any overlap |
| `loops` | pass | `CallsAreAtomic`, `CallsReturn` | two threads, every pair of loop shapes of one architecture, on overlapping cells |
| `loops_lock` | violation | `CallsAreAtomic` | two threads, LOCK INCL and LOCK ADDL |
| `index` | pass | `BatchContiguous`, `NothingSkipped`, `CatchesUp` | feed of six entries, three timestamps, page of three, batch limits none, four, five, three faults: pages and batches overlap at every position, and a timestamp can fill a page |
| `inspect` | pass | `ScannedWereInspected`, `MatchesAreLatest`, `NothingLost`, `MatchesComplete`, `RunsEnd`, `PoolTypeOK` | two workers, two modules, two attempts, two runs, a newer version published at any moment: one worker closing while another sends, a match whose version is no longer the latest, and a second run that reads the reports of the first |
| `alu` | pass | `RegistersAgree`, `FlagsAgree`, `SlotsExact`, `TypeOK` | registers of 4 bits, words of 2, bytes of 1 (amd64: Q 4, L and W 2, B 1), two registers with every value, an immediate and the zero register as sources, all states of the flags; every condition is read by CSET, by ADD on arm and by SETcc, and a few by the other conditional instructions. Four bits have both signs, both ends of the range and a field strictly inside; the destination coincides with each source, with both and with none |
| `preprocess` | pass | `SelectionAgrees`, `ExpansionAgrees` | every file of up to six lines, with at most one macro call, comment, blank line or include: two nested conditionals with a branch, or a definition of several lines inside one, with a use |
| `frames` | pass | `SlotsApart`, `ValuesCovered`, `FrameMatchesABI0`, `FrameAgrees` | lists of up to three variables of seven types (narrow, wide, two and three words, empty, unsupported), bodies of three instructions on the frames of up to two variables: two halves of a result and a RET |
| `linear` | pass | `ResultsAgree`, `PathsAgree`, `RejectsOnlyUntranslatable`, `LTypeOK` | 66 families, up to four instructions, RET anywhere: read, compute, write, return; in 40 of them the types of parameter, moves and result meet in every cast, the ones `emitCast` has no case for included. Types have 1, 2, 3, 4 and 8 bits in the order of the real ones |
| `module` | pass | `DataExact`, `ReferencesBind`, `RejectsOnlyUnresolvable` | three DATA statements over two symbols meet in every way; every kind of reference to every kind of symbol under five lists of signatures; names written bare, dotted and with their package, and signatures that give a function the name of another symbol |
| `wasm` | pass | `StackAgrees`, `EndsAgree`, `RejectsOnlyUntranslatable`, `SignatureSound`, `WasmTypeOK` | 117 families, up to seven instructions, at most 14 executed: a nested control with a branch out of it, two calls of which the second is resumed |

What they show.  `Lockstep` says that no instruction is lost at a block
boundary and that no branch lands beside its target.  `BranchesResolve` has two
exceptions, which the run reaches: labels that clash in LLVM and a branch that
counts back to TEXT give a function LLVM refuses.  `Lockstep` would fail for CBZW,
CBNZW and BCS on arm64, which `lowerBranch` takes for terminators and
`isTerminator` (arm64_blocks.go:33) does not; the functions of the run leave
these three out.  `StoredResultReturned` would fail for a RET all of whose
stores follow it in the text, since `fpResWritten` (arm64_translate.go:208)
describes the text and not the execution.

The atomic loops of all architectures are atomic and end, except LOCK-prefixed
arithmetic on amd64: plain load and store, the run `loops_lock`, against
amd64_lower_atomic.go:9.  Byte loops with LDAXRB on arm64 are left out: their
sizes never match (arm64_lower_atomic.go:251) and they would not end.

Discovery loses no module and no index entry; a version whose `@latest` lookup
fails is listed as scanned and not retried (main.go:444), although
doc/plan9asm-corpus.md:181 says so.

The integer instructions of arm64, arm and amd64 compute what the processor
computes, where `A64Safe` and `A32Safe` (section 2.5) hold when they are
reached; without the guards `FlagsAgree` fails for ADCS and SBCS on arm64, for
conditional flag setters and for conditional comparisons on arm.

The preprocessor selects the lines a nested reading selects and expands them
into the statements the assembler would read, for files that define a name
once and before its use.  Frames are laid out as ABI0 has them and accesses
reach what they name.  Both linear translators are one function wherever both
accept, and compute what the processor computes outside the list of section
2.8.  On all three ways of building a module, every symbol of DATA and GLOBL
has the bytes its statements give it; names that clash (`Clash`) make the text
ways fail, while the direct way leaves them to LLVM, which renames the second.
WebAssembly functions keep their operand
stack over controls, calls and resumption.

Limits under which `index` passes: at most a page of entries share a
timestamp (`SharedAssumption`), and a batch limit is larger than that number.
Beyond the first, the tick over a full page of known entries skips the rest of
them; beyond the second, a batch that continues at its cursor reads the same
entries again: nothing is lost, but `CatchesUp` fails.

## 4. Fairness

`AtomicLoops` assumes weak fairness of each thread inside a call: the scheduler
runs a thread that can run.  No fairness between the two branches of a retry
is assumed; a loop ends because a store-exclusive fails only after another
thread's write, and each thread has a bounded list of calls to make (the jobs
of the MC module), which is what lock freedom gives.

`IndexReader` assumes that the operator starts the next batch, that a request
is answered in the end (faults are bounded by `MaxFaults`) and that the
sequential reader runs.  The feed is under no obligation to grow.

`InspectPool` assumes weak fairness of the feeder, the collector and each
worker with its requests: the Go scheduler runs what is ready, and every
request ends because the client has a timeout.  Nothing is assumed about
which of the two ends it has.  Deadlock is not checked there, since the tool
stops after its last run; `RunsEnd` excludes a pool that hangs.

All other modules are checked for safety only: the translator is one
sequential pass over a finite text.

## 5. Proofs

For all values of the constants, TLAPS shows the following.

* `BlockLowering_proofs`: `SameExecution`, `LabelsDefined`, `RefusedForReason`
  and `ResultReturned`, for functions of any length with any labels, on all
  four architectures; `SameExecution` where LLVM accepts the labels and up to a
  jump to `n(PC)` on arm64, `LabelsDefined` where no labels clash and no branch
  counts back to TEXT.  `Lockstep` speaks of the two machines only; what carries
  it is the invariant `IInv` (theorem `Invariant`):
  - while splitting, the blocks are intervals of instructions without gap or
    overlap, the entry block first (`Chain`), no terminator stands inside a block (`Straight`), block
    names are distinct and synthetic ones are below the counter (`Named`), and
    every label read is the name of the block that starts at it (`Found`).
    These need that the last block is still open (`Open`);
  - while lowering, each terminator emitted says what its instruction does:
    falls, jumps, forks, returns or leaves, to a block that starts at a target
    of the source (`Emitted`), and everything in front of it in its block is
    plain.  The flags `flagsWritten` and `fpResWritten` are false only if no
    such instruction stands in front (`Underway`, `NoneBefore`);
  - while running, both are at one instruction, in the block the lowered one is
    in and not behind its terminator (`Together`), and the labels are those
    LLVM accepted (`VerifyInv`), so that a branch goes to the block the
    translator meant (`GoesTo`).

  The difficult steps are those of the splitter that rename a synthetic block
  or drop the last one (`RenameKeeps`, `DropKeeps`): no branch may name what
  goes away.  Assumption: `ProgramsAssumption` (section 2.1).
* `AtomicLoops_proofs`, of `ExclusiveMonitor`: `TypeCorrect`, `SlotsMatch`,
  `NoLostUpdate`.  The last says that a store-exclusive that reports success overwrites exactly
  what its load-exclusive read, for any number of threads, cells and widths.
  The invariant needed is that the slots of a thread describe its latest
  load-exclusive (`SlotsMatchReservation`); with it the guard of the
  store-exclusive compares with what was read.
  Assumptions: `SizesAssumption`, `OperandsAssumption`.
* `AtomicLoops_proofs`, of `AtomicLoops`: `AtomicCalls`, that `AtomicLoops` implements
  `AtomicMemory`, for any number of threads, calls and widths.  Between the
  load and the store of a loop other threads write what they like, so the
  invariant `LoopInv` speaks of the thread's own state only: at each label,
  which kinds of call can be there (`LabelOK`), and that the register from
  which the new value is computed is the value the slots will compare memory
  with, extended by zeros (`RegisterOK`).  The refinement then goes label by
  label: the step that succeeds in writing is `TakeEffect` on the memory of
  that moment, a compare that fails takes effect where it reads, and every
  other step is a stutter.
  Assumptions: those of `ExclusiveMonitor`; `JobsAssumption` (a call has an
  address and operands of the right kind, a compare-and-swap loop loads and
  stores one width); `NoJobAssumption` (`NoJob` is no job).
  LOCK-prefixed arithmetic is outside `LoopSpec`: for it the property is false.
* `IndexReader_proofs`: `BatchesContiguous` and `NoneSkipped`, for every feed,
  page size, batch limit and pattern of failed requests.  `NothingSkipped`
  needs to know that nothing older than `since` is still to come: `Closed(t)`
  says that the index has passed t or has all the entries t - 1 can have.
  While a batch runs, everything before the cursor is in it or older than
  `since` (`BatchInv`), and the page continues the batch without a gap
  (`PageInv`).  The hard case is the tick over a full page without news: such
  a page is as long as a page can be (`FullPageIsLong`), since a shorter one
  has room for every entry seen at the cursor; so it holds every entry of its
  timestamp, and the tick skips none (`EndPageInv`).
  Assumptions: `BoundsAssumption`, `SharedAssumption`.
* `InspectPool_proofs`: `TypeCorrect`, `ScannedSound`, `MatchesSound`,
  `NoneLost`, `MatchesAll`, for any number of workers and modules.  `NothingLost` is about the moment the pool returns; the invariant
  `IInv` carries it there: every module is pending, in the hands of a worker,
  or accounted for (`Accounted`); a worker that has inspected a version holds
  it until it is sent (`Holds`, `InHand`); channels close only after the last
  worker has ended (`Shutdown`, `ClosedWhenQuiet`).  `MatchesComplete` needs
  more, since the version that is reported as scanned and the one that matches
  differ: what a worker may be about to send (`Settled`), and that a module
  that is scanned and has assembly has matched, failed or is still being sent
  (`Decided`), through later runs that skip what earlier ones reported.
  Assumptions: `WorkersAssumption`, `ModulesAssumption`, `BoundsAssumption`.
* `Alu_proofs`, for words of every size.  About the flags alone, without
  assumptions: `SubFlagsExact` and `AddFlagsExact` (the comparisons the code
  emits give the flags of a wide sum), `ConditionsExact` and `CompareDecides`
  (a condition after CMP orders the operands, signed and unsigned) and
  `CarryFlagsExact` (unconditional ADC.S and SBC.S on arm).  About programs:
  `A64InStep` and `ArmInStep`, that
  `TypeOK`, `RegistersAgree` and `FlagsAgree` hold on arm64 and on arm after
  any sequence of instructions each of which is safe where it is reached
  (`A64Safe`, `A32Safe`), and from both `FlagsAgreeAlways`.  The
  inductive invariant is `InStep`: both sides are machines of the processor's
  width, their registers are equal and, once flags were written, their flags
  (`InStep64`, `InStep32`).  It has to say that every register is a word: the
  comparisons, masks and shifts agree with the processor's arithmetic on words
  only.  One lemma for each lowering (`CarryStep64`, `BitfieldStep64`,
  `ReverseStep64`, `ALUStep32`, …) shows that it keeps the two in step; the
  library under them says what the operations of LLVM are: 2^n for every n
  (`Powers`, `PowerSum`), division and remainder (`DivByProduct`, `ModUp`), and,
  or and exclusive or by their halves and bit by bit (`OpSplit`, `OpField`,
  `AndMask`, `OrOfParts`), rotation (`LowerRotateIs`), bit fields (`InsertIs`,
  `ShiftedField`, `FieldOfField`), and that a word is given by its fields
  (`FieldsExist`, `FieldsUnique`), which is what makes REV16 with its mask of
  even bytes a reversal of bytes (`SwappedPairs`).
  Assumptions: `MaxBitsAssumption`, `WidthsAssumption` (a half is half a
  register and a whole number of pairs of bytes), `RBitsAssumption`,
  `ProgramsAssumption`.  The run `alu` has 4 bits; the theorems cover 32 and 64.
* `FrameAccess_proofs`, of `FrameLayout`: `SlotsStayApart`, `ValuesStayCovered`
  and `FramesMatchABI0`, for every signature, every assignment of sizes and
  alignments a Go target has, and words of four or eight bytes.  The inductive
  invariant `LayoutInv` adds to `SlotsApart` that every slot ends at or before
  `off`: the next variable is placed at the least aligned offset behind it
  (`AlignOffLeast`), so its parts lie behind all others (`LaidOutExtends`).
  `ValuesCovered` is inductive relative to it: a variable adds one value (or
  one per part) and the slots that denote it, with an index no earlier slot
  has (`CoveredExtends`).  `FrameMatchesABI0` compares with a layout that is
  defined by itself, as a list of ends in which each variable starts at the
  least multiple of its alignment (`EndsOf`); `PlacedInv` says that the loop
  has come to the k-th of them.  That such a list exists at all takes an
  induction, which is done by the least counterexample: `LeastElement` from
  the well-foundedness of inclusion of finite sets, `Recursion` from it.
  Assumption: `FrameAssumption`, what `types.Sizes` promises.
* `FrameAccess_proofs`, of `FrameAccess`: `FramesAgree`, for every signature, on arm and 386, for
  bodies of any length.  The frame in memory and the allocas of the function
  are related byte by byte (`BytesAgree`): wherever the frame has a defined
  byte the place of that byte in the function has the same one, and a result
  that is not yet written has none.  A store must then reach the slot it
  names and no other, which is where the layout comes in: a byte belongs to
  one slot, in the frame (`ByteOwner`, from `SlotsApart`) and in the function
  (`LocOwner`, from `ValuesCovered` and the order of parameters), and looking
  a slot up by its offset finds it (`AtParam`, `AtParamHigh`, `AtResult`,
  `AtResultHigh`).  A value that was loaded with bytes left open agrees in the
  others (`RegistersAgree`), and RET returns the results (`ResultsAgree`).
  Assumptions: `FrameAssumption`, `BodyAssumption`, and `~Store64Params`,
  without which the property is false (a hazard at arm_fp.go:70).

* `ModuleAssembly_proofs`: `DataExactAlways`, `ReferencesBindAlways` and
  `RejectsOnlyUnresolvableAlways`, for files of any length, from the
  invariants `TypedInvariant` and `NativeInvariant`.
  - Typed modules.  `ControlInv` says which stages a path has and how far the
    statement next can be.  `SymsInv`: after m GLOBL and k DATA statements the
    table of symbols is what those statements give by themselves, a size that
    covers them and the payloads at their offsets (`SymsAre`).  `EmitInv`:
    the global being filled holds, in each cell, what some merged payload puts
    there or zero if none does, whichever payloads are still to come, and the
    globals in the module are complete (`GlobalsDone`).  `FuncsInv`: the
    functions are those of the first statements in their order, each with a
    signature, and every use emitted belongs to one of them.  A reference then
    binds because the lists that introduce a symbol (`Needed`, `Declared`, the
    globals, the functions) are together all there is, and meet only where the
    file has a `Clash`.
  - Native modules.  `NativeReady` is what `prepareNativeSource` has found;
    `NativeGlobals` follows the globals that are reserved and laid out, and
    `NativeCells` says of one that each cell is of the one statement that
    covers it.  `nativeDataImage` walks the statements by offset with a
    cursor; that it writes the bytes of each in its place and zeros between
    them is `LayoutCells`.

  The sort, the walk and the powers of `CellBase` are recursive functions, so
  each takes an argument by the least counterexample: `SortedOrder` (a sorted
  order of a finite set of statements exists, so `OrderOf` is one),
  `LayoutCells`, and the lemmas on `Power`.
  The proof found a gap in `RejectsOnlyUnresolvable` as it was stated first:
  two names that are written differently and resolve alike, and a signature
  that renames its function to a symbol that is also referred to by its own
  name, made the module invalid for a reason that was not on the list.  The
  definition and the files of the run now have them.
  Assumptions: `AssemblyAssumption`, `FilesAssumption`.
* `LinearLowering_proofs`: `LinearTyped` and `PathsAgreeAlways`, for functions
  of any length and signature on the three processors, from `PathsInvariant`.
  The invariant `PathsInv` relates the two records of SSA values: while both
  passes run they are `Alike`, with the same registers and the same results
  written, and when both have accepted they returned the same.  It is
  inductive because each instruction either stops one pass for good or takes
  both from alike to alike (`MovesTogether`, `ArithTogether`, `MRSTogether`,
  `CPUTogether`, `RETTogether`), although each computes its casts, its results
  and its operands by a function of its own.  The first RET has to be the last
  instruction that either pass obeys, and a function without results has to
  be done from the start, which the invariant says too.  Where a pass reads a
  type it does not know, or an operand it cannot express, the proof has to
  show that it stops or that the other one reads the same default.
  What each computes must be a word of its type: casts (`CastsAgree`), loads
  from memory, and the bit operations, whose tables exist by the same
  induction as above (`BitWords`).  2^n is a power only for SMT's constants;
  that it grows and is positive for every n comes from the subsets of an
  interval (`PowerOfTwo`).
  Assumptions: `LinearAssumption`, `MaxBitsAssumption`, `MemSizeAssumption`.

Only model-checked:

* liveness (`CallsReturn`, `CatchesUp`, `RunsEnd`), since TLAPS does not reason
  about fairness;
* `ResultsAgree` and `RejectsOnlyUntranslatable` of `LinearLowering`, which
  compare with the processor and not only with the other translator;
* `Alu` on amd64: `SlotsExact`, and `TypeOK` and `RegistersAgree` there;
* `WasmLowering` and `Preprocess`, whose source semantics and expansion are
  recursive operators: those are outside what can be proved about here.

## 6. Plan

In order of importance:

1. Theorems about the amd64 flag slots: after a comparison every condition is
   the processor's, for words of every size; then LEA, CRC32 and the stack
   instructions in `Alu`.
2. A module that composes `IndexReader` and `InspectPool` over the reports
   they exchange.
3. Strings and vectors: REP, MOVM, lane permutations.
4. Frames of arm64 and amd64, where registers may carry arguments.

Not modelled, and not planned: operand syntax, the instruction tables of native
emission, system calls, and the remaining tools (text processing, or one
external call); floating-point arithmetic and the lanes of vector arithmetic,
whose values are out of TLC's reach; CALLINDIRECT and CALLIMPORT of
WebAssembly, which differ from CALL by the marshalling of arguments only.
