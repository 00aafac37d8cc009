------------------------ MODULE BlockLowering_proofs ------------------------
(***************************************************************************)
(* Proofs about BlockLowering: for every well-formed function of any       *)
(* length, with any number of labels, the lowered function runs in step    *)
(* with the source, its labels are what LLVM asks for unless the text has  *)
(* names that clash, a stored result is returned, and a function is        *)
(* refused only for a reason the code names.                               *)
(*                                                                         *)
(* The proofs follow the three phases.  Splitting keeps the blocks a chain *)
(* that control enters only at the first instruction of a block and leaves *)
(* only at its last; lowering gives every block a terminator that says     *)
(* where the source goes from there; the two machines then stay in the     *)
(* same place.                                                             *)
(***************************************************************************)
EXTENDS BlockLowering, TLAPS, SequenceTheorems

(***************************************************************************)
(* The inductive invariant.  The splitter's part speaks of the blocks made *)
(* of the first li instructions and the first nl labels.                   *)
(***************************************************************************)
Names == {EntryName} \cup {LabelName(l) : l \in Labels} \cup {AnonName(c) : c \in Nat}
Block == [name : Names, lo : Int, hi : Int]
Kinds == {"br", "condbr", "glide", "retslot", "retreg", "retzero", "tail", "undef",
          "indirect"}
Terms == [kind : Kinds, to : Names, fall : Names, at : Int]

\* The blocks follow one another from the entry block on and end with
\* instruction `end'; an empty block starts where the next one does.
Chain(bs, end) ==
  /\ bs \in Seq(Block) /\ Len(bs) >= 1
  /\ bs[1].lo = 1 /\ bs[1].name = EntryName
  /\ bs[Len(bs)].hi = end
  /\ \A b \in 1..Len(bs) : bs[b].lo <= bs[b].hi + 1
  /\ \A b \in 1..(Len(bs) - 1) : bs[b + 1].lo = bs[b].hi + 1
  /\ \A a, b \in 1..Len(bs) : a < b => bs[a].hi < bs[b].lo

\* Control neither leaves a block but at its end nor enters it but at its
\* start: no instruction but the last is a terminator, none but the first a
\* target.
Inside(i) == /\ Op(i) \notin SplitOps
             /\ i + 1 \notin SplitAt
             /\ \A k \in 1..Len(prog.labels) : prog.labels[k].at # i + 1

Straight(bs) == \A b \in 1..Len(bs) : \A i \in bs[b].lo..(bs[b].hi - 1) : Inside(i)

\* Names are those of the entry, of the synthetic blocks handed out and of
\* the labels read, each of them once.
Named(bs, an, k) ==
  /\ \A a, b \in 1..Len(bs) : bs[a].name = bs[b].name => a = b
  /\ \A b \in 1..Len(bs) : \/ bs[b].name = EntryName
                           \/ \E c \in 1..an : bs[b].name = AnonName(c)
                           \/ \E j \in 1..k : bs[b].name = LabelName(prog.labels[j].name)

\* Every label read and every PC-relative target passed starts a block; the
\* first of the blocks that start at one place exists.
Found(bs, end, k) ==
  /\ \A j \in 1..k : \E b \in 1..Len(bs) : /\ bs[b].name = LabelName(prog.labels[j].name)
                                           /\ bs[b].lo = prog.labels[j].at
  /\ \A i \in SplitAt : i <= end => \E b \in 1..Len(bs) : bs[b].lo = i /\ bs[b].hi >= i
  /\ \A b \in 1..Len(bs) : \E a \in 1..Len(bs) : /\ bs[a].lo = bs[b].lo
                                                 /\ \A c \in 1..(a - 1) : bs[c].lo < bs[b].lo

LabelsRead(end, k) ==
  \A j \in 1..Len(prog.labels) : /\ j <= k => prog.labels[j].at <= end + 1
                                 /\ j > k => prog.labels[j].at >= end + 1

Blocks(bs, end, an, k) ==
  Chain(bs, end) /\ Straight(bs) /\ Named(bs, an, k) /\ Found(bs, end, k)

BlocksInv ==
  /\ li \in 0..N /\ nl \in 0..Len(prog.labels) /\ anon \in Nat
  /\ Blocks(blocks, li, anon, nl)
  /\ LabelsRead(li, nl)

\* While splitting, nothing has ended the last block unless it is empty;
\* afterwards everything is read.
Open(bs, end) == bs[Len(bs)].lo <= end => Op(end) \notin SplitOps

PhaseInv ==
  /\ prog \in Programs
  /\ phase \in {"split", "lower", "run", "refused", "error"}
  /\ phase = "split" => Open(blocks, li)
  /\ phase # "split" => li = N /\ nl = Len(prog.labels)

-----------------------------------------------------------------------------
\* All instructions of a kind in front of i are dropped behind an UNDEF.
NoneBefore(ops, i) == \A j \in 1..(i - 1) : Op(j) \in ops => AfterUndef(j)

\* The block of that name starts at a target of the branch; no label names
\* the entry block.
Leads(i, name) == /\ \E b \in 1..Len(blocks) : /\ blocks[b].name = name
                                               /\ blocks[b].lo \in SrcTargets(i)
                  /\ name = EntryName => Tgt(i).kind = "pc"

IsNext(k, name) == k < Len(blocks) /\ name = blocks[k + 1].name

\* What the terminator of block k says of the instruction it stands for.
Falls(k, t)   == /\ t.at = blocks[k].hi + 1
                 /\ \/ t.kind = "glide" /\ IsNext(k, t.to)
                    \/ t.kind = "retzero" /\ k = Len(blocks)
Jumped(k, t)  == /\ t.kind = "br" /\ t.at = blocks[k].hi
                 /\ Op(t.at) \in Jumps /\ Tgt(t.at).kind # "sym"
                 /\ Leads(t.at, t.to)
Forked(k, t)  == /\ t.kind = "condbr" /\ t.at = blocks[k].hi
                 /\ Op(t.at) \in CondBranches
                 /\ Leads(t.at, t.to) /\ IsNext(k, t.fall)
Returned(k, t) == /\ t.kind \in {"retslot", "retreg"} /\ t.at <= blocks[k].hi
                  /\ Op(t.at) = "RET" /\ Tgt(t.at).kind # "sym"
                  /\ t.kind = "retreg" => NoneBefore(StoresResult, t.at)
Left(k, t)    == /\ t.at <= blocks[k].hi
                 /\ \/ /\ t.kind = "tail"
                       /\ Op(t.at) \in {"RET"} \cup Jumps /\ Tgt(t.at).kind = "sym"
                    \/ t.kind = "undef" /\ Op(t.at) = "UNDEF"
                    \/ t.kind = "indirect"

Plain(from, to) == \A i \in from..to : Op(i) \notin LowerTerms

Emitted(k, t) ==
  /\ t.at \in blocks[k].lo..(blocks[k].hi + 1)
  /\ Plain(blocks[k].lo, t.at - 1)
  /\ Falls(k, t) \/ Jumped(k, t) \/ Forked(k, t) \/ Returned(k, t) \/ Left(k, t)

Underway ==
  /\ ii \in blocks[bi].lo..(blocks[bi].hi + 1)
  /\ Plain(blocks[bi].lo, ii - 1)
  /\ fpResWritten \/ NoneBefore(StoresResult, ii)
  /\ flagsWritten \/ NoneBefore(SetsFlags, ii)

LowerInv ==
  /\ bi \in 1..(Len(blocks) + 1)
  /\ ir \in Seq(Terms) /\ Len(ir) = bi - 1
  /\ phase = "split" => bi = 1 /\ ii = 1
  /\ \A k \in 1..Len(ir) : Emitted(k, ir[k])
  /\ bi <= Len(blocks) => Underway

-----------------------------------------------------------------------------
\* Both machines are about to execute the same instruction, in the block the
\* lowered one is in and no further than its terminator.
Together ==
  /\ srcHow = lowHow
  /\ srcHow = "run" => /\ srcPc = lowPc
                       /\ lowBlk \in 1..Len(blocks)
                       /\ lowPc \in blocks[lowBlk].lo..ir[lowBlk].at

RunInv ==
  /\ phase # "run" => /\ srcPc = 1 /\ lowPc = 1 /\ lowBlk = 1
                      /\ srcHow = "run" /\ lowHow = "run"
  /\ phase = "run" => /\ Together \/ lowHow = "indirect"
                      /\ lowHow = "ret" => retFrom = "slot" \/ NoneBefore(StoresResult, srcPc)

\* What is emitted is complete, and it runs only if its labels verify.
VerifyInv ==
  /\ phase \in {"run", "refused"} => bi = Len(blocks) + 1
  /\ phase = "run" => LabelsVerify

IInv == PhaseInv /\ BlocksInv /\ LowerInv /\ RunInv /\ VerifyInv /\ RejectsOnlyUntranslatable

-----------------------------------------------------------------------------
(***************************************************************************)
(* Programs.                                                               *)
(***************************************************************************)
\* What the assembler guarantees of the code and the labels of a function.
LEMMA ProgramFacts ==
  ASSUME prog \in Programs
  PROVE  /\ N \in Nat
         /\ Len(prog.labels) \in Nat
         /\ \A k \in 1..Len(prog.labels) : /\ prog.labels[k].at \in 1..(N + 1)
                                           /\ prog.labels[k].name \in Labels
         /\ \A j, k \in 1..Len(prog.labels) :
              /\ j < k => prog.labels[j].at <= prog.labels[k].at
              /\ prog.labels[j].name = prog.labels[k].name => j = k
         /\ \A i \in 1..N : Tgt(i).kind = "label" =>
              \E k \in 1..Len(prog.labels) : prog.labels[k].name = Tgt(i).label
         /\ \A i \in 1..N : Tgt(i).label \in Labels /\ Tgt(i).off \in Int
<1> DEFINE Ins == [op : STRING, tgt : [kind : {"none", "label", "pc", "sym"},
                                       label : Labels, off : Int]]
           Lbl == [name : Labels, at : Int]
<1>1. WellFormed(prog)
  BY ProgramsAssumption
<1>2. prog.code \in Seq(Ins)
  BY <1>1 DEF WellFormed
<1>3. /\ N \in Nat
      /\ \A i \in 1..N : prog.code[i] \in Ins
  <2> HIDE DEF Ins
  <2> QED
    BY <1>2, LenProperties, ElementOfSeq DEF N
<1>4. \A i \in 1..N : Tgt(i).label \in Labels /\ Tgt(i).off \in Int
  BY <1>3 DEF Tgt
<1>5. \A i \in 1..N : Tgt(i).kind = "label" =>
              \E k \in 1..Len(prog.labels) : prog.labels[k].name = Tgt(i).label
  <2> HIDE DEF Ins
  <2> QED
    BY <1>1, <1>3 DEF WellFormed, N, Tgt
<1>6. LabelsInOrder(prog)
  BY <1>1 DEF WellFormed
<1>7. prog.labels \in Seq(Lbl)
  BY <1>6 DEF LabelsInOrder
<1>8. /\ Len(prog.labels) \in Nat
      /\ \A k \in 1..Len(prog.labels) : prog.labels[k] \in Lbl
  <2> HIDE DEF Lbl
  <2> QED
    BY <1>7, LenProperties, ElementOfSeq
<1>9. \A k \in 1..Len(prog.labels) : /\ prog.labels[k].at \in 1..(N + 1)
                                     /\ prog.labels[k].name \in Labels
  <2> HIDE DEF Lbl
  <2>1. \A k \in 1..Len(prog.labels) : prog.labels[k].name \in Labels
    BY <1>8 DEF Lbl
  <2> QED
    BY <2>1, <1>6 DEF LabelsInOrder, N
<1>10. \A j, k \in 1..Len(prog.labels) :
              /\ j < k => prog.labels[j].at <= prog.labels[k].at
              /\ prog.labels[j].name = prog.labels[k].name => j = k
  BY <1>6 DEF LabelsInOrder
<1> QED
  BY <1>3, <1>4, <1>5, <1>8, <1>9, <1>10

\* What the two lists of terminators say of the instructions of a function:
\* each kind of instruction is in one of them only once, and the splitter
\* cuts after every branch and every RET.
LEMMA OpFacts ==
  ASSUME prog \in Programs, NEW i \in 1..N
  PROVE  /\ Op(i) \in LowerTerms <=> \/ Op(i) \in {"RET", "UNDEF"}
                                     \/ Op(i) \in Jumps \/ Op(i) \in CondBranches
         /\ Op(i) \in {"RET"} \cup Jumps \cup CondBranches => Op(i) \in SplitOps
         /\ Op(i) = "UNDEF" => "UNDEF" \in LowerTerms
         /\ Op(i) \in Jumps => Op(i) \notin {"RET", "UNDEF"} \cup CondBranches
         /\ Op(i) \in CondBranches => Op(i) \notin {"RET", "UNDEF"}
         /\ Op(i) \in SetsFlags \cup StoresResult => Op(i) \notin LowerTerms
         /\ Op(i) \in CondBranches => Tgt(i).kind \in {"label", "pc"}
         /\ Op(i) \in Jumps => Tgt(i).kind \in {"label", "pc", "sym"}
         /\ Op(i) \in CondBranches /\ Tgt(i).kind = "pc" =>
              Arch # "arm64" /\ Op(i) \in FlagBranches
<1>1. WellFormed(prog)
  BY ProgramsAssumption
<1>2. Translatable(prog.arch, prog.code[i])
  BY <1>1 DEF WellFormed, N
<1>3. prog.arch \in {"arm64", "arm", "amd64", "386"}
  BY <1>1 DEF WellFormed, X86
<1> USE DEF Op, Tgt, Arch, Translatable, Branches, LowerTerms, Jumps, CondBranches,
            FlagBranches, RegBranches, RegConds, ArmConds, X86Conds, X86, SplitOps,
            SetsFlags, StoresResult
<1>4. CASE prog.arch = "arm64"
  BY <1>2, <1>4
<1>5. CASE prog.arch = "arm"
  BY <1>2, <1>5
<1>6. CASE prog.arch = "amd64"
  BY <1>2, <1>6
<1>7. CASE prog.arch = "386"
  BY <1>2, <1>7
<1> QED
  BY <1>3, <1>4, <1>5, <1>6, <1>7

\* A step keeps the function, and with it everything that only depends on it.
LEMMA Keep ==
  ASSUME prog' = prog
  PROVE  /\ N' = N /\ Arch' = Arch
         /\ SplitAt' = SplitAt /\ SplitOps' = SplitOps /\ LowerTerms' = LowerTerms
         /\ Jumps' = Jumps /\ FlagBranches' = FlagBranches
         /\ CondBranches' = CondBranches
         /\ \A i : Op(i)' = Op(i) /\ Tgt(i)' = Tgt(i)
<1>1. /\ N' = N /\ Arch' = Arch
      /\ \A i : Op(i)' = Op(i) /\ Tgt(i)' = Tgt(i)
  BY DEF N, Arch, Op, Tgt
<1>2. /\ Jumps' = Jumps /\ FlagBranches' = FlagBranches /\ RegBranches' = RegBranches
      /\ SplitOps' = SplitOps
  BY <1>1 DEF Jumps, FlagBranches, RegBranches, SplitOps
<1>3. CondBranches' = CondBranches
  BY <1>2 DEF CondBranches
<1>4. LowerTerms' = LowerTerms
  BY <1>1, <1>2, <1>3 DEF LowerTerms
<1>5. SplitAt' = SplitAt
  BY <1>1, <1>2 DEF SplitAt
<1> QED
  BY <1>1, <1>2, <1>3, <1>4, <1>5

\* So do the definitions built on them.
LEMMA KeepUndef ==
  ASSUME prog' = prog
  PROVE  /\ \A j : AfterUndef(j)' <=> AfterUndef(j)
         /\ \A i : Inside(i)' <=> Inside(i)
         /\ \A ops, i : NoneBefore(ops, i)' <=> NoneBefore(ops, i)
         /\ \A i : SrcTargets(i)' = SrcTargets(i)
<1>1. \A j : AfterUndef(j)' <=> AfterUndef(j)
  BY Keep DEF AfterUndef
<1>2. \A i : Inside(i)' <=> Inside(i)
  BY Keep DEF Inside
<1>3. \A i : SrcTargets(i)' = SrcTargets(i)
  <2> SUFFICES ASSUME NEW i PROVE SrcTargets(i)' = SrcTargets(i)
    OBVIOUS
  <2>1. Tgt(i)' = Tgt(i)
    BY Keep
  <2>2. LabelAt(Tgt(i).label)' = LabelAt(Tgt(i).label)
    BY <2>1 DEF LabelAt
  <2> QED
    BY <2>1, <2>2 DEF SrcTargets
<1> QED
  BY <1>1, <1>2, <1>3, Keep DEF NoneBefore

-----------------------------------------------------------------------------
(***************************************************************************)
(* Splitting.  Three things happen to the list of blocks: an empty block   *)
(* is opened at its end, the last block grows by one instruction, an empty *)
(* block at the end takes a label's name or is dropped.                    *)
(***************************************************************************)
LEMMA NameKinds ==
  /\ EntryName \in Names
  /\ \A l \in Labels : LabelName(l) \in Names
  /\ \A c \in Nat : AnonName(c) \in Names
  /\ \A l, m : LabelName(l) = LabelName(m) => l = m
  /\ \A c, d : AnonName(c) = AnonName(d) => c = d
  /\ \A l, c : LabelName(l) # AnonName(c)
  /\ \A l : LabelName(l) # EntryName /\ LabelName(l)[1] = "label"
  /\ \A c : AnonName(c) # EntryName /\ AnonName(c)[1] = "anon"
  /\ EntryName[1] = "entry"
<1>1. /\ EntryName \in Names
      /\ \A l \in Labels : LabelName(l) \in Names
      /\ \A c \in Nat : AnonName(c) \in Names
  BY DEF Names, EntryName, LabelName, AnonName
<1>2. /\ \A l, m : LabelName(l) = LabelName(m) => l = m
      /\ \A c, d : AnonName(c) = AnonName(d) => c = d
  BY DEF LabelName, AnonName
<1>3. /\ \A l : LabelName(l)[1] = "label"
      /\ \A c : AnonName(c)[1] = "anon"
      /\ EntryName[1] = "entry"
  BY DEF EntryName, LabelName, AnonName
<1> QED
  BY <1>1, <1>2, <1>3

\* The fields of the blocks of a chain.
LEMMA ChainFacts ==
  ASSUME NEW end \in Nat, NEW bs, Chain(bs, end)
  PROVE  /\ bs \in Seq(Block) /\ Len(bs) \in Nat /\ Len(bs) \in 1..Len(bs)
         /\ \A b \in 1..Len(bs) : /\ bs[b] \in Block
                                  /\ bs[b].lo \in Int /\ bs[b].hi \in Int
                                  /\ bs[b].lo <= bs[b].hi + 1
                                  /\ bs[b].hi <= end /\ bs[b].lo >= 1
         /\ bs[Len(bs)].hi = end
         /\ \A a, b \in 1..Len(bs) : a < b => bs[a].hi < bs[b].lo
         /\ \A b \in 1..(Len(bs) - 1) : bs[b + 1].lo = bs[b].hi + 1
<1>1. bs \in Seq(Block) /\ Len(bs) \in Nat /\ Len(bs) >= 1
  BY LenProperties DEF Chain
<1>2. \A b \in 1..Len(bs) : bs[b] \in Block
  BY <1>1, ElementOfSeq
<1>3. \A b \in 1..Len(bs) : bs[b].lo \in Int /\ bs[b].hi \in Int
  BY <1>2 DEF Block
<1>4. \A b \in 1..Len(bs) : bs[b].hi <= end /\ bs[b].lo >= 1
  <2> SUFFICES ASSUME NEW b \in 1..Len(bs)
               PROVE  bs[b].hi <= end /\ bs[b].lo >= 1
    OBVIOUS
  <2>1. bs[b].hi <= end
    <3>1. CASE b = Len(bs)
      BY <3>1 DEF Chain
    <3>2. CASE b < Len(bs)
      <4>1. Len(bs) \in 1..Len(bs)
        BY <1>1
      <4>2. bs[b].hi < bs[Len(bs)].lo /\ bs[Len(bs)].lo <= end + 1
        BY <3>2, <4>1 DEF Chain
      <4> QED
        BY <1>3, <4>1, <4>2
    <3> QED
      BY <1>1, <3>1, <3>2
  <2>2. bs[b].lo >= 1
    <3>1. CASE b = 1
      BY <3>1 DEF Chain
    <3>2. CASE b > 1
      <4>1. 1 \in 1..Len(bs)
        BY <1>1
      <4>2. bs[1].hi < bs[b].lo /\ 1 <= bs[1].hi + 1
        BY <3>2, <4>1 DEF Chain
      <4> QED
        BY <1>3, <4>1, <4>2
    <3> QED
      BY <3>1, <3>2
  <2> QED
    BY <2>1, <2>2
<1> QED
  BY <1>1, <1>2, <1>3, <1>4 DEF Chain

\* What appending an empty block gives.
LEMMA Opened ==
  ASSUME NEW bs \in Seq(Block), NEW name \in Names, NEW at \in Int,
         NEW after, after = Append(bs, NewBlock(name, at))
  PROVE  /\ after \in Seq(Block)
         /\ Len(after) = Len(bs) + 1
         /\ \A b \in 1..Len(bs) : after[b] = bs[b]
         /\ after[Len(bs) + 1].name = name
         /\ after[Len(bs) + 1].lo = at
         /\ after[Len(bs) + 1].hi = at - 1
<1> DEFINE new == NewBlock(name, at)
<1>1. new \in Block /\ new.name = name /\ new.lo = at /\ new.hi = at - 1
  BY DEF NewBlock, Block
<1>2. after = Append(bs, new)
  OBVIOUS
<1> HIDE DEF new
<1>3. /\ after \in Seq(Block)
      /\ Len(after) = Len(bs) + 1
      /\ \A b \in 1..Len(bs) : after[b] = bs[b]
      /\ after[Len(bs) + 1] = new
  BY <1>1, <1>2, AppendProperties
<1> QED
  BY <1>1, <1>3

\* Opening an empty block keeps the chain, whatever its name.
LEMMA OpenChain ==
  ASSUME NEW end \in Nat, NEW bs, NEW name \in Names, Chain(bs, end)
  PROVE  Chain(Append(bs, NewBlock(name, end + 1)), end)
<1> DEFINE nb == Append(bs, NewBlock(name, end + 1))
<1>0. nb = Append(bs, NewBlock(name, end + 1))
  OBVIOUS
<1> HIDE DEF nb
<1>1. /\ bs \in Seq(Block) /\ Len(bs) \in Nat /\ Len(bs) >= 1 /\ end + 1 \in Int
      /\ end + 1 - 1 = end
  BY ChainFacts
<1>2. /\ nb \in Seq(Block) /\ Len(nb) = Len(bs) + 1
      /\ \A b \in 1..Len(bs) : nb[b] = bs[b]
      /\ nb[Len(bs) + 1].lo = end + 1 /\ nb[Len(bs) + 1].hi = end
  BY <1>0, <1>1, Opened
<1>3. bs[1].lo = 1 /\ bs[1].name = EntryName /\ 1 \in 1..Len(bs)
  BY <1>1 DEF Chain
<1>4. /\ \A b \in 1..Len(bs) : /\ bs[b].lo \in Int /\ bs[b].hi \in Int
                               /\ bs[b].hi <= end /\ bs[b].lo <= bs[b].hi + 1
      /\ bs[Len(bs)].hi = end
      /\ \A b \in 1..(Len(bs) - 1) : bs[b + 1].lo = bs[b].hi + 1
  BY ChainFacts
<1>5. nb[1].lo = 1 /\ nb[1].name = EntryName /\ nb[Len(nb)].hi = end
  BY <1>1, <1>2, <1>3
<1>6. \A b \in 1..Len(nb) : nb[b].lo <= nb[b].hi + 1
  BY <1>1, <1>2, <1>4
<1>7. \A b \in 1..(Len(nb) - 1) : nb[b + 1].lo = nb[b].hi + 1
  <2> SUFFICES ASSUME NEW b \in 1..Len(bs)
               PROVE  nb[b + 1].lo = nb[b].hi + 1
    BY <1>1, <1>2
  <2>1. CASE b = Len(bs)
    <3>1. nb[b] = bs[b] /\ nb[b + 1].lo = end + 1
      BY <1>2, <2>1
    <3> QED
      BY <1>4, <2>1, <3>1
  <2>2. CASE b < Len(bs)
    <3>1. b \in 1..(Len(bs) - 1) /\ b + 1 \in 1..Len(bs)
      BY <1>1, <2>2
    <3>2. nb[b] = bs[b] /\ nb[b + 1] = bs[b + 1]
      BY <1>2, <3>1
    <3> QED
      BY <1>4, <3>1, <3>2
  <2> QED
    BY <1>1, <2>1, <2>2
<1>8. \A a, b \in 1..Len(nb) : a < b => nb[a].hi < nb[b].lo
  <2> SUFFICES ASSUME NEW a \in 1..Len(nb), NEW b \in 1..Len(nb), a < b
               PROVE  nb[a].hi < nb[b].lo
    OBVIOUS
  <2>1. a \in 1..Len(bs) /\ nb[a] = bs[a] /\ bs[a].hi <= end /\ bs[a].hi \in Int
    BY <1>1, <1>2, <1>4
  <2>2. CASE b = Len(bs) + 1
    BY <2>1, <2>2, <1>2
  <2>3. CASE b # Len(bs) + 1
    <3>1. b \in 1..Len(bs) /\ nb[b] = bs[b]
      BY <2>3, <1>1, <1>2
    <3>2. bs[a].hi < bs[b].lo
      BY <2>1, <3>1 DEF Chain
    <3> QED
      BY <2>1, <3>1, <3>2
  <2>4. b = Len(bs) + 1 \/ b # Len(bs) + 1
    OBVIOUS
  <2> QED
    BY <2>2, <2>3, <2>4
<1>9. QED
  <2>1. Chain(nb, end)
    BY <1>1, <1>2, <1>5, <1>6, <1>7, <1>8 DEF Chain
  <2> QED
    BY <2>1 DEF nb

\* A block that starts behind the last instruction is empty, and so are all
\* behind it: the last block does, if it is not empty, start in front.
LEMMA StartsInFront ==
  ASSUME NEW end \in Nat, NEW bs, Chain(bs, end), bs[Len(bs)].lo <= end
  PROVE  \A b \in 1..Len(bs) : bs[b].lo <= end
<1> SUFFICES ASSUME NEW b \in 1..Len(bs)
             PROVE  bs[b].lo <= end
  OBVIOUS
<1> USE ChainFacts
<1>1. CASE b = Len(bs)
  BY <1>1
<1>2. CASE b < Len(bs)
  <2>1. bs[b].hi < bs[Len(bs)].lo /\ bs[b].lo <= bs[b].hi + 1
    BY <1>2
  <2> QED
    BY <2>1
<1> QED
  BY <1>1, <1>2

\* An empty block holds no instruction that control could leave or enter.
LEMMA OpenStraight ==
  ASSUME NEW end \in Nat, NEW bs, NEW name \in Names, Chain(bs, end), Straight(bs)
  PROVE  Straight(Append(bs, NewBlock(name, end + 1)))
<1> DEFINE nb == Append(bs, NewBlock(name, end + 1))
<1>1. nb = Append(bs, NewBlock(name, end + 1))
  OBVIOUS
<1> HIDE DEF nb
<1>2. /\ Len(nb) = Len(bs) + 1 /\ Len(bs) \in Nat
      /\ \A b \in 1..Len(bs) : nb[b] = bs[b]
      /\ nb[Len(bs) + 1].lo = end + 1 /\ nb[Len(bs) + 1].hi = end
  <2>1. bs \in Seq(Block) /\ Len(bs) \in Nat /\ end \in Int
    BY ChainFacts
  <2> QED
    BY <1>1, <2>1, Opened
<1>3. Straight(nb)
  <2> SUFFICES ASSUME NEW b \in 1..Len(nb), NEW i \in nb[b].lo..(nb[b].hi - 1)
               PROVE  Inside(i)
    BY DEF Straight
  <2>1. CASE b = Len(bs) + 1
    BY <1>2, <2>1
  <2>2. CASE b # Len(bs) + 1
    BY <1>2, <2>2 DEF Straight
  <2> QED
    BY <2>1, <2>2
<1> QED
  BY <1>1, <1>3

\* One more block under a name of its own leaves every name unique.
LEMMA StillOnce ==
  ASSUME NEW bs, Len(bs) \in Nat, NEW after, Len(after) = Len(bs) + 1,
         \A b \in 1..Len(bs) : after[b] = bs[b],
         \A b \in 1..Len(bs) : bs[b].name # after[Len(bs) + 1].name,
         \A a, b \in 1..Len(bs) : bs[a].name = bs[b].name => a = b
  PROVE  \A a, b \in 1..Len(after) : after[a].name = after[b].name => a = b
<1> SUFFICES ASSUME NEW a \in 1..Len(after), NEW b \in 1..Len(after),
                    after[a].name = after[b].name, a # b
             PROVE  FALSE
  OBVIOUS
<1>1. CASE a = Len(bs) + 1
  <2>1. b \in 1..Len(bs)
    BY <1>1
  <2> QED
    BY <2>1, <1>1
<1>2. CASE b = Len(bs) + 1
  <2>1. a \in 1..Len(bs)
    BY <1>2
  <2> QED
    BY <2>1, <1>2
<1>3. CASE a # Len(bs) + 1 /\ b # Len(bs) + 1
  <2>1. a \in 1..Len(bs) /\ b \in 1..Len(bs)
    BY <1>3
  <2> QED
    BY <2>1
<1> QED
  BY <1>1, <1>2, <1>3

\* A name that is not in use is in use once.
LEMMA OpenNamed ==
  ASSUME prog \in Programs,
         NEW end \in Nat, NEW bs, Chain(bs, end),
         NEW an \in Nat, NEW k \in 0..Len(prog.labels), Named(bs, an, k)
  PROVE  /\ Named(Append(bs, NewBlock(AnonName(an + 1), end + 1)), an + 1, k)
         /\ k < Len(prog.labels) =>
              Named(Append(bs, NewBlock(LabelName(prog.labels[k + 1].name), end + 1)), an, k + 1)
<1>0. bs \in Seq(Block) /\ Len(bs) \in Nat /\ end \in Int /\ Len(prog.labels) \in Nat
  BY ChainFacts, ProgramFacts
<1>1. Named(Append(bs, NewBlock(AnonName(an + 1), end + 1)), an + 1, k)
  <2> DEFINE nb == Append(bs, NewBlock(AnonName(an + 1), end + 1))
  <2>1. nb = Append(bs, NewBlock(AnonName(an + 1), end + 1))
    OBVIOUS
  <2> HIDE DEF nb
  <2>2. /\ Len(nb) = Len(bs) + 1
        /\ \A b \in 1..Len(bs) : nb[b] = bs[b]
        /\ nb[Len(bs) + 1].name = AnonName(an + 1)
    <3> DEFINE nm == AnonName(an + 1)
    <3>1. nm \in Names /\ bs \in Seq(Block) /\ end \in Int
      BY <1>0, NameKinds
    <3>2. nb = Append(bs, NewBlock(nm, end + 1))
      BY <2>1
    <3> HIDE DEF nm
    <3>3. /\ Len(nb) = Len(bs) + 1
          /\ \A b \in 1..Len(bs) : nb[b] = bs[b]
          /\ nb[Len(bs) + 1].name = nm
      BY <3>1, <3>2, Opened
    <3> QED
      BY <3>3 DEF nm
  <2>3. \A b \in 1..Len(bs) : bs[b].name # AnonName(an + 1)
    <3>1. an + 1 \notin 1..an
      OBVIOUS
    <3> QED
      BY <3>1, NameKinds DEF Named
  <2>4. \A a, b \in 1..Len(nb) : nb[a].name = nb[b].name => a = b
    <3>1. \A b \in 1..Len(bs) : bs[b].name # nb[Len(bs) + 1].name
      BY <2>2, <2>3
    <3>2. \A a, b \in 1..Len(bs) : bs[a].name = bs[b].name => a = b
      BY DEF Named
    <3> QED
      BY <1>0, <2>2, <3>1, <3>2, StillOnce
  <2>5. \A b \in 1..Len(nb) :
          \/ nb[b].name = EntryName
          \/ \E c \in 1..(an + 1) : nb[b].name = AnonName(c)
          \/ \E j \in 1..k : nb[b].name = LabelName(prog.labels[j].name)
    <3> SUFFICES ASSUME NEW b \in 1..Len(nb)
                 PROVE  \/ nb[b].name = EntryName
                        \/ \E c \in 1..(an + 1) : nb[b].name = AnonName(c)
                        \/ \E j \in 1..k : nb[b].name = LabelName(prog.labels[j].name)
      OBVIOUS
    <3>1. CASE b = Len(bs) + 1
      <4>1. an + 1 \in 1..(an + 1)
        OBVIOUS
      <4> QED
        BY <2>2, <3>1, <4>1
    <3>2. CASE b # Len(bs) + 1
      <4>1. b \in 1..Len(bs) /\ nb[b] = bs[b] /\ \A c \in 1..an : c \in 1..(an + 1)
        BY <1>0, <2>2, <3>2
      <4> QED
        BY <4>1 DEF Named
    <3> QED
      BY <3>1, <3>2
  <2>6. Named(nb, an + 1, k)
    BY <2>4, <2>5 DEF Named
  <2> QED
    BY <2>1, <2>6
<1>2. ASSUME k < Len(prog.labels)
      PROVE  Named(Append(bs, NewBlock(LabelName(prog.labels[k + 1].name), end + 1)), an, k + 1)
  <2> DEFINE nm == LabelName(prog.labels[k + 1].name)
             nb == Append(bs, NewBlock(nm, end + 1))
  <2>0. k + 1 \in 1..Len(prog.labels) /\ k + 1 \notin 1..k /\ k + 1 \in 1..(k + 1)
        /\ prog.labels[k + 1].name \in Labels
    BY <1>0, <1>2, ProgramFacts
  <2>1. nb = Append(bs, NewBlock(nm, end + 1)) /\ nm \in Names
    BY <2>0, NameKinds
  <2>2. \A b \in 1..Len(bs) : bs[b].name # nm
    <3>1. \A j \in 1..k : prog.labels[j].name # prog.labels[k + 1].name
      BY <2>0, <1>0, ProgramFacts
    <3> QED
      BY <3>1, NameKinds DEF Named
  <2>3. nm = LabelName(prog.labels[k + 1].name)
    OBVIOUS
  <2> HIDE DEF nb, nm
  <2>4. /\ Len(nb) = Len(bs) + 1
        /\ \A b \in 1..Len(bs) : nb[b] = bs[b]
        /\ nb[Len(bs) + 1].name = nm
    <3>1. bs \in Seq(Block) /\ nm \in Names /\ end \in Int
      BY <1>0, <2>1
    <3>2. nb = Append(bs, NewBlock(nm, end + 1))
      BY <2>1
    <3> QED
      BY <3>1, <3>2, Opened
  <2>5. \A a, b \in 1..Len(nb) : nb[a].name = nb[b].name => a = b
    <3>1. \A b \in 1..Len(bs) : bs[b].name # nb[Len(bs) + 1].name
      BY <2>2, <2>4
    <3>2. \A a, b \in 1..Len(bs) : bs[a].name = bs[b].name => a = b
      BY DEF Named
    <3> QED
      BY <1>0, <2>4, <3>1, <3>2, StillOnce
  <2>6. \A b \in 1..Len(nb) :
          \/ nb[b].name = EntryName
          \/ \E c \in 1..an : nb[b].name = AnonName(c)
          \/ \E j \in 1..(k + 1) : nb[b].name = LabelName(prog.labels[j].name)
    <3> SUFFICES ASSUME NEW b \in 1..Len(nb)
                 PROVE  \/ nb[b].name = EntryName
                        \/ \E c \in 1..an : nb[b].name = AnonName(c)
                        \/ \E j \in 1..(k + 1) : nb[b].name = LabelName(prog.labels[j].name)
      OBVIOUS
    <3>1. CASE b = Len(bs) + 1
      BY <2>0, <2>3, <2>4, <3>1
    <3>2. CASE b # Len(bs) + 1
      <4>1. b \in 1..Len(bs) /\ nb[b] = bs[b] /\ \A j \in 1..k : j \in 1..(k + 1)
        BY <1>0, <2>4, <3>2
      <4> QED
        BY <4>1 DEF Named
    <3> QED
      BY <3>1, <3>2
  <2>7. Named(nb, an, k + 1)
    BY <2>5, <2>6 DEF Named
  <2> QED
    BY <2>1, <2>3, <2>7
<1> QED
  BY <1>1, <1>2

\* The new block is the one a label read now starts.
LEMMA OpenFound ==
  ASSUME prog \in Programs,
         NEW end \in Nat, NEW bs, Chain(bs, end), NEW k \in 0..Len(prog.labels), Found(bs, end, k),
         NEW name \in Names
  PROVE  /\ Found(Append(bs, NewBlock(name, end + 1)), end, k)
         /\ /\ k < Len(prog.labels)
            /\ name = LabelName(prog.labels[k + 1].name)
            /\ prog.labels[k + 1].at = end + 1
            => Found(Append(bs, NewBlock(name, end + 1)), end, k + 1)
<1> DEFINE nb == Append(bs, NewBlock(name, end + 1))
           lb == Len(bs) + 1
<1>1. nb = Append(bs, NewBlock(name, end + 1)) /\ lb = Len(bs) + 1
  OBVIOUS
<1> HIDE DEF nb, lb
<1>2. bs \in Seq(Block) /\ Len(bs) \in Nat /\ end \in Int /\ Len(bs) \in 1..Len(bs)
  BY ChainFacts
<1>3. /\ Len(nb) = lb /\ lb \in 1..lb
      /\ \A b \in 1..Len(bs) : nb[b] = bs[b]
      /\ nb[lb].name = name /\ nb[lb].lo = end + 1
  <2>1. /\ Len(nb) = Len(bs) + 1
        /\ \A b \in 1..Len(bs) : nb[b] = bs[b]
        /\ nb[Len(bs) + 1].name = name
        /\ nb[Len(bs) + 1].lo = end + 1
    BY <1>1, <1>2, Opened
  <2> QED
    BY <1>1, <1>2, <2>1
<1>4. \A b \in 1..Len(bs) : b \in 1..Len(nb)
  <2>1. Len(bs) \in Nat /\ Len(nb) = Len(bs) + 1
    BY <1>1, <1>2, <1>3
  <2> QED
    BY <2>1
<1>5. \A j \in 1..k : \E b \in 1..Len(nb) : /\ nb[b].name = LabelName(prog.labels[j].name)
                                            /\ nb[b].lo = prog.labels[j].at
  <2> TAKE j \in 1..k
  <2>1. PICK b \in 1..Len(bs) : /\ bs[b].name = LabelName(prog.labels[j].name)
                                /\ bs[b].lo = prog.labels[j].at
    BY DEF Found
  <2>2. b \in 1..Len(nb) /\ nb[b] = bs[b]
    BY <1>3, <1>4
  <2> QED
    BY <2>1, <2>2
<1>6. \A i \in SplitAt : i <= end => \E b \in 1..Len(nb) : nb[b].lo = i /\ nb[b].hi >= i
  BY <1>3, <1>4 DEF Found
<1>7. \A b \in 1..Len(nb) : \E a \in 1..Len(nb) :
        nb[a].lo = nb[b].lo /\ \A c \in 1..(a - 1) : nb[c].lo < nb[b].lo
  <2> SUFFICES ASSUME NEW b \in 1..Len(nb)
               PROVE  \E a \in 1..Len(nb) :
                        nb[a].lo = nb[b].lo /\ \A c \in 1..(a - 1) : nb[c].lo < nb[b].lo
    OBVIOUS
  <2>1. ASSUME NEW d \in 1..Len(bs), nb[b].lo = bs[d].lo
        PROVE  \E a \in 1..Len(nb) :
                 nb[a].lo = nb[b].lo /\ \A c \in 1..(a - 1) : nb[c].lo < nb[b].lo
    <3>1. PICK a \in 1..Len(bs) :
            bs[a].lo = bs[d].lo /\ \A c \in 1..(a - 1) : bs[c].lo < bs[d].lo
      BY DEF Found
    <3>2. \A c \in 1..(a - 1) : c \in 1..Len(bs) /\ nb[c] = bs[c]
      BY <1>2, <1>3
    <3> QED
      BY <1>3, <1>4, <2>1, <3>1, <3>2
  <2>2. CASE b # lb
    <3>1. b \in 1..Len(bs) /\ nb[b] = bs[b]
      BY <1>1, <1>2, <1>3, <2>2
    <3> QED
      BY <2>1, <3>1
  <2>3. CASE b = lb /\ bs[Len(bs)].lo = end + 1
    <3>1. Len(bs) \in 1..Len(bs) /\ nb[b].lo = bs[Len(bs)].lo
      BY <1>2, <1>3, <2>3
    <3> QED
      BY <2>1, <3>1
  <2>4. CASE b = lb /\ bs[Len(bs)].lo # end + 1
    <3>1. bs[Len(bs)].lo <= end
      <4>1. bs[Len(bs)].lo \in Int /\ bs[Len(bs)].lo <= end + 1
        BY <1>2, ChainFacts
      <4> QED
        BY <4>1, <2>4
    <3>2. \A c \in 1..(lb - 1) : nb[c].lo < nb[b].lo
      <4>1. \A c \in 1..Len(bs) : bs[c].lo <= end /\ bs[c].lo \in Int
        BY <3>1, StartsInFront, ChainFacts
      <4>2. \A c \in 1..(lb - 1) : c \in 1..Len(bs) /\ nb[c] = bs[c]
        BY <1>1, <1>2, <1>3
      <4> QED
        BY <4>1, <4>2, <1>2, <1>3, <2>4
    <3> QED
      BY <3>2, <1>3, <2>4
  <2> QED
    BY <2>2, <2>3, <2>4
<1>8. Found(nb, end, k)
  BY <1>5, <1>6, <1>7 DEF Found
<1>9. ASSUME k < Len(prog.labels), name = LabelName(prog.labels[k + 1].name),
             prog.labels[k + 1].at = end + 1
      PROVE  Found(nb, end, k + 1)
  <2>1. \A j \in 1..(k + 1) : j \in 1..k \/ j = k + 1
    OBVIOUS
  <2>2. \A j \in 1..(k + 1) :
          \E b \in 1..Len(nb) : /\ nb[b].name = LabelName(prog.labels[j].name)
                                /\ nb[b].lo = prog.labels[j].at
    BY <2>1, <1>3, <1>5, <1>9
  <2> QED
    BY <2>2, <1>6, <1>7 DEF Found
<1> QED
  BY <1>1, <1>8, <1>9

\* What growing, or renaming, the last block gives.
LEMMA LastChanged ==
  ASSUME NEW bs \in Seq(Block), Len(bs) >= 1, NEW last \in Block,
         NEW after, after = [bs EXCEPT ![Len(bs)] = last]
  PROVE  /\ after \in Seq(Block)
         /\ Len(after) = Len(bs)
         /\ \A b \in 1..(Len(bs) - 1) : after[b] = bs[b]
         /\ after[Len(bs)] = last
<1>1. Len(bs) \in Nat /\ Len(bs) \in 1..Len(bs)
  BY LenProperties
<1>2. /\ after \in Seq(Block)
      /\ Len(after) = Len(bs)
      /\ \A b \in 1..Len(bs) : after[b] = IF b = Len(bs) THEN last ELSE bs[b]
  BY <1>1, ExceptSeq
<1>3. \A b \in 1..(Len(bs) - 1) : b \in 1..Len(bs) /\ b # Len(bs)
  BY <1>1
<1> QED
  BY <1>1, <1>2, <1>3

\* What taking one more instruction changes: the end of the last block.
LEMMA Grown ==
  ASSUME NEW end \in Nat, NEW bs, Chain(bs, end),
         NEW after, after = Grow(bs, end + 1)
  PROVE  /\ after \in Seq(Block)
         /\ Len(after) = Len(bs)
         /\ \A b \in 1..(Len(bs) - 1) : after[b] = bs[b]
         /\ \A b \in 1..Len(bs) : after[b].name = bs[b].name /\ after[b].lo = bs[b].lo
         /\ after[Len(bs)].hi = end + 1
<1>1. /\ bs \in Seq(Block) /\ Len(bs) >= 1 /\ Len(bs) \in Nat
      /\ bs[Len(bs)] \in Block
  BY ChainFacts
<1> DEFINE last == [name |-> bs[Len(bs)].name, lo |-> bs[Len(bs)].lo, hi |-> end + 1]
<1>2. /\ last \in Block
      /\ last.name = bs[Len(bs)].name
      /\ last.lo = bs[Len(bs)].lo
      /\ last.hi = end + 1
  BY <1>1 DEF Block
<1>3. after = [bs EXCEPT ![Len(bs)] = last]
  BY DEF Grow, Rename
<1> HIDE DEF last
<1>4. /\ after \in Seq(Block)
      /\ Len(after) = Len(bs)
      /\ \A b \in 1..(Len(bs) - 1) : after[b] = bs[b]
      /\ after[Len(bs)] = last
  BY <1>1, <1>2, <1>3, LastChanged
<1>5. \A b \in 1..Len(bs) : b \in 1..(Len(bs) - 1) \/ b = Len(bs)
  BY <1>1
<1> QED
  BY <1>2, <1>4, <1>5

\* What renaming changes: the name of the last block.
LEMMA Renamed ==
  ASSUME NEW end \in Nat, NEW bs, Chain(bs, end), NEW nm \in Names,
         NEW after, after = Rename(bs, nm)
  PROVE  /\ after \in Seq(Block)
         /\ Len(after) = Len(bs)
         /\ \A b \in 1..(Len(bs) - 1) : after[b] = bs[b]
         /\ \A b \in 1..Len(bs) : after[b].lo = bs[b].lo /\ after[b].hi = bs[b].hi
         /\ after[Len(bs)].name = nm
<1>1. /\ bs \in Seq(Block) /\ Len(bs) >= 1 /\ Len(bs) \in Nat
      /\ bs[Len(bs)] \in Block
  BY ChainFacts
<1> DEFINE last == [name |-> nm, lo |-> bs[Len(bs)].lo, hi |-> bs[Len(bs)].hi]
<1>2. /\ last \in Block
      /\ last.name = nm
      /\ last.lo = bs[Len(bs)].lo
      /\ last.hi = bs[Len(bs)].hi
  BY <1>1 DEF Block
<1>3. after = [bs EXCEPT ![Len(bs)] = last]
  BY DEF Grow, Rename
<1> HIDE DEF last
<1>4. /\ after \in Seq(Block)
      /\ Len(after) = Len(bs)
      /\ \A b \in 1..(Len(bs) - 1) : after[b] = bs[b]
      /\ after[Len(bs)] = last
  BY <1>1, <1>2, <1>3, LastChanged
<1>5. \A b \in 1..Len(bs) : b \in 1..(Len(bs) - 1) \/ b = Len(bs)
  BY <1>1
<1> QED
  BY <1>2, <1>4, <1>5

\* The chain goes on to the instruction the last block takes.
LEMMA GrowChain ==
  ASSUME NEW end \in Nat, NEW bs, Chain(bs, end)
  PROVE  Chain(Grow(bs, end + 1), end + 1)
<1> DEFINE gs == Grow(bs, end + 1)
<1>1. gs = Grow(bs, end + 1)
  OBVIOUS
<1> HIDE DEF gs
<1>2. /\ gs \in Seq(Block)
      /\ Len(gs) = Len(bs)
      /\ \A b \in 1..(Len(bs) - 1) : gs[b] = bs[b]
      /\ \A b \in 1..Len(bs) : gs[b].name = bs[b].name /\ gs[b].lo = bs[b].lo
      /\ gs[Len(bs)].hi = end + 1
  BY <1>1, Grown
<1>3. /\ Len(bs) \in Nat /\ Len(bs) >= 1 /\ 1 \in 1..Len(bs)
      /\ bs[1].lo = 1 /\ bs[1].name = EntryName
  BY ChainFacts DEF Chain
<1>4. \A b \in 1..Len(gs) : gs[b].lo <= gs[b].hi + 1
  <2> SUFFICES ASSUME NEW b \in 1..Len(bs) PROVE gs[b].lo <= gs[b].hi + 1
    BY <1>2
  <2>1. bs[b].lo <= bs[b].hi + 1 /\ bs[b].hi <= end /\ bs[b].lo \in Int /\ bs[b].hi \in Int
    BY ChainFacts
  <2>2. CASE b = Len(bs)
    BY <1>2, <2>1, <2>2
  <2>3. CASE b # Len(bs)
    <3>1. gs[b] = bs[b]
      BY <1>2, <1>3, <2>3
    <3> QED
      BY <3>1, <2>1
  <2> QED
    BY <2>2, <2>3
<1>5. \A b \in 1..(Len(gs) - 1) : gs[b + 1].lo = gs[b].hi + 1
  <2> SUFFICES ASSUME NEW b \in 1..(Len(bs) - 1) PROVE gs[b + 1].lo = gs[b].hi + 1
    BY <1>2
  <2>1. b + 1 \in 1..Len(bs)
    BY <1>3
  <2> QED
    BY <2>1, <1>2, ChainFacts
<1>6. \A a, b \in 1..Len(gs) : a < b => gs[a].hi < gs[b].lo
  <2> SUFFICES ASSUME NEW a \in 1..Len(bs), NEW b \in 1..Len(bs), a < b
               PROVE  gs[a].hi < gs[b].lo
    BY <1>2
  <2>1. a \in 1..(Len(bs) - 1)
    BY <1>3
  <2>2. bs[a].hi < bs[b].lo
    BY ChainFacts
  <2> QED
    BY <2>1, <2>2, <1>2
<1>7. Chain(gs, end + 1)
  BY <1>2, <1>3, <1>4, <1>5, <1>6 DEF Chain
<1> QED
  BY <1>1, <1>7

\* The instruction joins a block that nothing has ended and starts none.
LEMMA GrowStraight ==
  ASSUME prog \in Programs,
         NEW end \in 0..(N - 1), NEW bs, Chain(bs, end), Straight(bs),
         NEW k \in 0..Len(prog.labels), Found(bs, end, k), LabelsRead(end, k),
         k < Len(prog.labels) => prog.labels[k + 1].at # end + 1,
         bs[Len(bs)].lo <= end => Op(end) \notin SplitOps /\ end + 1 \notin SplitAt
  PROVE  /\ Straight(Grow(bs, end + 1))
         /\ LabelsRead(end + 1, k)
<1>0. N \in Nat /\ Len(prog.labels) \in Nat /\ end \in Nat
      /\ \A j \in 1..Len(prog.labels) : prog.labels[j].at \in Int
  BY ProgramFacts
<1>1. \A j \in 1..Len(prog.labels) : j > k => prog.labels[j].at > end + 1
  <2> SUFFICES ASSUME NEW j \in 1..Len(prog.labels), j > k
               PROVE  prog.labels[j].at > end + 1
    OBVIOUS
  <2>1. k + 1 \in 1..Len(prog.labels) /\ k + 1 > k /\ k < Len(prog.labels) /\ k + 1 <= j
    BY <1>0
  <2>2. prog.labels[k + 1].at > end + 1
    BY <1>0, <2>1 DEF LabelsRead
  <2>3. prog.labels[k + 1].at <= prog.labels[j].at
    <3>1. CASE k + 1 = j
      BY <1>0, <3>1
    <3>2. CASE k + 1 < j
      BY <2>1, <3>2, ProgramFacts
    <3>3. k + 1 = j \/ k + 1 < j
      BY <2>1, <1>0
    <3> QED
      BY <3>1, <3>2, <3>3
  <2>4. prog.labels[j].at \in Int /\ prog.labels[k + 1].at \in Int
    BY <1>0, <2>1
  <2> QED
    BY <2>2, <2>3, <2>4
<1>2. LabelsRead(end + 1, k)
  BY <1>0, <1>1 DEF LabelsRead
<1>3. ASSUME bs[Len(bs)].lo <= end
      PROVE  Inside(end)
  <2>1. ASSUME NEW j \in 1..Len(prog.labels)
        PROVE  prog.labels[j].at # end + 1
    <3>1. CASE j > k
      BY <1>0, <1>1, <3>1
    <3>2. CASE j <= k
      <4>1. PICK b \in 1..Len(bs) : bs[b].lo = prog.labels[j].at
        BY <1>0, <3>2 DEF Found
      <4>2. bs[b].lo <= end
        BY <1>0, <1>3, StartsInFront
      <4> QED
        BY <1>0, <4>1, <4>2
    <3> QED
      BY <1>0, <3>1, <3>2
  <2> QED
    BY <1>3, <2>1 DEF Inside
<1> DEFINE gs == Grow(bs, end + 1)
<1>4. gs = Grow(bs, end + 1)
  OBVIOUS
<1> HIDE DEF gs
<1>5. /\ Len(gs) = Len(bs)
      /\ \A b \in 1..(Len(bs) - 1) : gs[b] = bs[b]
      /\ \A b \in 1..Len(bs) : gs[b].lo = bs[b].lo
      /\ gs[Len(bs)].hi = end + 1
  BY <1>0, <1>4, Grown
<1>6. Straight(gs)
  <2> SUFFICES ASSUME NEW b \in 1..Len(bs), NEW i \in gs[b].lo..(gs[b].hi - 1)
               PROVE  Inside(i)
    BY <1>5 DEF Straight
  <2>1. bs[b].lo \in Int /\ Len(bs) \in Nat /\ bs[Len(bs)].hi = end
    BY <1>0, ChainFacts
  <2>2. CASE b # Len(bs)
    <3>1. b \in 1..(Len(bs) - 1)
      BY <2>1, <2>2
    <3> QED
      BY <3>1, <1>5 DEF Straight
  <2>3. CASE b = Len(bs) /\ i < end
    <3>1. i \in bs[b].lo..(bs[b].hi - 1)
      BY <1>0, <1>5, <2>1, <2>3
    <3> QED
      BY <3>1 DEF Straight
  <2>4. CASE b = Len(bs) /\ i >= end
    <3>1. i = end /\ bs[Len(bs)].lo <= end
      BY <1>0, <1>5, <2>1, <2>4
    <3> QED
      BY <3>1, <1>3
  <2> QED
    BY <1>0, <2>1, <2>2, <2>3, <2>4
<1> QED
  BY <1>2, <1>4, <1>6

\* Names and starts stay; a target passed now is the start of the last block.
LEMMA GrowNames ==
  ASSUME prog \in Programs, NEW end \in 0..(N - 1), NEW bs, Chain(bs, end),
         NEW an \in Nat, NEW k \in 0..Len(prog.labels), Named(bs, an, k), Found(bs, end, k),
         bs[Len(bs)].lo <= end => end + 1 \notin SplitAt
  PROVE  /\ Named(Grow(bs, end + 1), an, k)
         /\ Found(Grow(bs, end + 1), end + 1, k)
<1> DEFINE gs == Grow(bs, end + 1)
<1>1. gs = Grow(bs, end + 1)
  OBVIOUS
<1> HIDE DEF gs
<1>2. /\ N \in Nat /\ end \in Nat
      /\ Len(bs) \in Nat /\ Len(bs) \in 1..Len(bs)
      /\ \A b \in 1..Len(bs) : bs[b].lo \in Int /\ bs[b].hi \in Int /\ bs[b].hi <= end
      /\ bs[Len(bs)].lo <= end + 1
  <2>1. N \in Nat /\ end \in Nat
    BY ProgramFacts
  <2>2. /\ Len(bs) \in Nat /\ Len(bs) \in 1..Len(bs)
        /\ \A b \in 1..Len(bs) : /\ bs[b].lo \in Int /\ bs[b].hi \in Int /\ bs[b].hi <= end
                                 /\ bs[b].lo <= bs[b].hi + 1
        /\ bs[Len(bs)].hi = end
    BY <2>1, ChainFacts
  <2> QED
    BY <2>1, <2>2
<1>3. /\ Len(gs) = Len(bs)
      /\ \A b \in 1..(Len(bs) - 1) : gs[b] = bs[b]
      /\ \A b \in 1..Len(bs) : gs[b].name = bs[b].name /\ gs[b].lo = bs[b].lo
      /\ gs[Len(bs)].hi = end + 1
  BY <1>1, <1>2, Grown
<1>4. Named(gs, an, k)
  <2>1. /\ \A a, b \in 1..Len(bs) : bs[a].name = bs[b].name => a = b
        /\ \A b \in 1..Len(bs) : \/ bs[b].name = EntryName
                                 \/ \E c \in 1..an : bs[b].name = AnonName(c)
                                 \/ \E j \in 1..k : bs[b].name = LabelName(prog.labels[j].name)
    BY DEF Named
  <2> QED
    BY <2>1, <1>3 DEF Named
<1>5. \A j \in 1..k : \E b \in 1..Len(gs) : /\ gs[b].name = LabelName(prog.labels[j].name)
                                            /\ gs[b].lo = prog.labels[j].at
  <2> TAKE j \in 1..k
  <2>1. PICK b \in 1..Len(bs) : /\ bs[b].name = LabelName(prog.labels[j].name)
                                /\ bs[b].lo = prog.labels[j].at
    BY DEF Found
  <2> QED
    BY <1>3, <2>1
<1>6. ASSUME NEW i \in SplitAt, i <= end + 1
      PROVE  \E b \in 1..Len(gs) : gs[b].lo = i /\ gs[b].hi >= i
  <2>0. i \in Int
    BY <1>2 DEF SplitAt
  <2>1. CASE i = end + 1
    <3>1. bs[Len(bs)].lo = end + 1
      BY <1>2, <2>1
    <3> QED
      BY <1>2, <1>3, <2>1, <3>1
  <2>2. CASE i <= end
    <3>1. PICK b \in 1..Len(bs) : bs[b].lo = i /\ bs[b].hi >= i
      BY <2>2 DEF Found
    <3>2. CASE b = Len(bs)
      BY <1>2, <1>3, <2>2, <3>1, <3>2
    <3>3. CASE b # Len(bs)
      <4>1. b \in 1..(Len(bs) - 1)
        BY <1>2, <3>3
      <4> QED
        BY <4>1, <1>3, <3>1
    <3> QED
      BY <3>2, <3>3
  <2> QED
    BY <1>2, <1>6, <2>0, <2>1, <2>2
<1>7. \A b \in 1..Len(gs) : \E a \in 1..Len(gs) :
        gs[a].lo = gs[b].lo /\ \A c \in 1..(a - 1) : gs[c].lo < gs[b].lo
  <2> TAKE b \in 1..Len(gs)
  <2>1. PICK a \in 1..Len(bs) :
          bs[a].lo = bs[b].lo /\ \A c \in 1..(a - 1) : bs[c].lo < bs[b].lo
    BY <1>3 DEF Found
  <2>2. \A c \in 1..(a - 1) : c \in 1..Len(bs)
    BY <1>2
  <2> QED
    BY <1>3, <2>1, <2>2
<1>8. Found(gs, end + 1, k)
  BY <1>5, <1>6, <1>7 DEF Found
<1> QED
  BY <1>1, <1>4, <1>8

\* A label gives an empty synthetic block its name.
LEMMA RenameKeeps ==
  ASSUME prog \in Programs, NEW end \in Nat, NEW bs, Chain(bs, end), Straight(bs),
         NEW an \in Nat, NEW k \in 0..(Len(prog.labels) - 1),
         Named(bs, an, k), Found(bs, end, k),
         bs[Len(bs)].lo = end + 1, bs[Len(bs)].name[1] = "anon",
         prog.labels[k + 1].at = end + 1,
         NEW rs, rs = Rename(bs, LabelName(prog.labels[k + 1].name))
  PROVE  /\ Chain(rs, end) /\ Straight(rs)
         /\ Named(rs, an, k + 1) /\ Found(rs, end, k + 1)
<1> DEFINE label == LabelName(prog.labels[k + 1].name)
<1>1. /\ Len(prog.labels) \in Nat /\ k + 1 \in 1..Len(prog.labels)
      /\ k \in 0..Len(prog.labels)
      /\ label \in Names /\ rs = Rename(bs, label)
      /\ label = LabelName(prog.labels[k + 1].name)
  BY ProgramFacts, NameKinds
<1> HIDE DEF label
<1>2. /\ Len(bs) \in Nat /\ Len(bs) \in 1..Len(bs)
      /\ bs \in Seq(Block)
  BY ChainFacts
<1>3. /\ rs \in Seq(Block)
      /\ Len(rs) = Len(bs)
      /\ \A b \in 1..(Len(bs) - 1) : rs[b] = bs[b]
      /\ \A b \in 1..Len(bs) : rs[b].lo = bs[b].lo /\ rs[b].hi = bs[b].hi
      /\ rs[Len(bs)].name = label
  BY <1>1, Renamed
<1>4. Chain(rs, end)
  <2>1. \A b \in 1..(Len(bs) - 1) : b + 1 \in 1..Len(bs) /\ b \in 1..Len(bs)
    BY <1>2
  <2>2. 1 \in 1..Len(bs)
    BY <1>2
  <2>3. rs[1].lo = 1 /\ rs[Len(rs)].hi = end /\ Len(rs) >= 1
    BY <1>2, <1>3, <2>2 DEF Chain
  <2>7. rs[1].name = EntryName
    <3>1. bs[1].name = EntryName
      BY DEF Chain
    <3>2. Len(bs) # 1
      BY <3>1, NameKinds
    <3> QED
      BY <1>2, <1>3, <3>1, <3>2
  <2>4. \A b \in 1..Len(rs) : rs[b].lo <= rs[b].hi + 1
    BY <1>3 DEF Chain
  <2>5. \A b \in 1..(Len(rs) - 1) : rs[b + 1].lo = rs[b].hi + 1
    <3> TAKE b \in 1..(Len(rs) - 1)
    <3>1. b \in 1..(Len(bs) - 1) /\ b + 1 \in 1..Len(bs) /\ b \in 1..Len(bs)
      BY <1>3, <2>1
    <3>2. bs[b + 1].lo = bs[b].hi + 1
      BY <3>1 DEF Chain
    <3> QED
      BY <1>3, <3>1, <3>2
  <2>6. \A a, b \in 1..Len(rs) : a < b => rs[a].hi < rs[b].lo
    BY <1>3 DEF Chain
  <2> QED
    BY <1>3, <2>3, <2>4, <2>5, <2>6, <2>7 DEF Chain
<1>5. Straight(rs)
  BY <1>3 DEF Straight
<1>6. \A b \in 1..Len(bs) : b = Len(bs) \/ b \in 1..(Len(bs) - 1)
  BY <1>2
<1>7. Named(rs, an, k + 1)
  <2>1. \A b \in 1..(Len(bs) - 1) : rs[b].name # label
    <3>1. \A j \in 1..k : prog.labels[j].name # prog.labels[k + 1].name
      <4> TAKE j \in 1..k
      <4>1. j \in 1..Len(prog.labels) /\ j # k + 1
        BY <1>1
      <4> QED
        BY <1>1, <4>1, ProgramFacts
    <3>2. \A b \in 1..(Len(bs) - 1) : b \in 1..Len(bs)
      BY <1>2
    <3> TAKE b \in 1..(Len(bs) - 1)
    <3>3. \/ bs[b].name = EntryName
          \/ \E c \in 1..an : bs[b].name = AnonName(c)
          \/ \E j \in 1..k : bs[b].name = LabelName(prog.labels[j].name)
      BY <3>2 DEF Named
    <3>4. rs[b].name = bs[b].name
      BY <1>3
    <3>5. label # EntryName /\ \A c : AnonName(c) # label
      BY <1>1, NameKinds
    <3>6. \A j \in 1..k : LabelName(prog.labels[j].name) # label
      BY <1>1, <3>1, NameKinds
    <3>7. CASE bs[b].name = EntryName
      BY <3>4, <3>5, <3>7
    <3>8. CASE \E c \in 1..an : bs[b].name = AnonName(c)
      BY <3>4, <3>5, <3>8
    <3>9. CASE \E j \in 1..k : bs[b].name = LabelName(prog.labels[j].name)
      BY <3>4, <3>6, <3>9
    <3> QED
      BY <3>3, <3>7, <3>8, <3>9
  <2>2. \A a, b \in 1..Len(rs) : rs[a].name = rs[b].name => a = b
    <3> SUFFICES ASSUME NEW a \in 1..Len(rs), NEW b \in 1..Len(rs),
                        rs[a].name = rs[b].name, a # b
                 PROVE  FALSE
      OBVIOUS
    <3>1. \/ a = Len(bs) /\ b \in 1..(Len(bs) - 1)
          \/ b = Len(bs) /\ a \in 1..(Len(bs) - 1)
          \/ a \in 1..(Len(bs) - 1) /\ b \in 1..(Len(bs) - 1)
      BY <1>3, <1>6
    <3>2. CASE a \in 1..(Len(bs) - 1) /\ b \in 1..(Len(bs) - 1)
      <4>1. bs[a].name = bs[b].name /\ a \in 1..Len(bs) /\ b \in 1..Len(bs)
        BY <1>3, <3>2
      <4> QED
        BY <4>1 DEF Named
    <3>3. CASE a = Len(bs) /\ b \in 1..(Len(bs) - 1)
      BY <1>3, <2>1, <3>3
    <3>4. CASE b = Len(bs) /\ a \in 1..(Len(bs) - 1)
      BY <1>3, <2>1, <3>4
    <3> QED
      BY <3>1, <3>2, <3>3, <3>4
  <2>3. \A b \in 1..Len(rs) : \/ rs[b].name = EntryName
                              \/ \E c \in 1..an : rs[b].name = AnonName(c)
                              \/ \E j \in 1..(k + 1) :
                                   rs[b].name = LabelName(prog.labels[j].name)
    <3> TAKE b \in 1..Len(rs)
    <3>1. CASE b = Len(bs)
      <4>1. k + 1 \in 1..(k + 1)
        BY <1>1
      <4> QED
        BY <4>1, <3>1, <1>1, <1>3
    <3>2. CASE b # Len(bs)
      <4>1. rs[b] = bs[b] /\ b \in 1..Len(bs)
        BY <1>3, <1>6, <3>2
      <4>2. \A j \in 1..k : j \in 1..(k + 1)
        BY <1>1
      <4>3. \/ bs[b].name = EntryName
            \/ \E c \in 1..an : bs[b].name = AnonName(c)
            \/ \E j \in 1..k : bs[b].name = LabelName(prog.labels[j].name)
        BY <4>1 DEF Named
      <4> QED
        BY <4>1, <4>2, <4>3, Zenon
    <3> QED
      BY <3>1, <3>2
  <2> QED
    BY <2>2, <2>3 DEF Named
<1>8. \A j \in 1..(k + 1) : \E b \in 1..Len(rs) : /\ rs[b].name = LabelName(prog.labels[j].name)
                                                  /\ rs[b].lo = prog.labels[j].at
  <2> TAKE j \in 1..(k + 1)
  <2>1. CASE j = k + 1
    BY <1>1, <1>2, <1>3, <2>1
  <2>2. CASE j \in 1..k
    <3>1. PICK b \in 1..Len(bs) : /\ bs[b].name = LabelName(prog.labels[j].name)
                                  /\ bs[b].lo = prog.labels[j].at
      BY <2>2 DEF Found
    <3>2. b # Len(bs)
      BY <3>1, NameKinds
    <3>3. rs[b] = bs[b] /\ b \in 1..Len(rs)
      BY <3>2, <1>3, <1>6
    <3> QED
      BY <3>1, <3>3
  <2>3. j = k + 1 \/ j \in 1..k
    BY <1>1
  <2> QED
    BY <2>1, <2>2, <2>3
<1>9. Found(rs, end, k + 1)
  <2>1. \A i \in SplitAt : i <= end => \E b \in 1..Len(rs) : rs[b].lo = i /\ rs[b].hi >= i
    BY <1>3 DEF Found
  <2>2. \A b \in 1..Len(rs) : \E a \in 1..Len(rs) :
          rs[a].lo = rs[b].lo /\ \A c \in 1..(a - 1) : rs[c].lo < rs[b].lo
    <3> TAKE b \in 1..Len(rs)
    <3>1. PICK a \in 1..Len(bs) :
            bs[a].lo = bs[b].lo /\ \A c \in 1..(a - 1) : bs[c].lo < bs[b].lo
      BY <1>3 DEF Found
    <3>2. \A c \in 1..(a - 1) : c \in 1..Len(bs)
      BY <1>2
    <3> QED
      BY <1>3, <3>1, <3>2
  <2> QED
    BY <1>8, <2>1, <2>2 DEF Found
<1> QED
  BY <1>4, <1>5, <1>7, <1>9

\* A trailing empty synthetic block holds no instruction and no target.
LEMMA DropKeeps ==
  ASSUME prog \in Programs, NEW end \in Nat, NEW bs, NEW an \in Nat,
         NEW k \in 0..Len(prog.labels), Blocks(bs, end, an, k),
         Len(bs) > 1, bs[Len(bs)].lo = end + 1, bs[Len(bs)].name[1] = "anon",
         NEW ds, ds = SubSeq(bs, 1, Len(bs) - 1)
  PROVE  Blocks(ds, end, an, k)
<1>1. Chain(bs, end) /\ Straight(bs) /\ Named(bs, an, k) /\ Found(bs, end, k)
  BY DEF Blocks
<1>2. /\ Len(bs) \in Nat /\ Len(bs) \in 1..Len(bs) /\ Len(bs) - 1 \in 1..Len(bs)
      /\ bs \in Seq(Block)
      /\ \A b \in 1..Len(bs) : bs[b] \in Block /\ bs[b].lo \in Int /\ bs[b].hi \in Int
  BY <1>1, ChainFacts
<1>3. /\ ds \in Seq(Block)
      /\ Len(ds) = Len(bs) - 1
      /\ \A b \in 1..Len(ds) : ds[b] = bs[b]
  <2>1. \A i \in 1..(Len(bs) - 1) : bs[i] \in Block
    BY <1>2
  <2>2. 1 \in Int /\ Len(bs) - 1 \in Int /\ 1 <= Len(bs) - 1
    BY <1>2
  <2>3. /\ SubSeq(bs, 1, Len(bs) - 1) \in Seq(Block)
        /\ Len(SubSeq(bs, 1, Len(bs) - 1)) = (Len(bs) - 1) - 1 + 1
        /\ \A i \in 1..((Len(bs) - 1) - 1 + 1) :
             SubSeq(bs, 1, Len(bs) - 1)[i] = bs[1 + i - 1]
    BY <2>1, <2>2, SubSeqProperties
  <2>4. (Len(bs) - 1) - 1 + 1 = Len(bs) - 1
    BY <1>2
  <2>5. \A i \in 1..(Len(bs) - 1) : 1 + i - 1 = i
    BY <1>2
  <2> QED
    BY <2>3, <2>4, <2>5
<1>10. Len(bs) \in Nat /\ Len(ds) = Len(bs) - 1
  BY <1>2, <1>3
<1>4. \A b \in 1..Len(ds) : b \in 1..Len(bs) /\ b < Len(bs)
  BY <1>10
<1>5. \A b \in 1..Len(bs) : b # Len(bs) => b \in 1..Len(ds)
  BY <1>10
<1>6. Chain(ds, end)
  <2>1. ds[1].lo = 1 /\ ds[1].name = EntryName /\ Len(ds) >= 1
    BY <1>1, <1>2, <1>3 DEF Chain
  <2>2. ds[Len(ds)].hi = end
    <3>1. Len(bs) - 1 \in 1..(Len(bs) - 1) /\ Len(bs) - 1 + 1 = Len(bs)
      BY <1>2
    <3>2. bs[Len(bs)].lo = bs[Len(bs) - 1].hi + 1
      BY <1>1, <3>1 DEF Chain
    <3>3. bs[Len(bs) - 1].hi = end
      BY <3>2, <1>2
    <3> QED
      BY <3>3, <3>1, <1>3
  <2>3. \A b \in 1..Len(ds) : ds[b].lo <= ds[b].hi + 1
    BY <1>1, <1>3, <1>4 DEF Chain
  <2>4. \A b \in 1..(Len(ds) - 1) : ds[b + 1].lo = ds[b].hi + 1
    <3> TAKE b \in 1..(Len(ds) - 1)
    <3>1. b \in 1..Len(ds) /\ b + 1 \in 1..Len(ds) /\ b \in 1..(Len(bs) - 1)
      BY <1>2, <1>3
    <3> QED
      BY <3>1, <1>1, <1>3 DEF Chain
  <2>5. \A a, b \in 1..Len(ds) : a < b => ds[a].hi < ds[b].lo
    BY <1>1, <1>3, <1>4 DEF Chain
  <2> QED
    BY <1>3, <2>1, <2>2, <2>3, <2>4, <2>5 DEF Chain
<1>7. Straight(ds)
  BY <1>1, <1>3, <1>4 DEF Straight
<1>8. Named(ds, an, k)
  <2>1. \A a, b \in 1..Len(ds) : ds[a].name = ds[b].name => a = b
    BY <1>1, <1>3, <1>4 DEF Named
  <2>2. \A b \in 1..Len(ds) : \/ ds[b].name = EntryName
                              \/ \E c \in 1..an : ds[b].name = AnonName(c)
                              \/ \E j \in 1..k : ds[b].name = LabelName(prog.labels[j].name)
    <3> TAKE b \in 1..Len(ds)
    <3>1. b \in 1..Len(bs) /\ ds[b] = bs[b]
      BY <1>3, <1>4
    <3> QED
      BY <3>1, <1>1 DEF Named
  <2> QED
    BY <2>1, <2>2 DEF Named
<1>9. Found(ds, end, k)
  <2>1. \A j \in 1..k : \E b \in 1..Len(ds) : /\ ds[b].name = LabelName(prog.labels[j].name)
                                              /\ ds[b].lo = prog.labels[j].at
    <3> TAKE j \in 1..k
    <3>1. PICK b \in 1..Len(bs) : /\ bs[b].name = LabelName(prog.labels[j].name)
                                  /\ bs[b].lo = prog.labels[j].at
      BY <1>1 DEF Found
    <3>2. b # Len(bs)
      BY <3>1, NameKinds
    <3> QED
      BY <3>1, <3>2, <1>3, <1>5
  <2>2. ASSUME NEW i \in SplitAt, i <= end
        PROVE  \E b \in 1..Len(ds) : ds[b].lo = i /\ ds[b].hi >= i
    <3>1. PICK b \in 1..Len(bs) : bs[b].lo = i /\ bs[b].hi >= i
      BY <1>1, <2>2 DEF Found
    <3>2. b # Len(bs)
      BY <3>1, <2>2, <1>2
    <3> QED
      BY <3>1, <3>2, <1>3, <1>5
  <2>3. \A b \in 1..Len(ds) : \E a \in 1..Len(ds) :
          ds[a].lo = ds[b].lo /\ \A c \in 1..(a - 1) : ds[c].lo < ds[b].lo
    <3> TAKE b \in 1..Len(ds)
    <3>1. PICK a \in 1..Len(bs) :
            bs[a].lo = bs[b].lo /\ \A c \in 1..(a - 1) : bs[c].lo < bs[b].lo
      BY <1>1, <1>4 DEF Found
    <3>2. a # Len(bs)
      <4>1. SUFFICES ASSUME a = Len(bs) PROVE FALSE
        OBVIOUS
      <4>2. b \in 1..(a - 1) /\ b \in 1..Len(bs)
        BY <4>1, <1>2, <1>3
      <4> QED
        BY <4>2, <3>1, <1>2
    <3>3. a \in 1..Len(ds) /\ \A c \in 1..(a - 1) : c \in 1..Len(ds)
      BY <3>2, <1>10
    <3> QED
      BY <1>3, <3>1, <3>3
  <2> QED
    BY <2>1, <2>2, <2>3 DEF Found
<1> QED
  BY <1>6, <1>7, <1>8, <1>9 DEF Blocks

\* Opening a synthetic block, opening a labelled one, and growing, as steps
\* on all the splitter's facts at once.
LEMMA OpenAnon ==
  ASSUME prog \in Programs, NEW end \in Nat, NEW bs, NEW an \in Nat,
         NEW k \in 0..Len(prog.labels), Blocks(bs, end, an, k)
  PROVE  Blocks(Append(bs, NewBlock(AnonName(an + 1), end + 1)), end, an + 1, k)
<1>1. Chain(bs, end) /\ Straight(bs) /\ Named(bs, an, k) /\ Found(bs, end, k)
  BY DEF Blocks
<1>2. AnonName(an + 1) \in Names
  BY NameKinds
<1> QED
  BY <1>1, <1>2, OpenChain, OpenStraight, OpenNamed, OpenFound DEF Blocks

\* A label opens a block under its own name.
LEMMA OpenLabel ==
  ASSUME prog \in Programs, NEW end \in Nat, NEW bs, NEW an \in Nat,
         NEW k \in 0..Len(prog.labels), Blocks(bs, end, an, k),
         k < Len(prog.labels), prog.labels[k + 1].at = end + 1
  PROVE  Blocks(Append(bs, NewBlock(LabelName(prog.labels[k + 1].name), end + 1)), end, an, k + 1)
<1>1. Chain(bs, end) /\ Straight(bs) /\ Named(bs, an, k) /\ Found(bs, end, k)
  BY DEF Blocks
<1>2. LabelName(prog.labels[k + 1].name) \in Names
  <2>1. k + 1 \in 1..Len(prog.labels)
    BY ProgramFacts
  <2> QED
    BY <2>1, ProgramFacts, NameKinds
<1> QED
  BY <1>1, <1>2, OpenChain, OpenStraight, OpenNamed, OpenFound DEF Blocks

\* The next instruction goes to the last block, if nothing has ended that
\* block and no label and no target stands in front of the instruction.
LEMMA GrowBlocks ==
  ASSUME prog \in Programs, NEW end \in 0..(N - 1), NEW bs, NEW an \in Nat,
         NEW k \in 0..Len(prog.labels), Blocks(bs, end, an, k), LabelsRead(end, k),
         k < Len(prog.labels) => prog.labels[k + 1].at # end + 1,
         bs[Len(bs)].lo <= end => Op(end) \notin SplitOps /\ end + 1 \notin SplitAt
  PROVE  Blocks(Grow(bs, end + 1), end + 1, an, k) /\ LabelsRead(end + 1, k)
<1>1. Chain(bs, end) /\ Straight(bs) /\ Named(bs, an, k) /\ Found(bs, end, k)
  BY DEF Blocks
<1>2. end \in Nat
  OBVIOUS
<1>3. Chain(Grow(bs, end + 1), end + 1)
  BY <1>1, <1>2, GrowChain
<1>4. Straight(Grow(bs, end + 1)) /\ LabelsRead(end + 1, k)
  BY <1>1, GrowStraight
<1>5. Named(Grow(bs, end + 1), an, k) /\ Found(Grow(bs, end + 1), end + 1, k)
  BY <1>1, GrowNames
<1> QED
  BY <1>3, <1>4, <1>5 DEF Blocks

\* What is known of the blocks depends on the function, the blocks and the
\* counters of the splitter only.
LEMMA KeepBlocks ==
  ASSUME prog' = prog
  PROVE  /\ Blocks(blocks, li, anon, nl)' <=> Blocks(blocks', li', anon', nl')
         /\ LabelsRead(li, nl)' <=> LabelsRead(li', nl')
         /\ Open(blocks, li)' <=> Open(blocks', li')
<1>1. Straight(blocks)' <=> Straight(blocks')
  BY KeepUndef DEF Straight
<1>2. Chain(blocks, li)' <=> Chain(blocks', li')
  BY DEF Chain
<1>3. Named(blocks, anon, nl)' <=> Named(blocks', anon', nl')
  BY DEF Named
<1>4. Found(blocks, li, nl)' <=> Found(blocks', li', nl')
  BY Keep DEF Found
<1>5. Blocks(blocks, li, anon, nl)' <=> Blocks(blocks', li', anon', nl')
  BY <1>1, <1>2, <1>3, <1>4 DEF Blocks
<1>6. LabelsRead(li, nl)' <=> LabelsRead(li', nl')
  BY DEF LabelsRead
<1>7. Open(blocks, li)' <=> Open(blocks', li')
  BY Keep DEF Open
<1> QED
  BY <1>5, <1>6, <1>7

\* What the splitter knows before a step.
LEMMA SplitFacts ==
  ASSUME PhaseInv, BlocksInv
  PROVE  /\ prog \in Programs /\ N \in Nat /\ Len(prog.labels) \in Nat
         /\ li \in 0..N /\ li \in Nat /\ nl \in 0..Len(prog.labels) /\ anon \in Nat
         /\ Blocks(blocks, li, anon, nl) /\ LabelsRead(li, nl) /\ Chain(blocks, li)
         /\ Len(blocks) \in Nat /\ Len(blocks) >= 1
         /\ blocks[Len(blocks)].lo \in Int /\ blocks[Len(blocks)].lo <= li + 1
         /\ CurEmpty <=> blocks[Len(blocks)].lo = li + 1
<1>1. /\ prog \in Programs /\ N \in Nat /\ Len(prog.labels) \in Nat
      /\ li \in 0..N /\ li \in Nat /\ nl \in 0..Len(prog.labels) /\ anon \in Nat
      /\ Blocks(blocks, li, anon, nl) /\ LabelsRead(li, nl) /\ Chain(blocks, li)
  BY ProgramFacts DEF PhaseInv, BlocksInv, Blocks
<1>2. /\ Len(blocks) \in Nat /\ Len(blocks) \in 1..Len(blocks)
      /\ \A b \in 1..Len(blocks) : /\ blocks[b].lo \in Int /\ blocks[b].hi \in Int
                                   /\ blocks[b].lo <= blocks[b].hi + 1
      /\ blocks[Len(blocks)].hi = li
  BY <1>1, ChainFacts
<1>3. CurEmpty <=> blocks[Len(blocks)].lo > blocks[Len(blocks)].hi
  BY DEF CurEmpty, Cur
<1> QED
  BY <1>1, <1>2, <1>3

\* Reading a label: the last block is renamed, or a block is opened.
LEMMA SplitLabelKeeps ==
  ASSUME PhaseInv, BlocksInv, SplitLabel
  PROVE  PhaseInv' /\ BlocksInv'
<1> DEFINE nm == LabelName(prog.labels[nl + 1].name)
<1>1. /\ phase = "split" /\ phase' = phase /\ prog' = prog /\ li' = li /\ anon' = anon
      /\ nl' = nl + 1 /\ nl < Len(prog.labels) /\ prog.labels[nl + 1].at = li + 1
      /\ blocks' = IF CurEmpty /\ CurAnon THEN Rename(blocks, nm)
                   ELSE Append(blocks, NewBlock(nm, li + 1))
  BY DEF SplitLabel, LabelHere
<1> HIDE DEF nm
<1>2. LabelsRead(li', nl')
  <2>1. \A j \in 1..Len(prog.labels) : prog.labels[j].at \in Int
    BY SplitFacts, ProgramFacts
  <2>2. \A j \in 1..Len(prog.labels) : /\ j <= nl => prog.labels[j].at <= li + 1
                                       /\ j > nl => prog.labels[j].at >= li + 1
    BY SplitFacts DEF LabelsRead
  <2> SUFFICES ASSUME NEW j \in 1..Len(prog.labels)
               PROVE  /\ j <= nl + 1 => prog.labels[j].at <= li + 1
                      /\ j > nl + 1 => prog.labels[j].at >= li + 1
    BY <1>1 DEF LabelsRead
  <2>3. nl \in Int /\ li \in Int
    BY SplitFacts
  <2>4. CASE j = nl + 1
    BY <1>1, <2>3, <2>4
  <2>5. CASE j # nl + 1
    BY <2>2, <2>3, <2>5
  <2> QED
    BY <2>4, <2>5
<1>3. Blocks(blocks', li', anon', nl') /\ Open(blocks', li')
  <2>1. CASE CurEmpty /\ CurAnon
    <3>1. blocks' = Rename(blocks, LabelName(prog.labels[nl + 1].name))
      BY <1>1, <2>1 DEF nm
    <3>2. /\ Chain(blocks, li) /\ Straight(blocks) /\ Named(blocks, anon, nl)
          /\ Found(blocks, li, nl)
          /\ blocks[Len(blocks)].lo = li + 1
      BY <2>1, SplitFacts DEF Blocks
    <3>3. nl \in 0..(Len(prog.labels) - 1) /\ li \in Nat /\ anon \in Nat /\ prog \in Programs
      BY <1>1, SplitFacts
    <3>4. blocks[Len(blocks)].name[1] = "anon"
      BY <2>1 DEF CurAnon, Cur
    <3>5. /\ Chain(blocks', li) /\ Straight(blocks')
          /\ Named(blocks', anon, nl + 1) /\ Found(blocks', li, nl + 1)
      BY <1>1, <3>1, <3>2, <3>3, <3>4, RenameKeeps
    <3>6. blocks'[Len(blocks')].lo = li + 1
      <4>1. LabelName(prog.labels[nl + 1].name) \in Names
        <5>1. nl + 1 \in 1..Len(prog.labels)
          BY <3>3
        <5> QED
          BY <5>1, <3>3, ProgramFacts, NameKinds
      <4>2. /\ Len(blocks') = Len(blocks)
            /\ \A b \in 1..Len(blocks) : blocks'[b].lo = blocks[b].lo
        BY <3>1, <3>2, <3>3, <4>1, Renamed
      <4> QED
        BY <4>2, <3>2, SplitFacts
    <3>7. ~(blocks'[Len(blocks')].lo <= li)
      BY <3>3, <3>6
    <3> QED
      BY <1>1, <3>5, <3>7 DEF Blocks, Open
  <2>2. CASE ~(CurEmpty /\ CurAnon)
    <3>1. blocks' = Append(blocks, NewBlock(LabelName(prog.labels[nl + 1].name), li + 1))
      BY <1>1, <2>2 DEF nm
    <3>2. Blocks(blocks', li, anon, nl + 1)
      BY <1>1, <3>1, SplitFacts, OpenLabel
    <3>3. blocks'[Len(blocks')] = NewBlock(LabelName(prog.labels[nl + 1].name), li + 1)
      <4>1. blocks \in Seq(Block)
        BY SplitFacts DEF Chain
      <4> QED
        BY <3>1, <4>1
    <3>4. blocks'[Len(blocks')].lo = li + 1
      BY <3>3 DEF NewBlock
    <3>5. ~(blocks'[Len(blocks')].lo <= li)
      BY <3>4, SplitFacts
    <3> QED
      BY <1>1, <3>2, <3>5 DEF Open
  <2> QED
    BY <2>1, <2>2
<1>4. nl' \in 0..Len(prog.labels) /\ li' \in 0..N /\ anon' \in Nat
  BY <1>1, SplitFacts
<1>5. BlocksInv'
  BY <1>1, <1>2, <1>3, <1>4, Keep, KeepBlocks DEF BlocksInv
<1>6. PhaseInv'
  BY <1>1, <1>3, KeepBlocks DEF PhaseInv
<1> QED
  BY <1>5, <1>6

\* Reading an instruction: a block may be opened in front of it, where a
\* branch leads there, and behind it, where it ends a block.
LEMMA SplitInstrKeeps ==
  ASSUME PhaseInv, BlocksInv, SplitInstr
  PROVE  PhaseInv' /\ BlocksInv'
<1> DEFINE cutBefore == li + 1 \in SplitAt /\ ~CurEmpty
           used == IF cutBefore THEN anon + 1 ELSE anon
           cutAfter == Op(li + 1) \in SplitOps
           cs == IF cutBefore THEN Append(blocks, NewBlock(AnonName(anon + 1), li + 1))
                 ELSE blocks
           gs == Grow(cs, li + 1)
<1>1. /\ phase = "split" /\ phase' = phase /\ prog' = prog /\ li' = li + 1 /\ nl' = nl
      /\ ~LabelHere /\ li < N
  BY DEF SplitInstr
<1>2. /\ anon' = IF cutAfter THEN used + 1 ELSE used
      /\ blocks' = IF cutAfter THEN Append(gs, NewBlock(AnonName(used + 1), li + 2)) ELSE gs
  BY DEF SplitInstr, WithInstr
<1>3. Blocks(cs, li, used, nl) /\ used \in Nat
  <2>1. CASE cutBefore
    <3>1. Blocks(Append(blocks, NewBlock(AnonName(anon + 1), li + 1)), li, anon + 1, nl)
      BY SplitFacts, OpenAnon
    <3> QED
      BY <2>1, <3>1, SplitFacts
  <2>2. CASE ~cutBefore
    BY <2>2, SplitFacts
  <2> QED
    BY <2>1, <2>2
<1>4. cs[Len(cs)].lo <= li => Op(li) \notin SplitOps /\ li + 1 \notin SplitAt
  <2>1. CASE cutBefore
    <3>1. cs = Append(blocks, NewBlock(AnonName(anon + 1), li + 1))
      BY <2>1
    <3>2. cs[Len(cs)] = NewBlock(AnonName(anon + 1), li + 1)
      <4>1. blocks \in Seq(Block)
        BY SplitFacts DEF Chain
      <4> HIDE DEF cs
      <4> QED
        BY <3>1, <4>1
    <3>3. cs[Len(cs)].lo = li + 1
      BY <3>2 DEF NewBlock
    <3> HIDE DEF cs
    <3> QED
      BY <3>3, SplitFacts
  <2>2. CASE ~cutBefore
    <3>1. cs = blocks
      BY <2>2
    <3>2. blocks[Len(blocks)].lo <= li => ~CurEmpty
      BY SplitFacts
    <3>3. blocks[Len(blocks)].lo <= li => Op(li) \notin SplitOps
      BY <1>1 DEF PhaseInv, Open
    <3> QED
      BY <3>1, <3>2, <3>3, <2>2
  <2> QED
    BY <2>1, <2>2
<1>5. nl < Len(prog.labels) => prog.labels[nl + 1].at # li + 1
  BY <1>1 DEF LabelHere
<1>6. Blocks(gs, li + 1, used, nl) /\ LabelsRead(li + 1, nl)
  <2>1. prog \in Programs /\ li \in 0..(N - 1) /\ nl \in 0..Len(prog.labels) /\ LabelsRead(li, nl)
    BY <1>1, SplitFacts
  <2> HIDE DEF cs, used
  <2> QED
    BY <1>3, <1>4, <1>5, <2>1, GrowBlocks
<1>7. Blocks(blocks', li', anon', nl') /\ Open(blocks', li')
  <2> HIDE DEF gs, used, cutBefore
  <2>1. CASE cutAfter
    <3>1. li + 1 \in Nat /\ (li + 1) + 1 = li + 2 /\ nl \in 0..Len(prog.labels) /\ prog \in Programs
      BY SplitFacts
    <3>2. Blocks(Append(gs, NewBlock(AnonName(used + 1), (li + 1) + 1)), li + 1, used + 1, nl)
      BY <1>3, <1>6, <3>1, OpenAnon
    <3>3. blocks' = Append(gs, NewBlock(AnonName(used + 1), li + 2)) /\ anon' = used + 1
      BY <1>2, <2>1
    <3>4. Blocks(blocks', li', anon', nl')
      BY <1>1, <3>1, <3>2, <3>3
    <3>5. blocks'[Len(blocks')] = NewBlock(AnonName(used + 1), li + 2)
      <4>1. gs \in Seq(Block)
        BY <1>6 DEF Blocks, Chain
      <4> QED
        BY <3>3, <4>1
    <3>6. blocks'[Len(blocks')].lo = li + 2
      BY <3>5 DEF NewBlock
    <3>7. ~(blocks'[Len(blocks')].lo <= li + 1)
      BY <3>1, <3>6, SplitFacts
    <3> QED
      BY <1>1, <3>4, <3>7 DEF Open
  <2>2. CASE ~cutAfter
    BY <1>1, <1>2, <1>6, <2>2 DEF Open
  <2> QED
    BY <2>1, <2>2
<1>8. li' \in 0..N /\ nl' \in 0..Len(prog.labels) /\ anon' \in Nat
  <2> HIDE DEF used, cutAfter
  <2> QED
    BY <1>1, <1>2, <1>3, SplitFacts
<1>9. LabelsRead(li', nl')
  BY <1>1, <1>6
<1>10. BlocksInv'
  BY <1>1, <1>7, <1>8, <1>9, Keep, KeepBlocks DEF BlocksInv
<1>11. PhaseInv'
  BY <1>1, <1>7, KeepBlocks DEF PhaseInv
<1> QED
  BY <1>10, <1>11

\* The end of the text: a synthetic block nothing was put in is dropped, and
\* every label has been read.
LEMMA SplitDoneKeeps ==
  ASSUME PhaseInv, BlocksInv, SplitDone
  PROVE  PhaseInv' /\ BlocksInv'
<1>1. /\ phase = "split" /\ phase' = "lower" /\ prog' = prog
      /\ li' = li /\ nl' = nl /\ anon' = anon /\ ~LabelHere /\ li = N
      /\ blocks' = IF Len(blocks) > 1 /\ CurEmpty /\ CurAnon
                   THEN SubSeq(blocks, 1, Len(blocks) - 1) ELSE blocks
  BY DEF SplitDone, splitVars
<1>2. nl = Len(prog.labels)
  <2>1. SUFFICES ASSUME nl < Len(prog.labels) PROVE FALSE
    BY SplitFacts
  <2>2. nl + 1 \in 1..Len(prog.labels) /\ nl + 1 > nl
    BY <2>1, SplitFacts
  <2>3. prog.labels[nl + 1].at >= N + 1
    BY <1>1, <2>2, SplitFacts DEF LabelsRead
  <2>4. prog.labels[nl + 1].at \in 1..(N + 1)
    BY <2>2, SplitFacts, ProgramFacts
  <2>5. prog.labels[nl + 1].at = li + 1
    BY <1>1, <2>3, <2>4, SplitFacts
  <2> QED
    BY <1>1, <2>1, <2>5 DEF LabelHere
<1>3. Blocks(blocks', li, anon, nl)
  <2>1. CASE Len(blocks) > 1 /\ CurEmpty /\ CurAnon
    <3>1. blocks' = SubSeq(blocks, 1, Len(blocks) - 1)
      BY <1>1, <2>1
    <3>2. blocks[Len(blocks)].lo = li + 1 /\ blocks[Len(blocks)].name[1] = "anon"
      BY <2>1, SplitFacts DEF CurAnon, Cur
    <3> QED
      BY <2>1, <3>1, <3>2, SplitFacts, DropKeeps
  <2>2. CASE ~(Len(blocks) > 1 /\ CurEmpty /\ CurAnon)
    BY <1>1, <2>2, SplitFacts
  <2> QED
    BY <2>1, <2>2
<1>4. BlocksInv'
  BY <1>1, <1>3, SplitFacts, Keep, KeepBlocks DEF BlocksInv
<1>5. PhaseInv'
  BY <1>1, <1>2, Keep, SplitFacts DEF PhaseInv
<1> QED
  BY <1>4, <1>5

-----------------------------------------------------------------------------
(***************************************************************************)
(* Lowering.                                                               *)
(***************************************************************************)
\* What lowering knows of the blocks before a step.
LEMMA LowerFacts ==
  ASSUME PhaseInv, BlocksInv, LowerInv, Lowering
  PROVE  /\ prog \in Programs /\ N \in Nat /\ phase = "lower" /\ li = N /\ nl = Len(prog.labels)
         /\ Len(blocks) \in Nat /\ bi \in 1..Len(blocks)
         /\ \A b \in 1..Len(blocks) : /\ blocks[b].name \in Names
                                      /\ blocks[b].lo \in Int /\ blocks[b].hi \in Int
                                      /\ blocks[b].lo <= blocks[b].hi + 1
                                      /\ blocks[b].hi <= N /\ blocks[b].lo >= 1
         /\ \A b \in 1..(Len(blocks) - 1) : blocks[b + 1].lo = blocks[b].hi + 1
         /\ blocks[Len(blocks)].hi = N
         /\ ii \in blocks[bi].lo..(blocks[bi].hi + 1)
         /\ Underway
<1>1. /\ prog \in Programs /\ N \in Nat /\ phase = "lower" /\ li = N /\ nl = Len(prog.labels)
      /\ Chain(blocks, N)
  BY ProgramFacts DEF PhaseInv, BlocksInv, Blocks, Lowering
<1>2. /\ Len(blocks) \in Nat
      /\ \A b \in 1..Len(blocks) : /\ blocks[b] \in Block
                                   /\ blocks[b].lo \in Int /\ blocks[b].hi \in Int
                                   /\ blocks[b].lo <= blocks[b].hi + 1
                                   /\ blocks[b].hi <= N /\ blocks[b].lo >= 1
      /\ \A b \in 1..(Len(blocks) - 1) : blocks[b + 1].lo = blocks[b].hi + 1
      /\ blocks[Len(blocks)].hi = N
  BY <1>1, ChainFacts
<1>3. \A b \in 1..Len(blocks) : blocks[b].name \in Names
  BY <1>2 DEF Block
<1>4. bi \in 1..Len(blocks)
  BY <1>2 DEF LowerInv, Lowering
<1>5. Underway
  BY <1>2, <1>4 DEF LowerInv
<1>6. ii \in blocks[bi].lo..(blocks[bi].hi + 1)
  BY <1>5 DEF Underway
<1> QED
  BY <1>1, <1>2, <1>3, <1>4, <1>5, <1>6

\* The instruction being lowered; if it can end a block it ends this one.
LEMMA AtFacts ==
  ASSUME PhaseInv, BlocksInv, LowerInv, AtInstr
  PROVE  /\ Lowering
         /\ ii \in 1..N /\ ii \in Int /\ ii <= blocks[bi].hi
         /\ Op(ii) \in {"RET"} \cup Jumps \cup CondBranches => ii = blocks[bi].hi
<1>1. Lowering /\ ii <= blocks[bi].hi
  BY DEF AtInstr
<1>2. ii \in 1..N /\ ii \in Int
  <2>1. /\ blocks[bi].lo \in Int /\ blocks[bi].hi \in Int /\ blocks[bi].hi <= N
        /\ blocks[bi].lo >= 1 /\ N \in Nat
        /\ ii \in blocks[bi].lo..(blocks[bi].hi + 1)
    BY <1>1, LowerFacts
  <2> QED
    BY <2>1, <1>1
<1>3. ASSUME Op(ii) \in {"RET"} \cup Jumps \cup CondBranches, ii # blocks[bi].hi
      PROVE  FALSE
  <2>1. Op(ii) \in SplitOps
    BY <1>1, <1>2, <1>3, LowerFacts, OpFacts
  <2>2. /\ bi \in 1..Len(blocks) /\ blocks[bi].lo \in Int /\ blocks[bi].hi \in Int
        /\ ii \in blocks[bi].lo..(blocks[bi].hi + 1)
    BY <1>1, LowerFacts
  <2>3. ii \in blocks[bi].lo..(blocks[bi].hi - 1)
    BY <1>1, <1>3, <2>2
  <2>4. Straight(blocks)
    BY DEF BlocksInv, Blocks
  <2>5. Inside(ii)
    BY <2>2, <2>3, <2>4 DEF Straight
  <2> QED
    BY <2>1, <2>5 DEF Inside
<1> QED
  BY <1>1, <1>2, <1>3

\* A branch is given the name of a block that starts where the source goes.
LEMMA BranchLeads ==
  ASSUME PhaseInv, BlocksInv, LowerInv, AtInstr, Op(ii) \in Jumps \cup CondBranches,
         NEW to \in BranchTarget
  PROVE  Leads(ii, to) /\ to \in Names /\ Tgt(ii).kind # "sym"
<1>1. /\ prog \in Programs /\ ii \in 1..N /\ ii = blocks[bi].hi
      /\ nl = Len(prog.labels) /\ Len(prog.labels) \in Nat
  BY AtFacts, LowerFacts, ProgramFacts
<1>2. CASE Tgt(ii).kind = "label"
  <2>1. to = LabelName(Tgt(ii).label)
    BY <1>2 DEF BranchTarget
  <2>2. PICK k \in 1..Len(prog.labels) : prog.labels[k].name = Tgt(ii).label
    BY <1>1, <1>2, ProgramFacts
  <2>3. PICK b \in 1..Len(blocks) : /\ blocks[b].name = LabelName(prog.labels[k].name)
                                    /\ blocks[b].lo = prog.labels[k].at
    BY <1>1 DEF BlocksInv, Blocks, Found
  <2>4. blocks[b].lo \in SrcTargets(ii)
    BY <1>2, <2>2, <2>3 DEF SrcTargets, LabelAt
  <2>5. to \in Names /\ to # EntryName
    BY <1>1, <2>1, ProgramFacts, NameKinds
  <2> QED
    BY <1>2, <2>1, <2>2, <2>3, <2>4, <2>5 DEF Leads
<1>3. CASE Tgt(ii).kind = "pc"
  <2>1. to \in PCTarget(Tgt(ii).off)
    BY <1>3 DEF BranchTarget
  <2>2. Arch # "arm64"
    <3>1. CASE Op(ii) \in Jumps
      BY <2>1, <3>1 DEF PCTarget, Arm64PCTarget
    <3>2. CASE Op(ii) \in CondBranches
      BY <1>1, <1>3, <3>2, OpFacts
    <3> QED
      BY <3>1, <3>2
  <2>3. \E b \in 1..Len(blocks) : to = blocks[b].name /\ blocks[b].lo = ii + Tgt(ii).off
    <3>1. CASE Arch = "arm"
      <4>1. to \in ArmPCTarget(Tgt(ii).off)
        BY <2>1, <3>1 DEF PCTarget
      <4> QED
        BY <1>1, <4>1 DEF ArmPCTarget
    <3>2. CASE Arch # "arm"
      <4>1. to \in Amd64PCTarget(Tgt(ii).off)
        BY <2>1, <2>2, <3>2 DEF PCTarget
      <4> QED
        BY <4>1 DEF Amd64PCTarget
    <3> QED
      BY <3>1, <3>2
  <2>4. SrcTargets(ii) = {ii + Tgt(ii).off}
    BY <1>3 DEF SrcTargets
  <2>5. to \in Names
    BY <2>3, AtFacts, LowerFacts
  <2> QED
    BY <1>3, <2>3, <2>4, <2>5 DEF Leads
<1>4. CASE Tgt(ii).kind \notin {"label", "pc"}
  BY <1>4 DEF BranchTarget
<1> QED
  BY <1>2, <1>3, <1>4

\* A branch without a target names a symbol or a place the translator cannot
\* name: every label and every n(PC) inside the function starts a block.
LEMMA BranchFinds ==
  ASSUME PhaseInv, BlocksInv, LowerInv, AtInstr, Op(ii) \in Jumps \cup CondBranches,
         Tgt(ii).kind # "sym", ~JumpsThroughPC(ii), BranchTarget = {}
  PROVE  Tgt(ii).kind = "pc" /\ ii + Tgt(ii).off \notin 1..N
<1>1. /\ prog \in Programs /\ ii \in 1..N /\ ii = blocks[bi].hi /\ li = N /\ N \in Nat
      /\ Tgt(ii).off \in Int
  BY AtFacts, LowerFacts, ProgramFacts
<1>2. Tgt(ii).kind = "pc"
  <2>1. Tgt(ii).kind # "label"
    BY DEF BranchTarget
  <2> QED
    BY <1>1, <2>1, OpFacts
<1>3. SUFFICES ASSUME ii + Tgt(ii).off \in 1..N
               PROVE  FALSE
  BY <1>2
<1>12. Arch # "arm64"
  BY <1>1, <1>2, OpFacts DEF JumpsThroughPC
<1> DEFINE tgt == ii + Tgt(ii).off
<1>4. tgt \in SplitAt
  <2>1. Op(ii) \in Jumps \cup FlagBranches
    BY <1>1, <1>2, OpFacts
  <2> QED
    BY <1>1, <1>2, <1>3, <1>12, <2>1 DEF SplitAt
<1>5. Found(blocks, N, nl) /\ Chain(blocks, N)
  BY <1>1 DEF BlocksInv, Blocks
<1>6. tgt \in 1..N
  BY <1>3
<1>7. tgt = ii + Tgt(ii).off
  OBVIOUS
<1> HIDE DEF tgt
<1>8. PICK b \in 1..Len(blocks) : blocks[b].lo = tgt /\ blocks[b].hi >= tgt
  BY <1>1, <1>4, <1>5, <1>6 DEF Found
<1>9. PCTarget(Tgt(ii).off) = {}
  BY <1>2 DEF BranchTarget
<1>10. CASE Arch = "arm"
  <2>1. PICK a \in 1..Len(blocks) :
          blocks[a].lo = blocks[b].lo /\ \A c \in 1..(a - 1) : blocks[c].lo < blocks[b].lo
    BY <1>5 DEF Found
  <2>2. ArmPCTarget(Tgt(ii).off) = {}
    BY <1>9, <1>10 DEF PCTarget
  <2>3. \A d \in 1..Len(blocks) : blocks[d].lo = tgt => a <= d
    <3>1. SUFFICES ASSUME NEW d \in 1..Len(blocks), blocks[d].lo = tgt, d < a
                   PROVE  FALSE
      BY <1>1, <1>5, ChainFacts
    <3>2. d \in 1..(a - 1)
      BY <3>1, <1>1, <1>5, ChainFacts
    <3>3. blocks[d].lo < tgt
      BY <3>2, <2>1, <1>8
    <3> QED
      BY <3>1, <3>3, <1>6
  <2>4. blocks[a].name \in ArmPCTarget(Tgt(ii).off)
    BY <1>1, <1>7, <1>8, <2>1, <2>3 DEF ArmPCTarget
  <2> QED
    BY <2>2, <2>4
<1>11. CASE Arch # "arm"
  <2>1. Amd64PCTarget(Tgt(ii).off) = {}
    BY <1>9, <1>11, <1>12 DEF PCTarget
  <2>2. \A d \in 1..Len(blocks) : blocks[d].lo = tgt => d <= b
    <3>1. SUFFICES ASSUME NEW d \in 1..Len(blocks), blocks[d].lo = tgt, b < d
                   PROVE  FALSE
      BY <1>1, <1>5, ChainFacts
    <3>2. blocks[b].hi < blocks[d].lo /\ blocks[b].hi \in Int
      BY <3>1, <1>1, <1>5, ChainFacts
    <3> QED
      BY <3>1, <3>2, <1>6, <1>8
  <2>3. blocks[b].name \in Amd64PCTarget(Tgt(ii).off)
    BY <1>7, <1>8, <2>2 DEF Amd64PCTarget
  <2> QED
    BY <2>1, <2>3
<1> QED
  BY <1>10, <1>11

\* Where neither the function nor its blocks change, nor does what has been
\* said of them.
LEMMA KeepLower ==
  ASSUME prog' = prog, blocks' = blocks
  PROVE  /\ \A k : Emitted(k, ir[k])' <=> Emitted(k, ir'[k])
         /\ /\ ii' \in blocks[bi'].lo..(blocks[bi'].hi + 1)
            /\ Plain(blocks[bi'].lo, ii' - 1)
            /\ fpResWritten' \/ NoneBefore(StoresResult, ii')
            /\ flagsWritten' \/ NoneBefore(SetsFlags, ii')
            => Underway'
<1>1. /\ \A i, j : Plain(i, j)' <=> Plain(i, j)
      /\ \A i, name : Leads(i, name)' <=> Leads(i, name)
      /\ \A k, name : IsNext(k, name)' <=> IsNext(k, name)
  BY Keep, KeepUndef DEF Plain, Leads, IsNext
<1>2. ASSUME NEW k
      PROVE  Emitted(k, ir[k])' <=> Emitted(k, ir'[k])
  <2>1. Falls(k, ir[k])' <=> Falls(k, ir'[k])
    BY <1>1 DEF Falls, IsNext
  <2>2. Jumped(k, ir[k])' <=> Jumped(k, ir'[k])
    BY Keep, KeepUndef DEF Jumped, Leads
  <2>3. Forked(k, ir[k])' <=> Forked(k, ir'[k])
    BY Keep, KeepUndef DEF Forked, Leads, IsNext
  <2>4. Returned(k, ir[k])' <=> Returned(k, ir'[k])
    BY Keep, KeepUndef DEF Returned, NoneBefore, StoresResult
  <2>5. Left(k, ir[k])' <=> Left(k, ir'[k])
    BY Keep DEF Left
  <2>6. Plain(blocks[k].lo, ir[k].at - 1)' <=> Plain(blocks[k].lo, ir'[k].at - 1)
    BY Keep DEF Plain
  <2> QED
    BY <2>1, <2>2, <2>3, <2>4, <2>5, <2>6 DEF Emitted
<1>3. ASSUME ii' \in blocks[bi'].lo..(blocks[bi'].hi + 1),
             Plain(blocks[bi'].lo, ii' - 1),
             fpResWritten' \/ NoneBefore(StoresResult, ii'),
             flagsWritten' \/ NoneBefore(SetsFlags, ii')
      PROVE  Underway'
  <2>1. Plain(blocks[bi].lo, ii - 1)'
    BY <1>3, Keep DEF Plain
  <2>2. (fpResWritten \/ NoneBefore(StoresResult, ii))'
    BY <1>3, Keep, KeepUndef DEF NoneBefore, StoresResult
  <2>3. (flagsWritten \/ NoneBefore(SetsFlags, ii))'
    BY <1>3, Keep, KeepUndef DEF NoneBefore, SetsFlags
  <2> QED
    BY <1>3, <2>1, <2>2, <2>3 DEF Underway
<1> QED
  BY <1>2, <1>3

\* Once lowering has begun the splitter's part of the invariant stays true.
LEMMA KeepSplit ==
  ASSUME PhaseInv, BlocksInv, phase # "split", phase' \in {"lower", "run", "refused", "error"},
         prog' = prog, blocks' = blocks, splitVars' = splitVars
  PROVE  PhaseInv' /\ BlocksInv'
<1>1. li' = li /\ nl' = nl /\ anon' = anon
  BY DEF splitVars
<1>2. BlocksInv'
  BY <1>1, Keep, KeepBlocks DEF BlocksInv
<1>3. PhaseInv'
  BY <1>1, Keep DEF PhaseInv
<1> QED
  BY <1>2, <1>3

\* Emitting a terminator: it must be right for its block, and what follows it
\* in the block must not matter.
LEMMA EmitKeeps ==
  ASSUME PhaseInv, BlocksInv, LowerInv, Lowering,
         NEW t \in Terms, EmitTerm(t), Emitted(bi, t),
         fpResWritten \/ NoneBefore(StoresResult, blocks[bi].hi + 1),
         flagsWritten \/ NoneBefore(SetsFlags, blocks[bi].hi + 1)
  PROVE  PhaseInv' /\ BlocksInv' /\ LowerInv'
<1>1. /\ prog' = prog /\ blocks' = blocks /\ phase' = phase /\ splitVars' = splitVars
      /\ ir' = Append(ir, t) /\ bi' = bi + 1
      /\ ii' = IF bi < Len(blocks) THEN blocks[bi + 1].lo ELSE ii
      /\ flagsWritten' = flagsWritten /\ fpResWritten' = fpResWritten
  BY DEF EmitTerm
<1>2. /\ phase = "lower" /\ Len(blocks) \in Nat /\ bi \in 1..Len(blocks)
      /\ \A b \in 1..Len(blocks) : /\ blocks[b].lo \in Int /\ blocks[b].hi \in Int
                                   /\ blocks[b].lo <= blocks[b].hi + 1
      /\ \A b \in 1..(Len(blocks) - 1) : blocks[b + 1].lo = blocks[b].hi + 1
  BY LowerFacts
<1>3. PhaseInv' /\ BlocksInv'
  BY <1>1, <1>2, KeepSplit
<1>4. /\ ir \in Seq(Terms) /\ Len(ir) = bi - 1
      /\ \A k \in 1..Len(ir) : Emitted(k, ir[k])
  BY DEF LowerInv
<1>5. /\ ir' \in Seq(Terms) /\ Len(ir') = bi
      /\ \A k \in 1..Len(ir) : ir'[k] = ir[k]
      /\ ir'[bi] = t
  <2>1. /\ ir' \in Seq(Terms) /\ Len(ir') = Len(ir) + 1
        /\ \A k \in 1..Len(ir) : ir'[k] = ir[k]
        /\ ir'[Len(ir) + 1] = t
    BY <1>1, <1>4, AppendProperties
  <2>2. Len(ir) + 1 = bi
    BY <1>2, <1>4
  <2> QED
    BY <2>1, <2>2
<1>6. \A k \in 1..Len(ir') : Emitted(k, ir'[k])
  <2> TAKE k \in 1..Len(ir')
  <2>1. CASE k = bi
    BY <2>1, <1>5
  <2>2. CASE k # bi
    <3>1. k \in 1..Len(ir)
      BY <1>2, <1>4, <1>5, <2>2
    <3> QED
      BY <3>1, <1>4, <1>5
  <2> QED
    BY <2>1, <2>2
<1>7. ASSUME bi' <= Len(blocks)
      PROVE  Underway'
  <2>1. bi \in 1..(Len(blocks) - 1) /\ bi + 1 \in 1..Len(blocks) /\ bi < Len(blocks)
    BY <1>1, <1>2, <1>7
  <2>2. ii' = blocks[bi + 1].lo /\ blocks[bi + 1].lo = blocks[bi].hi + 1
    BY <1>1, <1>2, <2>1
  <2>3. ii' \in blocks[bi'].lo..(blocks[bi'].hi + 1)
    BY <1>1, <1>2, <2>1, <2>2
  <2>4. Plain(blocks[bi'].lo, ii' - 1)
    <3>1. ii' = blocks[bi'].lo /\ ii' \in Int
      BY <1>1, <1>2, <2>1, <2>2
    <3> QED
      BY <3>1 DEF Plain
  <2> QED
    BY <1>1, <2>2, <2>3, <2>4, KeepLower
<1>8. LowerInv'
  <2>1. bi' \in 1..(Len(blocks') + 1) /\ Len(ir') = bi' - 1
    BY <1>1, <1>2, <1>5
  <2>2. \A k \in 1..Len(ir') : Emitted(k, ir[k])'
    BY <1>1, <1>6, KeepLower
  <2> QED
    BY <1>1, <1>2, <1>5, <1>7, <2>1, <2>2 DEF LowerInv
<1> QED
  BY <1>3, <1>8

\* An instruction that ends no block.
LEMMA LowerPlainKeeps ==
  ASSUME PhaseInv, BlocksInv, LowerInv, LowerPlain
  PROVE  PhaseInv' /\ BlocksInv' /\ LowerInv'
<1>1. /\ AtInstr /\ Op(ii) \notin LowerTerms
      /\ prog' = prog /\ blocks' = blocks /\ phase' = phase /\ splitVars' = splitVars
      /\ flagsWritten' = (flagsWritten \/ Op(ii) \in SetsFlags)
      /\ fpResWritten' = (fpResWritten \/ Op(ii) \in StoresResult)
      /\ ii' = ii + 1 /\ bi' = bi /\ ir' = ir
  BY DEF LowerPlain
<1>2. /\ Lowering /\ ii \in Int /\ ii <= blocks[bi].hi
  BY <1>1, AtFacts
<1>3. /\ phase = "lower" /\ bi \in 1..Len(blocks) /\ Len(blocks) \in Nat
      /\ blocks[bi].lo \in Int /\ blocks[bi].hi \in Int
      /\ ii \in blocks[bi].lo..(blocks[bi].hi + 1)
      /\ Underway
  BY <1>2, LowerFacts
<1>4. PhaseInv' /\ BlocksInv'
  BY <1>1, <1>3, KeepSplit
<1>5. Underway'
  <2>1. ii' \in blocks[bi'].lo..(blocks[bi'].hi + 1)
    BY <1>1, <1>2, <1>3
  <2>2. Plain(blocks[bi'].lo, ii' - 1)
    <3> SUFFICES ASSUME NEW i \in blocks[bi].lo..ii
                 PROVE  Op(i) \notin LowerTerms
      BY <1>1, <1>2 DEF Plain
    <3>1. CASE i = ii
      BY <3>1, <1>1
    <3>2. CASE i # ii
      <4>1. i \in blocks[bi].lo..(ii - 1)
        BY <1>2, <1>3, <3>2
      <4> QED
        BY <4>1, <1>3 DEF Underway, Plain
    <3> QED
      BY <3>1, <3>2
  <2>3. \A ops : Op(ii) \notin ops /\ NoneBefore(ops, ii) => NoneBefore(ops, ii')
    <3> SUFFICES ASSUME NEW ops, Op(ii) \notin ops, NoneBefore(ops, ii),
                        NEW j \in 1..ii, Op(j) \in ops
                 PROVE  AfterUndef(j)
      BY <1>1, <1>2 DEF NoneBefore
    <3>1. j \in 1..(ii - 1)
      BY <1>2
    <3> QED
      BY <3>1 DEF NoneBefore
  <2>4. fpResWritten' \/ NoneBefore(StoresResult, ii')
    BY <1>1, <1>3, <2>3 DEF Underway
  <2>5. flagsWritten' \/ NoneBefore(SetsFlags, ii')
    BY <1>1, <1>3, <2>3 DEF Underway
  <2> QED
    BY <1>1, <2>1, <2>2, <2>4, <2>5, KeepLower
<1>6. LowerInv'
  <2>1. \A k \in 1..Len(ir') : Emitted(k, ir[k])'
    BY <1>1, KeepLower DEF LowerInv
  <2> QED
    BY <1>1, <1>3, <1>5, <2>1 DEF LowerInv
<1> QED
  BY <1>4, <1>6

\* Nothing is stored or compared by the instruction that ends a block.
LEMMA NothingBehind ==
  ASSUME PhaseInv, BlocksInv, LowerInv, AtInstr,
         Op(ii) \in {"RET"} \cup Jumps \cup CondBranches
  PROVE  /\ fpResWritten \/ NoneBefore(StoresResult, blocks[bi].hi + 1)
         /\ flagsWritten \/ NoneBefore(SetsFlags, blocks[bi].hi + 1)
<1>1. ii = blocks[bi].hi /\ ii \in 1..N /\ ii \in Int /\ prog \in Programs /\ Underway
  BY AtFacts, LowerFacts
<1>2. Op(ii) \notin StoresResult /\ Op(ii) \notin SetsFlags
  BY <1>1, OpFacts
<1>3. \A ops : Op(ii) \notin ops /\ NoneBefore(ops, ii) => NoneBefore(ops, blocks[bi].hi + 1)
  <2> SUFFICES ASSUME NEW ops, Op(ii) \notin ops, NoneBefore(ops, ii),
                      NEW j \in 1..ii, Op(j) \in ops
               PROVE  AfterUndef(j)
    BY <1>1 DEF NoneBefore
  <2>1. j \in 1..(ii - 1)
    BY <1>1
  <2> QED
    BY <2>1 DEF NoneBefore
<1> QED
  BY <1>1, <1>2, <1>3 DEF Underway

\* A terminator at instruction ii, inside its block.
LEMMA TermAt ==
  ASSUME PhaseInv, BlocksInv, LowerInv, Lowering,
         NEW kind \in Kinds, NEW to \in Names, NEW fall \in Names
  PROVE  /\ Term(kind, to, fall) \in Terms
         /\ Term(kind, to, fall).kind = kind /\ Term(kind, to, fall).at = ii
         /\ Term(kind, to, fall).to = to /\ Term(kind, to, fall).fall = fall
         /\ ii \in blocks[bi].lo..(blocks[bi].hi + 1)
         /\ Plain(blocks[bi].lo, ii - 1)
<1>1. /\ ii \in blocks[bi].lo..(blocks[bi].hi + 1) /\ Plain(blocks[bi].lo, ii - 1)
      /\ ii \in Int
  BY LowerFacts DEF Underway
<1> QED
  BY <1>1 DEF Term, Terms

\* RET: a tail call, or a return of the slot or of a register; a register
\* only if no store that can be reached stands in front.
LEMMA LowerRetKeeps ==
  ASSUME PhaseInv, BlocksInv, LowerInv, LowerRet
  PROVE  PhaseInv' /\ BlocksInv' /\ LowerInv'
<1> DEFINE how == IF Tgt(ii).kind = "sym" THEN "tail"
                  ELSE IF fpResWritten THEN "retslot" ELSE "retreg"
           t == End(how)
<1>1. AtInstr /\ Op(ii) = "RET" /\ EmitTerm(t)
  BY DEF LowerRet
<1>2. /\ Lowering /\ ii = blocks[bi].hi /\ ii \in Int
      /\ Underway
  BY <1>1, AtFacts, LowerFacts
<1>3. how \in Kinds /\ EntryName \in Names
  <2>1. how \in Kinds
    BY DEF Kinds
  <2> QED
    BY <2>1, NameKinds
<1>4. /\ t \in Terms /\ t.kind = how /\ t.at = ii
      /\ ii \in blocks[bi].lo..(blocks[bi].hi + 1)
      /\ Plain(blocks[bi].lo, ii - 1)
  <2> HIDE DEF how
  <2> QED
    BY <1>2, <1>3, TermAt DEF End
<1>5. Returned(bi, t) \/ Left(bi, t)
  <2>1. CASE Tgt(ii).kind = "sym"
    <3>1. t.kind = "tail"
      BY <2>1, <1>4
    <3> HIDE DEF t
    <3> QED
      BY <1>1, <1>2, <1>4, <2>1, <3>1 DEF Left
  <2>2. CASE Tgt(ii).kind # "sym" /\ fpResWritten
    <3>1. t.kind = "retslot"
      BY <2>2, <1>4
    <3> HIDE DEF t
    <3> QED
      BY <1>1, <1>2, <1>4, <2>2, <3>1 DEF Returned
  <2>3. CASE Tgt(ii).kind # "sym" /\ ~fpResWritten
    <3>1. t.kind = "retreg"
      BY <2>3, <1>4
    <3>2. NoneBefore(StoresResult, ii)
      BY <1>2, <2>3 DEF Underway
    <3> HIDE DEF t
    <3> QED
      BY <1>1, <1>2, <1>4, <2>3, <3>1, <3>2 DEF Returned
  <2> QED
    BY <2>1, <2>2, <2>3
<1> HIDE DEF t, how
<1>6. Emitted(bi, t)
  BY <1>4, <1>5 DEF Emitted
<1> QED
  BY <1>1, <1>2, <1>4, <1>6, NothingBehind, EmitKeeps

\* What follows UNDEF in its block is dropped and cannot be reached.
LEMMA LowerUndefKeeps ==
  ASSUME PhaseInv, BlocksInv, LowerInv, LowerUndef
  PROVE  PhaseInv' /\ BlocksInv' /\ LowerInv'
<1> DEFINE t == End("undef")
<1>1. AtInstr /\ Op(ii) = "UNDEF" /\ "UNDEF" \in LowerTerms /\ EmitTerm(t)
  BY DEF LowerUndef
<1>2. /\ Lowering /\ ii <= blocks[bi].hi /\ ii \in 1..N /\ ii \in Int
      /\ blocks[bi].hi \in Int /\ blocks[bi].lo \in Int /\ bi \in 1..Len(blocks)
      /\ Underway
  BY <1>1, AtFacts, LowerFacts
<1>3. EntryName \in Names /\ "undef" \in Kinds
  BY NameKinds DEF Kinds
<1>4. /\ t \in Terms /\ t.kind = "undef" /\ t.at = ii
      /\ ii \in blocks[bi].lo..(blocks[bi].hi + 1)
      /\ Plain(blocks[bi].lo, ii - 1)
  <2>1. t = Term("undef", EntryName, EntryName)
    BY DEF End
  <2> HIDE DEF t
  <2> QED
    BY <1>2, <1>3, <2>1, TermAt
<1>5. EmitTerm(t)
  BY <1>1
<1> HIDE DEF t
<1>6. Emitted(bi, t)
  <2>1. Left(bi, t)
    BY <1>1, <1>2, <1>4 DEF Left
  <2> QED
    BY <1>4, <2>1 DEF Emitted
<1>7. ASSUME NEW ops, Op(ii) \notin ops, NoneBefore(ops, ii)
      PROVE  NoneBefore(ops, blocks[bi].hi + 1)
  <2> SUFFICES ASSUME NEW j \in 1..blocks[bi].hi, Op(j) \in ops
               PROVE  AfterUndef(j)
    BY <1>2 DEF NoneBefore
  <2>1. CASE j < ii
    BY <2>1, <1>2, <1>7 DEF NoneBefore
  <2>2. CASE j = ii
    BY <2>2, <1>7
  <2>3. CASE j > ii
    <3>1. ii \in 1..(j - 1)
      BY <1>2, <2>3
    <3>2. Straight(blocks)
      BY DEF BlocksInv, Blocks
    <3>3. \A i \in ii..(j - 1) : Inside(i)
      <4> TAKE i \in ii..(j - 1)
      <4>1. i \in blocks[bi].lo..(blocks[bi].hi - 1)
        BY <1>2, <1>4
      <4> QED
        BY <1>2, <3>2, <4>1 DEF Straight
    <3>4. \A i \in ii..(j - 1) : Op(i) \notin SplitOps /\ i + 1 \notin SplitAt
      BY <3>3 DEF Inside
    <3>5. \A k \in 1..Len(prog.labels) : prog.labels[k].at \notin (ii + 1)..j
      <4> SUFFICES ASSUME NEW k \in 1..Len(prog.labels), prog.labels[k].at \in (ii + 1)..j
                   PROVE  FALSE
        OBVIOUS
      <4> DEFINE i == prog.labels[k].at - 1
      <4>1. i \in ii..(j - 1) /\ i + 1 = prog.labels[k].at
        BY <1>2, SMTT(30)
      <4> HIDE DEF i
      <4> QED
        BY <3>3, <4>1 DEF Inside
    <3> QED
      BY <1>1, <3>1, <3>4, <3>5 DEF AfterUndef
  <2> QED
    BY <1>2, <2>1, <2>2, <2>3
<1>8. Op(ii) \notin StoresResult /\ Op(ii) \notin SetsFlags
  BY <1>1 DEF StoresResult, SetsFlags
<1>9. /\ fpResWritten \/ NoneBefore(StoresResult, blocks[bi].hi + 1)
      /\ flagsWritten \/ NoneBefore(SetsFlags, blocks[bi].hi + 1)
  BY <1>2, <1>7, <1>8 DEF Underway
<1> QED
  BY <1>2, <1>4, <1>5, <1>6, <1>9, EmitKeeps

\* B or JMP: to a symbol, or through the register PC, it leaves the function;
\* otherwise it goes where the source goes.
LEMMA LowerJumpKeeps ==
  ASSUME PhaseInv, BlocksInv, LowerInv, LowerJump, phase' # "error"
  PROVE  PhaseInv' /\ BlocksInv' /\ LowerInv'
<1>1. AtInstr /\ Op(ii) \in Jumps
  BY DEF LowerJump
<1>2. /\ Lowering /\ ii = blocks[bi].hi /\ ii \in Int
      /\ fpResWritten \/ NoneBefore(StoresResult, blocks[bi].hi + 1)
      /\ flagsWritten \/ NoneBefore(SetsFlags, blocks[bi].hi + 1)
  BY <1>1, AtFacts, NothingBehind
<1>3. EntryName \in Names /\ "tail" \in Kinds /\ "indirect" \in Kinds /\ "br" \in Kinds
  BY NameKinds DEF Kinds
<1>4. CASE Tgt(ii).kind = "sym" /\ EmitTerm(End("tail"))
  <2> DEFINE t == End("tail")
  <2>1. t = Term("tail", EntryName, EntryName) /\ EmitTerm(t)
    BY <1>4 DEF End
  <2> HIDE DEF t
  <2>2. /\ t \in Terms /\ t.kind = "tail" /\ t.at = ii
        /\ ii \in blocks[bi].lo..(blocks[bi].hi + 1)
        /\ Plain(blocks[bi].lo, ii - 1)
    BY <1>2, <1>3, <2>1, TermAt
  <2>3. Left(bi, t)
    BY <1>1, <1>2, <1>4, <2>2 DEF Left
  <2>4. Emitted(bi, t)
    BY <2>2, <2>3 DEF Emitted
  <2> QED
    BY <1>2, <2>1, <2>2, <2>4, EmitKeeps
<1>5. CASE \E to \in BranchTarget : EmitTerm(Br(to))
  <2>1. PICK dest \in BranchTarget : EmitTerm(Br(dest))
    BY <1>5
  <2>2. Leads(ii, dest) /\ dest \in Names /\ Tgt(ii).kind # "sym"
    BY <1>1, BranchLeads
  <2> DEFINE t == Br(dest)
  <2>3. t = Term("br", dest, EntryName) /\ EmitTerm(t)
    BY <2>1 DEF Br
  <2> HIDE DEF t
  <2>4. /\ t \in Terms /\ t.kind = "br" /\ t.at = ii /\ t.to = dest
        /\ ii \in blocks[bi].lo..(blocks[bi].hi + 1)
        /\ Plain(blocks[bi].lo, ii - 1)
    BY <1>2, <1>3, <2>2, <2>3, TermAt
  <2>5. Jumped(bi, t)
    BY <1>1, <1>2, <2>2, <2>4 DEF Jumped
  <2>6. Emitted(bi, t)
    BY <2>4, <2>5 DEF Emitted
  <2> QED
    BY <1>2, <2>3, <2>4, <2>6, EmitKeeps
<1>6. CASE EmitTerm(End("indirect"))
  <2> DEFINE t == End("indirect")
  <2>1. t = Term("indirect", EntryName, EntryName) /\ EmitTerm(t)
    BY <1>6 DEF End
  <2> HIDE DEF t
  <2>2. /\ t \in Terms /\ t.kind = "indirect" /\ t.at = ii
        /\ ii \in blocks[bi].lo..(blocks[bi].hi + 1)
        /\ Plain(blocks[bi].lo, ii - 1)
    BY <1>2, <1>3, <2>1, TermAt
  <2>3. Left(bi, t)
    <3>1. t.at <= blocks[bi].hi
      BY <1>2, <2>2
    <3> QED
      BY <2>2, <3>1 DEF Left
  <2>4. Emitted(bi, t)
    BY <2>2, <2>3 DEF Emitted
  <2> QED
    BY <1>2, <2>1, <2>2, <2>4, EmitKeeps
<1> QED
  BY <1>4, <1>5, <1>6 DEF LowerJump, Reject

\* A conditional branch goes where the source goes, or into the next block.
LEMMA LowerCondKeeps ==
  ASSUME PhaseInv, BlocksInv, LowerInv, LowerCond, phase' # "error"
  PROVE  PhaseInv' /\ BlocksInv' /\ LowerInv'
<1>1. AtInstr /\ Op(ii) \in CondBranches
  BY DEF LowerCond
<1>2. /\ Lowering /\ ii = blocks[bi].hi /\ ii \in Int
      /\ fpResWritten \/ NoneBefore(StoresResult, blocks[bi].hi + 1)
      /\ flagsWritten \/ NoneBefore(SetsFlags, blocks[bi].hi + 1)
  BY <1>1, AtFacts, NothingBehind
<1>3. PICK dest \in BranchTarget, next \in NextName : EmitTerm(CondBr(dest, next))
  BY DEF LowerCond, Reject
<1>4. Leads(ii, dest) /\ dest \in Names
  BY <1>1, BranchLeads
<1>5. IsNext(bi, next) /\ next \in Names
  <2>1. bi < Len(blocks) /\ next = blocks[bi + 1].name
    BY <1>3 DEF NextName
  <2>2. bi + 1 \in 1..Len(blocks)
    BY <1>2, <2>1, LowerFacts
  <2> QED
    BY <1>2, <2>1, <2>2, LowerFacts DEF IsNext
<1> DEFINE t == CondBr(dest, next)
<1>6. t = Term("condbr", dest, next) /\ EmitTerm(t) /\ "condbr" \in Kinds
  BY <1>3 DEF CondBr, Kinds
<1> HIDE DEF t
<1>7. /\ t \in Terms /\ t.kind = "condbr" /\ t.at = ii /\ t.to = dest /\ t.fall = next
      /\ ii \in blocks[bi].lo..(blocks[bi].hi + 1)
      /\ Plain(blocks[bi].lo, ii - 1)
  BY <1>2, <1>4, <1>5, <1>6, TermAt
<1>8. Forked(bi, t)
  BY <1>1, <1>2, <1>4, <1>5, <1>7 DEF Forked
<1>9. Emitted(bi, t)
  BY <1>7, <1>8 DEF Emitted
<1> QED
  BY <1>2, <1>6, <1>7, <1>9, EmitKeeps

\* A block that runs out of instructions glides into the next one, or
\* returns zero if it is the last.
LEMMA LowerFallthroughKeeps ==
  ASSUME PhaseInv, BlocksInv, LowerInv, LowerFallthrough
  PROVE  PhaseInv' /\ BlocksInv' /\ LowerInv'
<1>1. Lowering /\ ii > blocks[bi].hi
  BY DEF LowerFallthrough
<1>2. /\ ii = blocks[bi].hi + 1 /\ Underway /\ bi \in 1..Len(blocks) /\ Len(blocks) \in Nat
      /\ blocks[bi].hi \in Int /\ blocks[bi].lo \in Int
      /\ \A b \in 1..Len(blocks) : blocks[b].name \in Names
  <2>1. /\ ii \in blocks[bi].lo..(blocks[bi].hi + 1)  /\ Underway /\ bi \in 1..Len(blocks)
        /\ Len(blocks) \in Nat
        /\ blocks[bi].hi \in Int /\ blocks[bi].lo \in Int
        /\ \A b \in 1..Len(blocks) : blocks[b].name \in Names
    BY <1>1, LowerFacts
  <2> QED
    BY <1>1, <2>1
<1>3. /\ fpResWritten \/ NoneBefore(StoresResult, blocks[bi].hi + 1)
      /\ flagsWritten \/ NoneBefore(SetsFlags, blocks[bi].hi + 1)
  BY <1>2 DEF Underway
<1>4. EntryName \in Names /\ "glide" \in Kinds /\ "retzero" \in Kinds
  BY NameKinds DEF Kinds
<1>5. ASSUME NEW t \in Terms, EmitTerm(t), t.at = ii,
             \/ t.kind = "glide" /\ IsNext(bi, t.to)
             \/ t.kind = "retzero" /\ bi = Len(blocks),
             ii \in blocks[bi].lo..(blocks[bi].hi + 1),
             Plain(blocks[bi].lo, ii - 1)
      PROVE  PhaseInv' /\ BlocksInv' /\ LowerInv'
  <2>1. Falls(bi, t)
    BY <1>2, <1>5 DEF Falls
  <2>2. Emitted(bi, t)
    BY <1>5, <2>1 DEF Emitted
  <2> QED
    BY <1>1, <1>3, <1>5, <2>2, EmitKeeps
<1>6. CASE bi < Len(blocks)
  <2> DEFINE t == Term("glide", blocks[bi + 1].name, EntryName)
             next == blocks[bi + 1].name
  <2>1. next \in Names
    <3>1. bi + 1 \in 1..Len(blocks)
      BY <1>2, <1>6
    <3> QED
      BY <1>2, <3>1
  <2>2. EmitTerm(t)
    BY <1>6 DEF LowerFallthrough
  <2>3. t = Term("glide", next, EntryName)
    OBVIOUS
  <2>4. IsNext(bi, next)
    BY <1>6 DEF IsNext
  <2> HIDE DEF t, next
  <2>5. /\ t \in Terms /\ t.kind = "glide" /\ t.at = ii /\ t.to = next
        /\ ii \in blocks[bi].lo..(blocks[bi].hi + 1)
        /\ Plain(blocks[bi].lo, ii - 1)
    BY <1>1, <1>4, <2>1, <2>3, TermAt
  <2> QED
    BY <1>5, <2>2, <2>4, <2>5
<1>7. CASE bi >= Len(blocks)
  <2> DEFINE t == End("retzero")
  <2>1. EmitTerm(t) /\ bi = Len(blocks)
    BY <1>2, <1>7 DEF LowerFallthrough
  <2>2. t = Term("retzero", EntryName, EntryName)
    BY DEF End
  <2> HIDE DEF t
  <2>3. /\ t \in Terms /\ t.kind = "retzero" /\ t.at = ii
        /\ ii \in blocks[bi].lo..(blocks[bi].hi + 1)
        /\ Plain(blocks[bi].lo, ii - 1)
    BY <1>1, <1>4, <2>2, TermAt
  <2> QED
    BY <1>5, <2>1, <2>3
<1> QED
  BY <1>2, <1>6, <1>7

-----------------------------------------------------------------------------
(***************************************************************************)
(* Refusing.                                                               *)
(***************************************************************************)
\* The reasons for which a function may be refused.
Reason(i) ==
  \/ Tgt(i).kind = "pc" /\ i + Tgt(i).off \notin 1..N
  \/ /\ Op(i) \in CondBranches
     /\ i = N
     /\ \A k \in 1..Len(prog.labels) : prog.labels[k].at # N + 1
  \/ Op(i) \in FlagBranches /\ NoneBefore(SetsFlags, i)

\* A refused function has such a reason, and its blocks stay as they are.
LEMMA RejectKeeps ==
  ASSUME PhaseInv, BlocksInv, LowerInv, Lowering, Reject, NEW i \in 1..N, Reason(i)
  PROVE  PhaseInv' /\ BlocksInv' /\ LowerInv' /\ RejectsOnlyUntranslatable'
<1>1. /\ prog' = prog /\ blocks' = blocks /\ phase' = "error" /\ splitVars' = splitVars
      /\ bi' = bi /\ ii' = ii /\ ir' = ir
      /\ flagsWritten' = flagsWritten /\ fpResWritten' = fpResWritten
  BY DEF Reject, lowerVars
<1>2. PhaseInv' /\ BlocksInv'
  BY <1>1, KeepSplit DEF Lowering
<1>3. LowerInv'
  <2>1. \A k \in 1..Len(ir') : Emitted(k, ir[k])'
    BY <1>1, KeepLower DEF LowerInv
  <2>2. bi \in 1..Len(blocks) /\ Underway
    BY LowerFacts
  <2>3. Underway'
    BY <1>1, <2>2, KeepLower DEF Underway
  <2> QED
    BY <1>1, <2>1, <2>3 DEF LowerInv
<1>4. RejectsOnlyUntranslatable'
  <2>1. RejectsOnlyUntranslatable' <=>
          (phase = "error" => \E j \in 1..N :
              \/ Tgt(j).kind = "pc" /\ j + Tgt(j).off \notin 1..N
              \/ /\ Op(j) \in CondBranches
                 /\ j = N
                 /\ \A k \in 1..Len(prog.labels) : prog.labels[k].at # N + 1
              \/ /\ Op(j) \in FlagBranches
                 /\ \A m \in 1..(j - 1) : Op(m) \in SetsFlags => AfterUndef(m))'
    BY DEF RejectsOnlyUntranslatable
  <2>2. /\ Tgt(i)' = Tgt(i) /\ Op(i)' = Op(i) /\ Arch' = Arch /\ N' = N
        /\ CondBranches' = CondBranches /\ FlagBranches' = FlagBranches
        /\ SetsFlags' = SetsFlags
        /\ \A j : Op(j)' = Op(j)
        /\ \A j : AfterUndef(j)' <=> AfterUndef(j)
    BY <1>1, Keep, KeepUndef DEF SetsFlags
  <2>3. CASE Tgt(i).kind = "pc" /\ i + Tgt(i).off \notin 1..N
    BY <2>1, <2>2, <2>3
  <2>4. CASE /\ Op(i) \in CondBranches
             /\ i = N
             /\ \A k \in 1..Len(prog.labels) : prog.labels[k].at # N + 1
    BY <1>1, <2>1, <2>2, <2>4
  <2>5. CASE Op(i) \in FlagBranches /\ NoneBefore(SetsFlags, i)
    <3>1. \A m \in 1..(i - 1) : (Op(m) \in SetsFlags => AfterUndef(m))'
      BY <2>2, <2>5 DEF NoneBefore
    <3> QED
      BY <2>1, <2>2, <2>5, <3>1
  <2> QED
    BY <2>3, <2>4, <2>5 DEF Reason
<1> QED
  BY <1>2, <1>3, <1>4

\* A jump is refused only for its target.
LEMMA JumpRefused ==
  ASSUME PhaseInv, BlocksInv, LowerInv, LowerJump, phase' = "error"
  PROVE  /\ Lowering /\ Reject
         /\ \E i \in 1..N : Reason(i)
<1>1. AtInstr /\ Op(ii) \in Jumps
  BY DEF LowerJump
<1>2. Lowering /\ ii \in 1..N /\ phase = "lower"
  BY <1>1, AtFacts DEF Lowering
<1>3. Tgt(ii).kind # "sym" /\ ~JumpsThroughPC(ii) /\ BranchTarget = {} /\ Reject
  BY <1>2 DEF LowerJump, EmitTerm
<1>4. Reason(ii)
  BY <1>1, <1>3, BranchFinds DEF Reason
<1> QED
  BY <1>2, <1>3, <1>4

\* A conditional branch is refused for its target, for a flag nobody has
\* written, or because nothing follows it.
LEMMA CondRefused ==
  ASSUME PhaseInv, BlocksInv, LowerInv, LowerCond, phase' = "error"
  PROVE  /\ Lowering /\ Reject
         /\ \E i \in 1..N : Reason(i)
<1>1. AtInstr /\ Op(ii) \in CondBranches
  BY DEF LowerCond
<1>2. /\ Lowering /\ ii \in 1..N /\ ii \in Int /\ phase = "lower" /\ ii = blocks[bi].hi
      /\ prog \in Programs /\ N \in Nat /\ li = N /\ nl = Len(prog.labels)
      /\ bi \in 1..Len(blocks) /\ Len(blocks) \in Nat /\ blocks[Len(blocks)].hi = N
      /\ Underway
  BY <1>1, AtFacts, LowerFacts DEF Lowering
<1>3. /\ Reject
      /\ \/ Arch \notin X86 /\ Op(ii) \in FlagBranches /\ ~flagsWritten
         \/ BranchTarget = {}
         \/ NextName = {}
  BY <1>2 DEF LowerCond, EmitTerm
<1>4. CASE Op(ii) \in FlagBranches /\ ~flagsWritten
  <2>1. NoneBefore(SetsFlags, ii)
    BY <1>2, <1>4 DEF Underway
  <2> QED
    BY <1>2, <1>3, <1>4, <2>1 DEF Reason
<1>5. CASE BranchTarget = {}
  <2>1. Tgt(ii).kind # "sym" /\ ~JumpsThroughPC(ii)
    BY <1>1, <1>2, OpFacts DEF JumpsThroughPC
  <2>2. Reason(ii)
    BY <1>1, <1>5, <2>1, BranchFinds DEF Reason
  <2>3. Lowering /\ ii \in 1..N
    BY <1>2
  <2>4. \E i \in 1..N : Reason(i)
    BY <2>2, <2>3
  <2> QED
    BY <1>3, <2>3, <2>4
<1>6. CASE NextName = {}
  <2>1. bi = Len(blocks)
    <3>1. ASSUME bi < Len(blocks) PROVE FALSE
      <4>1. blocks[bi + 1].name \in NextName
        BY <3>1 DEF NextName
      <4> QED
        BY <1>6, <4>1
    <3> QED
      BY <1>2, <3>1
  <2>2. ii = N
    BY <1>2, <2>1
  <2>3. Found(blocks, N, nl) /\ Chain(blocks, N)
    BY <1>2 DEF BlocksInv, Blocks
  <2>4. \A b \in 1..Len(blocks) : blocks[b].lo <= N /\ blocks[b].lo \in Int
    <3>1. /\ ii \in blocks[bi].lo..(blocks[bi].hi + 1) /\ blocks[bi].lo \in Int
          /\ \A b \in 1..Len(blocks) : blocks[b].lo \in Int
      BY <1>2, LowerFacts
    <3>2. blocks[Len(blocks)].lo <= N
      BY <1>2, <2>1, <2>2, <3>1
    <3> QED
      BY <1>2, <2>3, <3>1, <3>2, StartsInFront
  <2>5. ASSUME NEW k \in 1..Len(prog.labels), prog.labels[k].at = N + 1
        PROVE  FALSE
    <3>1. PICK b \in 1..Len(blocks) : blocks[b].lo = prog.labels[k].at
      BY <1>2, <2>3 DEF Found
    <3> QED
      BY <1>2, <2>4, <2>5, <3>1
  <2> QED
    BY <1>1, <1>2, <1>3, <2>2, <2>5 DEF Reason
<1> QED
  BY <1>3, <1>4, <1>5, <1>6

-----------------------------------------------------------------------------
(***************************************************************************)
(* From one phase to the next.                                             *)
(***************************************************************************)
\* Before the run both machines stand at the first instruction.
LEMMA RunKept ==
  ASSUME RunInv, phase # "run", phase' # "run", runVars' = runVars
  PROVE  RunInv'
BY DEF RunInv, runVars

\* While splitting nothing is lowered: the first instruction stays the next.
LEMMA SplitKeepsLower ==
  ASSUME PhaseInv, BlocksInv, LowerInv, PhaseInv', BlocksInv', phase = "split",
         prog' = prog, lowerVars' = lowerVars
  PROVE  LowerInv'
<1>1. /\ bi' = 1 /\ ii' = 1 /\ ir' = ir /\ ir \in Seq(Terms) /\ Len(ir) = 0
      /\ flagsWritten' = flagsWritten /\ fpResWritten' = fpResWritten
  BY DEF LowerInv, lowerVars
<1>2. /\ blocks' \in Seq(Block) /\ Len(blocks') >= 1
      /\ blocks'[1].lo = 1 /\ blocks'[1].lo <= blocks'[1].hi + 1
      /\ blocks'[1] \in Block
  <2>1. Chain(blocks, li)'
    BY DEF BlocksInv, Blocks
  <2>2. /\ blocks' \in Seq(Block) /\ Len(blocks') >= 1 /\ blocks'[1].lo = 1
        /\ \A b \in 1..Len(blocks') : blocks'[b].lo <= blocks'[b].hi + 1
    BY <2>1 DEF Chain
  <2>3. Len(blocks') \in Nat /\ 1 \in 1..Len(blocks')
    BY <2>2, LenProperties
  <2> QED
    BY <2>2, <2>3, ElementOfSeq
<1>3. Len(blocks') \in Nat
  BY <1>2, LenProperties
<1>4. Underway'
  <2>1. ii' \in blocks'[bi'].lo..(blocks'[bi'].hi + 1)
    BY <1>1, <1>2 DEF Block
  <2>2. Plain(blocks[bi].lo, ii - 1)'
    BY <1>1, <1>2 DEF Plain
  <2>3. \A ops : NoneBefore(ops, ii)'
    BY <1>1 DEF NoneBefore
  <2>4. NoneBefore(StoresResult, ii)' /\ NoneBefore(SetsFlags, ii)'
    BY <1>1 DEF NoneBefore
  <2> QED
    BY <2>1, <2>2, <2>4 DEF Underway
<1> QED
  BY <1>1, <1>3, <1>4 DEF LowerInv

\* Whatever leaves the function, its blocks and its terminators alone keeps
\* what is known of them once lowering has begun.
LEMMA KeepLowered ==
  ASSUME PhaseInv, BlocksInv, LowerInv, phase # "split", phase' \in {"lower", "run", "refused"},
         prog' = prog, blocks' = blocks, splitVars' = splitVars, lowerVars' = lowerVars
  PROVE  PhaseInv' /\ BlocksInv' /\ LowerInv'
<1>1. PhaseInv' /\ BlocksInv'
  BY KeepSplit
<1>2. /\ bi' = bi /\ ii' = ii /\ ir' = ir
      /\ flagsWritten' = flagsWritten /\ fpResWritten' = fpResWritten
  BY DEF lowerVars
<1>3. \A k \in 1..Len(ir') : Emitted(k, ir[k])'
  BY <1>2, KeepLower DEF LowerInv
<1>4. bi <= Len(blocks) => Underway'
  BY <1>2, KeepLower DEF LowerInv, Underway
<1> QED
  BY <1>1, <1>2, <1>3, <1>4 DEF LowerInv

\* Every terminator stands in its block or right behind it.
LEMMA TermFacts ==
  ASSUME PhaseInv, BlocksInv, LowerInv, phase # "split", bi = Len(blocks) + 1
  PROVE  /\ prog \in Programs /\ N \in Nat /\ Len(blocks) \in Nat /\ Len(blocks) >= 1
         /\ li = N /\ nl = Len(prog.labels) /\ Chain(blocks, N)
         /\ Len(ir) = Len(blocks)
         /\ \A b \in 1..Len(blocks) :
              /\ blocks[b].lo \in Int /\ blocks[b].hi \in Int
              /\ blocks[b].lo >= 1 /\ blocks[b].hi <= N
              /\ ir[b] \in Terms /\ ir[b].at \in Int
              /\ ir[b].at \in blocks[b].lo..(blocks[b].hi + 1)
              /\ Emitted(b, ir[b])
<1>1. /\ prog \in Programs /\ N \in Nat /\ li = N /\ nl = Len(prog.labels)
      /\ Chain(blocks, N)
  BY ProgramFacts DEF PhaseInv, BlocksInv, Blocks
<1>2. /\ Len(blocks) \in Nat /\ Len(blocks) >= 1
      /\ \A b \in 1..Len(blocks) : /\ blocks[b].lo \in Int /\ blocks[b].hi \in Int
                                   /\ blocks[b].hi <= N /\ blocks[b].lo >= 1
  BY <1>1, ChainFacts
<1>3. Len(ir) = Len(blocks) /\ ir \in Seq(Terms)
  BY <1>2 DEF LowerInv
<1>4. \A b \in 1..Len(blocks) : ir[b] \in Terms /\ Emitted(b, ir[b])
  BY <1>3, ElementOfSeq DEF LowerInv
<1>5. \A b \in 1..Len(blocks) : ir[b].at \in Int /\ ir[b].at \in blocks[b].lo..(blocks[b].hi + 1)
  BY <1>4 DEF Terms, Emitted
<1> QED
  BY <1>1, <1>2, <1>3, <1>4, <1>5

\* Labels that verify go on to do so while nothing is emitted.
LEMMA VerifyKept ==
  ASSUME prog' = prog, blocks' = blocks, ir' = ir
  PROVE  LabelsVerify' <=> LabelsVerify
<1>1. \A name : LLVMBlockName(name)' = LLVMBlockName(name)
  BY DEF LLVMBlockName
<1>2. \A name : DefinedOnce(name)' <=> DefinedOnce(name)
  BY <1>1 DEF DefinedOnce
<1>3. \A t : TermTargets(t)' = TermTargets(t)
  BY DEF TermTargets
<1> QED
  BY <1>1, <1>2, <1>3 DEF LabelsVerify

\* The run begins with both machines at the first instruction.
LEMMA LowerDoneKeeps ==
  ASSUME PhaseInv, BlocksInv, LowerInv, RunInv, LowerDone
  PROVE  PhaseInv' /\ BlocksInv' /\ LowerInv' /\ RunInv' /\ VerifyInv'
<1>1. /\ phase = "lower" /\ phase' \in {"run", "refused"} /\ bi > Len(blocks)
      /\ phase' = "run" => LabelsVerify
      /\ prog' = prog /\ blocks' = blocks /\ splitVars' = splitVars
      /\ lowerVars' = lowerVars /\ runVars' = runVars
  BY DEF LowerDone
<1>2. PhaseInv' /\ BlocksInv' /\ LowerInv'
  BY <1>1, KeepLowered
<1>3. bi = Len(blocks) + 1
  <2>1. Len(blocks) \in Nat
    BY SplitFacts
  <2> QED
    BY <1>1, <2>1 DEF LowerInv
<1>4. /\ Len(blocks) \in Nat /\ Len(blocks) >= 1
      /\ blocks[1].lo = 1 /\ ir[1].at \in Int
      /\ ir[1].at \in blocks[1].lo..(blocks[1].hi + 1)
  <2>1. /\ Len(blocks) \in Nat /\ Len(blocks) >= 1 /\ Chain(blocks, N)
        /\ \A b \in 1..Len(blocks) : /\ ir[b].at \in Int
                                     /\ ir[b].at \in blocks[b].lo..(blocks[b].hi + 1)
    BY <1>1, <1>3, TermFacts
  <2>2. 1 \in 1..Len(blocks)
    BY <2>1
  <2> QED
    BY <2>1, <2>2 DEF Chain
<1>5. /\ srcPc' = 1 /\ lowPc' = 1 /\ lowBlk' = 1 /\ srcHow' = "run" /\ lowHow' = "run"
      /\ ir' = ir /\ bi' = bi
  BY <1>1 DEF RunInv, runVars, lowerVars
<1>6. 1 \in blocks[1].lo..ir[1].at
  <2>1. blocks[1].lo \in Int /\ blocks[1].hi \in Int
    BY <1>1, <1>3, <1>4, TermFacts
  <2> QED
    BY <1>4, <2>1
<1>7. Together'
  BY <1>1, <1>4, <1>5, <1>6 DEF Together
<1>8. RunInv'
  BY <1>1, <1>5, <1>7 DEF RunInv
<1>9. VerifyInv'
  BY <1>1, <1>3, <1>5, VerifyKept DEF VerifyInv
<1> QED
  BY <1>2, <1>8, <1>9

-----------------------------------------------------------------------------
(***************************************************************************)
(* Running.                                                                *)
(***************************************************************************)
\* A branch of the source goes to one place only.
LEMMA TargetOnce ==
  ASSUME prog \in Programs, NEW i \in 1..N, NEW p \in SrcTargets(i), NEW q \in SrcTargets(i)
  PROVE  p = q
<1>1. CASE Tgt(i).kind = "label"
  <2>1. p \in LabelAt(Tgt(i).label) /\ q \in LabelAt(Tgt(i).label)
    BY <1>1 DEF SrcTargets
  <2>2. PICK j \in 1..Len(prog.labels) : prog.labels[j].name = Tgt(i).label /\ prog.labels[j].at = p
    BY <2>1 DEF LabelAt
  <2>3. PICK k \in 1..Len(prog.labels) : prog.labels[k].name = Tgt(i).label /\ prog.labels[k].at = q
    BY <2>1 DEF LabelAt
  <2>4. j = k
    BY <2>2, <2>3, ProgramFacts
  <2> QED
    BY <2>2, <2>3, <2>4
<1>2. CASE Tgt(i).kind # "label"
  BY <1>2 DEF SrcTargets
<1> QED
  BY <1>1, <1>2

\* Where labels verify, LLVM takes a branch to the block the translator meant.
LEMMA GoesTo ==
  ASSUME LabelsVerify, NEW a \in 1..Len(blocks), NEW name, name = blocks[a].name,
         LowGoto(name)
  PROVE  lowBlk' = a /\ lowPc' = blocks[a].lo /\ lowHow' = lowHow
<1>1. PICK b \in 1..Len(blocks) : /\ LLVMBlockName(blocks[b].name) = LLVMBlockName(name)
                                  /\ lowBlk' = b /\ lowPc' = blocks[b].lo
  BY DEF LowGoto
<1>2. DefinedOnce(name)
  BY DEF LabelsVerify
<1>3. PICK c \in 1..Len(blocks) :
        {d \in 1..Len(blocks) : LLVMBlockName(blocks[d].name) = LLVMBlockName(name)} = {c}
  BY <1>2 DEF DefinedOnce
<1>4. a = c /\ b = c
  BY <1>1, <1>3
<1>5. lowHow' = lowHow
  BY DEF LowGoto
<1> QED
  BY <1>1, <1>4, <1>5

\* What is known while both machines run.
LEMMA RunFacts ==
  ASSUME PhaseInv, BlocksInv, LowerInv, RunInv, VerifyInv, Running
  PROVE  /\ phase = "run" /\ bi = Len(blocks) + 1
         /\ prog \in Programs /\ N \in Nat /\ Len(blocks) \in Nat /\ Chain(blocks, N)
         /\ srcPc = lowPc /\ lowPc \in Int /\ lowBlk \in 1..Len(blocks)
         /\ blocks[lowBlk].lo \in Int /\ blocks[lowBlk].hi \in Int
         /\ blocks[lowBlk].lo >= 1 /\ blocks[lowBlk].hi <= N
         /\ ir[lowBlk].at \in Int /\ Emitted(lowBlk, ir[lowBlk])
         /\ lowPc \in blocks[lowBlk].lo..ir[lowBlk].at
         /\ ir[lowBlk].at <= blocks[lowBlk].hi + 1
<1>1. /\ phase = "run" /\ srcHow = "run" /\ bi = Len(blocks) + 1 /\ Together
  BY DEF Running, RunInv, VerifyInv
<1>2. /\ srcPc = lowPc /\ lowBlk \in 1..Len(blocks)
      /\ lowPc \in blocks[lowBlk].lo..ir[lowBlk].at
  BY <1>1 DEF Together
<1>3. /\ prog \in Programs /\ N \in Nat /\ Len(blocks) \in Nat /\ Chain(blocks, N)
      /\ blocks[lowBlk].lo \in Int /\ blocks[lowBlk].hi \in Int
      /\ blocks[lowBlk].lo >= 1 /\ blocks[lowBlk].hi <= N
      /\ ir[lowBlk].at \in Int /\ Emitted(lowBlk, ir[lowBlk])
      /\ ir[lowBlk].at \in blocks[lowBlk].lo..(blocks[lowBlk].hi + 1)
  BY <1>1, <1>2, TermFacts
<1>4. lowPc \in Int /\ ir[lowBlk].at <= blocks[lowBlk].hi + 1
  BY <1>2, <1>3
<1> QED
  BY <1>1, <1>2, <1>3, <1>4

\* A block is entered at its first instruction, no further than its
\* terminator.
LEMMA Entered ==
  ASSUME PhaseInv, BlocksInv, LowerInv, phase = "run", bi = Len(blocks) + 1,
         NEW b \in 1..Len(blocks),
         prog' = prog, phase' = phase, blocks' = blocks, lowerVars' = lowerVars,
         lowBlk' = b, lowPc' = blocks[b].lo, srcPc' = blocks[b].lo,
         srcHow' = "run", lowHow' = "run"
  PROVE  RunInv'
<1>1. ir' = ir /\ bi' = bi
  BY DEF lowerVars
<1>2. /\ ir[b].at \in blocks[b].lo..(blocks[b].hi + 1)
      /\ blocks[b].lo \in Int /\ blocks[b].hi \in Int
  BY TermFacts
<1>3. blocks[b].lo \in blocks[b].lo..ir[b].at
  BY <1>2
<1>4. Together'
  BY <1>1, <1>3 DEF Together
<1> QED
  BY <1>1, <1>4 DEF RunInv

\* The branch between two blocks: the source does not move.
LEMMA GlideKeeps ==
  ASSUME PhaseInv, BlocksInv, LowerInv, RunInv, VerifyInv, Glide
  PROVE  PhaseInv' /\ BlocksInv' /\ LowerInv' /\ RunInv'
<1>1. /\ Running /\ AtGlide /\ LowGoto(ir[lowBlk].to)
      /\ prog' = prog /\ phase' = phase /\ splitVars' = splitVars /\ blocks' = blocks
      /\ lowerVars' = lowerVars /\ srcPc' = srcPc /\ srcHow' = srcHow
  BY DEF Glide
<1>2. /\ phase = "run" /\ bi = Len(blocks) + 1 /\ Len(blocks) \in Nat /\ Chain(blocks, N)
      /\ N \in Nat
      /\ srcPc = lowPc /\ lowBlk \in 1..Len(blocks) /\ Emitted(lowBlk, ir[lowBlk])
  BY <1>1, RunFacts
<1>3. PhaseInv' /\ BlocksInv' /\ LowerInv'
  BY <1>1, <1>2, KeepLowered
<1>4. /\ ir[lowBlk].at = blocks[lowBlk].hi + 1 /\ IsNext(lowBlk, ir[lowBlk].to)
      /\ lowPc = ir[lowBlk].at
  BY <1>1, <1>2 DEF AtGlide, Emitted, Falls, Jumped, Forked, Returned, Left
<1> DEFINE b == lowBlk + 1
<1>5. b = lowBlk + 1 /\ b \in 1..Len(blocks) /\ ir[lowBlk].to = blocks[b].name
  BY <1>2, <1>4 DEF IsNext
<1> HIDE DEF b
<1>6. lowBlk' = b /\ lowPc' = blocks[b].lo
  BY <1>1, <1>2, <1>5, GoesTo DEF VerifyInv
<1>7. blocks[b].lo = srcPc
  <2>1. lowBlk \in 1..(Len(blocks) - 1)
    BY <1>2, <1>4 DEF IsNext
  <2>2. blocks[lowBlk + 1].lo = blocks[lowBlk].hi + 1
    BY <1>2, <2>1, ChainFacts
  <2> QED
    BY <1>2, <1>4, <1>5, <2>2
<1>8. srcHow' = "run" /\ lowHow' = "run"
  BY <1>1 DEF Running, LowGoto
<1>9. RunInv'
  BY <1>1, <1>2, <1>5, <1>6, <1>7, <1>8, Entered
<1> QED
  BY <1>3, <1>9

\* Inside the text the source executes the instruction it stands at.
LEMMA SrcInside ==
  ASSUME prog \in Programs, srcPc \in 1..N, NEW taken \in BOOLEAN, SrcStep(taken)
  PROVE  SrcInstr(taken)
<1>1. srcPc <= N /\ ~(srcPc > N)
  BY ProgramFacts
<1> QED
  BY <1>1 DEF SrcStep

\* Where the source goes at an instruction that ends no block.
LEMMA SrcPlain ==
  ASSUME prog \in Programs, srcPc \in 1..N, Op(srcPc) \notin LowerTerms,
         NEW taken \in BOOLEAN, SrcStep(taken)
  PROVE  srcHow' = "run" /\ srcPc' = srcPc + 1
<1>1. Op(srcPc) \notin {"RET", "UNDEF"} \cup Jumps \cup CondBranches
  BY OpFacts
<1>2. SrcInstr(taken)
  BY SrcInside
<1> QED
  BY <1>1, <1>2 DEF SrcInstr, SrcTail, SrcBranches, SrcGoto

\* Where the source goes at a branch: to its target, and nowhere else.
LEMMA SrcBranch ==
  ASSUME prog \in Programs, srcPc \in 1..N, Tgt(srcPc).kind # "sym",
         NEW taken \in BOOLEAN, SrcStep(taken),
         Op(srcPc) \in Jumps \/ (Op(srcPc) \in CondBranches /\ taken)
  PROVE  srcHow' = "run" /\ srcPc' \in SrcTargets(srcPc)
<1>1. SrcBranches(taken) /\ ~SrcTail
  BY DEF SrcBranches, SrcTail
<1>2. Op(srcPc) \notin {"RET", "UNDEF"}
  BY OpFacts
<1>3. SrcInstr(taken)
  BY SrcInside
<1> QED
  BY <1>1, <1>2, <1>3 DEF SrcInstr, SrcGoto

\* Where the source goes at a conditional branch that is not taken.
LEMMA SrcForkPast ==
  ASSUME prog \in Programs, srcPc \in 1..N, Op(srcPc) \in CondBranches,
         SrcStep(FALSE)
  PROVE  srcHow' = "run" /\ srcPc' = srcPc + 1
<1>1. Op(srcPc) \notin {"RET", "UNDEF"} /\ Op(srcPc) \notin Jumps
  BY OpFacts
<1>2. ~SrcBranches(FALSE) /\ ~SrcTail
  BY <1>1 DEF SrcBranches, SrcTail
<1>3. SrcInstr(FALSE)
  BY SrcInside
<1> QED
  BY <1>1, <1>2, <1>3 DEF SrcInstr, SrcGoto

\* Where the source ends.
LEMMA SrcLeaves ==
  ASSUME prog \in Programs, srcPc \in 1..N, NEW taken \in BOOLEAN, SrcStep(taken)
  PROVE  /\ Op(srcPc) = "RET" /\ Tgt(srcPc).kind # "sym" => SrcEnd("ret")
         /\ Op(srcPc) \in {"RET"} \cup Jumps /\ Tgt(srcPc).kind = "sym" => SrcEnd("tail")
         /\ Op(srcPc) = "UNDEF" => SrcEnd("undef")
<1>1. SrcInstr(taken)
  BY SrcInside
<1>2. /\ Op(srcPc) \in Jumps => Op(srcPc) \notin {"RET", "UNDEF"} \cup CondBranches
      /\ Op(srcPc) \in CondBranches => Op(srcPc) \notin {"RET", "UNDEF"}
  BY OpFacts
<1>3. CASE Op(srcPc) = "RET" /\ Tgt(srcPc).kind # "sym"
  <2>1. ~SrcTail /\ ~SrcBranches(taken)
    BY <1>2, <1>3 DEF SrcTail, SrcBranches
  <2> QED
    BY <1>1, <1>3, <2>1 DEF SrcInstr
<1>4. CASE Op(srcPc) \in {"RET"} \cup Jumps /\ Tgt(srcPc).kind = "sym"
  <2>1. SrcTail /\ ~SrcBranches(taken) /\ Op(srcPc) # "UNDEF"
    BY <1>2, <1>4 DEF SrcTail, SrcBranches
  <2> QED
    BY <1>1, <1>4, <2>1 DEF SrcInstr
<1>5. CASE Op(srcPc) = "UNDEF"
  <2>1. Op(srcPc) # "RET" /\ Op(srcPc) \notin Jumps /\ Op(srcPc) \notin CondBranches
    BY <1>2, <1>5
  <2>2. ~SrcTail /\ ~SrcBranches(taken)
    BY <2>1 DEF SrcTail, SrcBranches
  <2> QED
    BY <1>1, <1>5, <2>1, <2>2 DEF SrcInstr
<1> QED
  BY <1>3, <1>4, <1>5

\* A branch of the lowered function to a block that starts where the source
\* goes: both machines enter it.
LEMMA BranchTogether ==
  ASSUME PhaseInv, BlocksInv, LowerInv, LabelsVerify, phase = "run", bi = Len(blocks) + 1,
         srcPc \in 1..N, NEW dest, Leads(srcPc, dest), LowGoto(dest), lowHow = "run",
         srcHow' = "run", srcPc' \in SrcTargets(srcPc),
         prog' = prog, phase' = phase, blocks' = blocks, lowerVars' = lowerVars
  PROVE  RunInv'
<1>1. PICK a \in 1..Len(blocks) : blocks[a].name = dest /\ blocks[a].lo \in SrcTargets(srcPc)
  BY DEF Leads
<1>2. lowBlk' = a /\ lowPc' = blocks[a].lo /\ lowHow' = "run"
  BY <1>1, GoesTo
<1>3. prog \in Programs
  BY DEF PhaseInv
<1>4. srcPc' = blocks[a].lo
  BY <1>1, <1>3, TargetOnce
<1> QED
  BY <1>2, <1>4, Entered

\* A branch of the lowered function past the instruction that ends the block.
LEMMA PastTogether ==
  ASSUME PhaseInv, BlocksInv, LowerInv, LabelsVerify, phase = "run", bi = Len(blocks) + 1,
         lowBlk \in 1..Len(blocks), srcPc = blocks[lowBlk].hi,
         NEW next, IsNext(lowBlk, next), LowGoto(next), lowHow = "run",
         srcHow' = "run", srcPc' = srcPc + 1,
         prog' = prog, phase' = phase, blocks' = blocks, lowerVars' = lowerVars
  PROVE  RunInv'
<1>1. Len(blocks) \in Nat /\ N \in Nat /\ Chain(blocks, N)
  BY TermFacts
<1> DEFINE b == lowBlk + 1
<1>2. b = lowBlk + 1 /\ b \in 1..Len(blocks) /\ next = blocks[b].name
  BY <1>1 DEF IsNext
<1> HIDE DEF b
<1>3. lowBlk' = b /\ lowPc' = blocks[b].lo /\ lowHow' = "run"
  BY <1>2, GoesTo
<1>4. srcPc' = blocks[b].lo
  <2>1. lowBlk \in 1..(Len(blocks) - 1)
    BY <1>1 DEF IsNext
  <2>2. blocks[lowBlk + 1].lo = blocks[lowBlk].hi + 1
    BY <1>1, <2>1, ChainFacts
  <2> QED
    BY <1>2, <2>2
<1> QED
  BY <1>2, <1>3, <1>4, Entered

\* Both machines end in the same way; a value returned from a register had no
\* store in front of it.
LEMMA EndTogether ==
  ASSUME phase = "run", bi = Len(blocks) + 1, prog' = prog, phase' = phase,
         blocks' = blocks, lowerVars' = lowerVars,
         NEW how, how # "run", SrcEnd(how), NEW from, LowEnd(how, from),
         how = "ret" => from = "slot" \/ NoneBefore(StoresResult, srcPc)
  PROVE  RunInv'
<1>1. phase' = "run"
  OBVIOUS
<1>2. srcHow' = how /\ lowHow' = how /\ srcPc' = srcPc /\ retFrom' = from
  BY DEF SrcEnd, LowEnd
<1>3. Together'
  BY <1>2 DEF Together
<1>4. (lowHow = "ret" => retFrom = "slot" \/ NoneBefore(StoresResult, srcPc))'
  BY <1>2, KeepUndef DEF NoneBefore, StoresResult
<1> QED
  BY <1>1, <1>3, <1>4 DEF RunInv

\* What the lowered machine does at the terminator of its block.
LEMMA LowAtTerm ==
  ASSUME PhaseInv, BlocksInv, LowerInv, RunInv, VerifyInv, Running, lowPc = ir[lowBlk].at,
         NEW taken \in BOOLEAN, LowStep(taken)
  PROVE  LowTerm(ir[lowBlk], taken)
<1>1. ~(lowPc < ir[lowBlk].at)
  BY RunFacts
<1> QED
  BY <1>1 DEF LowStep

\* One instruction: in front of the terminator both machines go on to the
\* next; at the terminator they go, or end, as it says.
LEMMA ExecKeeps ==
  ASSUME PhaseInv, BlocksInv, LowerInv, RunInv, VerifyInv, NEW taken \in BOOLEAN, Exec(taken)
  PROVE  PhaseInv' /\ BlocksInv' /\ LowerInv' /\ RunInv'
<1> DEFINE t == ir[lowBlk]
<1>1. /\ Running /\ ~AtGlide /\ SrcStep(taken) /\ LowStep(taken)
      /\ prog' = prog /\ phase' = phase /\ splitVars' = splitVars /\ blocks' = blocks
      /\ lowerVars' = lowerVars
  BY DEF Exec
<1>2. /\ phase = "run" /\ bi = Len(blocks) + 1 /\ srcHow = "run" /\ lowHow = "run"
      /\ prog \in Programs /\ N \in Nat /\ Len(blocks) \in Nat /\ Chain(blocks, N)
      /\ srcPc = lowPc /\ lowPc \in Int /\ lowBlk \in 1..Len(blocks)
      /\ blocks[lowBlk].lo \in Int /\ blocks[lowBlk].hi \in Int
      /\ blocks[lowBlk].lo >= 1 /\ blocks[lowBlk].hi <= N
      /\ t.at \in Int /\ Emitted(lowBlk, t)
      /\ lowPc \in blocks[lowBlk].lo..t.at
      /\ t.at <= blocks[lowBlk].hi + 1
  BY <1>1, RunFacts DEF Running
<1>7. LabelsVerify
  BY <1>2 DEF VerifyInv
<1>3. PhaseInv' /\ BlocksInv' /\ LowerInv'
  BY <1>1, <1>2, KeepLowered
<1>4. ASSUME lowPc < t.at
      PROVE  RunInv'
  <2>1. srcPc \in 1..N /\ srcPc \in blocks[lowBlk].lo..(t.at - 1)
    <3>1. /\ srcPc = lowPc /\ lowPc \in Int /\ t.at \in Int /\ N \in Nat
          /\ lowPc \in blocks[lowBlk].lo..t.at
          /\ blocks[lowBlk].lo \in Int /\ blocks[lowBlk].hi \in Int
          /\ blocks[lowBlk].lo >= 1 /\ blocks[lowBlk].hi <= N
          /\ t.at <= blocks[lowBlk].hi + 1
      BY <1>2
    <3> HIDE DEF t
    <3> QED
      BY <1>4, <3>1
  <2>2. Op(srcPc) \notin LowerTerms
    BY <1>2, <2>1 DEF Emitted, Plain
  <2>3. srcHow' = "run" /\ srcPc' = srcPc + 1
    BY <1>1, <1>2, <2>1, <2>2, SrcPlain
  <2>4. lowPc' = lowPc + 1 /\ lowBlk' = lowBlk /\ lowHow' = lowHow
    BY <1>1, <1>2, <1>4 DEF LowStep
  <2>5. lowPc + 1 \in blocks[lowBlk].lo..t.at
    BY <1>2, <1>4
  <2>6. ir' = ir /\ bi' = bi
    BY <1>1 DEF lowerVars
  <2>7. Together'
    BY <1>1, <1>2, <2>3, <2>4, <2>5, <2>6 DEF Together
  <2> QED
    BY <1>1, <1>2, <2>4, <2>6, <2>7 DEF RunInv
<1>5. ASSUME lowPc = t.at
      PROVE  RunInv'
  <2>1. LowTerm(t, taken)
    BY <1>1, <1>5, LowAtTerm
  <2>2. \/ Falls(lowBlk, t) \/ Jumped(lowBlk, t) \/ Forked(lowBlk, t)
        \/ Returned(lowBlk, t) \/ Left(lowBlk, t)
    BY <1>2 DEF Emitted
  <2>3. srcPc = t.at /\ ~(t.kind = "glide")
    BY <1>1, <1>2, <1>5 DEF AtGlide
  <2>4. t.at <= blocks[lowBlk].hi => srcPc \in 1..N
    BY <1>2, <1>5
  <2> HIDE DEF t
  <2>5. CASE Falls(lowBlk, t)
    <3>1. t.kind = "retzero" /\ lowBlk = Len(blocks) /\ srcPc = blocks[lowBlk].hi + 1
      BY <2>3, <2>5 DEF Falls
    <3>2. srcPc > N /\ ~(srcPc <= N)
      BY <1>2, <3>1, ChainFacts
    <3>3. SrcEnd("off")
      BY <1>1, <3>2 DEF SrcStep
    <3>4. LowEnd("off", "none")
      BY <2>1, <3>1 DEF LowTerm
    <3> QED
      BY <1>1, <1>2, <3>3, <3>4, EndTogether
  <2>6. CASE Jumped(lowBlk, t)
    <3>1. /\ t.kind = "br" /\ t.at = blocks[lowBlk].hi
          /\ Op(srcPc) \in Jumps /\ Tgt(srcPc).kind # "sym" /\ Leads(srcPc, t.to)
      BY <2>3, <2>6 DEF Jumped
    <3>2. srcPc \in 1..N
      BY <1>2, <2>4, <3>1
    <3>3. srcHow' = "run" /\ srcPc' \in SrcTargets(srcPc)
      BY <1>1, <1>2, <3>1, <3>2, SrcBranch
    <3>4. LowGoto(t.to)
      BY <2>1, <3>1 DEF LowTerm
    <3> QED
      BY <1>1, <1>2, <1>7, <3>1, <3>2, <3>3, <3>4, BranchTogether
  <2>7. CASE Forked(lowBlk, t)
    <3>1. /\ t.kind = "condbr" /\ t.at = blocks[lowBlk].hi
          /\ Op(srcPc) \in CondBranches /\ Leads(srcPc, t.to) /\ IsNext(lowBlk, t.fall)
      BY <2>3, <2>7 DEF Forked
    <3>2. srcPc \in 1..N
      BY <1>2, <2>4, <3>1
    <3>3. LowGoto(IF taken THEN t.to ELSE t.fall)
      BY <2>1, <3>1 DEF LowTerm
    <3>4. CASE taken
      <4>1. Tgt(srcPc).kind # "sym"
        BY <1>2, <3>1, <3>2, OpFacts
      <4>2. srcHow' = "run" /\ srcPc' \in SrcTargets(srcPc)
        BY <1>1, <1>2, <3>1, <3>2, <3>4, <4>1, SrcBranch
      <4> QED
        BY <1>1, <1>2, <1>7, <3>1, <3>2, <3>3, <3>4, <4>2, BranchTogether
    <3>5. CASE ~taken
      <4>1. SrcStep(FALSE)
        <5>1. taken = FALSE
          BY <3>5
        <5> QED
          BY <1>1, <5>1
      <4>2. srcHow' = "run" /\ srcPc' = srcPc + 1
        BY <1>2, <3>1, <3>2, <4>1, SrcForkPast
      <4>3. LowGoto(t.fall)
        BY <3>3, <3>5
      <4> QED
        BY <1>1, <1>2, <1>7, <2>3, <3>1, <4>2, <4>3, PastTogether
    <3> QED
      BY <3>4, <3>5
  <2>8. CASE Returned(lowBlk, t)
    <3>1. /\ t.kind \in {"retslot", "retreg"} /\ srcPc \in 1..N
          /\ Op(srcPc) = "RET" /\ Tgt(srcPc).kind # "sym"
          /\ t.kind = "retreg" => NoneBefore(StoresResult, srcPc)
      BY <2>3, <2>4, <2>8 DEF Returned
    <3>2. SrcEnd("ret")
      BY <1>1, <1>2, <3>1, SrcLeaves
    <3>3. CASE t.kind = "retslot"
      <4>1. LowEnd("ret", "slot")
        BY <2>1, <3>3 DEF LowTerm
      <4> QED
        BY <1>1, <1>2, <3>2, <4>1, EndTogether
    <3>4. CASE t.kind = "retreg"
      <4>1. LowEnd("ret", "reg")
        BY <2>1, <3>4 DEF LowTerm
      <4> QED
        BY <1>1, <1>2, <3>1, <3>2, <3>4, <4>1, EndTogether
    <3> QED
      BY <3>1, <3>3, <3>4
  <2>10. CASE t.kind = "indirect"
    <3>1. lowHow' = "indirect"
      BY <2>1, <2>10 DEF LowTerm, LowEnd
    <3> QED
      BY <1>1, <1>2, <3>1 DEF RunInv
  <2>9. CASE Left(lowBlk, t) /\ t.kind # "indirect"
    <3>1. /\ srcPc \in 1..N
          /\ \/ /\ t.kind = "tail"
                /\ Op(srcPc) \in {"RET"} \cup Jumps /\ Tgt(srcPc).kind = "sym"
             \/ t.kind = "undef" /\ Op(srcPc) = "UNDEF"
      BY <2>3, <2>4, <2>9 DEF Left
    <3>2. SrcEnd(t.kind)
      BY <1>1, <1>2, <3>1, SrcLeaves
    <3>3. LowEnd(t.kind, "none") /\ t.kind # "ret" /\ t.kind # "run"
      BY <2>1, <3>1 DEF LowTerm
    <3> QED
      BY <1>1, <1>2, <3>2, <3>3, EndTogether
  <2> QED
    BY <2>2, <2>5, <2>6, <2>7, <2>8, <2>9, <2>10
<1>6. lowPc < t.at \/ lowPc = t.at
  BY <1>2
<1> QED
  BY <1>3, <1>4, <1>5, <1>6

-----------------------------------------------------------------------------
(***************************************************************************)
(* The invariant and what follows from it.                                 *)
(***************************************************************************)
\* The first block is the entry block, empty, and nothing is read.
LEMMA InitIInv == Init => IInv
<1> SUFFICES ASSUME Init
             PROVE  IInv
  OBVIOUS
<1> DEFINE first == NewBlock(EntryName, 1)
<1>1. /\ prog \in Programs /\ phase = "split" /\ li = 0 /\ nl = 0 /\ anon = 0
      /\ blocks = <<first>> /\ bi = 1 /\ ii = 1 /\ ir = <<>>
      /\ srcPc = 1 /\ srcHow = "run" /\ lowBlk = 1 /\ lowPc = 1 /\ lowHow = "run"
  BY DEF Init
<1>2. first \in Block /\ first.name = EntryName /\ first.lo = 1 /\ first.hi = 0
  BY NameKinds DEF NewBlock, Block
<1>3. /\ N \in Nat /\ Len(prog.labels) \in Nat
      /\ \A k \in 1..Len(prog.labels) : prog.labels[k].at \in 1..(N + 1)
  BY <1>1, ProgramFacts
<1> HIDE DEF first
<1>4. blocks \in Seq(Block) /\ Len(blocks) = 1 /\ blocks[1] = first
  BY <1>1, <1>2
<1>5. Chain(blocks, 0)
  BY <1>2, <1>4 DEF Chain
<1>6. Straight(blocks)
  BY <1>2, <1>4 DEF Straight
<1>7. Named(blocks, 0, 0)
  BY <1>2, <1>4 DEF Named
<1>8. Found(blocks, 0, 0)
  <2>1. \A i \in SplitAt : ~(i <= 0)
    BY <1>3 DEF SplitAt
  <2>2. \A b \in 1..Len(blocks) : \E a \in 1..Len(blocks) :
          /\ blocks[a].lo = blocks[b].lo
          /\ \A c \in 1..(a - 1) : blocks[c].lo < blocks[b].lo
    BY <1>4
  <2>3. \A j \in 1..0 : FALSE
    OBVIOUS
  <2> QED
    BY <2>1, <2>2, <2>3 DEF Found
<1>9. LabelsRead(0, 0)
  BY <1>3 DEF LabelsRead
<1>10. BlocksInv
  BY <1>1, <1>3, <1>5, <1>6, <1>7, <1>8, <1>9 DEF BlocksInv, Blocks
<1>11. PhaseInv
  BY <1>1, <1>2, <1>4 DEF PhaseInv, Open
<1>12. LowerInv
  <2>1. Underway
    <3>1. ii \in blocks[bi].lo..(blocks[bi].hi + 1)
      BY <1>1, <1>2, <1>4
    <3>2. Plain(blocks[bi].lo, ii - 1)
      BY <1>1, <1>2, <1>4 DEF Plain
    <3>3. NoneBefore(StoresResult, ii) /\ NoneBefore(SetsFlags, ii)
      BY <1>1 DEF NoneBefore
    <3> QED
      BY <3>1, <3>2, <3>3 DEF Underway
  <2>2. ir \in Seq(Terms) /\ Len(ir) = 0
    BY <1>1
  <2> QED
    BY <1>1, <1>4, <2>1, <2>2 DEF LowerInv
<1>13. RunInv /\ VerifyInv /\ RejectsOnlyUntranslatable
  BY <1>1 DEF RunInv, VerifyInv, RejectsOnlyUntranslatable
<1> QED
  BY <1>10, <1>11, <1>12, <1>13 DEF IInv

\* A step that changes nothing.
LEMMA StutterIInv ==
  ASSUME IInv, UNCHANGED vars
  PROVE  IInv'
<1>1. /\ prog' = prog /\ phase' = phase /\ splitVars' = splitVars /\ blocks' = blocks
      /\ lowerVars' = lowerVars /\ runVars' = runVars
  BY DEF vars
<1>2. /\ li' = li /\ nl' = nl /\ anon' = anon
      /\ bi' = bi /\ ii' = ii /\ ir' = ir
      /\ flagsWritten' = flagsWritten /\ fpResWritten' = fpResWritten
      /\ srcPc' = srcPc /\ srcHow' = srcHow /\ lowBlk' = lowBlk /\ lowPc' = lowPc
      /\ lowHow' = lowHow /\ retFrom' = retFrom
  BY <1>1 DEF splitVars, lowerVars, runVars
<1>3. BlocksInv'
  BY <1>1, <1>2, Keep, KeepBlocks DEF IInv, BlocksInv
<1>4. PhaseInv'
  BY <1>1, <1>2, Keep, KeepBlocks DEF IInv, PhaseInv
<1>5. LowerInv'
  <2>1. \A k \in 1..Len(ir') : Emitted(k, ir[k])'
    BY <1>1, <1>2, KeepLower DEF IInv, LowerInv
  <2>2. bi <= Len(blocks) => Underway'
    BY <1>1, <1>2, KeepLower DEF IInv, LowerInv, Underway
  <2> QED
    BY <1>1, <1>2, <2>1, <2>2 DEF IInv, LowerInv
<1>6. RunInv'
  <2>1. (NoneBefore(StoresResult, srcPc))' <=> NoneBefore(StoresResult, srcPc)
    BY <1>1, <1>2, KeepUndef DEF NoneBefore, StoresResult
  <2>2. Together' <=> Together
    BY <1>1, <1>2 DEF Together
  <2> QED
    BY <1>1, <1>2, <2>1, <2>2 DEF IInv, RunInv
<1>7. RejectsOnlyUntranslatable'
  BY <1>1, Keep, KeepUndef DEF IInv, RejectsOnlyUntranslatable, SetsFlags
<1>8. VerifyInv'
  BY <1>1, <1>2, VerifyKept DEF IInv, VerifyInv
<1> QED
  BY <1>3, <1>4, <1>5, <1>6, <1>7, <1>8 DEF IInv

\* Every action keeps the invariant.
LEMMA NextIInv ==
  ASSUME IInv, Next
  PROVE  IInv'
<1>1. PhaseInv /\ BlocksInv /\ LowerInv /\ RunInv /\ VerifyInv /\ RejectsOnlyUntranslatable
  BY DEF IInv
<1>9. ASSUME phase' \notin {"run", "refused"}
      PROVE  VerifyInv'
  BY <1>9 DEF VerifyInv
<1>2. ASSUME phase' # "error"
      PROVE  RejectsOnlyUntranslatable'
  BY <1>2 DEF RejectsOnlyUntranslatable
<1>3. ASSUME SplitLabel \/ SplitInstr \/ SplitDone
      PROVE  IInv'
  <2>1. /\ phase = "split" /\ phase' \in {"split", "lower"} /\ prog' = prog
        /\ lowerVars' = lowerVars /\ runVars' = runVars
    BY <1>3 DEF SplitLabel, SplitInstr, SplitDone
  <2>2. PhaseInv' /\ BlocksInv'
    BY <1>1, <1>3, SplitLabelKeeps, SplitInstrKeeps, SplitDoneKeeps
  <2>3. LowerInv'
    BY <1>1, <2>1, <2>2, SplitKeepsLower
  <2>4. RunInv'
    BY <1>1, <2>1, RunKept
  <2> QED
    BY <1>2, <1>9, <2>1, <2>2, <2>3, <2>4 DEF IInv
<1>4. ASSUME LowerPlain \/ LowerRet \/ LowerUndef \/ LowerFallthrough
      PROVE  IInv'
  <2>1. phase = "lower" /\ phase' = phase /\ runVars' = runVars
    BY <1>4 DEF LowerPlain, LowerRet, LowerUndef, LowerFallthrough, EmitTerm, AtInstr, Lowering
  <2>2. PhaseInv' /\ BlocksInv' /\ LowerInv'
    BY <1>1, <1>4, LowerPlainKeeps, LowerRetKeeps, LowerUndefKeeps, LowerFallthroughKeeps
  <2>3. RunInv'
    BY <1>1, <2>1, RunKept
  <2> QED
    BY <1>2, <1>9, <2>1, <2>2, <2>3 DEF IInv
<1>5. ASSUME LowerJump \/ LowerCond
      PROVE  IInv'
  <2>1. phase = "lower" /\ phase' \in {"lower", "error"} /\ runVars' = runVars
    BY <1>5 DEF LowerJump, LowerCond, EmitTerm, Reject, AtInstr, Lowering
  <2>2. RunInv'
    BY <1>1, <2>1, RunKept
  <2>3. CASE phase' = "error"
    <3>1. PICK i \in 1..N : Lowering /\ Reject /\ Reason(i)
      BY <1>1, <1>5, <2>3, JumpRefused, CondRefused
    <3>2. PhaseInv' /\ BlocksInv' /\ LowerInv' /\ RejectsOnlyUntranslatable'
      BY <1>1, <3>1, RejectKeeps
    <3> QED
      BY <1>9, <2>1, <2>2, <3>2 DEF IInv
  <2>4. CASE phase' # "error"
    <3>1. PhaseInv' /\ BlocksInv' /\ LowerInv'
      BY <1>1, <1>5, <2>4, LowerJumpKeeps, LowerCondKeeps
    <3> QED
      BY <1>2, <1>9, <2>1, <2>2, <2>4, <3>1 DEF IInv
  <2> QED
    BY <2>3, <2>4
<1>6. ASSUME LowerDone
      PROVE  IInv'
  <2>1. phase' # "error"
    BY <1>6 DEF LowerDone
  <2> QED
    BY <1>1, <1>2, <1>6, <2>1, LowerDoneKeeps DEF IInv
<1>7. ASSUME Glide
      PROVE  IInv'
  <2>1. phase' # "error"
    BY <1>7 DEF Glide, Running
  <2>2. VerifyInv'
    BY <1>1, <1>7, VerifyKept DEF Glide, VerifyInv, lowerVars
  <2> QED
    BY <1>1, <1>2, <1>7, <2>1, <2>2, GlideKeeps DEF IInv
<1>8. ASSUME NEW taken \in BOOLEAN, Exec(taken)
      PROVE  IInv'
  <2>1. phase' # "error"
    BY <1>8 DEF Exec, Running
  <2>2. VerifyInv'
    BY <1>1, <1>8, VerifyKept DEF Exec, VerifyInv, lowerVars
  <2> QED
    BY <1>1, <1>2, <1>8, <2>1, <2>2, ExecKeeps DEF IInv
<1> QED
  BY <1>3, <1>4, <1>5, <1>6, <1>7, <1>8 DEF Next, Translate

\* The invariant holds throughout.
THEOREM Invariant == Spec => []IInv
<1>1. IInv /\ [Next]_vars => IInv'
  BY NextIInv, StutterIInv
<1> QED
  BY <1>1, InitIInv, PTL DEF Spec

\* The lowered function executes exactly the instructions of the source, in
\* the same order, and ends as the source ends (isTerminator against
\* lowerBranch, splitAt against resolveBranchTarget), if LLVM accepts its
\* labels and, on arm64, until it jumps to n(PC).
THEOREM SameExecution == Spec => []Lockstep
<1>1. IInv => Lockstep
  BY DEF IInv, RunInv, Together, Lockstep
<1> QED
  BY <1>1, Invariant, PTL

\* What LLVM makes of the name of a block, where no labels clash: the name of
\* the entry block and those of synthetic blocks stay, a label becomes the
\* name of a label.
LEMMA LLVMNames ==
  ASSUME IInv, phase # "split", ~LabelsClash, NEW b \in 1..Len(blocks)
  PROVE  LET llvm == LLVMBlockName(blocks[b].name)
         IN \/ blocks[b].name = EntryName /\ llvm = EntryName
            \/ blocks[b].name[1] = "anon" /\ llvm = blocks[b].name
            \/ /\ llvm[1] = "label"
               /\ \E j \in 1..Len(prog.labels) :
                    /\ blocks[b].name = LabelName(prog.labels[j].name)
                    /\ llvm = prog.llvm[prog.labels[j].name]
<1>1. Named(blocks, anon, Len(prog.labels)) /\ anon \in Nat
  BY DEF IInv, PhaseInv, BlocksInv, Blocks
<1>2. CASE blocks[b].name = EntryName
  BY <1>2, NameKinds DEF LLVMBlockName
<1>3. ASSUME NEW c \in 1..anon, blocks[b].name = AnonName(c)
      PROVE  blocks[b].name[1] = "anon" /\ LLVMBlockName(blocks[b].name) = blocks[b].name
  BY <1>3, NameKinds DEF LLVMBlockName
<1>4. ASSUME NEW j \in 1..Len(prog.labels), blocks[b].name = LabelName(prog.labels[j].name)
      PROVE  LLVMBlockName(blocks[b].name) = prog.llvm[prog.labels[j].name]
  <2>1. blocks[b].name[1] = "label" /\ blocks[b].name[2] = prog.labels[j].name
    BY <1>4 DEF LabelName
  <2> QED
    BY <2>1 DEF LLVMBlockName
<1>5. \A j \in 1..Len(prog.labels) : prog.llvm[prog.labels[j].name][1] = "label"
  BY DEF LabelsClash
<1> QED
  BY <1>1, <1>2, <1>3, <1>4, <1>5 DEF Named

\* The blocks of an emitted function have labels of their own, and a branch
\* names one that exists and is not the entry block: renaming and dropping
\* synthetic blocks leaves none dangling, none twice; unless the text has
\* labels that <arch>LLVMBlockName makes equal to another name, or a branch
\* that counts back to TEXT.
THEOREM LabelsDefined == Spec => []BranchesResolve
<1>1. ASSUME IInv, phase \in {"run", "refused"}, ~LabelsClash, ~BranchesToText
      PROVE  LabelsVerify
  <2>1. /\ bi = Len(blocks) + 1 /\ Len(blocks) \in Nat /\ Len(ir) = Len(blocks)
        /\ N \in Nat /\ Chain(blocks, N)
        /\ \A k \in 1..Len(ir) : /\ Emitted(k, ir[k])
                                 /\ blocks[k].lo \in Int /\ blocks[k].hi \in Int
                                 /\ blocks[k].lo >= 1 /\ blocks[k].hi <= N
    BY <1>1, TermFacts DEF IInv, VerifyInv
  <2>2. /\ \A a, b \in 1..Len(blocks) : blocks[a].name = blocks[b].name => a = b
        /\ 1 \in 1..Len(blocks) /\ blocks[1].name = EntryName /\ blocks[1].lo = 1
    BY <1>1, <2>1 DEF IInv, BlocksInv, Blocks, Named, Chain
  <2>3. ASSUME NEW a \in 1..Len(blocks), NEW b \in 1..Len(blocks),
               LLVMBlockName(blocks[a].name) = LLVMBlockName(blocks[b].name)
        PROVE  a = b
    <3>1. ASSUME NEW j \in 1..Len(prog.labels), NEW k \in 1..Len(prog.labels),
                 prog.llvm[prog.labels[j].name] = prog.llvm[prog.labels[k].name]
          PROVE  j = k
      BY <1>1, <3>1 DEF LabelsClash
    <3>2. blocks[a].name = blocks[b].name
      BY <1>1, <2>3, <3>1, LLVMNames, NameKinds
    <3> QED
      BY <2>2, <3>2
  <2>4. ASSUME NEW b \in 1..Len(blocks)
        PROVE  /\ LLVMBlockName(blocks[b].name) # ValueName
               /\ b # 1 => LLVMBlockName(blocks[b].name) # EntryName
    <3>1. ValueName[1] = "value" /\ EntryName[1] = "entry"
      BY DEF ValueName, EntryName
    <3>2. b # 1 => blocks[b].name # EntryName
      BY <2>2
    <3> QED
      BY <1>1, <3>1, <3>2, LLVMNames
  <2>5. ASSUME NEW a \in 1..Len(blocks)
        PROVE  DefinedOnce(blocks[a].name)
    BY <2>3 DEF DefinedOnce
  <2> DEFINE Good(to) == \E b \in 1..Len(blocks) : b # 1 /\ to = blocks[b].name
  <2>6. ASSUME NEW k \in 1..Len(ir), NEW to, IsNext(k, to)
        PROVE  Good(to)
    <3>1. k + 1 \in 1..Len(blocks) /\ k + 1 # 1 /\ to = blocks[k + 1].name
      BY <2>1, <2>6 DEF IsNext
    <3> QED
      BY <3>1
  <2>7. ASSUME NEW k \in 1..Len(ir), NEW to, ir[k].at = blocks[k].hi, Leads(ir[k].at, to)
        PROVE  Good(to)
    <3>1. PICK b \in 1..Len(blocks) : /\ blocks[b].name = to
                                      /\ blocks[b].lo \in SrcTargets(ir[k].at)
      BY <2>7 DEF Leads
    <3>2. ASSUME b = 1 PROVE FALSE
      <4>1. Tgt(ir[k].at).kind = "pc" /\ 1 \in SrcTargets(ir[k].at)
        BY <2>2, <2>7, <3>1, <3>2 DEF Leads
      <4>2. ir[k].at + Tgt(ir[k].at).off = 1
        BY <4>1 DEF SrcTargets
      <4>3. ir[k].at \in 1..N
        <5>1. ir[k].at \in blocks[k].lo..(blocks[k].hi + 1)
          BY <2>1 DEF Emitted
        <5> QED
          BY <2>1, <2>7, <5>1
      <4> QED
        BY <1>1, <4>1, <4>2, <4>3 DEF BranchesToText
    <3> QED
      BY <3>1, <3>2
  <2> HIDE DEF Good
  <2>8. ASSUME NEW k \in 1..Len(ir), NEW to \in TermTargets(ir[k])
        PROVE  Good(to)
    <3>1. /\ ir[k].kind = "br" => Jumped(k, ir[k])
          /\ ir[k].kind = "condbr" => Forked(k, ir[k])
          /\ ir[k].kind = "glide" => Falls(k, ir[k])
      BY <2>1, <2>8 DEF Emitted, Falls, Jumped, Forked, Returned, Left
    <3>2. CASE ir[k].kind = "br"
      BY <2>7, <3>1, <3>2 DEF Jumped, TermTargets
    <3>3. CASE ir[k].kind = "condbr"
      BY <2>6, <2>7, <3>1, <3>3 DEF Forked, TermTargets
    <3>4. CASE ir[k].kind = "glide"
      BY <2>6, <3>1, <3>4 DEF Falls, TermTargets
    <3> QED
      BY <3>2, <3>3, <3>4 DEF TermTargets
  <2> QED
    BY <2>4, <2>5, <2>8 DEF LabelsVerify, Good
<1>2. IInv => BranchesResolve
  BY <1>1 DEF BranchesResolve
<1> QED
  BY <1>2, Invariant, PTL

\* A function is refused only for a target outside it, a conditional branch
\* with nothing after it, or a flag condition before any flag write in the
\* text that can be reached.
THEOREM RefusedForReason == Spec => []RejectsOnlyUntranslatable
<1>1. IInv => RejectsOnlyUntranslatable
  BY DEF IInv
<1> QED
  BY <1>1, Invariant, PTL

\* A run that has stored its result returns what it stored if a store that
\* can be reached stands in front of its RET.
THEOREM ResultReturned == Spec => []StoredResultReturned
<1>1. IInv => StoredResultReturned
  BY DEF IInv, RunInv, NoneBefore, StoredResultReturned
<1> QED
  BY <1>1, Invariant, PTL

=============================================================================
