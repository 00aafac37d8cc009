-------------------------- MODULE MCBlockLowering --------------------------
(***************************************************************************)
(* Small functions for BlockLowering: TEXT, then up to MaxLen instructions *)
(* of one architecture, with up to two labels anywhere; and up to two      *)
(* instructions with labels whose LLVM names clash.                        *)
(***************************************************************************)
EXTENDS BlockLowering

CONSTANTS L1, L2   \* the two labels

\* Instructions after TEXT.
MaxLen == 3

NoTarget == [kind |-> "none", label |-> L1, off |-> 0]
LabelTargets == {[kind |-> "label", label |-> l, off |-> 0] : l \in Labels}
SymTarget == [kind |-> "sym", label |-> L1, off |-> 0]
PCTargets(offs) == {[kind |-> "pc", label |-> L1, off |-> n] : n \in offs}

Instrs(plain, branches, offs) ==
  {[op |-> o, tgt |-> NoTarget] : o \in plain}
  \cup [op : branches, tgt : LabelTargets \cup PCTargets(offs)]

\* The instruction list starts with TEXT.
Text == [op |-> "TEXT", tgt |-> NoTarget]
Codes(instrs, max) == UNION {{<<Text>> \o c : c \in [1..n -> instrs]} : n \in 1..max}

\* Labels in text order.
Placements ==
  {<<>>}
  \cup {<<[name |-> L1, at |-> a]>> : a \in 2..(MaxLen + 2)}
  \cup {<<[name |-> L1, at |-> p[1]], [name |-> L2, at |-> p[2]]>> :
          p \in {q \in (2..(MaxLen + 2)) \X (2..(MaxLen + 2)) : q[1] <= q[2]}}

\* Labels lie in the function, and the assembler refuses a branch to a label
\* that is not defined.
Assembles(p) ==
  /\ \A k \in 1..Len(p.labels) : p.labels[k].at <= Len(p.code) + 1
  /\ \A i \in 1..Len(p.code) : p.code[i].tgt.kind = "label" =>
       \E k \in 1..Len(p.labels) : p.labels[k].name = p.code[i].tgt.label

\* Labels whose LLVM names are their own; two labels that differ in a
\* character that is replaced (a.b, a_b); and a label that gets the name of a
\* synthetic block, of the entry block or of a value.
OwnName == [l \in Labels |-> LabelName(l)]
Clashes == {[OwnName EXCEPT ![L2] = n] :
              n \in {LabelName(L1), AnonName(1), EntryName, ValueName}}

Functions(arch, codes, names) ==
  {p \in [arch : {arch}, code : codes, labels : Placements, llvm : names] : Assembles(p)}

ProgramsOf(arch, codes) ==
  Functions(arch, codes, {OwnName})
  \cup Functions(arch, {c \in codes : Len(c) <= 3}, Clashes)

\* A conditional and an unconditional branch of every kind, a loop back and a
\* skip where n(PC) is resolved by instruction.
TailCalls  == [op : {"RET", "B"}, tgt : {SymTarget}]
Arm64Codes == Codes(Instrs({"MOVRET", "CMP", "RET"}, {"B", "BEQ", "CBZ"}, {}) \cup TailCalls
                      \cup [op : {"B"}, tgt : PCTargets({-1})],
                    MaxLen)
ArmCodes   == Codes(Instrs({"ADD", "CMP", "RET", "UNDEF"}, {"B", "BCS"}, {-1, 2}), MaxLen)
Amd64Codes == Codes(Instrs({"ADD", "RET"}, {"JMP", "JE"}, {-1, 2}), MaxLen)
I386Codes  == Codes(Instrs({"RET", "UNDEF"}, {"JMP", "JNC"}, {-1, 2}), MaxLen)

AllPrograms == ProgramsOf("arm64", Arm64Codes) \cup ProgramsOf("arm", ArmCodes)
               \cup ProgramsOf("amd64", Amd64Codes) \cup ProgramsOf("386", I386Codes)

=============================================================================
