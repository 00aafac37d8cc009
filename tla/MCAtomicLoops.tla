--------------------------- MODULE MCAtomicLoops ---------------------------
(***************************************************************************)
(* Calls of the Go runtime's atomics on four one-bit cells.                *)
(***************************************************************************)
EXTENDS AtomicLoops

ToWord(s) == [i \in 0..(S64 - 1) |-> s[i + 1]]
One  == ToWord(<<1, 0, 0, 0>>)
Two  == ToWord(<<0, 1, 0, 0>>)
Zero == ToWord(<<0, 0, 0, 0>>)

Job(kind, ld, st, fn, addr, arg, exp) ==
  [kind |-> kind, ld |-> ld, st |-> st, fn |-> fn, addr |-> addr,
   arg |-> arg, exp |-> exp]

\* Cas, Xchg64 and the LSE forms of Xadd, And8 and Cas; Store8 and Load.
Arm64Jobs ==
  {Job("casloop", "LDAXRW", "STLXRW", "cas", 0, Two, Zero),
   Job("loop", "LDAXR", "STLXR", "swap", 0, One, Zero),
   Job("rmw", "LDADDALW", "LDADDALW", "add", 0, One, Zero),
   Job("rmw", "LDCLRALB", "LDCLRALB", "clr", 1, One, Zero),
   Job("cas", "CASALW", "CASALW", "cas", 0, Two, One),
   Job("store", "STLRB", "STLRB", "store", 1, One, Zero),
   Job("load", "LDARW", "LDARW", "load", 0, Zero, Zero)}

\* Xadd, Or8 and Cas64.
ArmJobs ==
  {Job("loop", "LDREX", "STREX", "add", 0, One, Zero),
   Job("loop", "LDREXB", "STREXB", "or", 1, One, Zero),
   Job("casloop", "LDREXD", "STREXD", "cas", 0, Two, Zero)}

\* And32, Cas, Xchg8 and And8.
Amd64Jobs ==
  {Job("xloop", "MOVL", "CMPXCHGL", "and", 0, One, Zero),
   Job("xcas", "MOVL", "CMPXCHGL", "cas", 0, Two, Zero),
   Job("rmw", "XCHGB", "XCHGB", "swap", 1, One, Zero),
   Job("rmw", "ANDB", "ANDB", "and", 1, Zero, Zero)}

\* LOCK INCL, an increment like those of ADDL and ADDQ.
LockJobs == {Job("plain", "INCL", "INCL", "add", 0, One, Zero),
             Job("plain", "ADDL", "ADDL", "add", 0, Two, Zero)}

AllJobs == Arm64Jobs \cup ArmJobs \cup Amd64Jobs

=============================================================================
