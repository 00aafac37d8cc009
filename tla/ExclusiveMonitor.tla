-------------------------- MODULE ExclusiveMonitor --------------------------
(***************************************************************************)
(* What the atomic instructions of arm64, arm and amd64 become in LLVM IR  *)
(* (lowerAtomic of <arch>_lower_atomic.go).                                *)
(*                                                                         *)
(* LLVM has no load-linked / store-conditional.  A load-exclusive is       *)
(* lowered to an atomic load that also fills four stack slots of the       *)
(* function (valid, ptr, size, value); a store-exclusive becomes a cmpxchg *)
(* that expects the saved value, tried only when the slots match.  The     *)
(* slots live in one activation of one function, so each thread has its    *)
(* own.                                                                    *)
(*                                                                         *)
(* Memory is a row of cells; a value is a function from cell offsets to    *)
(* cell contents, as wide as a 64-bit register.                            *)
(***************************************************************************)
EXTENDS Integers

CONSTANTS
  Threads,
  MemSize,        \* number of memory cells
  Base,           \* contents of a cell are 0..Base-1
  S8, S32, S64,   \* cells in an i8, i32 and i64
  LoadExOps,      \* load-exclusive mnemonics used by the threads
  LoadOps,        \* LDAR* mnemonics used by the threads
  StoreOps,       \* STLR* mnemonics used by the threads
  StoreExOps,     \* store-exclusive mnemonics used by the threads
  RMWOps,         \* one-instruction read-modify-writes used by the threads
  CASOps,         \* CASAL* mnemonics used by the threads
  CmpxchgOps,     \* CMPXCHG mnemonics used by the threads
  Operands        \* values the threads store, add, swap in or compare with

ASSUME SizesAssumption ==
  /\ MemSize \in Nat /\ Base \in Nat \ {0}
  /\ S8 \in Nat \ {0} /\ S32 \in Nat \ {0} /\ S64 \in Nat \ {0}
  /\ S8 <= S32 /\ S32 <= S64 /\ S64 <= MemSize

VARIABLES
  mem,     \* memory cells
  mon,     \* mon[t]: the exclusive_* slots of t's activation
  reg,     \* reg[t]: the register t's last atomic load wrote
  status,  \* status[t]: status register of the last store-exclusive; ~ZF of
           \* the last CMPXCHG
  armed    \* armed[t]: history, the reservation t's instructions established

monVars == <<mem, mon, reg, status, armed>>

Cells  == 0..(MemSize - 1)
Byte   == 0..(Base - 1)
Word   == [0..(S64 - 1) -> Byte]

ASSUME OperandsAssumption == Operands \subseteq Word

ZeroWord == [i \in 0..(S64 - 1) |-> 0]

-----------------------------------------------------------------------------
(***************************************************************************)
(* Access widths, as each lowering chooses them.                           *)
(***************************************************************************)
SizeOf(ty) == CASE ty = "i8" -> S8 [] ty = "i32" -> S32 [] OTHER -> S64

\* arm64AtomicLoadStoreType, armAtomicType
LoadType(op) ==
  CASE op \in {"LDARB", "STLRB", "LDREXB"}            -> "i8"
    [] op \in {"LDARW", "LDAXRW", "STLRW", "LDREX"}   -> "i32"
    [] OTHER                                          -> "i64"

\* arm64AtomicStoreExclusiveType, armAtomicType
StoreExType(op) ==
  CASE op \in {"STLXRB", "STREXB"} -> "i8"
    [] op \in {"STLXRW", "STREX"}  -> "i32"
    [] OTHER                       -> "i64"

\* arm64AtomicRMWType; CASAL{W,D}; the type switches of amd64
RMWType(op) ==
  CASE op \in {"SWPALB", "LDORALB", "LDCLRALB", "XCHGB", "ORB", "ANDB"} -> "i8"
    [] op \in {"SWPALW", "LDADDALW", "LDORALW", "LDCLRALW", "CASALW",
               "XADDL", "XCHGL", "ORL", "ANDL", "CMPXCHGL",
               "ADDL", "INCL"}                                          -> "i32"
    [] OTHER                                                            -> "i64"

LoadSize(op)    == SizeOf(LoadType(op))
StoreExSize(op) == SizeOf(StoreExType(op))
RMWSize(op)     == SizeOf(RMWType(op))

\* An atomic access is inside memory and naturally aligned; any other is
\* undefined in the emitted IR.
Accessible(a, n) == a \in Cells /\ a + n <= MemSize /\ a % n = 0

-----------------------------------------------------------------------------
(***************************************************************************)
(* Values: loads zero-extend to the register, stores truncate.             *)
(***************************************************************************)
ReadNarrow(m, a, n) == [i \in 0..(n - 1) |-> m[a + i]]  \* mutant: no zext
Read(m, a, n)     == [i \in 0..(S64 - 1) |-> IF i < n THEN m[a + i] ELSE 0]
Write(m, a, n, v) == [c \in Cells |-> IF a <= c /\ c < a + n THEN v[c - a] ELSE m[c]]
SameLow(v, w, n)  == \A i \in 0..(n - 1) : v[i] = w[i]

\* Carry into cell i of v + w: generated below i and propagated up to it.
Carry(v, w, i) ==
  IF \E j \in 0..(i - 1) : /\ v[j] + w[j] >= Base
                           /\ \A k \in (j + 1)..(i - 1) : v[k] + w[k] = Base - 1
  THEN 1 ELSE 0
AddWord(v, w) == [i \in 0..(S64 - 1) |-> (v[i] + w[i] + Carry(v, w, i)) % Base]

\* Bitwise operations, cell by cell; exact for the one-bit cells checked.
OrWord(v, w)  == [i \in 0..(S64 - 1) |-> IF w[i] = 0 THEN v[i] ELSE w[i]]
AndWord(v, w) == [i \in 0..(S64 - 1) |-> IF w[i] = 0 THEN 0 ELSE v[i]]
ClrWord(v, w) == [i \in 0..(S64 - 1) |-> IF w[i] = 0 THEN v[i] ELSE 0]

Apply(fn, old, arg) == CASE fn = "add" -> AddWord(old, arg)
                         [] fn = "or"  -> OrWord(old, arg)
                         [] fn = "and" -> AndWord(old, arg)
                         [] fn = "clr" -> ClrWord(old, arg)
                         [] OTHER      -> arg

-----------------------------------------------------------------------------
(***************************************************************************)
(* One action per instruction.                                             *)
(***************************************************************************)
NoMon   == [valid |-> FALSE, ptr |-> -1, size |-> 0, value |-> ZeroWord]
NotArmed == [on |-> FALSE, addr |-> 0, size |-> 0, value |-> ZeroWord]

\* LDAXR*, LDREX*
LoadExclusive(t, op, a) ==
  LET n == LoadSize(op)
      v == Read(mem, a, n)
  IN /\ Accessible(a, n)
     /\ mon' = [mon EXCEPT ![t] = [valid |-> TRUE, ptr |-> a, size |-> n, value |-> v]]
     /\ reg' = [reg EXCEPT ![t] = v]
     /\ armed' = [armed EXCEPT ![t] = [on |-> TRUE, addr |-> a, size |-> n, value |-> v]]
     /\ UNCHANGED <<mem, status>>

\* The slots allow the cmpxchg, and the cmpxchg finds the saved value.
CanTryAnyAddress(t, op, a) ==  \* mutant: the ptr slot is not compared
  mon[t].valid /\ mon[t].size = StoreExSize(op)
CanTryDoublewords(t, op, a) ==  \* mutant: the size slot is compared with that of an i64
  mon[t].valid /\ mon[t].ptr = a /\ mon[t].size = S64
CanTry(t, op, a) == /\ mon[t].valid
                    /\ mon[t].ptr = a
                    /\ mon[t].size = StoreExSize(op)
StoreSucceeds(t, op, a) ==
  CanTry(t, op, a) /\ SameLow(Read(mem, a, StoreExSize(op)), mon[t].value, StoreExSize(op))

KeepValid(t)  == mon' = mon  \* mutant: the reservation survives its use
ClearValid(t) == mon' = [mon EXCEPT ![t].valid = FALSE]

\* STLXR*, STREX*: the slots are invalidated whatever happens.
StoreExclusive(t, op, a, new) ==
  /\ Accessible(a, StoreExSize(op))
  /\ \/ /\ StoreSucceeds(t, op, a)
        /\ mem' = Write(mem, a, StoreExSize(op), new)
        /\ status' = [status EXCEPT ![t] = 0]
     \/ /\ ~StoreSucceeds(t, op, a)
        /\ mem' = mem
        /\ status' = [status EXCEPT ![t] = 1]
  /\ ClearValid(t)
  /\ armed' = [armed EXCEPT ![t] = NotArmed]
  /\ UNCHANGED reg

\* LDAR*
LoadAcquire(t, op, a) ==
  /\ Accessible(a, LoadSize(op))
  /\ reg' = [reg EXCEPT ![t] = Read(mem, a, LoadSize(op))]
  /\ UNCHANGED <<mem, mon, status, armed>>

\* STLR*
StoreRelease(t, op, a, v) ==
  /\ Accessible(a, LoadSize(op))
  /\ mem' = Write(mem, a, LoadSize(op), v)
  /\ UNCHANGED <<mon, reg, status, armed>>

\* SWPAL*, LDADDAL*, LDORAL*, LDCLRAL*; XCHG*, XADD*, OR*, AND*
RMWFn(op) ==
  CASE op \in {"LDADDALW", "LDADDALD", "XADDL", "XADDQ",
               "ADDL", "ADDQ", "INCL", "INCQ"}                        -> "add"
    [] op \in {"LDORALB", "LDORALW", "LDORALD", "ORB", "ORL", "ORQ"} -> "or"
    [] op \in {"ANDB", "ANDL", "ANDQ"}                               -> "and"
    [] op \in {"LDCLRALB", "LDCLRALW", "LDCLRALD"}                   -> "clr"
    [] OTHER                                                         -> "swap"

\* x86 logic and arithmetic on memory leave the old value in no register.
FlagsOnly == {"ORB", "ORL", "ORQ", "ANDB", "ANDL", "ANDQ",
              "ADDL", "ADDQ", "INCL", "INCQ"}

AtomicRMW(t, op, a, src) ==
  LET old == Read(mem, a, RMWSize(op)) IN
  /\ Accessible(a, RMWSize(op))
  /\ mem' = Write(mem, a, RMWSize(op), Apply(RMWFn(op), old, src))
  /\ reg' = IF op \in FlagsOnly THEN reg ELSE [reg EXCEPT ![t] = old]
  /\ UNCHANGED <<mon, status, armed>>

\* CASAL{W,D}: the expected register receives the old value.
CompareAndSwap(t, op, a, exp, new) ==
  LET n == RMWSize(op)
      old == Read(mem, a, n)
  IN /\ Accessible(a, n)
     /\ mem' = IF SameLow(old, exp, n) THEN Write(mem, a, n, new) ELSE mem
     /\ reg' = [reg EXCEPT ![t] = old]
     /\ UNCHANGED <<mon, status, armed>>


FindsAnything(t, a, n) == TRUE  \* mutant: no comparison
FindsExpected(t, a, n) == SameLow(Read(mem, a, n), reg[t], n)

\* CMPXCHG{L,Q}, CMPXCHG8B: AX (DX:AX) is the expected value and receives the
\* old one; ZF tells success.
CompareExchange(t, op, a, new) ==
  LET n == RMWSize(op)
      old == Read(mem, a, n)
      equal == FindsExpected(t, a, n)
  IN /\ Accessible(a, n)
     /\ mem' = IF equal THEN Write(mem, a, n, new) ELSE mem
     /\ reg' = [reg EXCEPT ![t] = old]
     /\ status' = [status EXCEPT ![t] = IF equal THEN 0 ELSE 1]
     /\ UNCHANGED <<mon, armed>>

\* x86 arithmetic on memory: a plain load and a plain store, whether a LOCK
\* precedes it or not (LOCK emits nothing).
PlainLoad(t, op, a) ==
  /\ reg' = [reg EXCEPT ![t] = Read(mem, a, RMWSize(op))]
  /\ UNCHANGED <<mem, mon, status, armed>>
PlainStore(t, op, a, src) ==
  /\ mem' = Write(mem, a, RMWSize(op), Apply(RMWFn(op), reg[t], src))
  /\ UNCHANGED <<mon, reg, status, armed>>

\* Entry of a lowered function: emitEntryAllocasAndArgInit clears the slots.
EnterFunction(t) ==
  /\ mon' = [mon EXCEPT ![t] = NoMon]
  /\ armed' = [armed EXCEPT ![t] = NotArmed]
  /\ UNCHANGED <<mem, reg, status>>

-----------------------------------------------------------------------------
(***************************************************************************)
(* Threads that execute atomic instructions in any order.                  *)
(***************************************************************************)
Init ==
  /\ mem = [c \in Cells |-> 0]
  /\ mon = [t \in Threads |-> NoMon]
  /\ reg = [t \in Threads |-> ZeroWord]
  /\ status = [t \in Threads |-> 0]
  /\ armed = [t \in Threads |-> NotArmed]

Next ==
  \E t \in Threads, a \in Cells :
    \/ \E op \in LoadExOps : LoadExclusive(t, op, a)
    \/ \E op \in StoreExOps, v \in Operands : StoreExclusive(t, op, a, v)
    \/ \E op \in LoadOps : LoadAcquire(t, op, a)
    \/ \E op \in StoreOps, v \in Operands : StoreRelease(t, op, a, v)
    \/ \E op \in RMWOps, v \in Operands : AtomicRMW(t, op, a, v)
    \/ \E op \in CASOps, v, w \in Operands : CompareAndSwap(t, op, a, v, w)
    \/ \E op \in CmpxchgOps, v \in Operands : CompareExchange(t, op, a, v)
    \/ EnterFunction(t)

Spec == Init /\ [][Next]_monVars

-----------------------------------------------------------------------------
(***************************************************************************)
(* Properties.                                                             *)
(***************************************************************************)

\* Type invariant of memory, registers and the exclusive_* slots.
TypeOK ==
  /\ mem \in [Cells -> Byte]
  /\ mon \in [Threads -> [valid : BOOLEAN, ptr : Cells \cup {-1},
                          size : {0, S8, S32, S64}, value : Word]]
  /\ reg \in [Threads -> Word]
  /\ status \in [Threads -> {0, 1}]
  /\ armed \in [Threads -> [on : BOOLEAN, addr : Cells,
                            size : {0, S8, S32, S64}, value : Word]]

\* A valid slot set describes the thread's latest load-exclusive, with no
\* store-exclusive in between, and keeps the value the memory had then.
SlotsMatchReservation ==
  \A t \in Threads : mon[t].valid =>
    /\ armed[t].on
    /\ mon[t].ptr = armed[t].addr
    /\ mon[t].size = armed[t].size
    /\ mon[t].value = armed[t].value

\* A store-exclusive that reports success has a reservation of its own
\* thread for just these cells, and overwrites exactly what its
\* load-exclusive read: no other thread's update is lost, no reservation is
\* used twice and none is used for another address or width.
NoUpdateLost ==
  [][\A t \in Threads, op \in StoreExOps, a \in Cells, v \in Operands :
       status'[t] = 0 /\ StoreExclusive(t, op, a, v) =>
         /\ armed[t].on /\ armed[t].addr = a /\ armed[t].size = StoreExSize(op)
         /\ SameLow(Read(mem, a, armed[t].size), armed[t].value, armed[t].size)]_monVars

=============================================================================
