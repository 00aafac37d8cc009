------------------------- MODULE AtomicLoops_proofs -------------------------
(***************************************************************************)
(* For any number of threads, any calls and any widths: first what the     *)
(* exclusive_* slots say of a thread's reservation (ExclusiveMonitor),     *)
(* then that the lowered retry loops and one-instruction updates implement *)
(* atomic calls (AtomicLoops).  The second invariant says what a thread's  *)
(* register and slots hold at each label of a loop; from it a              *)
(* store-exclusive or a cmpxchg that succeeds finds in memory exactly what *)
(* the loop computed its new value from.                                   *)
(***************************************************************************)
EXTENDS AtomicLoops, TLAPS

-----------------------------------------------------------------------------
(***************************************************************************)
(* For any number of threads, memory size, cell width and access widths:   *)
(* the slots of a thread describe its own reservation, and a               *)
(* store-exclusive that succeeds overwrites what its load-exclusive read.  *)
(***************************************************************************)

Sizes == {S8, S32, S64}

-----------------------------------------------------------------------------
(***************************************************************************)
(* Access widths and values.                                               *)
(***************************************************************************)

\* The mnemonic of an atomic instruction always selects one of the widths.
LEMMA SizesOfOps ==
  \A op : /\ LoadSize(op) \in Sizes
          /\ StoreExSize(op) \in Sizes
          /\ RMWSize(op) \in Sizes
BY DEF Sizes, LoadSize, StoreExSize, RMWSize, SizeOf

LEMMA SizeBounds == \A n \in Sizes : n \in Nat /\ 0 < n /\ n <= S64
BY SizesAssumption DEF Sizes

\* A load of accessible cells gives a register value.
LEMMA ReadType ==
  ASSUME NEW m \in [Cells -> Byte], NEW n \in Sizes, NEW a, Accessible(a, n)
  PROVE  Read(m, a, n) \in Word
<1> SUFFICES ASSUME NEW i \in 0..(S64 - 1)
             PROVE  (IF i < n THEN m[a + i] ELSE 0) \in Byte
  BY DEF Read, Word
<1>1. CASE i < n
  <2>1. a + i \in Cells
    BY <1>1, SizeBounds, SizesAssumption DEF Cells, Accessible
  <2> QED BY <1>1, <2>1
<1>2. CASE ~(i < n)
  BY <1>2, SizesAssumption DEF Byte
<1> QED BY <1>1, <1>2

\* A store of a register value keeps memory a row of cells.
LEMMA WriteType ==
  ASSUME NEW m \in [Cells -> Byte], NEW n \in Sizes, NEW a \in Cells, NEW v \in Word
  PROVE  Write(m, a, n, v) \in [Cells -> Byte]
<1> SUFFICES ASSUME NEW c \in Cells
             PROVE  (IF a <= c /\ c < a + n THEN v[c - a] ELSE m[c]) \in Byte
  BY DEF Write
<1>1. CASE a <= c /\ c < a + n
  <2>1. c - a \in 0..(S64 - 1)
    BY <1>1, SizeBounds, SizesAssumption DEF Cells
  <2> QED BY <1>1, <2>1 DEF Word
<1> QED BY <1>1

LEMMA ApplyType ==
  ASSUME NEW v \in Word, NEW w \in Word, NEW fn
  PROVE  Apply(fn, v, w) \in Word
<1>1. AddWord(v, w) \in Word
  <2> SUFFICES ASSUME NEW i \in 0..(S64 - 1)
               PROVE  (v[i] + w[i] + Carry(v, w, i)) % Base \in Byte
    BY DEF AddWord, Word
  <2>1. v[i] \in Int /\ w[i] \in Int /\ Carry(v, w, i) \in Int
    BY DEF Word, Byte, Carry
  <2>2. \A x \in Int : x % Base \in 0..(Base - 1)
    BY SizesAssumption
  <2> QED BY <2>1, <2>2 DEF Byte
<1>2. OrWord(v, w) \in Word /\ AndWord(v, w) \in Word /\ ClrWord(v, w) \in Word
  BY SizesAssumption DEF OrWord, AndWord, ClrWord, Word, Byte
<1> QED BY <1>1, <1>2 DEF Apply

LEMMA ZeroWordType == ZeroWord \in Word
BY SizesAssumption DEF ZeroWord, Word, Byte

LEMMA CellsAreInhabited == 0 \in Cells
BY SizesAssumption DEF Cells

-----------------------------------------------------------------------------
(***************************************************************************)
(* Type correctness.                                                       *)
(***************************************************************************)
LEMMA TypeOKInit == Init => TypeOK
BY ZeroWordType, CellsAreInhabited, SizesAssumption
DEF Init, TypeOK, NoMon, NotArmed, Byte

LEMMA LoadExclusiveType ==
  ASSUME TypeOK, NEW t \in Threads, NEW op, NEW a \in Cells, LoadExclusive(t, op, a)
  PROVE  TypeOK'
<1> DEFINE n == LoadSize(op)
           v == Read(mem, a, n)
<1>1. n \in Sizes
  BY SizesOfOps
<1>2. v \in Word
  BY <1>1, ReadType DEF TypeOK, LoadExclusive
<1> HIDE DEF n, v
<1>3. /\ mon' = [mon EXCEPT ![t] = [valid |-> TRUE, ptr |-> a, size |-> n, value |-> v]]
      /\ reg' = [reg EXCEPT ![t] = v]
      /\ armed' = [armed EXCEPT ![t] = [on |-> TRUE, addr |-> a, size |-> n, value |-> v]]
      /\ UNCHANGED <<mem, status>>
  BY DEF LoadExclusive, n, v
<1>4. mon' \in [Threads -> [valid : BOOLEAN, ptr : Cells \cup {-1},
                            size : {0, S8, S32, S64}, value : Word]]
  BY <1>1, <1>2, <1>3 DEF TypeOK, Sizes
<1>5. armed' \in [Threads -> [on : BOOLEAN, addr : Cells,
                              size : {0, S8, S32, S64}, value : Word]]
  BY <1>1, <1>2, <1>3 DEF TypeOK, Sizes
<1> QED BY <1>2, <1>3, <1>4, <1>5 DEF TypeOK

LEMMA StoreExclusiveType ==
  ASSUME TypeOK, NEW t \in Threads, NEW op, NEW a \in Cells, NEW v \in Word,
         StoreExclusive(t, op, a, v)
  PROVE  TypeOK'
<1>1. mem' \in [Cells -> Byte]
  BY SizesOfOps, WriteType DEF TypeOK, StoreExclusive
<1>2. status' \in [Threads -> {0, 1}]
  BY DEF TypeOK, StoreExclusive
<1>3. mon' \in [Threads -> [valid : BOOLEAN, ptr : Cells \cup {-1},
                            size : {0, S8, S32, S64}, value : Word]]
  <2>1. mon' = [mon EXCEPT ![t].valid = FALSE]
    BY DEF StoreExclusive, ClearValid
  <2>2. mon \in [Threads -> [valid : BOOLEAN, ptr : Cells \cup {-1},
                             size : {0, S8, S32, S64}, value : Word]]
    BY DEF TypeOK
  <2> QED BY <2>1, <2>2
<1>4. armed' \in [Threads -> [on : BOOLEAN, addr : Cells,
                              size : {0, S8, S32, S64}, value : Word]]
  BY ZeroWordType, CellsAreInhabited DEF TypeOK, StoreExclusive, NotArmed
<1> QED BY <1>1, <1>2, <1>3, <1>4 DEF TypeOK, StoreExclusive

LEMMA UpdateType ==
  ASSUME TypeOK, NEW t \in Threads, NEW op, NEW a \in Cells, NEW v \in Word, NEW w \in Word,
         \/ LoadAcquire(t, op, a)
         \/ StoreRelease(t, op, a, v)
         \/ AtomicRMW(t, op, a, v)
         \/ CompareAndSwap(t, op, a, v, w)
         \/ CompareExchange(t, op, a, v)
  PROVE  TypeOK'
<1>1. CASE LoadAcquire(t, op, a)
  <2>1. Read(mem, a, LoadSize(op)) \in Word
    BY <1>1, SizesOfOps, ReadType DEF TypeOK, LoadAcquire
  <2> QED BY <1>1, <2>1 DEF TypeOK, LoadAcquire
<1>2. CASE StoreRelease(t, op, a, v)
  <2>1. Write(mem, a, LoadSize(op), v) \in [Cells -> Byte]
    BY SizesOfOps, WriteType DEF TypeOK
  <2> QED BY <1>2, <2>1 DEF TypeOK, StoreRelease
<1>3. CASE AtomicRMW(t, op, a, v)
  <2>1. Read(mem, a, RMWSize(op)) \in Word
    BY <1>3, SizesOfOps, ReadType DEF TypeOK, AtomicRMW
  <2>2. Apply(RMWFn(op), Read(mem, a, RMWSize(op)), v) \in Word
    BY <2>1, ApplyType
  <2>3. mem' \in [Cells -> Byte]
    BY <1>3, <2>2, SizesOfOps, WriteType DEF TypeOK, AtomicRMW
  <2> QED BY <1>3, <2>1, <2>3 DEF TypeOK, AtomicRMW
<1>4. CASE CompareAndSwap(t, op, a, v, w)
  <2>1. Read(mem, a, RMWSize(op)) \in Word
    BY <1>4, SizesOfOps, ReadType DEF TypeOK, CompareAndSwap
  <2>2. Write(mem, a, RMWSize(op), w) \in [Cells -> Byte]
    BY SizesOfOps, WriteType DEF TypeOK
  <2> QED BY <1>4, <2>1, <2>2 DEF TypeOK, CompareAndSwap
<1>5. CASE CompareExchange(t, op, a, v)
  <2>1. Read(mem, a, RMWSize(op)) \in Word
    BY <1>5, SizesOfOps, ReadType DEF TypeOK, CompareExchange
  <2>2. Write(mem, a, RMWSize(op), v) \in [Cells -> Byte]
    BY SizesOfOps, WriteType DEF TypeOK
  <2> QED BY <1>5, <2>1, <2>2 DEF TypeOK, CompareExchange
<1> QED BY <1>1, <1>2, <1>3, <1>4, <1>5

LEMMA EnterFunctionType ==
  ASSUME TypeOK, NEW t \in Threads, EnterFunction(t)
  PROVE  TypeOK'
BY ZeroWordType, CellsAreInhabited DEF TypeOK, EnterFunction, NoMon, NotArmed

LEMMA TypeOKStep == TypeOK /\ [Next]_monVars => TypeOK'
<1> SUFFICES ASSUME TypeOK, [Next]_monVars PROVE TypeOK'
  OBVIOUS
<1>1. CASE UNCHANGED monVars
  BY <1>1 DEF TypeOK, monVars
<1>2. ASSUME NEW t \in Threads, NEW a \in Cells, NEW op \in LoadExOps,
             LoadExclusive(t, op, a)
      PROVE  TypeOK'
  BY <1>2, LoadExclusiveType
<1>3. ASSUME NEW t \in Threads, NEW a \in Cells, NEW op \in StoreExOps,
             NEW v \in Operands, StoreExclusive(t, op, a, v)
      PROVE  TypeOK'
  BY <1>3, StoreExclusiveType, OperandsAssumption
<1>4. ASSUME NEW t \in Threads, NEW a \in Cells, NEW op,
             NEW v \in Operands \cup {ZeroWord}, NEW w \in Operands \cup {ZeroWord},
             \/ LoadAcquire(t, op, a)
             \/ StoreRelease(t, op, a, v)
             \/ AtomicRMW(t, op, a, v)
             \/ CompareAndSwap(t, op, a, v, w)
             \/ CompareExchange(t, op, a, v)
      PROVE  TypeOK'
  <2>1. v \in Word /\ w \in Word
    BY OperandsAssumption, ZeroWordType
  <2> QED BY <1>4, <2>1, UpdateType
<1>5. ASSUME NEW t \in Threads, EnterFunction(t) PROVE TypeOK'
  BY <1>5, EnterFunctionType
<1> QED BY <1>1, <1>2, <1>3, <1>4, <1>5 DEF Next

\* Memory, registers and slots keep their types.
THEOREM TypeCorrect == Spec => []TypeOK
<1> QED BY TypeOKInit, TypeOKStep, PTL DEF Spec

-----------------------------------------------------------------------------
(***************************************************************************)
(* The slots and the reservation.                                          *)
(***************************************************************************)
IInv == TypeOK /\ SlotsMatchReservation

LEMMA SlotsStep == IInv /\ [Next]_monVars => SlotsMatchReservation'
<1> SUFFICES ASSUME TypeOK, SlotsMatchReservation, [Next]_monVars,
                    NEW u \in Threads, mon'[u].valid
             PROVE  /\ armed'[u].on
                    /\ mon'[u].ptr = armed'[u].addr
                    /\ mon'[u].size = armed'[u].size
                    /\ mon'[u].value = armed'[u].value
  BY DEF IInv, SlotsMatchReservation
<1>0. ASSUME UNCHANGED <<mon[u], armed[u]>>
      PROVE  /\ armed'[u].on
             /\ mon'[u].ptr = armed'[u].addr
             /\ mon'[u].size = armed'[u].size
             /\ mon'[u].value = armed'[u].value
  BY <1>0 DEF SlotsMatchReservation
<1>1. CASE UNCHANGED <<mon, armed>>
  BY <1>0, <1>1
<1>2. ASSUME NEW t \in Threads, NEW a \in Cells, NEW op, LoadExclusive(t, op, a)
      PROVE  \/ UNCHANGED <<mon[u], armed[u]>>
             \/ /\ armed'[u].on
                /\ mon'[u].ptr = armed'[u].addr
                /\ mon'[u].size = armed'[u].size
                /\ mon'[u].value = armed'[u].value
  <2>1. CASE t = u
    BY <1>2, <2>1 DEF LoadExclusive, TypeOK
  <2>2. CASE t # u
    BY <1>2, <2>2 DEF LoadExclusive, TypeOK
  <2> QED BY <2>1, <2>2
<1>3. ASSUME NEW t \in Threads, NEW a \in Cells, NEW op, NEW v, StoreExclusive(t, op, a, v)
      PROVE  UNCHANGED <<mon[u], armed[u]>>
  BY <1>3 DEF StoreExclusive, ClearValid, TypeOK
<1>4. ASSUME NEW t \in Threads, EnterFunction(t)
      PROVE  UNCHANGED <<mon[u], armed[u]>>
  BY <1>4 DEF EnterFunction, NoMon, TypeOK
<1>5. ASSUME NEW t \in Threads, NEW a \in Cells, NEW op, NEW v, NEW w,
             \/ LoadAcquire(t, op, a)
             \/ StoreRelease(t, op, a, v)
             \/ AtomicRMW(t, op, a, v)
             \/ CompareAndSwap(t, op, a, v, w)
             \/ CompareExchange(t, op, a, v)
      PROVE  UNCHANGED <<mon, armed>>
  BY <1>5 DEF LoadAcquire, StoreRelease, AtomicRMW, CompareAndSwap, CompareExchange
<1>6. CASE UNCHANGED monVars
  BY <1>1, <1>6 DEF monVars
<1> QED BY <1>0, <1>1, <1>2, <1>3, <1>4, <1>5, <1>6 DEF Next

LEMMA IInvInvariant == Spec => []IInv
<1>1. Init => IInv
  BY TypeOKInit DEF IInv, Init, SlotsMatchReservation, NoMon
<1>2. IInv /\ [Next]_monVars => IInv'
  BY TypeOKStep, SlotsStep DEF IInv
<1> QED BY <1>1, <1>2, PTL DEF Spec

\* The slots a store-exclusive consults are those of its own thread's latest
\* load-exclusive.
THEOREM SlotsMatch == Spec => []SlotsMatchReservation
<1>1. IInv => SlotsMatchReservation
  BY DEF IInv
<1> QED BY <1>1, IInvInvariant, PTL

\* A store-exclusive that reports success loses no update.
THEOREM NoLostUpdate == Spec => NoUpdateLost
<1> DEFINE Kept ==
      \A t \in Threads, op \in StoreExOps, a \in Cells, v \in Operands :
        status'[t] = 0 /\ StoreExclusive(t, op, a, v) =>
          /\ armed[t].on /\ armed[t].addr = a /\ armed[t].size = StoreExSize(op)
          /\ SameLow(Read(mem, a, armed[t].size), armed[t].value, armed[t].size)
<1>1. IInv => Kept
  <2> SUFFICES ASSUME IInv, NEW t \in Threads, NEW op \in StoreExOps, NEW a \in Cells,
                      NEW v \in Operands, status'[t] = 0, StoreExclusive(t, op, a, v)
               PROVE  /\ armed[t].on /\ armed[t].addr = a /\ armed[t].size = StoreExSize(op)
                      /\ SameLow(Read(mem, a, armed[t].size), armed[t].value, armed[t].size)
    BY DEF Kept
  <2>1. StoreSucceeds(t, op, a)
    BY DEF StoreExclusive, IInv, TypeOK
  <2>2. mon[t].valid /\ mon[t].ptr = a /\ mon[t].size = StoreExSize(op)
    BY <2>1 DEF StoreSucceeds, CanTry
  <2>3. /\ armed[t].on /\ armed[t].addr = a /\ armed[t].size = StoreExSize(op)
        /\ mon[t].value = armed[t].value
    BY <2>2 DEF IInv, SlotsMatchReservation
  <2> QED BY <2>1, <2>3 DEF StoreSucceeds
<1>2. NoUpdateLost <=> [][Kept]_monVars
  BY DEF NoUpdateLost
<1> HIDE DEF Kept
<1> QED BY <1>1, <1>2, IInvInvariant, PTL

-----------------------------------------------------------------------------
Labels == {"idle", "again", "cmp", "stx", "cbnz", "rmw", "cas", "mov", "xcas", "cmpxchg",
           "jnz", "plain", "load", "store", "ret"}

ZeroAbove(v, n) == \A i \in n..(S64 - 1) : v[i] = 0

\* Which job a label belongs to.
LabelOK(l, j) ==
  /\ l = "idle" => j = NoJob
  /\ l # "idle" => j \in Jobs
  /\ l \in {"again", "stx", "cbnz"} => j.kind \in {"loop", "casloop"}
  /\ l = "cmp" => j.kind = "casloop"
  /\ l \in {"mov", "jnz"} => j.kind = "xloop"
  /\ l = "cmpxchg" => j.kind \in {"xloop", "xcas"}
  /\ l \in {"rmw", "cas", "xcas", "load", "store"} => j.kind = l

\* What the register and the slots hold at a label.
RegisterOK(l, j, r, m) ==
  /\ l \in {"cmp", "stx"} /\ m.valid => m.value = r /\ ZeroAbove(r, m.size)
  /\ l = "stx" /\ j.kind = "casloop" => SameLow(r, j.exp, StoreExSize(j.st))
  /\ l \in {"cmpxchg", "jnz"} /\ j.kind = "xloop" => ZeroAbove(r, RMWSize(j.st))
  /\ l = "cmpxchg" /\ j.kind = "xcas" => r = j.exp

LoopTypeOK ==
  /\ TypeOK
  /\ pc \in [Threads -> Labels]
  /\ job \in [Threads -> Jobs \cup {NoJob}]
  /\ calls \in [Threads -> Nat]

LoopInv ==
  /\ LoopTypeOK
  /\ \A t \in Threads : /\ LabelOK(pc[t], job[t])
                        /\ RegisterOK(pc[t], job[t], reg[t], mon[t])

-----------------------------------------------------------------------------
(***************************************************************************)
(* Jobs.                                                                   *)
(***************************************************************************)

\* The parts of a job have their types.
LEMMA JobParts ==
  ASSUME NEW j \in Jobs
  PROVE  /\ j.addr \in Cells /\ j.arg \in Word /\ j.exp \in Word
         /\ j.kind \in Kinds /\ j # NoJob
BY JobsAssumption, NoJobAssumption

\* A call starts at a label of its kind.
LEMMA FirstLabelOK ==
  ASSUME NEW j \in Jobs
  PROVE  /\ FirstLabel(j) \in {"again", "mov", "rmw", "cas", "xcas", "plain", "load", "store"}
         /\ LabelOK(FirstLabel(j), j)
<1>1. j.kind \in Kinds /\ j \in Jobs
  BY JobParts
<1> QED BY <1>1 DEF FirstLabel, LabelOK, Kinds

-----------------------------------------------------------------------------
(***************************************************************************)
(* Types.                                                                  *)
(***************************************************************************)

\* A thread inside a call is executing one of the calls of the model.
LEMMA InCall ==
  ASSUME LoopInv, NEW t \in Threads, pc[t] # "idle"
  PROVE  job[t] \in Jobs
BY DEF LoopInv, LabelOK

\* Control alone: the register, the slots and the memory are left as they are.
LEMMA ControlType ==
  ASSUME LoopTypeOK, NEW t \in Threads, NEW l \in Labels, Goto(t, l), UNCHANGED calls,
         TypeOK', job' \in [Threads -> Jobs \cup {NoJob}]
  PROVE  LoopTypeOK'
BY DEF LoopTypeOK, Goto

LEMMA LoopInitType == LoopInit => LoopTypeOK
BY TypeOKInit DEF LoopInit, LoopTypeOK, Labels

LEMMA CallType ==
  ASSUME LoopInv, NEW t \in Threads, Call(t)
  PROVE  LoopTypeOK'
<1>1. PICK j \in Jobs : job' = [job EXCEPT ![t] = j] /\ Goto(t, FirstLabel(j))
  BY DEF Call
<1>2. FirstLabel(j) \in Labels
  BY FirstLabelOK DEF Labels
<1>3. TypeOK'
  BY EnterFunctionType DEF Call, LoopInv, LoopTypeOK
<1>4. pc' \in [Threads -> Labels] /\ job' \in [Threads -> Jobs \cup {NoJob}]
  BY <1>1, <1>2 DEF Goto, LoopInv, LoopTypeOK
<1>5. calls' \in [Threads -> Nat]
  BY DEF Call, LoopInv, LoopTypeOK
<1> QED BY <1>3, <1>4, <1>5 DEF LoopTypeOK

LEMMA StepType ==
  ASSUME LoopInv, NEW t \in Threads, Step(t)
  PROVE  LoopTypeOK'
<1> DEFINE JobsKept == UNCHANGED <<job, calls>>
<1>0. LoopTypeOK /\ TypeOK
  BY DEF LoopInv, LoopTypeOK
<1>1. ASSUME NEW l \in Labels, Goto(t, l), JobsKept, TypeOK'
      PROVE  LoopTypeOK'
  BY <1>0, <1>1, ControlType DEF LoopTypeOK
<1>2. ASSUME UNCHANGED monVars
      PROVE  TypeOK'
  BY <1>0, <1>2 DEF TypeOK, monVars
<1>3. ASSUME pc[t] # "idle"
      PROVE  job[t] \in Jobs /\ job[t].addr \in Cells /\ job[t].arg \in Word /\ job[t].exp \in Word
  BY <1>3, InCall, JobParts
<1>4. CASE Again(t)
  <2>1. TypeOK'
    BY <1>0, <1>3, <1>4, LoadExclusiveType DEF Again, At
  <2> QED BY <1>1, <1>4, <2>1 DEF Again, Same, Labels
<1>5. CASE Cmp(t)
  BY <1>1, <1>2, <1>5 DEF Cmp, Same, Labels
<1>6. CASE Stx(t)
  <2>1. Apply(job[t].fn, reg[t], job[t].arg) \in Word
    BY <1>0, <1>3, <1>6, ApplyType DEF Stx, At, TypeOK
  <2>2. TypeOK'
    BY <1>0, <1>3, <1>6, <2>1, StoreExclusiveType DEF Stx, At
  <2> QED BY <1>1, <1>6, <2>2 DEF Stx, Same, Labels
<1>7. CASE Cbnz(t)
  BY <1>1, <1>2, <1>7 DEF Cbnz, Same, Labels
<1>8. CASE Rmw(t)
  <2>1. TypeOK'
    BY <1>0, <1>3, <1>8, UpdateType, ZeroWordType DEF Rmw, At
  <2> QED BY <1>1, <1>8, <2>1 DEF Rmw, Same, Labels
<1>9. CASE Cas(t)
  <2>1. TypeOK'
    BY <1>0, <1>3, <1>9, UpdateType DEF Cas, At
  <2> QED BY <1>1, <1>9, <2>1 DEF Cas, Same, Labels
<1>10. CASE Load(t)
  <2>1. TypeOK'
    BY <1>0, <1>3, <1>10, UpdateType, ZeroWordType DEF Load, At
  <2> QED BY <1>1, <1>10, <2>1 DEF Load, Same, Labels
<1>11. CASE StoreJob(t)
  <2>1. TypeOK'
    BY <1>0, <1>3, <1>11, UpdateType, ZeroWordType DEF StoreJob, At
  <2> QED BY <1>1, <1>11, <2>1 DEF StoreJob, Same, Labels
<1>12. CASE Mov(t)
  <2>1. TypeOK'
    BY <1>0, <1>12 DEF Mov, TypeOK
  <2> QED BY <1>1, <1>12, <2>1 DEF Mov, Same, Labels
<1>13. CASE SetAX(t)
  <2>1. TypeOK'
    BY <1>0, <1>3, <1>13 DEF SetAX, TypeOK, At
  <2> QED BY <1>1, <1>13, <2>1 DEF SetAX, Same, Labels
<1>14. CASE Cmpxchg(t)
  <2>1. Apply(job[t].fn, reg[t], job[t].arg) \in Word
    BY <1>0, <1>3, <1>14, ApplyType DEF Cmpxchg, At, TypeOK
  <2>2. TypeOK'
    BY <1>0, <1>3, <1>14, <2>1, UpdateType, ZeroWordType DEF Cmpxchg, At
  <2> QED BY <1>1, <1>14, <2>2 DEF Cmpxchg, Same, Labels
<1>15. CASE Jnz(t)
  BY <1>1, <1>2, <1>15 DEF Jnz, Same, Labels
<1>16. CASE Ret(t)
  <2>1. TypeOK' /\ job' \in [Threads -> Jobs \cup {NoJob}] /\ UNCHANGED calls
    BY <1>0, <1>2, <1>16 DEF Ret, LoopTypeOK
  <2> QED BY <1>0, <1>16, <2>1, ControlType DEF Ret, Labels
<1> QED BY <1>4, <1>5, <1>6, <1>7, <1>8, <1>9, <1>10, <1>11, <1>12, <1>13, <1>14, <1>15, <1>16
        DEF Step
-----------------------------------------------------------------------------
(***************************************************************************)
(* A step of one thread leaves the others' control, registers and slots    *)
(* alone, and keeps its own what its label promises.                       *)
(***************************************************************************)
Alone(t) == \A u \in Threads \ {t} :
              UNCHANGED <<pc[u], job[u], reg[u], status[u], mon[u]>>

\* Every step is a step of one thread.
LEMMA StepAlone ==
  ASSUME LoopInv, NEW t \in Threads, Call(t) \/ Step(t)
  PROVE  Alone(t)
<1>0. LoopTypeOK /\ TypeOK
  BY DEF LoopInv, LoopTypeOK
<1>1. CASE Call(t)
  BY <1>0, <1>1 DEF Call, Alone, Goto, EnterFunction, LoopTypeOK, TypeOK
<1>2. CASE Again(t)
  BY <1>0, <1>2 DEF Again, Same, Alone, Goto, LoadExclusive, LoopTypeOK, TypeOK
<1>3. CASE Cmp(t) \/ Cbnz(t) \/ Jnz(t)
  BY <1>0, <1>3 DEF Cmp, Cbnz, Jnz, monVars, Same, Alone, Goto, LoopTypeOK
<1>4. CASE Stx(t)
  BY <1>0, <1>4 DEF Stx, Same, Alone, Goto, StoreExclusive, ClearValid, LoopTypeOK, TypeOK
<1>5. CASE Rmw(t)
  BY <1>0, <1>5 DEF Rmw, Same, Alone, Goto, AtomicRMW, LoopTypeOK, TypeOK
<1>6. CASE Cas(t)
  BY <1>0, <1>6 DEF Cas, Same, Alone, Goto, CompareAndSwap, LoopTypeOK, TypeOK
<1>7. CASE Load(t) \/ StoreJob(t)
  BY <1>0, <1>7 DEF Load, StoreJob, Same, Alone, Goto, LoadAcquire, StoreRelease,
                    LoopTypeOK, TypeOK
<1>8. CASE Mov(t) \/ SetAX(t)
  BY <1>0, <1>8 DEF Mov, SetAX, Same, Alone, Goto, LoopTypeOK, TypeOK
<1>9. CASE Cmpxchg(t)
  BY <1>0, <1>9 DEF Cmpxchg, Same, Alone, Goto, CompareExchange, LoopTypeOK, TypeOK
<1>10. CASE Ret(t)
  BY <1>0, <1>10 DEF Ret, Alone, Goto, monVars, LoopTypeOK
<1> QED BY <1>1, <1>2, <1>3, <1>4, <1>5, <1>6, <1>7, <1>8, <1>9, <1>10 DEF Step

\* A value read from n cells is zero above them.
LEMMA ReadZeroAbove ==
  ASSUME NEW m, NEW a, NEW n \in Sizes
  PROVE  ZeroAbove(Read(m, a, n), n)
BY SizeBounds, SizesAssumption DEF ZeroAbove, Read

\* A loaded value that agrees with a register on the cells loaded is the
\* register, when that is zero above them.
LEMMA SameCells ==
  ASSUME NEW m, NEW a, NEW n \in Sizes, NEW v \in Word,
         ZeroAbove(v, n), SameLow(Read(m, a, n), v, n)
  PROVE  Read(m, a, n) = v
<1>1. v = [i \in 0..(S64 - 1) |-> v[i]]
  BY DEF Word
<1>2. n \in Nat
  BY SizeBounds
<1>3. ASSUME NEW i \in 0..(S64 - 1)
      PROVE  (IF i < n THEN m[a + i] ELSE 0) = v[i]
  <2>1. CASE i < n
    <3>1. i \in 0..(n - 1)
      BY <1>2, <2>1, SizesAssumption
    <3>2. Read(m, a, n)[i] = m[a + i]
      BY <2>1 DEF Read
    <3> QED BY <2>1, <3>1, <3>2 DEF SameLow
  <2>2. CASE ~(i < n)
    BY <1>2, <2>2, SizesAssumption DEF ZeroAbove
  <2> QED BY <2>1, <2>2
<1> QED BY <1>1, <1>3 DEF Read

\* The stepping thread's label, register and slots agree after the step.
LEMMA StepLocal ==
  ASSUME LoopInv, NEW t \in Threads, Call(t) \/ Step(t)
  PROVE  /\ LabelOK(pc'[t], job'[t])
         /\ RegisterOK(pc'[t], job'[t], reg'[t], mon'[t])
<1>0. /\ LoopTypeOK /\ TypeOK
      /\ LabelOK(pc[t], job[t]) /\ RegisterOK(pc[t], job[t], reg[t], mon[t])
  BY DEF LoopInv, LoopTypeOK
<1>1. ASSUME NEW l, Goto(t, l) PROVE pc'[t] = l
  BY <1>0, <1>1 DEF Goto, LoopTypeOK
<1>2. ASSUME pc[t] # "idle" PROVE job[t] \in Jobs /\ job[t].kind \in Kinds
  BY <1>2, InCall, JobParts
<1>3. CASE Call(t)
  <2>1. PICK j \in Jobs : job' = [job EXCEPT ![t] = j] /\ Goto(t, FirstLabel(j))
    BY <1>3 DEF Call
  <2>2. job'[t] = j /\ pc'[t] = FirstLabel(j)
    BY <1>0, <1>1, <2>1 DEF LoopTypeOK
  <2>3. /\ FirstLabel(j) \notin {"cmp", "stx", "cmpxchg", "jnz"}
        /\ LabelOK(FirstLabel(j), j)
    BY FirstLabelOK
  <2> QED BY <2>2, <2>3 DEF RegisterOK
<1>4. CASE Again(t)
  <2> DEFINE n == LoadSize(job[t].ld)
             v == Read(mem, job[t].addr, n)
             l == IF job[t].kind = "casloop" THEN "cmp" ELSE "stx"
  <2>1. pc'[t] = l /\ job'[t] = job[t]
    BY <1>1, <1>4 DEF Again, Same
  <2>2. job[t].kind \in {"loop", "casloop"} /\ job[t] \in Jobs
    BY <1>0, <1>2, <1>4 DEF Again, At, LabelOK
  <2>3. reg'[t] = v /\ mon'[t].value = v /\ mon'[t].size = n
    BY <1>0, <1>4 DEF Again, LoadExclusive, TypeOK
  <2>4. ZeroAbove(v, n)
    BY SizesOfOps, ReadZeroAbove
  <2> HIDE DEF n, v
  <2>5. LabelOK(pc'[t], job'[t])
    BY <2>1, <2>2 DEF LabelOK
  <2>6. RegisterOK(pc'[t], job'[t], reg'[t], mon'[t])
    BY <2>1, <2>2, <2>3, <2>4 DEF RegisterOK
  <2> QED BY <2>5, <2>6
<1>5. CASE Cmp(t)
  <2>1. /\ job'[t] = job[t] /\ reg'[t] = reg[t] /\ mon'[t] = mon[t]
        /\ job[t].kind = "casloop" /\ job[t] \in Jobs /\ pc[t] = "cmp"
    BY <1>0, <1>2, <1>5 DEF Cmp, Same, monVars, At, LabelOK
  <2>2. CASE SameLow(reg[t], job[t].exp, StoreExSize(job[t].st))
    <3>1. pc'[t] = "stx"
      BY <1>1, <1>5, <2>2 DEF Cmp
    <3> QED BY <1>0, <2>1, <2>2, <3>1 DEF LabelOK, RegisterOK
  <2>3. CASE ~SameLow(reg[t], job[t].exp, StoreExSize(job[t].st))
    <3>1. pc'[t] = "ret"
      BY <1>1, <1>5, <2>3 DEF Cmp
    <3> QED BY <2>1, <3>1 DEF LabelOK, RegisterOK
  <2> QED BY <2>2, <2>3
<1>6. CASE Stx(t) \/ Cbnz(t)
  <2>1. pc'[t] \in {"cbnz", "again", "ret"} /\ job'[t] = job[t]
    BY <1>1, <1>6 DEF Stx, Cbnz, Same
  <2>2. job[t].kind \in {"loop", "casloop"} /\ job[t] \in Jobs
    BY <1>0, <1>2, <1>6 DEF Stx, Cbnz, At, LabelOK
  <2> QED BY <2>1, <2>2 DEF LabelOK, RegisterOK
<1>7. CASE Rmw(t) \/ Cas(t) \/ Load(t) \/ StoreJob(t)
  <2>1. pc'[t] = "ret" /\ job'[t] = job[t] /\ job[t] \in Jobs
    BY <1>1, <1>2, <1>7 DEF Rmw, Cas, Load, StoreJob, Same, At
  <2> QED BY <2>1 DEF LabelOK, RegisterOK
<1>8. CASE Mov(t)
  <2>1. pc'[t] = "cmpxchg" /\ job'[t] = job[t] /\ job[t] \in Jobs /\ job[t].kind = "xloop"
    BY <1>0, <1>1, <1>2, <1>8 DEF Mov, Same, At, LabelOK
  <2>2. ZeroAbove(reg'[t], RMWSize(job[t].st))
    BY <1>0, <1>8 DEF Mov, ZeroAbove, TypeOK
  <2> QED BY <2>1, <2>2 DEF LabelOK, RegisterOK
<1>9. CASE SetAX(t)
  <2>1. /\ pc'[t] = "cmpxchg" /\ job'[t] = job[t] /\ job[t] \in Jobs /\ job[t].kind = "xcas"
        /\ reg'[t] = job[t].exp
    BY <1>0, <1>1, <1>2, <1>9 DEF SetAX, Same, At, LabelOK, TypeOK
  <2> QED BY <2>1 DEF LabelOK, RegisterOK
<1>10. CASE Cmpxchg(t)
  <2>1. /\ job'[t] = job[t] /\ job[t] \in Jobs /\ job[t].kind \in {"xloop", "xcas"}
        /\ pc'[t] = IF job[t].kind = "xcas" THEN "ret" ELSE "jnz"
    BY <1>0, <1>1, <1>2, <1>10 DEF Cmpxchg, Same, At, LabelOK
  <2>2. reg'[t] = Read(mem, job[t].addr, RMWSize(job[t].st))
    BY <1>0, <1>10 DEF Cmpxchg, CompareExchange, TypeOK
  <2>3. ZeroAbove(reg'[t], RMWSize(job[t].st))
    BY <2>2, SizesOfOps, ReadZeroAbove
  <2> QED BY <2>1, <2>3 DEF LabelOK, RegisterOK
<1>11. CASE Jnz(t)
  <2>1. /\ job'[t] = job[t] /\ job[t] \in Jobs /\ job[t].kind = "xloop" /\ reg'[t] = reg[t]
        /\ pc[t] = "jnz"
    BY <1>0, <1>2, <1>11 DEF Jnz, Same, monVars, At, LabelOK
  <2>2. pc'[t] \in {"cmpxchg", "ret"}
    BY <1>1, <1>11 DEF Jnz
  <2> QED BY <1>0, <2>1, <2>2 DEF LabelOK, RegisterOK
<1>12. CASE Ret(t)
  <2>1. pc'[t] = "idle" /\ job'[t] = NoJob
    BY <1>0, <1>1, <1>12 DEF Ret, LoopTypeOK
  <2> QED BY <2>1 DEF LabelOK, RegisterOK
<1> QED BY <1>3, <1>4, <1>5, <1>6, <1>7, <1>8, <1>9, <1>10, <1>11, <1>12 DEF Step

LEMMA LoopInvInit == LoopInit => LoopInv
<1> SUFFICES ASSUME LoopInit PROVE LoopInv
  OBVIOUS
<1>1. LoopTypeOK
  BY LoopInitType
<1>2. ASSUME NEW t \in Threads PROVE pc[t] = "idle" /\ job[t] = NoJob
  BY <1>2 DEF LoopInit
<1> QED BY <1>1, <1>2 DEF LoopInv, LabelOK, RegisterOK

LEMMA LoopInvStep == LoopInv /\ [LoopNext]_vars => LoopInv'
<1> SUFFICES ASSUME LoopInv, [LoopNext]_vars PROVE LoopInv'
  OBVIOUS
<1>1. CASE UNCHANGED vars
  <2>1. TypeOK'
    BY <1>1 DEF LoopInv, LoopTypeOK, TypeOK, vars, monVars
  <2>2. LoopTypeOK'
    BY <1>1, <2>1 DEF LoopInv, LoopTypeOK, vars
  <2> QED BY <1>1, <2>2 DEF LoopInv, vars, monVars
<1>2. ASSUME NEW t \in Threads, Call(t) \/ Step(t) PROVE LoopInv'
  <2>1. LoopTypeOK'
    BY <1>2, CallType, StepType
  <2>2. ASSUME NEW u \in Threads
        PROVE  LabelOK(pc'[u], job'[u]) /\ RegisterOK(pc'[u], job'[u], reg'[u], mon'[u])
    <3>1. CASE u = t
      BY <1>2, <3>1, StepLocal
    <3>2. CASE u # t
      <4>1. UNCHANGED <<pc[u], job[u], reg[u], mon[u]>>
        BY <1>2, <3>2, StepAlone DEF Alone
      <4> QED BY <4>1 DEF LoopInv
    <3> QED BY <3>1, <3>2
  <2> QED BY <2>1, <2>2 DEF LoopInv
<1> QED BY <1>1, <1>2 DEF LoopNext

\* At every label of a retry loop the register and the exclusive_* slots of
\* the thread hold what the next store-exclusive or cmpxchg relies on.
THEOREM LoopInvariant == LoopSpec => []LoopInv
<1> QED BY LoopInvInit, LoopInvStep, PTL DEF LoopSpec
-----------------------------------------------------------------------------
(***************************************************************************)
(* Refinement.                                                             *)
(***************************************************************************)

\* The abstract call of a job.
LEMMA AbstractCallParts ==
  ASSUME NEW j \in Jobs
  PROVE  /\ AbstractCall(j) # NoJob
         /\ AbstractCall(j).fn = JobFn(j) /\ AbstractCall(j).addr = j.addr
         /\ AbstractCall(j).size = JobSize(j) /\ AbstractCall(j).arg = j.arg
         /\ AbstractCall(j).exp = j.exp /\ AbstractCall(j).value = Returns(j)
BY NoJobAssumption DEF AbstractCall

\* The threads that do not step are as far in their abstract calls as before.
LEMMA OthersEffective ==
  ASSUME NEW t \in Threads, Alone(t), NEW u \in Threads \ {t}
  PROVE  Effective(u)' <=> Effective(u)
BY DEF Alone, Effective, At

\* A step that neither takes effect nor returns is a stutter.
LEMMA Stutter ==
  ASSUME NEW t \in Threads, Alone(t), LoopTypeOK, job' = job, mem' = mem,
         ~Effective(t) => ~Effective(t)',
         Effective(t) => Effective(t)' /\ reg'[t] = reg[t]
  PROVE  UNCHANGED Abstract!avars
<1>1. ASSUME NEW u \in Threads
      PROVE  /\ Effective(u)' <=> Effective(u)
             /\ Effective(u) => reg'[u] = reg[u]
             /\ job'[u] = job[u]
  BY OthersEffective DEF Alone
<1>2. UNCHANGED [u \in Threads |-> IF job[u] = NoJob THEN NoJob ELSE AbstractCall(job[u])]
  BY <1>1
<1>3. UNCHANGED [u \in Threads |-> Effective(u)]
  <2>1. ASSUME NEW u \in Threads
        PROVE  Effective(u) \in BOOLEAN /\ Effective(u)' \in BOOLEAN
    BY DEF Effective
  <2>2. ASSUME NEW u \in Threads PROVE Effective(u)' = Effective(u)
    BY <1>1, <2>1
  <2> QED BY <2>2, Zenon
<1>4. UNCHANGED [u \in Threads |-> IF Effective(u) /\ Returns(job[u]) THEN reg[u] ELSE NoJob]
  BY <1>1
<1> QED BY <1>2, <1>3, <1>4 DEF Abstract!avars
\* The memory an abstract call leaves, in terms of the job.
LEMMA OutcomeOfJob ==
  ASSUME NEW j \in Jobs, NEW old
  PROVE  Abstract!Outcome(AbstractCall(j), old) =
           IF JobFn(j) = "load" THEN mem
           ELSE IF JobFn(j) = "store" THEN Write(mem, j.addr, JobSize(j), j.arg)
           ELSE IF JobFn(j) = "cas"
                THEN IF SameLow(old, j.exp, JobSize(j))
                     THEN Write(mem, j.addr, JobSize(j), j.arg) ELSE mem
           ELSE Write(mem, j.addr, JobSize(j), Apply(JobFn(j), old, j.arg))
<1> DEFINE c == AbstractCall(j)
<1>1. /\ c.fn = JobFn(j) /\ c.addr = j.addr /\ c.size = JobSize(j)
      /\ c.arg = j.arg /\ c.exp = j.exp
  BY AbstractCallParts
<1> HIDE DEF c
<1>2. SameLow(old, c.exp, c.size) <=> SameLow(old, j.exp, JobSize(j))
  BY <1>1
<1> SUFFICES Abstract!Outcome(c, old) =
               IF c.fn = "load" THEN mem
               ELSE IF c.fn = "store" THEN Write(mem, c.addr, c.size, c.arg)
               ELSE IF c.fn = "cas"
                    THEN IF SameLow(old, c.exp, c.size)
                         THEN Write(mem, c.addr, c.size, c.arg) ELSE mem
               ELSE Write(mem, c.addr, c.size, Apply(c.fn, old, c.arg))
  BY <1>1, <1>2 DEF c
<1> QED BY DEF Abstract!Outcome

\* The step at which a call finds what it returns and leaves its outcome.
LEMMA TakesEffect ==
  ASSUME NEW t \in Threads, Alone(t), LoopTypeOK, job[t] \in Jobs, job' = job,
         ~Effective(t), Effective(t)',
         NEW old, old = Read(mem, job[t].addr, JobSize(job[t])),
         mem' = Abstract!Outcome(AbstractCall(job[t]), old),
         Returns(job[t]) => reg'[t] = old
  PROVE  Abstract!TakeEffect(t)
<1> DEFINE call     == [u \in Threads |-> IF job[u] = NoJob THEN NoJob ELSE AbstractCall(job[u])]
           done     == [u \in Threads |-> Effective(u)]
           result   == [u \in Threads |-> IF Effective(u) /\ Returns(job[u]) THEN reg[u] ELSE NoJob]
           c        == AbstractCall(job[t])
<1>1. call[t] = c /\ c # NoJob /\ c.value = Returns(job[t])
  BY JobParts, AbstractCallParts
<1>2. c.addr = job[t].addr /\ c.size = JobSize(job[t])
  BY AbstractCallParts
<1>3. UNCHANGED call
  OBVIOUS
<1>4. ASSUME NEW u \in Threads PROVE Effective(u) \in BOOLEAN /\ Effective(u)' \in BOOLEAN
  BY DEF Effective
<1>5. ASSUME NEW u \in Threads
      PROVE  Effective(u)' = IF u = t THEN TRUE ELSE Effective(u)
  BY <1>4, OthersEffective
<1>6. done' = [done EXCEPT ![t] = TRUE]
  BY <1>5, Zenon
<1>7. ASSUME NEW u \in Threads
      PROVE  result'[u] = IF u = t THEN (IF c.value THEN old ELSE NoJob) ELSE result[u]
  <2>1. CASE u = t
    BY <1>1, <2>1
  <2>2. CASE u # t
    <3>1. reg'[u] = reg[u] /\ (Effective(u)' <=> Effective(u))
      BY <2>2, OthersEffective DEF Alone
    <3> QED BY <2>2, <3>1
  <2> QED BY <2>1, <2>2
<1>8. result' = [result EXCEPT ![t] = IF c.value THEN old ELSE NoJob]
  BY <1>7
<1>9. call[t] # NoJob /\ ~done[t]
  BY <1>1
<1> HIDE DEF call, done, result, c
<1> QED BY <1>1, <1>2, <1>3, <1>6, <1>8, <1>9 DEF Abstract!TakeEffect, call, done, result
\* Entering a function starts an abstract call.
LEMMA CallRefines ==
  ASSUME LoopInv, NEW t \in Threads, Call(t)
  PROVE  \E c \in {AbstractCall(j) : j \in Jobs} : Abstract!Start(t, c)
<1> DEFINE call   == [u \in Threads |-> IF job[u] = NoJob THEN NoJob ELSE AbstractCall(job[u])]
           done   == [u \in Threads |-> Effective(u)]
           result == [u \in Threads |-> IF Effective(u) /\ Returns(job[u]) THEN reg[u] ELSE NoJob]
<1>0. LoopTypeOK /\ TypeOK
  BY DEF LoopInv, LoopTypeOK
<1>1. PICK j \in Jobs : job' = [job EXCEPT ![t] = j] /\ Goto(t, FirstLabel(j))
  BY DEF Call
<1>2. /\ pc[t] = "idle" /\ job[t] = NoJob
      /\ pc'[t] = FirstLabel(j) /\ job'[t] = j
  BY <1>0, <1>1 DEF Call, At, Goto, LoopInv, LabelOK, LoopTypeOK
<1>3. UNCHANGED mem /\ Alone(t)
  BY StepAlone DEF Call, EnterFunction
<1>4. FirstLabel(j) \notin {"ret", "cbnz", "jnz", "cmp"}
  BY FirstLabelOK
<1>5. ~Effective(t) /\ ~Effective(t)'
  BY <1>2, <1>4 DEF Effective, At
<1>6. ASSUME NEW u \in Threads
      PROVE  Effective(u) \in BOOLEAN /\ Effective(u)' \in BOOLEAN
  BY DEF Effective
<1>7. ASSUME NEW u \in Threads PROVE Effective(u)' = Effective(u)
  BY <1>3, <1>5, <1>6, OthersEffective
<1>8. UNCHANGED done
  BY <1>7, Zenon
<1>9. ASSUME NEW u \in Threads
      PROVE  IF Effective(u)' /\ Returns(job'[u]) THEN reg'[u] = result[u] ELSE NoJob = result[u]
  <2>1. CASE u = t
    BY <1>5, <2>1
  <2>2. CASE u # t
    BY <1>3, <1>7, <2>2 DEF Alone
  <2> QED BY <2>1, <2>2
<1>10. UNCHANGED result
  BY <1>9
<1>11. call' = [call EXCEPT ![t] = AbstractCall(j)]
  <2>1. job' = [job EXCEPT ![t] = j] /\ j # NoJob
    BY <1>1, JobParts
  <2>2. ASSUME NEW u \in Threads
        PROVE  (IF job'[u] = NoJob THEN NoJob ELSE AbstractCall(job'[u])) =
               IF u = t THEN AbstractCall(j) ELSE call[u]
    BY <1>0, <2>1 DEF LoopTypeOK
  <2> QED BY <2>2
<1>12. call[t] = NoJob
  BY <1>2
<1>13. Abstract!Start(t, AbstractCall(j))
  <2> HIDE DEF call, done, result
  <2> QED BY <1>3, <1>8, <1>10, <1>11, <1>12 DEF Abstract!Start, call, done, result
<1> QED BY <1>13

\* Returning from a function returns from the abstract call.
LEMMA RetRefines ==
  ASSUME LoopInv, NEW t \in Threads, Ret(t)
  PROVE  Abstract!Return(t)
<1> DEFINE call   == [u \in Threads |-> IF job[u] = NoJob THEN NoJob ELSE AbstractCall(job[u])]
           done   == [u \in Threads |-> Effective(u)]
           result == [u \in Threads |-> IF Effective(u) /\ Returns(job[u]) THEN reg[u] ELSE NoJob]
<1>0. LoopTypeOK
  BY DEF LoopInv
<1>1. UNCHANGED mem /\ Alone(t)
  BY StepAlone DEF Ret, monVars, Step
<1>2. pc[t] = "ret" /\ pc'[t] = "idle" /\ job' = [job EXCEPT ![t] = NoJob]
  BY <1>0 DEF Ret, Goto, At, LoopTypeOK
<1>3. Effective(t) /\ ~Effective(t)'
  BY <1>2 DEF Effective, At
<1>4. ASSUME NEW u \in Threads
      PROVE  Effective(u) \in BOOLEAN /\ Effective(u)' \in BOOLEAN
  BY DEF Effective
<1>5. ASSUME NEW u \in Threads
      PROVE  Effective(u)' = IF u = t THEN FALSE ELSE Effective(u)
  BY <1>1, <1>3, <1>4, OthersEffective
<1>6. done' = [done EXCEPT ![t] = FALSE]
  BY <1>5, Zenon
<1>7. call' = [call EXCEPT ![t] = NoJob]
  <2>1. ASSUME NEW u \in Threads
        PROVE  (IF job'[u] = NoJob THEN NoJob ELSE AbstractCall(job'[u])) =
               IF u = t THEN NoJob ELSE call[u]
    BY <1>0, <1>2 DEF LoopTypeOK
  <2> QED BY <2>1
<1>8. ASSUME NEW u \in Threads
      PROVE  (IF Effective(u)' /\ Returns(job'[u]) THEN reg'[u] ELSE NoJob) =
             IF u = t THEN NoJob ELSE result[u]
  <2>1. CASE u = t
    BY <1>3, <2>1
  <2>2. CASE u # t
    BY <1>1, <1>5, <2>2 DEF Alone
  <2> QED BY <2>1, <2>2
<1>9. result' = [result EXCEPT ![t] = NoJob]
  BY <1>8
<1>10. done[t]
  BY <1>3
<1> HIDE DEF call, done, result
<1> QED BY <1>1, <1>6, <1>7, <1>9, <1>10 DEF Abstract!Return, call, done, result

\* Every other step of a call takes effect, or is a stutter.
LEMMA StepRefines ==
  ASSUME LoopInv, NEW t \in Threads, Step(t), ~Ret(t)
  PROVE  Abstract!TakeEffect(t) \/ UNCHANGED Abstract!avars
<1> DEFINE j   == job[t]
           old == Read(mem, j.addr, JobSize(j))
<1>0. /\ LoopTypeOK /\ TypeOK /\ Alone(t)
      /\ LabelOK(pc[t], job[t]) /\ RegisterOK(pc[t], job[t], reg[t], mon[t])
  BY StepAlone DEF LoopInv, LoopTypeOK
<1>1. ASSUME NEW l, Goto(t, l) PROVE pc'[t] = l
  BY <1>0, <1>1 DEF Goto, LoopTypeOK
<1>2. pc[t] # "idle" /\ job' = job
  BY DEF Step, Again, Cmp, Stx, Cbnz, Rmw, Cas, Load, StoreJob, Mov, SetAX, Cmpxchg, Jnz,
         At, Same
<1>3. j \in Jobs /\ j.kind \in Kinds /\ j.addr \in Cells /\ j.exp \in Word
  BY <1>2, InCall, JobParts
<1>4. ASSUME ~Effective(t), Effective(t)',
             mem' = Abstract!Outcome(AbstractCall(j), old), Returns(j) => reg'[t] = old
      PROVE  Abstract!TakeEffect(t)
  BY <1>0, <1>2, <1>3, <1>4, TakesEffect
<1>5. ASSUME UNCHANGED mem, ~Effective(t) => ~Effective(t)',
             Effective(t) => Effective(t)' /\ reg'[t] = reg[t]
      PROVE  UNCHANGED Abstract!avars
  BY <1>0, <1>2, <1>5, Stutter
<1> HIDE DEF j
<1>6. CASE Again(t)
  <2>1. /\ pc[t] = "again" /\ j.kind \in {"loop", "casloop"} /\ UNCHANGED mem
        /\ pc'[t] = IF j.kind = "casloop" THEN "cmp" ELSE "stx"
    BY <1>0, <1>1, <1>6 DEF Again, At, LabelOK, LoadExclusive, j
  <2>2. ~Effective(t)
    BY <2>1 DEF Effective, At
  <2>3. CASE j.kind = "loop"
    <3>1. ~Effective(t)'
      BY <2>1, <2>3 DEF Effective, At
    <3> QED BY <1>5, <2>1, <2>2, <3>1
  <2>4. CASE j.kind = "casloop"
    <3>1. JobSize(j) = StoreExSize(j.st) /\ JobSize(j) = LoadSize(j.ld) /\ JobFn(j) = "cas"
      BY <1>3, <2>4, JobsAssumption DEF JobSize, JobFn
    <3>2. reg'[t] = old
      BY <1>0, <1>6, <3>1 DEF Again, LoadExclusive, TypeOK, j
    <3>3. Effective(t)' <=> ~SameLow(old, j.exp, JobSize(j))
      BY <1>2, <2>1, <2>4, <3>2 DEF Effective, At, j
    <3>4. CASE SameLow(old, j.exp, JobSize(j))
      BY <1>5, <2>1, <2>2, <3>3, <3>4
    <3>5. CASE ~SameLow(old, j.exp, JobSize(j))
      <4>1. Abstract!Outcome(AbstractCall(j), old) = mem
        BY <1>3, <3>1, <3>5, OutcomeOfJob
      <4> QED BY <1>4, <2>1, <2>2, <3>2, <3>3, <3>5, <4>1
    <3> QED BY <3>4, <3>5
  <2> QED BY <2>1, <2>3, <2>4
<1>7. CASE Cmp(t)
  <2>1. /\ pc[t] = "cmp" /\ j.kind = "casloop" /\ UNCHANGED <<mem, reg>>
    BY <1>0, <1>7 DEF Cmp, At, LabelOK, monVars, j
  <2>2. JobSize(j) = StoreExSize(j.st)
    BY <2>1 DEF JobSize
  <2>3. Effective(t) <=> ~SameLow(reg[t], j.exp, JobSize(j))
    BY <2>1 DEF Effective, At, j
  <2>4. CASE SameLow(reg[t], j.exp, JobSize(j))
    <3>1. pc'[t] = "stx"
      BY <1>1, <1>7, <2>2, <2>4 DEF Cmp, j
    <3>2. ~Effective(t)'
      BY <3>1 DEF Effective, At
    <3> QED BY <1>5, <2>1, <2>3, <2>4, <3>2
  <2>5. CASE ~SameLow(reg[t], j.exp, JobSize(j))
    <3>1. pc'[t] = "ret"
      BY <1>1, <1>7, <2>2, <2>5 DEF Cmp, j
    <3>2. Effective(t)'
      BY <3>1 DEF Effective, At
    <3> QED BY <1>5, <2>1, <2>3, <2>5, <3>2
  <2> QED BY <2>4, <2>5
<1>8. CASE Stx(t)
  <2> DEFINE n   == StoreExSize(j.st)
             new == IF j.kind = "casloop" THEN j.arg ELSE Apply(j.fn, reg[t], j.arg)
  <2>1. /\ pc[t] = "stx" /\ pc'[t] = "cbnz" /\ j.kind \in {"loop", "casloop"}
        /\ UNCHANGED reg
    BY <1>0, <1>1, <1>8 DEF Stx, At, LabelOK, StoreExclusive, j
  <2>2. ~Effective(t) /\ (Effective(t)' <=> status'[t] = 0)
    BY <2>1 DEF Effective, At
  <2>3. JobSize(j) = n /\ n \in Sizes
    BY <2>1, SizesOfOps DEF JobSize
  <2>4. CASE StoreSucceeds(t, j.st, j.addr)
    <3>1. mem' = Write(mem, j.addr, n, new) /\ status'[t] = 0
      BY <1>0, <1>8, <2>4 DEF Stx, StoreExclusive, TypeOK, j
    <3>2. mon[t].valid /\ mon[t].size = n /\ SameLow(old, mon[t].value, n)
      BY <2>3, <2>4 DEF StoreSucceeds, CanTry
    <3>3. mon[t].value = reg[t] /\ ZeroAbove(reg[t], n) /\ reg[t] \in Word
      BY <1>0, <2>1, <3>2 DEF RegisterOK, TypeOK, j
    <3>4. old = reg[t]
      BY <2>3, <3>2, <3>3, SameCells
    <3> HIDE DEF old, n
    <3>5. Abstract!Outcome(AbstractCall(j), old) = Write(mem, j.addr, n, new)
      <4>1. CASE j.kind = "loop"
        <5>1. JobFn(j) = j.fn /\ j.fn \in Updates
          BY <1>3, <4>1, JobsAssumption DEF JobFn
        <5>2. JobFn(j) \notin {"load", "store", "cas"} /\ new = Apply(JobFn(j), old, j.arg)
          BY <3>4, <4>1, <5>1 DEF Updates
        <5> QED BY <1>3, <2>3, <5>2, OutcomeOfJob
      <4>2. CASE j.kind = "casloop"
        <5>1. JobFn(j) = "cas" /\ new = j.arg
          BY <4>2 DEF JobFn
        <5>2. SameLow(old, j.exp, n)
          BY <1>0, <2>1, <3>4, <4>2 DEF RegisterOK, j, n
        <5> QED BY <1>3, <2>3, <5>1, <5>2, OutcomeOfJob
      <4> QED BY <2>1, <4>1, <4>2
    <3> QED BY <1>4, <2>1, <2>2, <3>1, <3>4, <3>5
  <2>5. CASE ~StoreSucceeds(t, j.st, j.addr)
    <3>1. mem' = mem /\ status'[t] = 1
      BY <1>0, <1>8, <2>5 DEF Stx, StoreExclusive, TypeOK, j
    <3> QED BY <1>5, <2>2, <3>1
  <2> QED BY <2>4, <2>5
<1>9. CASE Cbnz(t) \/ Jnz(t)
  <2>1. /\ pc[t] \in {"cbnz", "jnz"} /\ UNCHANGED <<mem, reg>>
        /\ pc'[t] \in {"again", "cmpxchg", "ret"}
        /\ pc'[t] = "ret" <=> status[t] = 0
    BY <1>1, <1>9 DEF Cbnz, Jnz, At, monVars
  <2>2. (Effective(t) <=> status[t] = 0) /\ (Effective(t)' <=> status[t] = 0)
    BY <2>1 DEF Effective, At
  <2> QED BY <1>5, <2>1, <2>2
<1>10. CASE Rmw(t)
  <2>1. pc[t] = "rmw" /\ pc'[t] = "ret" /\ j.kind = "rmw"
    BY <1>0, <1>1, <1>10 DEF Rmw, At, LabelOK, j
  <2>2. ~Effective(t) /\ Effective(t)'
    BY <2>1 DEF Effective, At
  <2>3. /\ JobSize(j) = RMWSize(j.st) /\ JobFn(j) = RMWFn(j.st)
        /\ RMWFn(j.st) \in Updates
    BY <2>1 DEF JobSize, JobFn, RMWFn, Updates
  <2>4. /\ mem' = Write(mem, j.addr, JobSize(j), Apply(JobFn(j), old, j.arg))
        /\ j.st \notin FlagsOnly => reg'[t] = old
    BY <1>0, <1>10, <2>3 DEF Rmw, AtomicRMW, TypeOK, j
  <2>5. mem' = Abstract!Outcome(AbstractCall(j), old)
    BY <1>3, <2>3, <2>4, OutcomeOfJob DEF Updates
  <2> QED BY <1>4, <2>2, <2>4, <2>5 DEF Returns
<1>11. CASE Cas(t)
  <2>1. pc[t] = "cas" /\ pc'[t] = "ret" /\ j.kind = "cas"
    BY <1>0, <1>1, <1>11 DEF Cas, At, LabelOK, j
  <2>2. ~Effective(t) /\ Effective(t)'
    BY <2>1 DEF Effective, At
  <2>3. JobSize(j) = RMWSize(j.st) /\ JobFn(j) = "cas"
    BY <2>1 DEF JobSize, JobFn
  <2>4. /\ mem' = IF SameLow(old, j.exp, JobSize(j))
                  THEN Write(mem, j.addr, JobSize(j), j.arg) ELSE mem
        /\ reg'[t] = old
    BY <1>0, <1>11, <2>3 DEF Cas, CompareAndSwap, TypeOK, j
  <2>5. mem' = Abstract!Outcome(AbstractCall(j), old)
    BY <1>3, <2>3, <2>4, OutcomeOfJob
  <2> QED BY <1>4, <2>2, <2>4, <2>5
<1>12. CASE Load(t)
  <2>1. pc[t] = "load" /\ pc'[t] = "ret" /\ j.kind = "load"
    BY <1>0, <1>1, <1>12 DEF Load, At, LabelOK, j
  <2>2. ~Effective(t) /\ Effective(t)'
    BY <2>1 DEF Effective, At
  <2>3. JobSize(j) = LoadSize(j.ld) /\ JobFn(j) = "load"
    BY <2>1 DEF JobSize, JobFn
  <2>4. mem' = mem /\ reg'[t] = old
    BY <1>0, <1>12, <2>3 DEF Load, LoadAcquire, TypeOK, j
  <2>5. mem' = Abstract!Outcome(AbstractCall(j), old)
    BY <1>3, <2>3, <2>4, OutcomeOfJob
  <2> QED BY <1>4, <2>2, <2>4, <2>5
<1>13. CASE StoreJob(t)
  <2>1. pc[t] = "store" /\ pc'[t] = "ret" /\ j.kind = "store"
    BY <1>0, <1>1, <1>13 DEF StoreJob, At, LabelOK, j
  <2>2. ~Effective(t) /\ Effective(t)'
    BY <2>1 DEF Effective, At
  <2>3. JobSize(j) = LoadSize(j.ld) /\ JobFn(j) = "store"
    BY <2>1 DEF JobSize, JobFn
  <2>4. mem' = Write(mem, j.addr, JobSize(j), j.arg)
    BY <1>13, <2>3 DEF StoreJob, StoreRelease, j
  <2>5. mem' = Abstract!Outcome(AbstractCall(j), old)
    BY <1>3, <2>3, <2>4, OutcomeOfJob
  <2> QED BY <1>4, <2>1, <2>2, <2>5 DEF Returns
<1>14. CASE Mov(t) \/ SetAX(t)
  <2>1. pc[t] \in {"mov", "xcas"} /\ pc'[t] = "cmpxchg" /\ UNCHANGED mem
    BY <1>1, <1>14 DEF Mov, SetAX, At
  <2>2. ~Effective(t) /\ ~Effective(t)'
    BY <2>1 DEF Effective, At
  <2> QED BY <1>5, <2>1, <2>2
<1>15. CASE Cmpxchg(t)
  <2> DEFINE n   == RMWSize(j.st)
             new == IF j.kind = "xcas" THEN j.arg ELSE Apply(j.fn, reg[t], j.arg)
  <2>1. /\ pc[t] = "cmpxchg" /\ j.kind \in {"xloop", "xcas"}
        /\ pc'[t] = IF j.kind = "xcas" THEN "ret" ELSE "jnz"
    BY <1>0, <1>1, <1>15 DEF Cmpxchg, At, LabelOK, j
  <2>2. JobSize(j) = n /\ n \in Sizes
    BY <2>1, SizesOfOps DEF JobSize
  <2>3. /\ mem' = IF SameLow(old, reg[t], n) THEN Write(mem, j.addr, n, new) ELSE mem
        /\ reg'[t] = old
        /\ status'[t] = IF SameLow(old, reg[t], n) THEN 0 ELSE 1
    BY <1>0, <1>15, <2>2 DEF Cmpxchg, CompareExchange, FindsExpected, TypeOK, j
  <2>4. ~Effective(t)
    BY <2>1 DEF Effective, At
  <2> HIDE DEF old, n
  <2>5. CASE j.kind = "xcas"
    <3>1. Effective(t)' /\ JobFn(j) = "cas" /\ new = j.arg
      BY <2>1, <2>5 DEF Effective, At, JobFn
    <3>2. reg[t] = j.exp
      BY <1>0, <2>1, <2>5 DEF RegisterOK, j
    <3>3. mem' = Abstract!Outcome(AbstractCall(j), old)
      BY <1>3, <2>2, <2>3, <3>1, <3>2, OutcomeOfJob
    <3> QED BY <1>4, <2>3, <2>4, <3>1, <3>3
  <2>6. CASE j.kind = "xloop"
    <3>1. Effective(t)' <=> SameLow(old, reg[t], n)
      BY <2>1, <2>3, <2>6 DEF Effective, At
    <3>2. CASE ~SameLow(old, reg[t], n)
      BY <1>5, <2>3, <2>4, <3>1, <3>2
    <3>3. CASE SameLow(old, reg[t], n)
      <4>1. old = reg[t]
        <5>1. ZeroAbove(reg[t], n) /\ reg[t] \in Word
          BY <1>0, <2>1, <2>6 DEF RegisterOK, TypeOK, j, n
        <5> QED BY <2>2, <3>3, <5>1, SameCells DEF old
      <4>2. JobFn(j) \notin {"load", "store", "cas"} /\ JobFn(j) = j.fn
        BY <1>3, <2>6, JobsAssumption DEF JobFn, Updates
      <4>3. new = Apply(JobFn(j), old, j.arg)
        BY <2>6, <4>1, <4>2
      <4>4. mem' = Abstract!Outcome(AbstractCall(j), old)
        BY <1>3, <2>2, <2>3, <3>3, <4>2, <4>3, OutcomeOfJob
      <4> QED BY <1>4, <2>3, <2>4, <3>1, <3>3, <4>4
    <3> QED BY <3>2, <3>3
  <2> QED BY <2>1, <2>5, <2>6
<1> QED BY <1>6, <1>7, <1>8, <1>9, <1>10, <1>11, <1>12, <1>13, <1>14, <1>15 DEF Step

\* Lowered retry loops, one-instruction updates and atomic loads and stores
\* behave as atomic calls, whatever the threads, the calls and the widths.
THEOREM AtomicCalls == LoopSpec => CallsAreAtomic
<1>1. LoopInit => Abstract!AInit
  BY DEF LoopInit, Init, Abstract!AInit, Effective, At
<1>2. LoopInv /\ [LoopNext]_vars => [Abstract!ANext]_(Abstract!avars)
  <2> SUFFICES ASSUME LoopInv, [LoopNext]_vars
               PROVE  Abstract!ANext \/ UNCHANGED Abstract!avars
    OBVIOUS
  <2>1. CASE UNCHANGED vars
    BY <2>1 DEF vars, monVars, Abstract!avars, Effective, At
  <2>2. ASSUME NEW t \in Threads, Call(t) PROVE Abstract!ANext
    BY <2>2, CallRefines DEF Abstract!ANext
  <2>3. ASSUME NEW t \in Threads, Step(t)
        PROVE  Abstract!ANext \/ UNCHANGED Abstract!avars
    <3>1. CASE Ret(t)
      BY <3>1, RetRefines DEF Abstract!ANext
    <3>2. CASE ~Ret(t)
      BY <2>3, <3>2, StepRefines DEF Abstract!ANext
    <3> QED BY <3>1, <3>2
  <2> QED BY <2>1, <2>2, <2>3 DEF LoopNext
<1> QED BY <1>1, <1>2, LoopInvariant, PTL DEF CallsAreAtomic, Abstract!ASpec, LoopSpec

=============================================================================
