---------------------------- MODULE AtomicLoops ----------------------------
(***************************************************************************)
(* Threads that call atomic functions written the way the Go runtime       *)
(* writes them, after lowering: retry loops around a load-exclusive and a  *)
(* store-exclusive, or one LSE instruction where the CPU has it.           *)
(*                                                                         *)
(*   loop    again: LDX (a), r ; r' = fn(r, arg) ; STX r', (a), s          *)
(*                  CBNZ s, again ; RET                                    *)
(*   casloop again: LDX (a), r ; r # exp -> RET ; STX arg, (a), s          *)
(*                  CBNZ s, again ; RET                                    *)
(*   rmw     SWPAL / LDADDAL / LDORAL / LDCLRAL ; RET                      *)
(*   cas     CASAL ; RET                                                   *)
(*   xloop   MOV (a), r ; again: r' = fn(r, arg) ; LOCK CMPXCHG r', (a) *)
(*                  JNZ again ; RET                                        *)
(*   xcas    AX = exp ; LOCK CMPXCHG arg, (a) ; RET                        *)
(*   plain   LOCK ADD / LOCK INC (a) ; RET                                 *)
(*   load    LDAR ; RET            store   STLR ; RET                      *)
(*                                                                         *)
(* A job is [kind, ld, st, fn, addr, arg, exp]: ld and st the mnemonics of *)
(* the two halves (one-instruction jobs use st, LDAR and STLR use ld).     *)
(***************************************************************************)
EXTENDS ExclusiveMonitor

CONSTANTS
  Jobs,      \* the calls threads make
  NoJob,     \* the job of an idle thread
  MaxCalls   \* bound: calls per thread

Kinds == {"loop", "casloop", "rmw", "cas", "xloop", "xcas", "plain", "load", "store"}

\* The functions of a read-modify-write, other than a compare-and-swap.
Updates == {"add", "or", "and", "clr", "swap"}

\* A compare-and-swap loop loads and stores cells of one width.
ASSUME JobsAssumption ==
  /\ Jobs \subseteq [kind : Kinds, ld : STRING, st : STRING, fn : Updates \cup {"cas", "load", "store"},
                     addr : Cells, arg : Word, exp : Word]
  /\ \A j \in Jobs : /\ j.kind \in {"loop", "xloop"} => j.fn \in Updates
                     /\ j.kind = "casloop" => LoadSize(j.ld) = StoreExSize(j.st)

VARIABLES
  pc,    \* pc[t]
  job,   \* job[t]
  calls  \* calls[t]: calls started

vars == <<monVars, pc, job, calls>>

Goto(t, label) == pc' = [pc EXCEPT ![t] = label]
At(t, label)   == pc[t] = label
Same           == UNCHANGED <<job, calls>>

FirstLabel(j) == CASE j.kind \in {"loop", "casloop"} -> "again"
                   [] j.kind = "xloop"               -> "mov"
                   [] OTHER                          -> j.kind

Call(t) ==
  /\ At(t, "idle") /\ calls[t] < MaxCalls
  /\ \E j \in Jobs : /\ job' = [job EXCEPT ![t] = j]
                     /\ Goto(t, FirstLabel(j))
  /\ calls' = [calls EXCEPT ![t] = @ + 1]
  /\ EnterFunction(t)

Again(t) ==
  /\ At(t, "again")
  /\ LoadExclusive(t, job[t].ld, job[t].addr)
  /\ Goto(t, IF job[t].kind = "casloop" THEN "cmp" ELSE "stx")
  /\ Same

\* CMP r, exp ; BNE ret
Cmp(t) ==
  /\ At(t, "cmp")
  /\ Goto(t, IF SameLow(reg[t], job[t].exp, StoreExSize(job[t].st)) THEN "stx" ELSE "ret")
  /\ UNCHANGED monVars /\ Same

\* The ALU instruction before STX works on registers only.
Stx(t) ==
  /\ At(t, "stx")
  /\ StoreExclusive(t, job[t].st, job[t].addr,
                    IF job[t].kind = "casloop" THEN job[t].arg
                    ELSE Apply(job[t].fn, reg[t], job[t].arg))
  /\ Goto(t, "cbnz")
  /\ Same

Cbnz(t) ==
  /\ At(t, "cbnz")
  /\ Goto(t, IF status[t] # 0 THEN "again" ELSE "ret")
  /\ UNCHANGED monVars /\ Same

Rmw(t) ==
  /\ At(t, "rmw")
  /\ AtomicRMW(t, job[t].st, job[t].addr, job[t].arg)
  /\ Goto(t, "ret") /\ Same

Cas(t) ==
  /\ At(t, "cas")
  /\ CompareAndSwap(t, job[t].st, job[t].addr, job[t].exp, job[t].arg)
  /\ Goto(t, "ret") /\ Same

\* MOV (a), r is not atomic in the emitted IR: a racing load finds anything.
Mov(t) ==
  /\ At(t, "mov")
  /\ \E v \in Word :
       /\ \A i \in RMWSize(job[t].st)..(S64 - 1) : v[i] = 0
       /\ reg' = [reg EXCEPT ![t] = v]
  /\ Goto(t, "cmpxchg")
  /\ UNCHANGED <<mem, mon, status, armed>> /\ Same

\* MOV exp, AX
SetAX(t) ==
  /\ At(t, "xcas")
  /\ reg' = [reg EXCEPT ![t] = job[t].exp]
  /\ Goto(t, "cmpxchg")
  /\ UNCHANGED <<mem, mon, status, armed>> /\ Same

Cmpxchg(t) ==
  /\ At(t, "cmpxchg")
  /\ CompareExchange(t, job[t].st, job[t].addr,
                     IF job[t].kind = "xcas" THEN job[t].arg
                     ELSE Apply(job[t].fn, reg[t], job[t].arg))
  /\ Goto(t, IF job[t].kind = "xcas" THEN "ret" ELSE "jnz")
  /\ Same

Jnz(t) ==
  /\ At(t, "jnz")
  /\ Goto(t, IF status[t] # 0 THEN "cmpxchg" ELSE "ret")
  /\ UNCHANGED monVars /\ Same

LockedLoad(t) ==
  /\ At(t, "plain")
  /\ PlainLoad(t, job[t].st, job[t].addr)
  /\ Goto(t, "plainstore") /\ Same

LockedStore(t) ==
  /\ At(t, "plainstore")
  /\ PlainStore(t, job[t].st, job[t].addr, job[t].arg)
  /\ Goto(t, "ret") /\ Same

Load(t) ==
  /\ At(t, "load")
  /\ LoadAcquire(t, job[t].ld, job[t].addr)
  /\ Goto(t, "ret") /\ Same

StoreJob(t) ==
  /\ At(t, "store")
  /\ StoreRelease(t, job[t].ld, job[t].addr, job[t].arg)
  /\ Goto(t, "ret") /\ Same

Ret(t) ==
  /\ At(t, "ret")
  /\ Goto(t, "idle")
  /\ job' = [job EXCEPT ![t] = NoJob]
  /\ UNCHANGED <<monVars, calls>>

Step(t) == \/ Again(t) \/ Cmp(t) \/ Stx(t) \/ Cbnz(t)
           \/ Rmw(t) \/ Cas(t) \/ Load(t) \/ StoreJob(t)
           \/ Mov(t) \/ SetAX(t) \/ Cmpxchg(t) \/ Jnz(t) \/ Ret(t)

LoopInit ==
  /\ Init
  /\ pc = [t \in Threads |-> "idle"]
  /\ job = [t \in Threads |-> NoJob]
  /\ calls = [t \in Threads |-> 0]

LoopNext == \E t \in Threads : Call(t) \/ Step(t)

LoopSpec == LoopInit /\ [][LoopNext]_vars

\* A thread inside a call keeps running; it need not make another call.
LoopFairSpec == LoopSpec /\ \A t \in Threads : WF_vars(Step(t))

\* The same with LOCK ADD and LOCK INC among the calls.
LockStep(t) == Step(t) \/ LockedLoad(t) \/ LockedStore(t)
LockNext == \E t \in Threads : Call(t) \/ LockStep(t)
LockFairSpec == LoopInit /\ [][LockNext]_vars /\ \A t \in Threads : WF_vars(LockStep(t))

-----------------------------------------------------------------------------
(***************************************************************************)
(* Refinement: the abstract call and when it has taken effect.             *)
(***************************************************************************)
JobSize(j) == CASE j.kind \in {"loop", "casloop"} -> StoreExSize(j.st)
                [] j.kind \in {"load", "store"}   -> LoadSize(j.ld)
                [] OTHER                          -> RMWSize(j.st)

JobFn(j) == CASE j.kind \in {"cas", "casloop", "xcas"} -> "cas"
              [] j.kind \in {"load", "store"}          -> j.kind
              [] j.kind \in {"rmw", "plain"}           -> RMWFn(j.st)
              [] OTHER                                 -> j.fn

Returns(j) == j.kind # "store" /\ j.st \notin FlagsOnly

AbstractCall(j) == [fn |-> JobFn(j), addr |-> j.addr, size |-> JobSize(j),
                    arg |-> j.arg, exp |-> j.exp, value |-> Returns(j)]

ASSUME NoJobAssumption == \A j \in Jobs : NoJob \notin {j, AbstractCall(j)}

\* A loop takes effect when its store succeeds; a compare-and-swap
\* loop that finds another value, when it loaded it.
Effective(t) ==
  \/ At(t, "ret")
  \/ (At(t, "cbnz") \/ At(t, "jnz")) /\ status[t] = 0
  \/ At(t, "cmp") /\ ~SameLow(reg[t], job[t].exp, JobSize(job[t]))

Abstract == INSTANCE AtomicMemory WITH
  Calls   <- {AbstractCall(j) : j \in Jobs},
  NoCall  <- NoJob,
  MemInit <- [c \in Cells |-> 0],
  Fetch   <- Read,
  Store   <- Write,
  Equal   <- SameLow,
  Effect  <- Apply,
  memory  <- mem,
  call    <- [t \in Threads |-> IF job[t] = NoJob THEN NoJob ELSE AbstractCall(job[t])],
  done    <- [t \in Threads |-> Effective(t)],
  result  <- [t \in Threads |->
                IF Effective(t) /\ Returns(job[t]) THEN reg[t] ELSE NoJob]

-----------------------------------------------------------------------------
(***************************************************************************)
(* Properties.                                                             *)
(***************************************************************************)

\* Lowered retry loops, one-instruction updates and atomic loads and stores
\* mixed on the same cells behave as atomic calls that return what they
\* replaced.  On amd64: "LOCK is a prefix in Plan 9 syntax. Our lowering
\* emits atomic IR for the following memory RMW instruction"
\* (amd64_lower_atomic.go).
CallsAreAtomic == Abstract!ASpec

\* Every call returns: a cmpxchg fails only when another call took effect,
\* and there are finitely many calls.  ("Exclusive monitor state for
\* LDAXR*/STLXR* lowering", arm64_ctx.go)
CallsReturn == \A t \in Threads : pc[t] # "idle" ~> pc[t] = "idle"

=============================================================================
