---------------------------- MODULE AtomicMemory ----------------------------
(***************************************************************************)
(* What the atomic functions of the Go runtime promise, whatever           *)
(* instructions they are written with: every call takes effect on memory   *)
(* at one instant between its start and its return, and returns what was   *)
(* there at that instant.                                                  *)
(*                                                                         *)
(* A call is a record [fn, addr, size, arg, exp, value].  "load" and       *)
(* "store" are plain atomic accesses, "cas" stores arg where it finds exp, *)
(* any other fn replaces the old value by Effect(fn, old, arg); value says *)
(* whether the call returns the old value.                                 *)
(***************************************************************************)
EXTENDS Integers

CONSTANTS
  Threads,
  Calls,               \* the calls threads may make
  NoCall,              \* what an idle thread is doing
  MemInit,             \* initial memory
  Fetch(_, _, _),      \* Fetch(mem, addr, size): the value found there
  Store(_, _, _, _),   \* Store(mem, addr, size, v): mem with v stored there
  Equal(_, _, _),      \* Equal(v, w, size)
  Effect(_, _, _)      \* Effect(fn, old, arg)

VARIABLES
  memory,  \* the shared memory
  call,    \* call[t]: the call t is in
  done,    \* done[t]: the call has taken effect
  result   \* result[t]: what it returns

avars == <<memory, call, done, result>>

AInit ==
  /\ memory = MemInit
  /\ call = [t \in Threads |-> NoCall]
  /\ done = [t \in Threads |-> FALSE]
  /\ result = [t \in Threads |-> NoCall]

Start(t, c) ==
  /\ call[t] = NoCall
  /\ call' = [call EXCEPT ![t] = c]
  /\ UNCHANGED <<memory, done, result>>

\* What call c leaves in memory when it finds old.
Outcome(c, old) ==
  LET put(v) == Store(memory, c.addr, c.size, v)
  IN CASE c.fn = "load"  -> memory
       [] c.fn = "store" -> put(c.arg)
       [] c.fn = "cas"   -> IF Equal(old, c.exp, c.size) THEN put(c.arg) ELSE memory
       [] OTHER          -> put(Effect(c.fn, old, c.arg))

TakeEffect(t) ==
  /\ call[t] # NoCall /\ ~done[t]
  /\ LET c   == call[t]
         old == Fetch(memory, c.addr, c.size)
     IN /\ memory' = Outcome(c, old)
        /\ result' = [result EXCEPT ![t] = IF c.value THEN old ELSE NoCall]
  /\ done' = [done EXCEPT ![t] = TRUE]
  /\ UNCHANGED call

Return(t) ==
  /\ done[t]
  /\ call' = [call EXCEPT ![t] = NoCall]
  /\ done' = [done EXCEPT ![t] = FALSE]
  /\ result' = [result EXCEPT ![t] = NoCall]
  /\ UNCHANGED memory

ANext == \E t \in Threads : TakeEffect(t) \/ Return(t) \/ \E c \in Calls : Start(t, c)

ASpec == AInit /\ [][ANext]_avars

=============================================================================
