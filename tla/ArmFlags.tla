------------------------------ MODULE ArmFlags ------------------------------
(***************************************************************************)
(* The condition flags of arm and arm64: what the emitted code stores in   *)
(* the slots flags_n, flags_z, flags_c and flags_v, and what the processor *)
(* does.  The processor's side (AddWithCarry, ConditionHolds) is stated    *)
(* over integers, the translator's with the comparisons it emits.          *)
(***************************************************************************)
EXTENDS Words

Flags == [n : BOOLEAN, z : BOOLEAN, c : BOOLEAN, v : BOOLEAN]

NoFlags == [n |-> FALSE, z |-> FALSE, c |-> FALSE, v |-> FALSE]

(***************************************************************************)
(* The processor.                                                          *)
(***************************************************************************)
AddWithCarry(h, x, y, cin) ==
  LET sum    == x + y + Bool2Int(cin)
      signed == Signed(h, x) + Signed(h, y) + Bool2Int(cin)
      result == IF sum >= 2 * h THEN sum - 2 * h ELSE sum
  IN  [res |-> result,
       f   |-> [n |-> Negative(h, result), z |-> result = 0,
                c |-> result # sum, v |-> Signed(h, result) # signed]]

ArchAdd(h, x, y) == AddWithCarry(h, x, y, FALSE)

ArchSub(h, x, y) == AddWithCarry(h, x, Complement(h, y), TRUE)

\* Conditions come in pairs of one test and its negation.
ConditionHolds(cond, f) ==
  CASE cond \in {"EQ", "NE"} -> (cond = "EQ") = f.z
    [] cond \in {"HS", "LO"} -> (cond = "HS") = f.c
    [] cond \in {"MI", "PL"} -> (cond = "MI") = f.n
    [] cond \in {"VS", "VC"} -> (cond = "VS") = f.v
    [] cond \in {"HI", "LS"} -> (cond = "HI") = (f.c /\ ~f.z)
    [] cond \in {"GE", "LT"} -> (cond = "GE") = (f.n = f.v)
    [] cond \in {"GT", "LE"} -> (cond = "GT") = (f.n = f.v /\ ~f.z)
    [] cond = "AL" -> TRUE

(***************************************************************************)
(* The emitted code.  icmp slt (xor x y), 0 asks whether the signs differ. *)
(***************************************************************************)
Conditions == {"EQ", "NE", "HS", "LO", "HI", "LS", "LT", "GE", "GT", "LE",
               "MI", "PL", "VS", "VC", "AL"}

CondValue(cond, f) ==
  CASE cond = "EQ" -> f.z
    [] cond = "NE" -> ~f.z
    [] cond = "HS" -> f.c
    [] cond = "LO" -> ~f.c
    [] cond = "HI" -> f.c /\ ~f.z
    [] cond = "LS" -> ~f.c \/ f.z
    [] cond = "LT" -> f.n # f.v
    [] cond = "GE" -> f.n = f.v
    [] cond = "GT" -> ~f.z /\ f.n = f.v
    [] cond = "LE" -> f.z \/ f.n # f.v
    [] cond = "MI" -> f.n
    [] cond = "PL" -> ~f.n
    [] cond = "VS" -> f.v
    [] cond = "VC" -> ~f.v
    [] cond = "AL" -> TRUE

SignsDiffer(h, x, y) == Negative(h, x) # Negative(h, y)

FlagsOfSub(h, dst, src, res) ==
  [n |-> Negative(h, res), z |-> res = 0, c |-> dst >= src,
   v |-> SignsDiffer(h, dst, src) /\ SignsDiffer(h, dst, res)]

FlagsOfAdd(h, dst, src, res) ==
  [n |-> Negative(h, res), z |-> res = 0, c |-> res < dst,
   v |-> ~SignsDiffer(h, dst, src) /\ SignsDiffer(h, dst, res)]

\* arm64: ANDS, TST.
FlagsOfLogic(h, res) ==
  [n |-> Negative(h, res), z |-> res = 0, c |-> FALSE, v |-> FALSE]

\* CCMP and CCMN: the comparison, or the immediate nzcv (a record of flags).
FlagsOfCondCompare(h, cond, f, lhs, rhs, nzcv, add) ==
  LET computed == IF add THEN FlagsOfAdd(h, lhs, rhs, AddW(h, lhs, rhs))
                         ELSE FlagsOfSub(h, lhs, rhs, SubW(h, lhs, rhs))
  IN  IF CondValue(cond, f) THEN computed ELSE nzcv

(***************************************************************************)
(* arm stores the flags of a conditional instruction one by one, each time *)
(* with a select on the condition as the flags are by then.                *)
(***************************************************************************)
StoreFlagCond(cond, f, slot, value) ==
  IF CondValue(cond, f) THEN [f EXCEPT ![slot] = value] ELSE f

StoreZN(cond, f, new) ==
  StoreFlagCond(cond, StoreFlagCond(cond, f, "z", new.z), "n", new.n)

\* A mutant of StoreZNCV: V is stored before C.
StoreZNVC(cond, f, new) ==
  LET zn == StoreZN(cond, f, new)
  IN  StoreFlagCond(cond, StoreFlagCond(cond, zn, "v", new.v), "c", new.c)

StoreZNCV(cond, f, new) ==
  LET zn == StoreZN(cond, f, new)
  IN  StoreFlagCond(cond, StoreFlagCond(cond, zn, "c", new.c), "v", new.v)

\* arm: ADC.S and SBC.S correct the carry afterwards, in a wider word.
StoreAdc(cond, f, h, lhs, src, cin, res) ==
  StoreFlagCond(cond, StoreZNCV(cond, f, FlagsOfAdd(h, lhs, src, res)),
                "c", lhs + src + Bool2Int(cin) > 2 * h - 1)

StoreSbc(cond, f, h, lhs, src, cin, res) ==
  StoreFlagCond(cond, StoreZNCV(cond, f, FlagsOfSub(h, lhs, src, res)),
                "c", ~(lhs < src + Bool2Int(~cin)))
=============================================================================
