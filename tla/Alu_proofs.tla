------------------------------ MODULE Alu_proofs ------------------------------
(***************************************************************************)
(* The integer instructions of arm, arm64 and amd64 compute on words of    *)
(* every size what the processors compute.                                 *)
(***************************************************************************)
EXTENDS Alu, FiniteSetTheorems, WellFoundedInduction, TLAPS

-----------------------------------------------------------------------------
(***************************************************************************)
(* Induction by the least counterexample, and what it gives: recursion.    *)
(***************************************************************************)
\* Induction without an operator for the induction hypothesis: a set of
\* numbers has a least one.  The intervals below the numbers of S are
\* finite sets, of which strict inclusion has a minimal one.
LEMMA LeastElement ==
  ASSUME NEW S \in SUBSET Nat, S # {}
  PROVE  \E n \in S : \A m \in S : n =< m
<1> DEFINE T == {0..(n - 1) : n \in S}
           R == StrictSubsetOrdering(Nat)
           F == FiniteSubsetsOf(Nat)
<1>1. IsWellFoundedOn(R, F) BY FS_StrictSubsetOrderingWellFounded
<1>2. T \subseteq F
  <2>1. \A n \in S : IsFiniteSet(0..(n - 1)) BY FS_Interval
  <2>2. \A n \in S : 0..(n-1) \subseteq Nat OBVIOUS
  <2>3. QED BY <2>1, <2>2 DEF FiniteSubsetsOf
<1>3. T # {} OBVIOUS
<1>4. \E x \in T : \A y \in T : ~ (<<y, x>> \in R)
  <2> HIDE DEF T, R, F
  <2>1. QED BY <1>1, <1>2, <1>3, WFMin
<1>5. PICK n \in S : \A m \in S : ~ (<<0..(m-1), 0..(n-1)>> \in R)
  BY <1>4
<1>6. ASSUME NEW m \in S, m < n PROVE FALSE
  <2>1. 0..(m-1) \in F /\ 0..(n-1) \in F  BY <1>2
  <2>2. 0..(m-1) \subseteq 0..(n-1) BY <1>6
  <2>3. m \in 0..(n-1) /\ m \notin 0..(m-1) BY <1>6
  <2>4. <<0..(m-1), 0..(n-1)>> \in R BY <2>1, <2>2, <2>3 DEF StrictSubsetOrdering
  <2>5. QED BY <2>4, <1>5
<1>7. QED BY <1>5, <1>6

\* Induction over the numbers, for a set.
LEMMA Induct ==
  ASSUME NEW S, 0 \in S, \A n \in Nat : n \in S => n + 1 \in S
  PROVE  Nat \subseteq S
<1> DEFINE Bad == Nat \ S
<1>1. SUFFICES ASSUME Bad # {} PROVE FALSE
  OBVIOUS
<1>2. PICK n \in Bad : \A m \in Bad : n =< m
  <2>1. Bad \in SUBSET Nat
    OBVIOUS
  <2> HIDE DEF Bad
  <2>2. QED
    BY <1>1, <2>1, LeastElement
<1>3. n \in Nat /\ n \notin S /\ n # 0
  OBVIOUS
<1>4. n - 1 \in Nat /\ n - 1 \notin Bad
  BY <1>2, <1>3
<1>5. QED
  BY <1>3, <1>4

\* n steps on S.
Steps(S, n) == [1..n -> [S -> S]]
\* g starts with c in S and goes on by the n steps of G.
Iterates(g, S, c, n, G) ==
  /\ g \in [0..n -> S] /\ g[0] = c
  /\ \A i \in 1..n : g[i] = G[i][g[i - 1]]

\* A function that iterates given steps exists: the function of one step
\* less, extended by one.
LEMMA Recursion ==
  ASSUME NEW S, NEW c \in S, NEW n \in Nat, NEW G \in Steps(S, n)
  PROVE  \E g : Iterates(g, S, c, n, G)
<1> DEFINE Good(m, g) == /\ g \in [0..m -> S] /\ g[0] = c
                         /\ \A i \in 1..m : g[i] = G[i][g[i - 1]]
           Bad == {m \in 0..n : ~ \E g : Good(m, g)}
<1>1. SUFFICES ASSUME Bad # {} PROVE FALSE
  <2>1. n \in 0..n  OBVIOUS
  <2>2. QED BY <2>1 DEF Iterates
<1>2. PICK m \in Bad : \A b \in Bad : m =< b
  <2>1. Bad \in SUBSET Nat  OBVIOUS
  <2> HIDE DEF Bad
  <2>2. QED BY <1>1, <2>1, LeastElement
<1>3. m # 0
  <2>1. Good(0, [i \in 0..0 |-> c])  OBVIOUS
  <2>2. QED BY <2>1
<1>4. m \in 1..n /\ m - 1 \in 0..n /\ ~ (m =< m - 1)  BY <1>3
<1>5. PICK g : Good(m - 1, g)
  <2>1. m - 1 \notin Bad  BY <1>2, <1>4
  <2>2. QED BY <1>4, <2>1
<1> DEFINE h == [i \in 0..m |-> IF i = m THEN G[m][g[m - 1]] ELSE g[i]]
<1>6. g[m - 1] \in S /\ G[m][g[m - 1]] \in S  BY <1>4, <1>5 DEF Steps
<1>7. h \in [0..m -> S]  BY <1>4, <1>5, <1>6
<1>8. h[0] = c  BY <1>4, <1>5
<1>9. ASSUME NEW i \in 1..m PROVE h[i] = G[i][h[i - 1]]
  <2>1. h[i - 1] = g[i - 1]  BY <1>4
  <2>2. CASE i = m  BY <2>1, <2>2, <1>4
  <2>3. CASE i # m
    <3>1. h[i] = g[i] /\ i \in 1..(m - 1)  BY <2>3, <1>4
    <3>2. QED BY <1>5, <2>1, <3>1
  <2>4. QED BY <2>2, <2>3
<1> HIDE DEF h
<1>10. Good(m, h)  BY <1>7, <1>8, <1>9
<1>11. QED BY <1>10

-----------------------------------------------------------------------------
(***************************************************************************)
(* Powers of two: the number of subsets of an interval.                    *)
(***************************************************************************)
\* A power of two is a positive number.
LEMMA PowerOfTwo ==
  ASSUME NEW n \in Nat
  PROVE  2^n \in Nat \ {0}
<1> DEFINE S == 1 .. n
<1>1. IsFiniteSet(S) /\ Cardinality(S) = n
  BY FS_Interval
<1>2. IsFiniteSet(SUBSET S) /\ Cardinality(SUBSET S) = 2^n
  BY <1>1, FS_SUBSET
<1>3. Cardinality(SUBSET S) \in Nat /\ (Cardinality(SUBSET S) = 0 <=> SUBSET S = {})
  BY <1>2, FS_CardinalityType, FS_EmptySet
<1>4. SUBSET S # {}
  OBVIOUS
<1>5. QED
  BY <1>2, <1>3, <1>4

\* Powers of two grow.
LEMMA PowersGrow ==
  ASSUME NEW n \in Nat, NEW m \in 0 .. n
  PROVE  2^m <= 2^n
<1> DEFINE S == 1 .. n
           T == 1 .. m
<1>1. IsFiniteSet(S) /\ Cardinality(S) = n /\ IsFiniteSet(T) /\ Cardinality(T) = m
  BY FS_Interval
<1>2. IsFiniteSet(SUBSET S) /\ Cardinality(SUBSET S) = 2^n /\ Cardinality(SUBSET T) = 2^m
  BY <1>1, FS_SUBSET
<1>3. SUBSET T \in SUBSET (SUBSET S)
  OBVIOUS
<1>4. Cardinality(SUBSET T) <= Cardinality(SUBSET S)
  BY <1>2, <1>3, FS_Subset
<1>5. QED
  BY <1>2, <1>4

-----------------------------------------------------------------------------
(***************************************************************************)
(* Bit operations: k steps of the table give k bits.                       *)
(***************************************************************************)
BitOps == [Bit -> [Bit -> Bit]]
\* Tables on words, that of no bits, one bit more, and those built from b.
Tables == [AllWords -> [AllWords -> Nat]]
NoBits == [x \in AllWords |-> [y \in AllWords |-> 0]]
OneMore(b, T) == [x \in AllWords |-> [y \in AllWords |-> b[x % 2][y % 2] + 2 * T[x \div 2][y \div 2]]]
Built(b, t) ==
  t = [k \in 0 .. MaxBits |->
        [x \in AllWords |-> [y \in AllWords |->
           IF k = 0 THEN 0 ELSE b[x % 2][y % 2] + 2 * t[k - 1][x \div 2][y \div 2]]]]

\* Half a word is a word, and its lowest bit is one.
LEMMA Halves ==
  /\ AllWords \subseteq Nat /\ 0 \in AllWords
  /\ \A x \in AllWords : x \div 2 \in AllWords /\ x % 2 \in Bit
<1>1. MaxBits \in Nat /\ 2^MaxBits \in Nat \ {0}
  BY MaxBitsAssumption, PowerOfTwo
<1> DEFINE m == 2^MaxBits
<1> HIDE DEF m
<1>2. m \in Nat \ {0}
  BY <1>1 DEF m
<1>3. \A x \in 0 .. m - 1 : x \div 2 \in 0 .. m - 1 /\ x % 2 \in {0, 1}
  BY <1>2
<1>4. QED
  BY <1>2, <1>3 DEF AllWords, Bit, m

\* One more bit of a table is a table.
LEMMA OneMoreIs ==
  ASSUME NEW b \in BitOps, NEW T \in Tables
  PROVE  OneMore(b, T) \in Tables
<1>1. ASSUME NEW x \in AllWords, NEW y \in AllWords
      PROVE  b[x % 2][y % 2] \in Nat /\ T[x \div 2][y \div 2] \in Nat
  <2>1. x % 2 \in Bit /\ y % 2 \in Bit /\ x \div 2 \in AllWords /\ y \div 2 \in AllWords
    BY Halves
  <2>2. b[x % 2] \in [Bit -> Bit] /\ T[x \div 2] \in [AllWords -> Nat]
    BY <2>1 DEF BitOps, Tables
  <2>3. b[x % 2][y % 2] \in Bit
    BY <2>1, <2>2
  <2>4. QED
    BY <2>1, <2>2, <2>3 DEF Bit
<1>2. \A x, y \in AllWords : b[x % 2][y % 2] + 2 * T[x \div 2][y \div 2] \in Nat
  BY <1>1
<1>3. QED
  BY <1>2 DEF OneMore, Tables

\* The recursion that defines the table of a bit operation has a solution.
LEMMA BitsExist ==
  ASSUME NEW b \in BitOps
  PROVE  \E t : Built(b, t) /\ t \in [0 .. MaxBits -> Tables]
<1> DEFINE G == [k \in 1 .. MaxBits |-> [T \in Tables |-> OneMore(b, T)]]
<1>1. MaxBits \in Nat
  BY MaxBitsAssumption
<1>2. G \in Steps(Tables, MaxBits)
  BY OneMoreIs DEF Steps
<1>3. NoBits \in Tables
  BY DEF NoBits, Tables
<1>4. PICK t : Iterates(t, Tables, NoBits, MaxBits, G)
  <2> HIDE DEF G
  <2>1. QED
    BY <1>1, <1>2, <1>3, Recursion
<1>5. t \in [0 .. MaxBits -> Tables] /\ t[0] = NoBits /\ \A k \in 1 .. MaxBits : t[k] = OneMore(b, t[k - 1])
  <2>1. t \in [0 .. MaxBits -> Tables] /\ t[0] = NoBits /\ \A k \in 1 .. MaxBits : t[k] = G[k][t[k - 1]]
    BY <1>4 DEF Iterates
  <2>2. ASSUME NEW k \in 1 .. MaxBits PROVE t[k] = OneMore(b, t[k - 1])
    <3>1. k - 1 \in 0 .. MaxBits
      BY <1>1
    <3>2. t[k - 1] \in Tables
      BY <2>1, <3>1
    <3>3. QED
      BY <2>1, <3>2
  <2>3. QED
    BY <2>1, <2>2
<1> DEFINE E(k) == [x \in AllWords |-> [y \in AllWords |->
                     IF k = 0 THEN 0 ELSE b[x % 2][y % 2] + 2 * t[k - 1][x \div 2][y \div 2]]]
<1>6. ASSUME NEW k \in 0 .. MaxBits PROVE t[k] = E(k)
  <2>1. CASE k = 0
    BY <2>1, <1>5 DEF NoBits
  <2>2. CASE k # 0
    <3>1. k \in 1 .. MaxBits
      BY <1>1, <2>2
    <3>2. QED
      BY <3>1, <2>2, <1>5 DEF OneMore
  <2>3. QED
    BY <2>1, <2>2
<1>7. Built(b, t)
  <2>1. t = [k \in 0 .. MaxBits |-> t[k]]
    BY <1>5
  <2>2. t = [k \in 0 .. MaxBits |-> E(k)]
    BY <2>1, <1>6
  <2>3. QED
    BY <2>2 DEF Built
<1>8. QED
  BY <1>5, <1>7

\* The table is the last step of it.
LEMMA BitTableIs ==
  ASSUME NEW b
  PROVE  BitTable(b) = (CHOOSE t : Built(b, t))[MaxBits]
  BY DEF BitTable, Built

-----------------------------------------------------------------------------
(***************************************************************************)
(* Conditions and flags.                                                   *)
(***************************************************************************)
(* Every flag a subtraction stores (SUBS, SUBSW, CMP, CMPW, RSB.S, and     *)
(* CCMP when its condition holds) is the flag of the processor's           *)
(* x + NOT(y) + 1, and so is its result.  setFlagsSub takes C from an      *)
(* unsigned comparison and V from the signs, without a wider sum.          *)
THEOREM SubFlagsExact ==
  ASSUME NEW h \in Nat \ {0}, NEW x \in Word(h), NEW y \in Word(h)
  PROVE  /\ SubW(h, x, y) = ArchSub(h, x, y).res
         /\ FlagsOfSub(h, x, y, SubW(h, x, y)) = ArchSub(h, x, y).f
  BY SMT DEF Word, SubW, ArchSub, AddWithCarry, FlagsOfSub, SignsDiffer,
             Negative, Signed, Complement, Bool2Int

(* The same for an addition without carry in (ADDS, CMN, CCMN, ADD.S):     *)
(* the carry out is res < dst.                                             *)
THEOREM AddFlagsExact ==
  ASSUME NEW h \in Nat \ {0}, NEW x \in Word(h), NEW y \in Word(h)
  PROVE  /\ AddW(h, x, y) = ArchAdd(h, x, y).res
         /\ FlagsOfAdd(h, x, y, AddW(h, x, y)) = ArchAdd(h, x, y).f
  BY SMT DEF Word, AddW, ArchAdd, AddWithCarry, FlagsOfAdd, SignsDiffer,
             Negative, Signed, Complement, Bool2Int

(* condValue reads every condition as the processor does.                  *)
THEOREM ConditionsExact ==
  ASSUME NEW f \in Flags, NEW cond \in Conditions
  PROVE  CondValue(cond, f) = ConditionHolds(cond, f)
<1>1. /\ f.n \in BOOLEAN /\ f.z \in BOOLEAN
      /\ f.c \in BOOLEAN /\ f.v \in BOOLEAN
  BY DEF Flags
<1>2. QED
  BY <1>1 DEF Conditions, CondValue, ConditionHolds

(* What a conditional branch after a comparison relies on: after CMP the   *)
(* ordered conditions compare the two words, signed and unsigned.          *)
THEOREM CompareDecides ==
  ASSUME NEW h \in Nat \ {0}, NEW x \in Word(h), NEW y \in Word(h),
         NEW f, f = FlagsOfSub(h, x, y, SubW(h, x, y))
  PROVE  /\ CondValue("EQ", f) <=> x = y
         /\ CondValue("LO", f) <=> x < y
         /\ CondValue("HI", f) <=> x > y
         /\ CondValue("LT", f) <=> Signed(h, x) < Signed(h, y)
         /\ CondValue("GE", f) <=> Signed(h, x) >= Signed(h, y)
         /\ CondValue("GT", f) <=> Signed(h, x) > Signed(h, y)
         /\ CondValue("LE", f) <=> Signed(h, x) =< Signed(h, y)
<1>1. /\ f.z <=> x = y
      /\ f.c <=> x >= y
      /\ f.n = f.v <=> Signed(h, x) >= Signed(h, y)
  <2>1. /\ f.z = (x = y) /\ f.c = (x >= y)
        /\ (f.n = f.v) = (Signed(h, x) >= Signed(h, y))
    BY SMT DEF Word, SubW, FlagsOfSub, SignsDiffer, Negative, Signed
  <2>2. /\ f.z \in BOOLEAN /\ f.c \in BOOLEAN
    BY DEF FlagsOfSub, SignsDiffer, Negative
  <2>3. QED
    BY <2>1, <2>2
<1>2. /\ x = y <=> Signed(h, x) = Signed(h, y)
      /\ ~(x >= y) <=> x < y
      /\ x >= y /\ ~(x = y) <=> x > y
  BY SMT DEF Word, Signed, Negative
<1>3. /\ ~(Signed(h, x) >= Signed(h, y)) <=> Signed(h, x) < Signed(h, y)
      /\ ~(Signed(h, x) = Signed(h, y)) /\ Signed(h, x) >= Signed(h, y)
           <=> Signed(h, x) > Signed(h, y)
      /\ Signed(h, x) = Signed(h, y) \/ ~(Signed(h, x) >= Signed(h, y))
           <=> Signed(h, x) =< Signed(h, y)
  BY SMT DEF Word, Signed, Negative
<1>4. /\ CondValue("EQ", f) <=> f.z
      /\ CondValue("LO", f) <=> ~f.c
      /\ CondValue("HI", f) <=> f.c /\ ~f.z
      /\ CondValue("LT", f) <=> ~(f.n = f.v)
      /\ CondValue("GE", f) <=> f.n = f.v
      /\ CondValue("GT", f) <=> ~f.z /\ f.n = f.v
      /\ CondValue("LE", f) <=> f.z \/ ~(f.n = f.v)
  BY DEF CondValue
<1>5. QED
  <2>1. CondValue("EQ", f) <=> x = y
    BY <1>1, <1>4, Zenon
  <2>2. CondValue("LO", f) <=> x < y
    BY <1>1, <1>2, <1>4, Zenon
  <2>3. CondValue("HI", f) <=> x > y
    BY <1>1, <1>2, <1>4, Zenon
  <2>4. CondValue("GE", f) <=> Signed(h, x) >= Signed(h, y)
    BY <1>1, <1>4, Zenon
  <2>5. CondValue("LT", f) <=> Signed(h, x) < Signed(h, y)
    BY <1>1, <1>3, <1>4, Zenon
  <2>6. CondValue("GT", f) <=> Signed(h, x) > Signed(h, y)
    BY <1>1, <1>2, <1>3, <1>4, Zenon
  <2>7. CondValue("LE", f) <=> Signed(h, x) =< Signed(h, y)
    BY <1>1, <1>2, <1>3, <1>4, Zenon
  <2>8. QED
    BY <2>1, <2>2, <2>3, <2>4, <2>5, <2>6, <2>7

(* Where the condition fails, storing flags one by one stores none: each   *)
(* store puts back what it finds, so the condition keeps failing.          *)
LEMMA FailedConditionKeepsFlags ==
  ASSUME NEW cond, NEW f, NEW new, ~CondValue(cond, f)
  PROVE  StoreZN(cond, f, new) = f /\ StoreZNCV(cond, f, new) = f
  BY DEF StoreZN, StoreZNCV, StoreFlagCond

(* Unconditional ADC.S and SBC.S on arm set the flags of the processor,    *)
(* carry in included: the C slot is stored a second time, from a sum that  *)
(* cannot wrap.                                                            *)
THEOREM CarryFlagsExact ==
  ASSUME NEW h \in Nat \ {0}, NEW x \in Word(h), NEW y \in Word(h),
         NEW f \in Flags, NEW cin \in BOOLEAN
  PROVE  /\ StoreAdc("AL", f, h, x, y, cin, AddWithCarry(h, x, y, cin).res)
               = AddWithCarry(h, x, y, cin).f
         /\ StoreSbc("AL", f, h, x, y, cin,
                     AddWithCarry(h, x, Complement(h, y), cin).res)
               = AddWithCarry(h, x, Complement(h, y), cin).f
<1>1. ASSUME NEW new \in Flags, NEW b \in BOOLEAN
      PROVE  StoreFlagCond("AL", StoreZNCV("AL", f, new), "c", b)
               = [new EXCEPT !["c"] = b]
  <2>1. \A g, slot, w : StoreFlagCond("AL", g, slot, w)
                            = [g EXCEPT ![slot] = w]
    BY DEF StoreFlagCond, CondValue
  <2>2. StoreFlagCond("AL", StoreZNCV("AL", f, new), "c", b)
          = [[[[[f EXCEPT !["z"] = new.z] EXCEPT !["n"] = new.n]
                EXCEPT !["c"] = new.c] EXCEPT !["v"] = new.v]
                EXCEPT !["c"] = b]
    BY <2>1 DEF StoreZNCV, StoreZN
  <2>3. QED
    BY <2>2 DEF Flags
<1> DEFINE add == AddWithCarry(h, x, y, cin)
           sbc == AddWithCarry(h, x, Complement(h, y), cin)
<1>2. /\ FlagsOfAdd(h, x, y, add.res) \in Flags
      /\ FlagsOfSub(h, x, y, sbc.res) \in Flags
  BY DEF Flags, FlagsOfAdd, FlagsOfSub, SignsDiffer, Negative
<1>3. [FlagsOfAdd(h, x, y, add.res) EXCEPT
         !["c"] = x + y + Bool2Int(cin) > 2 * h - 1] = add.f
  BY SMT DEF FlagsOfAdd, AddWithCarry, Word, SignsDiffer, Negative, Signed,
             Bool2Int
<1>4. [FlagsOfSub(h, x, y, sbc.res) EXCEPT
         !["c"] = ~(x < y + Bool2Int(~cin))] = sbc.f
  BY SMT DEF FlagsOfSub, AddWithCarry, Word, SignsDiffer, Negative, Signed,
             Bool2Int, Complement
<1>5. /\ (x + y + Bool2Int(cin) > 2 * h - 1) \in BOOLEAN
      /\ (~(x < y + Bool2Int(~cin))) \in BOOLEAN
  OBVIOUS
<1>6. QED
  BY <1>1, <1>2, <1>3, <1>4, <1>5 DEF StoreAdc, StoreSbc

-----------------------------------------------------------------------------
(***************************************************************************)
(* Division with remainder, and more about powers of two.                  *)
(***************************************************************************)
\* Quotient and remainder.
LEMMA DivMod ==
  ASSUME NEW x \in Int, NEW n \in Nat \ {0}
  PROVE  /\ x \div n \in Int /\ (x % n) \in 0 .. n - 1
         /\ x = (x \div n) * n + (x % n)
         /\ x >= 0 => x \div n \in Nat /\ x \div n <= x
         /\ x \in 0 .. n - 1 => x \div n = 0 /\ (x % n) = x
  BY SMT

\* Where a remainder lies.
LEMMA ModIn ==
  ASSUME NEW x \in Int, NEW n \in Nat \ {0}
  PROVE  (x % n) \in 0 .. n - 1 /\ (x \in 0 .. n - 1 => (x % n) = x)
  BY SMT

\* They are determined by what they are.
LEMMA DivModIs ==
  ASSUME NEW n \in Nat \ {0}, NEW q \in Int, NEW r \in 0 .. n - 1
  PROVE  (q * n + r) \div n = q /\ ((q * n + r) % n) = r
  BY SMT

\* A multiple adds to the quotient only.
LEMMA ModUp ==
  ASSUME NEW x \in Int, NEW k \in Int, NEW n \in Nat \ {0}
  PROVE  ((x + k * n) % n) = (x % n) /\ (x + k * n) \div n = x \div n + k
<1> DEFINE q == x \div n
           r == x % n
<1>1. q \in Int /\ r \in 0 .. n - 1 /\ x = q * n + r
  BY DivMod
<1> HIDE DEF q, r
<1>2. x + k * n = (q + k) * n + r /\ q + k \in Int
  BY <1>1
<1>3. (x + k * n) \div n = q + k /\ ((x + k * n) % n) = r
  BY <1>1, <1>2, DivModIs
<1>4. QED
  BY <1>3 DEF q, r

\* Quotient and remainder by a product.
LEMMA DivByProduct ==
  ASSUME NEW x \in Int, NEW n \in Nat \ {0}, NEW m \in Nat \ {0}
  PROVE  /\ x \div (n * m) = (x \div n) \div m
         /\ (x % (n * m)) = ((x \div n) % m) * n + (x % n)
         /\ (x % (n * m)) \div n = ((x \div n) % m)
         /\ ((x % (n * m)) % n) = (x % n)
<1> DEFINE q == x \div n
           r == x % n
           p == q \div m
           s == q % m
<1>1. q \in Int /\ r \in 0 .. n - 1 /\ x = q * n + r
  BY DivMod
<1>2. p \in Int /\ s \in 0 .. m - 1 /\ q = p * m + s
  <2> HIDE DEF q
  <2>1. QED
    BY <1>1, DivMod
<1> HIDE DEF q, r, p, s
<1>3. n * m \in Nat \ {0}
  OBVIOUS
<1>4. s * n + r \in 0 .. n * m - 1
  <2>1. s * n <= (m - 1) * n /\ s * n >= 0
    BY <1>2
  <2>2. (m - 1) * n = n * m - n /\ s * n \in Int
    BY <1>2
  <2>3. QED
    BY <1>1, <1>2, <1>3, <2>1, <2>2
<1>5. x = p * (n * m) + (s * n + r)
  BY <1>1, <1>2
<1> DEFINE t == s * n + r
           w == n * m
<1> HIDE DEF t, w
<1>6. w \in Nat \ {0} /\ t \in 0 .. w - 1 /\ x = p * w + t
  BY <1>3, <1>4, <1>5 DEF t, w
<1>7. x \div w = p /\ (x % w) = t
  BY <1>2, <1>6, DivModIs
<1>8. t \div n = s /\ (t % n) = r
  BY <1>1, <1>2, DivModIs DEF t
<1>9. QED
  BY <1>3, <1>7, <1>8 DEF q, r, p, s, t, w

\* Division by 2m and its remainder, in two steps.
LEMMA DivByTwice ==
  ASSUME NEW x \in Nat, NEW m \in Nat \ {0}
  PROVE  /\ x \div (2 * m) = (x \div 2) \div m
         /\ (x % (2 * m)) \div 2 = ((x \div 2) % m)
         /\ ((x % (2 * m)) % 2) = (x % 2)
<1> DEFINE n == 2
<1>1. n \in Nat \ {0} /\ x \in Int
  OBVIOUS
<1> HIDE DEF n
<1>2. /\ x \div (n * m) = (x \div n) \div m
      /\ (x % (n * m)) \div n = ((x \div n) % m)
      /\ ((x % (n * m)) % n) = (x % n)
  BY <1>1, DivByProduct
<1>3. QED
  BY <1>2 DEF n

\* Quotients and remainders of a number are no larger.
LEMMA QuotientBelow ==
  ASSUME NEW x \in Nat, NEW n \in Nat \ {0}
  PROVE  x \div n \in Nat /\ x \div n <= x /\ (x % n) \in Nat /\ (x % n) <= x
  BY SMT

\* Remainders of sums and products.
LEMMA ModOfMod ==
  ASSUME NEW x \in Int, NEW y \in Int, NEW n \in Nat \ {0}
  PROVE  /\ (((x % n) + y) % n) = ((x + y) % n)
         /\ ((y - (x % n)) % n) = ((y - x) % n)
         /\ (((x % n) * y) % n) = ((x * y) % n)
<1> DEFINE q == x \div n
           r == x % n
<1>1. q \in Int /\ r \in 0 .. n - 1 /\ x = q * n + r
  BY DivMod
<1> HIDE DEF q, r
<1>2. x + y = (r + y) + q * n /\ r + y \in Int
  BY <1>1
<1>3. y - x = (y - r) + (-q) * n /\ y - r \in Int /\ -q \in Int
  BY <1>1
<1>4. x * y = r * y + (q * y) * n /\ r * y \in Int /\ q * y \in Int
  BY <1>1
<1>5. ((x + y) % n) = ((r + y) % n) /\ ((y - x) % n) = ((y - r) % n)
  <2> DEFINE u == r + y
             v == y - r
             p == -q
  <2>1. u \in Int /\ v \in Int /\ p \in Int /\ x + y = u + q * n /\ y - x = v + p * n
    BY <1>1, <1>2, <1>3
  <2> HIDE DEF u, v, p
  <2>2. ((u + q * n) % n) = (u % n)
    BY <1>1, <2>1, ModUp
  <2>3. ((v + p * n) % n) = (v % n)
    BY <1>1, <2>1, ModUp
  <2>4. ((x + y) % n) = (u % n) /\ ((y - x) % n) = (v % n)
    BY <2>1, <2>2, <2>3
  <2>5. QED
    BY <2>4 DEF u, v
<1>6. ((x * y) % n) = ((r * y) % n)
  <2> DEFINE u == r * y
             p == q * y
  <2>1. u \in Int /\ p \in Int /\ x * y = u + p * n
    BY <1>4
  <2> HIDE DEF u, p
  <2>2. ((u + p * n) % n) = (u % n)
    BY <1>1, <2>1, ModUp
  <2>3. QED
    BY <2>1, <2>2 DEF u
<1>7. QED
  BY <1>5, <1>6 DEF r

\* A product below a product.
LEMMA ModOfMultiple ==
  ASSUME NEW x \in Int, NEW n \in Nat \ {0}, NEW m \in Nat \ {0}
  PROVE  ((x * m) % (n * m)) = (x % n) * m /\ (x * m) \div (n * m) = x \div n
<1> DEFINE q == x \div n
           r == x % n
<1>1. q \in Int /\ r \in 0 .. n - 1 /\ x = q * n + r
  BY DivMod
<1> HIDE DEF q, r
<1> DEFINE w == n * m
           t == r * m
<1>2. w \in Nat \ {0} /\ t \in 0 .. w - 1
  <2>1. r * m <= (n - 1) * m /\ r * m >= 0 /\ (n - 1) * m = n * m - m /\ n * m > 0
    BY <1>1
  <2>2. r * m \in Int /\ n * m \in Int
    BY <1>1
  <2>3. QED
    BY <2>1, <2>2
<1>3. x * m = q * w + t
  BY <1>1
<1> HIDE DEF w, t
<1>4. ((x * m) % w) = t /\ (x * m) \div w = q
  BY <1>1, <1>2, <1>3, DivModIs
<1>5. QED
  BY <1>4 DEF w, t, q, r

\* A quotient is below the bound it has to be.
LEMMA DivBelow ==
  ASSUME NEW x \in Nat, NEW n \in Nat \ {0}, NEW m \in Nat, x < n * m
  PROVE  x \div n \in 0 .. m - 1
<1> DEFINE q == x \div n
           r == x % n
<1>1. q \in Int /\ r \in 0 .. n - 1 /\ x = q * n + r /\ q >= 0
  <2>1. x \in Int /\ x >= 0
    OBVIOUS
  <2>2. q \in Nat
    BY <2>1, DivMod
  <2>3. r \in 0 .. n - 1 /\ x = q * n + r
    BY <2>1, DivMod
  <2>4. QED
    BY <2>2, <2>3
<1> HIDE DEF q, r
<1>2. ~(q >= m)
  <2>1. SUFFICES ASSUME q >= m PROVE FALSE
    OBVIOUS
  <2>2. q * n >= m * n
    BY <1>1, <2>1
  <2>3. m * n = n * m /\ m * n \in Int /\ q * n \in Int
    BY <1>1
  <2>4. QED
    BY <1>1, <2>2, <2>3
<1>3. QED
  BY <1>1, <1>2 DEF q

\* The subsets of two sets are those of their union, two by two.
LEMMA PowerSum ==
  ASSUME NEW a \in Nat, NEW b \in Nat
  PROVE  2^(a + b) = 2^a * 2^b
<1> DEFINE A == 1 .. a
           B == a + 1 .. a + b
           C == 1 .. a + b
           PA == SUBSET A
           PB == SUBSET B
           S == PA \X PB
           T == SUBSET C
           F == [p \in S |-> p[1] \cup p[2]]
<1>1. /\ IsFiniteSet(A) /\ Cardinality(A) = a
      /\ IsFiniteSet(B) /\ Cardinality(B) = b
      /\ IsFiniteSet(C) /\ Cardinality(C) = a + b
  <2>1. IsFiniteSet(A) /\ Cardinality(A) = a
    BY FS_Interval
  <2>2. IsFiniteSet(B) /\ Cardinality(B) = b
    <3> DEFINE l == a + 1
               h == a + b
    <3>1. l \in Int /\ h \in Int /\ (IF l > h THEN 0 ELSE h - l + 1) = b
      OBVIOUS
    <3> HIDE DEF l, h
    <3>2. IsFiniteSet(l .. h) /\ Cardinality(l .. h) = (IF l > h THEN 0 ELSE h - l + 1)
      BY <3>1, FS_Interval
    <3>3. QED
      BY <3>1, <3>2 DEF l, h
  <2>3. IsFiniteSet(C) /\ Cardinality(C) = a + b
    <3> DEFINE h == a + b
    <3>1. h \in Int /\ (IF 1 > h THEN 0 ELSE h - 1 + 1) = h
      OBVIOUS
    <3> HIDE DEF h
    <3>2. IsFiniteSet(1 .. h) /\ Cardinality(1 .. h) = (IF 1 > h THEN 0 ELSE h - 1 + 1)
      BY <3>1, FS_Interval
    <3>3. QED
      BY <3>1, <3>2 DEF h
  <2>4. QED
    BY <2>1, <2>2, <2>3
<1>2. IsFiniteSet(PA) /\ Cardinality(PA) = 2^a
  BY <1>1, FS_SUBSET
<1>3. IsFiniteSet(PB) /\ Cardinality(PB) = 2^b
  BY <1>1, FS_SUBSET
<1>4. IsFiniteSet(T) /\ Cardinality(T) = 2^(a + b)
  BY <1>1, FS_SUBSET
<1>5. IsFiniteSet(S) /\ Cardinality(S) = 2^a * 2^b
  <2> HIDE DEF PA, PB
  <2>1. QED
    BY <1>2, <1>3, FS_Product
<1>6. C = A \cup B /\ A \cap B = {}
  OBVIOUS
<1> HIDE DEF A, B, C
<1>7. F \in [S -> T]
  BY <1>6
<1>8. \A p, q \in S : F[p] = F[q] => p = q
  <2>1. ASSUME NEW p \in S, NEW q \in S, F[p] = F[q] PROVE p = q
    <3>1. p = <<p[1], p[2]>> /\ q = <<q[1], q[2]>> /\ p[1] \in PA /\ p[2] \in PB /\ q[1] \in PA /\ q[2] \in PB
      OBVIOUS
    <3>2. p[1] \cup p[2] = q[1] \cup q[2]
      BY <2>1
    <3>3. p[1] = q[1] /\ p[2] = q[2]
      BY <1>6, <3>1, <3>2
    <3>4. QED
      BY <3>1, <3>3
  <2>2. QED
    BY <2>1
<1>9. \A t \in T : \E p \in S : F[p] = t
  <2>1. ASSUME NEW t \in T PROVE \E p \in S : F[p] = t
    <3> DEFINE p == <<t \cap A, t \cap B>>
    <3>1. p \in S
      OBVIOUS
    <3>2. F[p] = t
      BY <1>6, <3>1
    <3>3. QED
      BY <3>1, <3>2
  <2>2. QED
    BY <2>1
<1> HIDE DEF F, S, T
<1>10. ExistsBijection(S, T)
  BY <1>7, <1>8, <1>9 DEF ExistsBijection, Bijection, Injection, Surjection, IsInjective
<1>11. QED
  BY <1>4, <1>5, <1>10, FS_Bijection

\* The first powers, and one more bit.
LEMMA Powers ==
  /\ 2^0 = 1 /\ 2^1 = 2
  /\ \A n \in Nat : 2^n \in Nat \ {0} /\ 2^(n + 1) = 2 * 2^n
  /\ \A n \in Nat \ {0} : 2^n = 2 * 2^(n - 1) /\ 2^(n - 1) \in Nat \ {0}
<1>1. 2^0 = 1 /\ 2^1 = 2
  BY SMT
<1>2. ASSUME NEW n \in Nat PROVE 2^n \in Nat \ {0} /\ 2^(n + 1) = 2 * 2^n
  <2>1. 2^n \in Nat \ {0}
    BY PowerOfTwo
  <2>2. 2^(n + 1) = 2^n * 2^1
    BY PowerSum
  <2>3. QED
    BY <1>1, <2>1, <2>2
<1>3. ASSUME NEW n \in Nat \ {0} PROVE 2^n = 2 * 2^(n - 1) /\ 2^(n - 1) \in Nat \ {0}
  <2> DEFINE k == n - 1
  <2>1. k \in Nat /\ k + 1 = n
    OBVIOUS
  <2> HIDE DEF k
  <2>2. 2^(k + 1) = 2 * 2^k /\ 2^k \in Nat \ {0}
    BY <1>2, <2>1
  <2>3. QED
    BY <2>1, <2>2 DEF k
<1>4. QED
  BY <1>1, <1>2, <1>3

-----------------------------------------------------------------------------
(***************************************************************************)
(* A bit operation, bit by bit: the lowest bit, and the others.            *)
(***************************************************************************)
OpW(b, x, y) == BitTable(b)[x][y]
\* The operations that give 0 for 0 and 0, among them and, or and xor.
Pure == {b \in BitOps : b[0][0] = 0}
AndBit == [x \in Bit |-> [y \in Bit |-> x * y]]
OrBit == [x \in Bit |-> [y \in Bit |-> IF x = 1 THEN 1 ELSE y]]
XorBit == [x \in Bit |-> [y \in Bit |-> IF x = y THEN 0 ELSE 1]]

\* And, or and exclusive or are such operations.
LEMMA Ops ==
  /\ AndBit \in Pure /\ OrBit \in Pure /\ XorBit \in Pure
  /\ \A x, y : AndW(x, y) = OpW(AndBit, x, y) /\ OrW(x, y) = OpW(OrBit, x, y) /\ XorW(x, y) = OpW(XorBit, x, y)
<1>1. AndBit \in Pure /\ OrBit \in Pure /\ XorBit \in Pure
  BY DEF Pure, BitOps, Bit, AndBit, OrBit, XorBit
<1>2. QED
  BY <1>1 DEF OpW, AndW, OrW, XorW, AndTable, OrTable, XorTable, AndBit, OrBit, XorBit

\* Half of a word has a bit less.
LEMMA HalfOf ==
  ASSUME NEW n \in Nat \ {0}, NEW x \in 0 .. 2^n - 1
  PROVE  x \div 2 \in 0 .. 2^(n - 1) - 1 /\ (x % 2) \in Bit /\ x = 2 * (x \div 2) + (x % 2)
<1> DEFINE h == 2^(n - 1)
<1>1. 2^n = 2 * h /\ h \in Nat \ {0}
  BY Powers
<1> HIDE DEF h
<1>2. x \in 0 .. 2 * h - 1
  BY <1>1
<1>3. x \div 2 \in 0 .. h - 1 /\ (x % 2) \in {0, 1} /\ x = 2 * (x \div 2) + (x % 2)
  BY <1>1, <1>2
<1>4. QED
  BY <1>3 DEF h, Bit

\* The numbers of n bits are words of m bits.
LEMMA NarrowWords ==
  ASSUME NEW m \in Nat, NEW n \in 0 .. m
  PROVE  0 .. 2^n - 1 \subseteq 0 .. 2^m - 1 /\ 0 \in 0 .. 2^n - 1
<1>1. 2^n \in Nat \ {0} /\ 2^m \in Nat \ {0} /\ 2^n <= 2^m
  BY PowerOfTwo, PowersGrow
<1>2. QED
  BY <1>1

\* The lowest bit of a bit operation is that of its operands.
LEMMA OpStep ==
  ASSUME NEW b \in Pure, NEW x \in AllWords, NEW y \in AllWords
  PROVE  /\ OpW(b, x, y) \in Nat /\ OpW(b, x \div 2, y \div 2) \in Nat
         /\ OpW(b, x, y) = b[x % 2][y % 2] + 2 * OpW(b, x \div 2, y \div 2)
<1> DEFINE t == CHOOSE t : Built(b, t)
<1>0. b \in BitOps /\ b[0][0] = 0
  BY DEF Pure
<1>1. Built(b, t)
  BY <1>0, BitsExist
<1>2. MaxBits \in Nat \ {0} /\ AllWords = 0 .. 2^MaxBits - 1
  BY MaxBitsAssumption DEF AllWords
<1> HIDE DEF t
<1>3. t[0] = NoBits /\ \A k \in 1 .. MaxBits : t[k] = OneMore(b, t[k - 1])
  <2>1. t[0] = NoBits
    BY <1>1, <1>2 DEF Built, NoBits
  <2>2. ASSUME NEW k \in 1 .. MaxBits PROVE t[k] = OneMore(b, t[k - 1])
    <3>1. k \in 0 .. MaxBits /\ k # 0
      BY <1>2
    <3>2. QED
      BY <1>1, <3>1 DEF Built, OneMore
  <2>3. QED
    BY <2>1, <2>2
<1>4. \A k \in 0 .. MaxBits : t[k] \in Tables
  <2> DEFINE S == {k \in Nat : k <= MaxBits => t[k] \in Tables}
  <2>1. 0 \in S
    BY <1>3 DEF Tables, NoBits
  <2>2. ASSUME NEW k \in Nat, k \in S PROVE k + 1 \in S
    <3>1. CASE k + 1 <= MaxBits
      <4>1. k + 1 \in 1 .. MaxBits /\ (k + 1) - 1 = k /\ t[k] \in Tables
        BY <1>2, <2>2, <3>1
      <4>2. t[k + 1] = OneMore(b, t[k])
        BY <1>3, <4>1
      <4>3. QED
        BY <1>0, <4>1, <4>2, OneMoreIs
    <3>2. QED
      BY <3>1
  <2>3. Nat \subseteq S
    <3> HIDE DEF S
    <3>1. QED
      BY <2>1, <2>2, Induct
  <2>4. QED
    BY <1>2, <2>3
<1>5. ASSUME NEW k \in 1 .. MaxBits, NEW u \in AllWords, NEW v \in AllWords
      PROVE  t[k][u][v] = b[u % 2][v % 2] + 2 * t[k - 1][u \div 2][v \div 2]
  <2> DEFINE T == t[k - 1]
  <2>1. t[k] = OneMore(b, T)
    BY <1>3
  <2> HIDE DEF T
  <2>2. OneMore(b, T)[u][v] = b[u % 2][v % 2] + 2 * T[u \div 2][v \div 2]
    BY DEF OneMore
  <2>3. QED
    BY <2>1, <2>2 DEF T
<1> DEFINE S == {k \in Nat : k + 1 <= MaxBits => \A u, v \in 0 .. 2^k - 1 : t[k + 1][u][v] = t[k][u][v]}
<1>6. 0 \in S
  <2>1. SUFFICES ASSUME NEW u \in 0 .. 2^0 - 1, NEW v \in 0 .. 2^0 - 1 PROVE t[0 + 1][u][v] = t[0][u][v]
    OBVIOUS
  <2>2. u = 0 /\ v = 0 /\ 0 \in AllWords /\ 1 \in 1 .. MaxBits
    BY <1>2, Powers, Halves
  <2>3. t[1][0][0] = b[0 % 2][0 % 2] + 2 * t[0][0 \div 2][0 \div 2]
    <3>1. t[1][0][0] = b[0 % 2][0 % 2] + 2 * t[1 - 1][0 \div 2][0 \div 2]
      BY <1>5, <2>2
    <3>2. QED
      BY <3>1
  <2>4. (0 % 2) = 0 /\ 0 \div 2 = 0 /\ t[0][0][0] = 0
    BY <1>3, <2>2 DEF NoBits
  <2>5. t[1][0][0] = 0
    BY <1>0, <2>3, <2>4
  <2>6. QED
    BY <2>2, <2>4, <2>5
<1>7. ASSUME NEW k \in Nat, k \in S PROVE k + 1 \in S
  <2>1. SUFFICES ASSUME (k + 1) + 1 <= MaxBits, NEW u \in 0 .. 2^(k + 1) - 1, NEW v \in 0 .. 2^(k + 1) - 1
                 PROVE  t[(k + 1) + 1][u][v] = t[k + 1][u][v]
    OBVIOUS
  <2>2. k + 1 \in Nat \ {0} /\ (k + 1) - 1 = k /\ k + 1 \in 1 .. MaxBits /\ (k + 1) + 1 \in 1 .. MaxBits
        /\ ((k + 1) + 1) - 1 = k + 1 /\ k + 1 \in 0 .. MaxBits
    BY <1>2, <2>1
  <2>3. u \in AllWords /\ v \in AllWords
    BY <1>2, <2>2, NarrowWords
  <2>4. u \div 2 \in 0 .. 2^k - 1 /\ v \div 2 \in 0 .. 2^k - 1
    <3>1. u \div 2 \in 0 .. 2^((k + 1) - 1) - 1
      BY <2>2, HalfOf
    <3>2. v \div 2 \in 0 .. 2^((k + 1) - 1) - 1
      BY <2>2, HalfOf
    <3>3. QED
      BY <2>2, <3>1, <3>2
  <2>5. t[k + 1][u \div 2][v \div 2] = t[k][u \div 2][v \div 2]
    BY <1>7, <2>1, <2>2, <2>4
  <2>6. t[(k + 1) + 1][u][v] = b[u % 2][v % 2] + 2 * t[k + 1][u \div 2][v \div 2]
    BY <1>5, <2>2, <2>3
  <2>7. t[k + 1][u][v] = b[u % 2][v % 2] + 2 * t[k][u \div 2][v \div 2]
    BY <1>5, <2>2, <2>3
  <2>8. QED
    BY <2>5, <2>6, <2>7
<1>8. Nat \subseteq S
  <2> HIDE DEF S
  <2>1. QED
    BY <1>6, <1>7, Induct
<1>9. x \div 2 \in 0 .. 2^(MaxBits - 1) - 1 /\ y \div 2 \in 0 .. 2^(MaxBits - 1) - 1
  BY <1>2, HalfOf
<1>10. MaxBits - 1 \in Nat /\ (MaxBits - 1) + 1 = MaxBits /\ MaxBits \in 1 .. MaxBits /\ MaxBits \in 0 .. MaxBits
  BY <1>2
<1>11. t[MaxBits][x \div 2][y \div 2] = t[MaxBits - 1][x \div 2][y \div 2]
  BY <1>8, <1>9, <1>10
<1>12. t[MaxBits][x][y] = b[x % 2][y % 2] + 2 * t[MaxBits - 1][x \div 2][y \div 2]
  BY <1>5, <1>10
<1>13. t[MaxBits][x][y] \in Nat /\ t[MaxBits][x \div 2][y \div 2] \in Nat
  BY <1>4, <1>10, Halves DEF Tables
<1>14. BitTable(b) = t[MaxBits]
  BY BitTableIs DEF t
<1>15. QED
  BY <1>11, <1>12, <1>13, <1>14 DEF OpW

\* No bits, no bits.
LEMMA OpZero ==
  ASSUME NEW b \in Pure
  PROVE  OpW(b, 0, 0) = 0
<1>1. 0 \in AllWords /\ 0 \div 2 = 0 /\ (0 % 2) = 0 /\ b[0][0] = 0
  BY Halves DEF Pure
<1> DEFINE o == OpW(b, 0, 0)
<1>2. o \in Nat /\ o = b[0 % 2][0 % 2] + 2 * OpW(b, 0 \div 2, 0 \div 2)
  BY <1>1, OpStep
<1>3. o = 0 + 2 * o
  BY <1>1, <1>2
<1> HIDE DEF o
<1>4. o = 0
  BY <1>2, <1>3
<1>5. QED
  BY <1>4 DEF o

\* Bit operations keep the width.
LEMMA OpBits ==
  ASSUME NEW b \in Pure, NEW n \in 0 .. MaxBits, NEW x \in 0 .. 2^n - 1, NEW y \in 0 .. 2^n - 1
  PROVE  OpW(b, x, y) \in 0 .. 2^n - 1
<1> DEFINE S == {k \in Nat : k <= MaxBits => \A u, v \in 0 .. 2^k - 1 : OpW(b, u, v) \in 0 .. 2^k - 1}
<1>0. MaxBits \in Nat \ {0} /\ AllWords = 0 .. 2^MaxBits - 1
  BY MaxBitsAssumption DEF AllWords
<1>1. 0 \in S
  BY Powers, OpZero
<1>2. ASSUME NEW k \in Nat, k \in S PROVE k + 1 \in S
  <2>1. SUFFICES ASSUME k + 1 <= MaxBits, NEW u \in 0 .. 2^(k + 1) - 1, NEW v \in 0 .. 2^(k + 1) - 1
                 PROVE  OpW(b, u, v) \in 0 .. 2^(k + 1) - 1
    OBVIOUS
  <2>2. k + 1 \in Nat \ {0} /\ (k + 1) - 1 = k /\ k + 1 \in 0 .. MaxBits
    BY <1>0, <2>1
  <2>3. u \in AllWords /\ v \in AllWords
    BY <1>0, <2>2, NarrowWords
  <2>4. u \div 2 \in 0 .. 2^k - 1 /\ (u % 2) \in Bit /\ v \div 2 \in 0 .. 2^k - 1 /\ (v % 2) \in Bit
    <3>1. u \div 2 \in 0 .. 2^((k + 1) - 1) - 1 /\ (u % 2) \in Bit
      BY <2>2, HalfOf
    <3>2. v \div 2 \in 0 .. 2^((k + 1) - 1) - 1 /\ (v % 2) \in Bit
      BY <2>2, HalfOf
    <3>3. QED
      BY <2>2, <3>1, <3>2
  <2> DEFINE h == OpW(b, u \div 2, v \div 2)
             l == b[u % 2][v % 2]
             N == 2^k
  <2>5. h \in 0 .. N - 1
    <3>1. \A i, j \in 0 .. 2^k - 1 : OpW(b, i, j) \in 0 .. 2^k - 1
      BY <1>0, <1>2, <2>1
    <3>2. QED
      BY <2>4, <3>1
  <2>6. l \in {0, 1}
    BY <2>4 DEF Pure, BitOps, Bit
  <2>7. OpW(b, u, v) = l + 2 * h
    BY <2>3, OpStep
  <2>8. 2^(k + 1) = 2 * N /\ N \in Nat \ {0}
    BY Powers
  <2> HIDE DEF h, l, N
  <2>9. l + 2 * h \in 0 .. 2 * N - 1
    BY <2>5, <2>6, <2>8
  <2>10. QED
    BY <2>7, <2>8, <2>9
<1>3. Nat \subseteq S
  <2> HIDE DEF S
  <2>1. QED
    BY <1>1, <1>2, Induct
<1>4. QED
  BY <1>0, <1>3

\* Bit operations work on the high and the low bits apart.
LEMMA OpSplit ==
  ASSUME NEW b \in Pure, NEW k \in Nat, NEW x \in AllWords, NEW y \in AllWords
  PROVE  OpW(b, x, y) = OpW(b, x \div 2^k, y \div 2^k) * 2^k + OpW(b, x % 2^k, y % 2^k)
<1> DEFINE P(j) == \A u, v \in AllWords :
             OpW(b, u, v) = OpW(b, u \div 2^j, v \div 2^j) * 2^j + OpW(b, u % 2^j, v % 2^j)
           S == {j \in Nat : P(j)}
<1>1. AllWords \subseteq Nat /\ \A u \in AllWords : u \div 2 \in AllWords /\ (u % 2) \in Bit
  BY Halves
<1>2. \A u \in AllWords : \A i \in Nat : i <= u => i \in AllWords
  <2>1. 2^MaxBits \in Nat
    BY MaxBitsAssumption, PowerOfTwo
  <2>2. QED
    BY <2>1 DEF AllWords
<1>3. 0 \in S
  <2>1. ASSUME NEW u \in AllWords, NEW v \in AllWords
        PROVE  OpW(b, u, v) = OpW(b, u \div 2^0, v \div 2^0) * 2^0 + OpW(b, u % 2^0, v % 2^0)
    <3>1. u \div 1 = u /\ v \div 1 = v /\ (u % 1) = 0 /\ (v % 1) = 0
      BY <1>1
    <3>2. OpW(b, u, v) \in Nat
      BY OpStep
    <3>3. OpW(b, u, v) = OpW(b, u, v) * 1 + OpW(b, 0, 0)
      BY <3>2, OpZero
    <3>4. QED
      BY <3>1, <3>3, Powers
  <2>2. QED
    BY <2>1
<1>4. ASSUME NEW j \in Nat, j \in S PROVE j + 1 \in S
  <2> DEFINE N == 2^j
  <2>1. 2^(j + 1) = 2 * N /\ N \in Nat \ {0}
    BY Powers
  <2>2. ASSUME NEW u \in AllWords, NEW v \in AllWords
        PROVE  OpW(b, u, v) = OpW(b, u \div (2 * N), v \div (2 * N)) * (2 * N) + OpW(b, u % (2 * N), v % (2 * N))
    <3> DEFINE p == u \div 2
               q == v \div 2
               r == u % (2 * N)
               s == v % (2 * N)
               l == b[u % 2][v % 2]
               H == OpW(b, u \div (2 * N), v \div (2 * N))
               L == OpW(b, p % N, q % N)
    <3>1. p \in AllWords /\ q \in AllWords /\ u \in Nat /\ v \in Nat /\ p \in Nat /\ q \in Nat
      BY <1>1
    <3>2. OpW(b, p, q) = OpW(b, p \div N, q \div N) * N + L
      BY <1>4, <3>1
    <3>3. OpW(b, u, v) = l + 2 * OpW(b, p, q)
      BY OpStep
    <3>4. /\ u \div (2 * N) = p \div N /\ r \div 2 = (p % N) /\ (r % 2) = (u % 2)
          /\ v \div (2 * N) = q \div N /\ s \div 2 = (q % N) /\ (s % 2) = (v % 2)
      <4> HIDE DEF N
      <4>1. u \div (2 * N) = p \div N /\ r \div 2 = (p % N) /\ (r % 2) = (u % 2)
        BY <2>1, <3>1, DivByTwice
      <4>2. v \div (2 * N) = q \div N /\ s \div 2 = (q % N) /\ (s % 2) = (v % 2)
        BY <2>1, <3>1, DivByTwice
      <4>3. QED
        BY <4>1, <4>2
    <3>5. r \in AllWords /\ s \in AllWords /\ p \div N \in AllWords /\ q \div N \in AllWords
      <4> HIDE DEF N, p, q
      <4>1. r \in Nat /\ r <= u /\ s \in Nat /\ s <= v
        BY <2>1, <3>1
      <4>2. p \div N \in Nat /\ p \div N <= p
        BY <2>1, <3>1, QuotientBelow
      <4>4. q \div N \in Nat /\ q \div N <= q
        BY <2>1, <3>1, QuotientBelow
      <4>3. QED
        BY <1>2, <3>1, <4>1, <4>2, <4>4
    <3>6. OpW(b, r, s) = l + 2 * L
      <4>1. OpW(b, r, s) = b[r % 2][s % 2] + 2 * OpW(b, r \div 2, s \div 2)
        BY <3>5, OpStep
      <4> HIDE DEF p, q, r, s, N
      <4>2. QED
        BY <3>4, <4>1
    <3>7. H \in Nat /\ L \in Nat /\ l \in Nat
      <4>1. H \in Nat
        BY <3>4, <3>5, OpStep
      <4>2. L \in Nat
        BY <3>4, <3>5, OpStep
      <4>3. l \in Nat
        BY <1>1 DEF Pure, BitOps, Bit
      <4>4. QED
        BY <4>1, <4>2, <4>3
    <3>8. OpW(b, u, v) = l + 2 * (H * N + L)
      BY <3>2, <3>3, <3>4
    <3> HIDE DEF H, L, l, r, s, N
    <3>9. l + 2 * (H * N + L) = H * (2 * N) + (l + 2 * L)
      BY <2>1, <3>7
    <3>10. OpW(b, u, v) = H * (2 * N) + OpW(b, r, s)
      BY <3>6, <3>8, <3>9
    <3>11. QED
      BY <3>10 DEF H, r, s
  <2> HIDE DEF N
  <2>3. P(j + 1)
    BY <2>1, <2>2
  <2>4. QED
    BY <2>3
<1>5. Nat \subseteq S
  <2> HIDE DEF S
  <2>1. QED
    BY <1>3, <1>4, Induct
<1>6. P(k)
  BY <1>5
<1>7. QED
  BY <1>6

\* What And, Or and Xor do with no bits and with all bits.
FullOps(n, x) ==
  /\ AndW(x, 0) = 0 /\ AndW(0, x) = 0 /\ OrW(x, 0) = x /\ OrW(0, x) = x /\ XorW(x, 0) = x
  /\ AndW(x, 2^n - 1) = x /\ AndW(x, x) = x /\ OrW(x, x) = x /\ XorW(x, x) = 0
  /\ XorW(x, 2^n - 1) = 2^n - 1 - x /\ OrW(x, 2^n - 1) = 2^n - 1
\* The operations do not look at the order of their operands.
SameOps(x, y) == AndW(x, y) = AndW(y, x) /\ OrW(x, y) = OrW(y, x) /\ XorW(x, y) = XorW(y, x)

\* One bit more of the three.
LEMMA BitStep ==
  ASSUME NEW x \in AllWords, NEW y \in AllWords
  PROVE  /\ AndW(x, y) = (IF (x % 2) = 1 /\ (y % 2) = 1 THEN 1 ELSE 0) + 2 * AndW(x \div 2, y \div 2)
         /\ OrW(x, y) = (IF (x % 2) = 1 \/ (y % 2) = 1 THEN 1 ELSE 0) + 2 * OrW(x \div 2, y \div 2)
         /\ XorW(x, y) = (IF (x % 2) = (y % 2) THEN 0 ELSE 1) + 2 * XorW(x \div 2, y \div 2)
         /\ AndW(x, y) \in Nat /\ OrW(x, y) \in Nat /\ XorW(x, y) \in Nat
<1>1. (x % 2) \in Bit /\ (y % 2) \in Bit
  BY Halves
<1>2. \A i, j \in Bit : /\ AndBit[i][j] = (IF i = 1 /\ j = 1 THEN 1 ELSE 0)
                        /\ OrBit[i][j] = (IF i = 1 \/ j = 1 THEN 1 ELSE 0)
                        /\ XorBit[i][j] = (IF i = j THEN 0 ELSE 1)
  BY DEF AndBit, OrBit, XorBit, Bit
<1> DEFINE i == x % 2
           j == y % 2
<1>3. /\ AndBit[i][j] = (IF i = 1 /\ j = 1 THEN 1 ELSE 0)
      /\ OrBit[i][j] = (IF i = 1 \/ j = 1 THEN 1 ELSE 0)
      /\ XorBit[i][j] = (IF i = j THEN 0 ELSE 1)
  BY <1>1, <1>2
<1>4. \A b \in Pure : OpW(b, x, y) \in Nat /\ OpW(b, x, y) = b[i][j] + 2 * OpW(b, x \div 2, y \div 2)
  BY OpStep
<1>5. AndW(x, y) \in Nat /\ AndW(x, y) = AndBit[i][j] + 2 * AndW(x \div 2, y \div 2)
  BY <1>4, Ops
<1>6. OrW(x, y) \in Nat /\ OrW(x, y) = OrBit[i][j] + 2 * OrW(x \div 2, y \div 2)
  BY <1>4, Ops
<1>7. XorW(x, y) \in Nat /\ XorW(x, y) = XorBit[i][j] + 2 * XorW(x \div 2, y \div 2)
  BY <1>4, Ops
<1>8. QED
  BY <1>3, <1>5, <1>6, <1>7

\* Operations with 0, with all ones and with the word itself.
LEMMA FullOpsHold ==
  ASSUME NEW n \in 0 .. MaxBits, NEW x \in 0 .. 2^n - 1
  PROVE  FullOps(n, x)
<1> DEFINE S == {k \in Nat : k <= MaxBits => \A u \in 0 .. 2^k - 1 : FullOps(k, u)}
<1>0. MaxBits \in Nat \ {0} /\ AllWords = 0 .. 2^MaxBits - 1
  BY MaxBitsAssumption DEF AllWords
<1>1. 0 \in S
  <2>1. AndW(0, 0) = 0 /\ OrW(0, 0) = 0 /\ XorW(0, 0) = 0
    BY Ops, OpZero
  <2>2. FullOps(0, 0)
    BY <2>1, Powers DEF FullOps
  <2>3. 0 .. 2^0 - 1 = {0}
    BY Powers
  <2>4. QED
    BY <2>2, <2>3
<1>2. ASSUME NEW k \in Nat, k \in S PROVE k + 1 \in S
  <2>1. SUFFICES ASSUME k + 1 <= MaxBits, NEW u \in 0 .. 2^(k + 1) - 1
                 PROVE  FullOps(k + 1, u)
    OBVIOUS
  <2>2. k + 1 \in Nat \ {0} /\ (k + 1) - 1 = k /\ k + 1 \in 0 .. MaxBits /\ k <= MaxBits
    BY <1>0, <2>1
  <2> DEFINE N == 2^k
             h == u \div 2
             l == u % 2
             F == 2^(k + 1) - 1
  <2>3. N \in Nat \ {0} /\ F = 2 * N - 1
    BY Powers
  <2>4. h \in 0 .. N - 1 /\ l \in {0, 1} /\ u = 2 * h + l
    <3>1. u \div 2 \in 0 .. 2^((k + 1) - 1) - 1 /\ (u % 2) \in Bit /\ u = 2 * (u \div 2) + (u % 2)
      BY <2>2, HalfOf
    <3>2. QED
      BY <2>2, <3>1 DEF Bit
  <2>5. u \in AllWords /\ F \in AllWords /\ 0 \in AllWords
    <3>1. F \in 0 .. 2^(k + 1) - 1
      BY Powers
    <3>2. QED
      BY <1>0, <2>2, <3>1, NarrowWords
  <2>6. FullOps(k, h)
    BY <1>2, <2>2, <2>4
  <2> HIDE DEF N, h, l, F
  <2>7. F \div 2 = N - 1 /\ (F % 2) = 1 /\ 0 \div 2 = 0 /\ (0 % 2) = 0
    BY <2>3
  <2>8. /\ AndW(h, 0) = 0 /\ AndW(0, h) = 0 /\ OrW(h, 0) = h /\ OrW(0, h) = h /\ XorW(h, 0) = h
        /\ AndW(h, N - 1) = h /\ AndW(h, h) = h /\ OrW(h, h) = h /\ XorW(h, h) = 0
        /\ XorW(h, N - 1) = N - 1 - h /\ OrW(h, N - 1) = N - 1
    BY <2>6 DEF FullOps, N
  <2>9. u \div 2 = h /\ (u % 2) = l
    BY DEF h, l
  <2> DEFINE One(v, w, r, s) ==
             /\ AndW(v, w) = (IF r = 1 /\ s = 1 THEN 1 ELSE 0) + 2 * AndW(v \div 2, w \div 2)
             /\ OrW(v, w) = (IF r = 1 \/ s = 1 THEN 1 ELSE 0) + 2 * OrW(v \div 2, w \div 2)
             /\ XorW(v, w) = (IF r = s THEN 0 ELSE 1) + 2 * XorW(v \div 2, w \div 2)
  <2>10. One(u, 0, l, 0) /\ One(0, u, 0, l) /\ One(u, u, l, l) /\ One(u, F, l, 1)
    <3>1. \A v, w \in AllWords : One(v, w, v % 2, w % 2)
      BY BitStep
    <3>2. One(u, 0, u % 2, 0 % 2) /\ One(0, u, 0 % 2, u % 2) /\ One(u, u, u % 2, u % 2) /\ One(u, F, u % 2, F % 2)
      BY <2>5, <3>1
    <3> HIDE DEF One
    <3>3. QED
      BY <2>7, <2>9, <3>2
  <2>11. /\ AndW(u, 0) = 0 /\ AndW(0, u) = 0
         /\ OrW(u, 0) = (IF l = 1 THEN 1 ELSE 0) + 2 * h /\ OrW(0, u) = (IF l = 1 THEN 1 ELSE 0) + 2 * h
         /\ XorW(u, 0) = (IF l = 0 THEN 0 ELSE 1) + 2 * h
    BY <2>7, <2>8, <2>9, <2>10
  <2>12. /\ AndW(u, u) = (IF l = 1 THEN 1 ELSE 0) + 2 * h /\ OrW(u, u) = (IF l = 1 THEN 1 ELSE 0) + 2 * h /\ XorW(u, u) = 0
         /\ AndW(u, F) = (IF l = 1 THEN 1 ELSE 0) + 2 * h /\ OrW(u, F) = 1 + 2 * (N - 1)
         /\ XorW(u, F) = (IF l = 1 THEN 0 ELSE 1) + 2 * (N - 1 - h)
    BY <2>7, <2>8, <2>9, <2>10
  <2>14. (IF l = 1 THEN 1 ELSE 0) + 2 * h = u /\ (IF l = 0 THEN 0 ELSE 1) + 2 * h = u
         /\ (IF l = 1 THEN 0 ELSE 1) + 2 * (N - 1 - h) = F - u /\ 1 + 2 * (N - 1) = F
    BY <2>3, <2>4
  <2>13. QED
    BY <2>11, <2>12, <2>14 DEF FullOps, F
<1>3. Nat \subseteq S
  <2> HIDE DEF S
  <2>1. QED
    BY <1>1, <1>2, Induct
<1>4. QED
  BY <1>0, <1>3

\* The operands may be exchanged.
LEMMA OpsCommute ==
  ASSUME NEW x \in AllWords, NEW y \in AllWords
  PROVE  SameOps(x, y)
<1> DEFINE S == {k \in Nat : k <= MaxBits => \A u, v \in 0 .. 2^k - 1 : SameOps(u, v)}
<1>0. MaxBits \in Nat \ {0} /\ AllWords = 0 .. 2^MaxBits - 1
  BY MaxBitsAssumption DEF AllWords
<1>1. 0 \in S
  <2>1. 0 .. 2^0 - 1 = {0} /\ SameOps(0, 0)
    BY Powers DEF SameOps
  <2>2. QED
    BY <2>1
<1>2. ASSUME NEW k \in Nat, k \in S PROVE k + 1 \in S
  <2>1. SUFFICES ASSUME k + 1 <= MaxBits, NEW u \in 0 .. 2^(k + 1) - 1, NEW v \in 0 .. 2^(k + 1) - 1
                 PROVE  SameOps(u, v)
    OBVIOUS
  <2>2. k + 1 \in Nat \ {0} /\ (k + 1) - 1 = k /\ k + 1 \in 0 .. MaxBits /\ k <= MaxBits
    BY <1>0, <2>1
  <2>3. u \in AllWords /\ v \in AllWords
    BY <1>0, <2>2, NarrowWords
  <2>4. u \div 2 \in 0 .. 2^k - 1 /\ v \div 2 \in 0 .. 2^k - 1
    <3>1. u \div 2 \in 0 .. 2^((k + 1) - 1) - 1
      BY <2>2, HalfOf
    <3>2. v \div 2 \in 0 .. 2^((k + 1) - 1) - 1
      BY <2>2, HalfOf
    <3>3. QED
      BY <2>2, <3>1, <3>2
  <2>5. SameOps(u \div 2, v \div 2)
    BY <1>2, <2>2, <2>4
  <2> DEFINE h == u \div 2
             i == v \div 2
             l == u % 2
             j == v % 2
  <2>6. /\ AndW(u, v) = (IF l = 1 /\ j = 1 THEN 1 ELSE 0) + 2 * AndW(h, i)
        /\ OrW(u, v) = (IF l = 1 \/ j = 1 THEN 1 ELSE 0) + 2 * OrW(h, i)
        /\ XorW(u, v) = (IF l = j THEN 0 ELSE 1) + 2 * XorW(h, i)
    BY <2>3, BitStep
  <2>7. /\ AndW(v, u) = (IF j = 1 /\ l = 1 THEN 1 ELSE 0) + 2 * AndW(i, h)
        /\ OrW(v, u) = (IF j = 1 \/ l = 1 THEN 1 ELSE 0) + 2 * OrW(i, h)
        /\ XorW(v, u) = (IF j = l THEN 0 ELSE 1) + 2 * XorW(i, h)
    BY <2>3, BitStep
  <2>8. AndW(h, i) = AndW(i, h) /\ OrW(h, i) = OrW(i, h) /\ XorW(h, i) = XorW(i, h)
    BY <2>5 DEF SameOps
  <2> HIDE DEF h, i, l, j
  <2>9. QED
    BY <2>6, <2>7, <2>8 DEF SameOps
<1>3. Nat \subseteq S
  <2> HIDE DEF S
  <2>1. QED
    BY <1>1, <1>2, Induct
<1>4. MaxBits \in S /\ MaxBits <= MaxBits
  BY <1>0, <1>3
<1>5. QED
  BY <1>0, <1>4

\* They keep the width of words.
LEMMA OpsKeepWidth ==
  ASSUME NEW n \in 0 .. MaxBits, NEW x \in 0 .. 2^n - 1, NEW y \in 0 .. 2^n - 1
  PROVE  AndW(x, y) \in 0 .. 2^n - 1 /\ OrW(x, y) \in 0 .. 2^n - 1 /\ XorW(x, y) \in 0 .. 2^n - 1
<1>1. \A b \in Pure : OpW(b, x, y) \in 0 .. 2^n - 1
  BY OpBits
<1>2. QED
  BY <1>1, Ops

-----------------------------------------------------------------------------
(***************************************************************************)
(* Words of n bits, and what shifts and rotations make of them.            *)
(***************************************************************************)
\* The sign bit is half of the words.
LEMMA SignBitIs ==
  ASSUME NEW n \in Nat \ {0}
  PROVE  SignBit(n) \in Nat \ {0} /\ 2 * SignBit(n) = 2^n /\ Word(SignBit(n)) = 0 .. 2^n - 1
<1>1. 2^n = 2 * 2^(n - 1) /\ 2^(n - 1) \in Nat \ {0}
  BY Powers
<1>2. QED
  BY <1>1 DEF SignBit, Word

\* A word is split at bit s.
LEMMA SplitWord ==
  ASSUME NEW n \in Nat, NEW s \in 0 .. n, NEW x \in 0 .. 2^n - 1
  PROVE  /\ x \div 2^s \in 0 .. 2^(n - s) - 1 /\ (x % 2^s) \in 0 .. 2^s - 1
         /\ x = (x \div 2^s) * 2^s + (x % 2^s)
         /\ 2^n = 2^(n - s) * 2^s
<1> DEFINE p == 2^s
           q == 2^(n - s)
           w == 2^n
<1>1. p \in Nat \ {0} /\ q \in Nat \ {0}
  <2>1. s \in Nat /\ n - s \in Nat
    OBVIOUS
  <2>2. QED
    BY <2>1, Powers
<1>2. w = q * p
  <2> DEFINE a == n - s
  <2>1. a \in Nat /\ s \in Nat /\ a + s = n
    OBVIOUS
  <2> HIDE DEF a
  <2>2. 2^(a + s) = 2^a * 2^s
    BY <2>1, PowerSum
  <2>3. QED
    BY <2>1, <2>2 DEF a
<1> HIDE DEF p, q, w
<1>3. x \in Nat /\ x < p * q
  <2>1. x \in 0 .. w - 1 /\ w = p * q /\ w \in Nat
    BY <1>1, <1>2 DEF w
  <2>2. QED
    BY <2>1
<1>4. x \div p \in 0 .. q - 1
  BY <1>1, <1>3, DivBelow
<1>5. (x % p) \in 0 .. p - 1 /\ x = (x \div p) * p + (x % p)
  BY <1>1, <1>3, DivMod
<1>6. QED
  BY <1>2, <1>4, <1>5 DEF p, q, w

\* Put together again, it is a word.
LEMMA JoinWord ==
  ASSUME NEW n \in Nat, NEW s \in 0 .. n, NEW u \in 0 .. 2^(n - s) - 1, NEW v \in 0 .. 2^s - 1
  PROVE  u * 2^s + v \in 0 .. 2^n - 1
<1> DEFINE p == 2^s
           q == 2^(n - s)
           w == 2^n
<1>1. p \in Nat \ {0} /\ q \in Nat \ {0} /\ w = q * p
  <2>1. s \in Nat /\ n - s \in Nat /\ 0 \in 0 .. 2^n - 1
    <3>1. 2^n \in Nat \ {0}
      BY Powers
    <3>2. QED
      BY <3>1
  <2>2. QED
    BY <2>1, Powers, SplitWord
<1> HIDE DEF p, q, w
<1>2. u \in 0 .. q - 1 /\ v \in 0 .. p - 1
  BY DEF p, q
<1>3. u * p + v <= (q - 1) * p + (p - 1)
  <2>1. u * p <= (q - 1) * p
    BY <1>1, <1>2
  <2>2. QED
    BY <1>1, <1>2, <2>1
<1>4. u * p + v \in 0 .. w - 1
  <2>1. (q - 1) * p + (p - 1) = w - 1 /\ u * p \in Nat
    BY <1>1, <1>2
  <2>2. QED
    BY <1>1, <1>2, <1>3, <2>1
<1>5. QED
  BY <1>4 DEF p, q, w

\* A rotation of a word is a word.
LEMMA RotateIsWord ==
  ASSUME NEW n \in Nat, NEW s \in 0 .. n, NEW x \in 0 .. 2^n - 1
  PROVE  RotateRight(n, x, s) \in 0 .. 2^n - 1
<1> DEFINE t == n - s
<1>1. t \in 0 .. n /\ n - t = s
  OBVIOUS
<1>2. x \div 2^s \in 0 .. 2^t - 1 /\ (x % 2^s) \in 0 .. 2^(n - t) - 1
  BY <1>1, SplitWord
<1> HIDE DEF t
<1> DEFINE u == x % 2^s
           v == x \div 2^s
<1>3. u \in 0 .. 2^(n - t) - 1 /\ v \in 0 .. 2^t - 1
  BY <1>2
<1> HIDE DEF u, v
<1>4. u * 2^t + v \in 0 .. 2^n - 1
  BY <1>1, <1>3, JoinWord
<1>5. RotateRight(n, x, s) = v + u * 2^t
  BY DEF RotateRight, t, u, v
<1>6. u \in Nat /\ v \in Nat /\ 2^t \in Nat
  <2>1. t \in Nat /\ n - t \in Nat
    BY <1>1
  <2>2. 2^t \in Nat /\ 2^(n - t) \in Nat
    BY <2>1, Powers
  <2>3. QED
    BY <1>3, <2>2
<1>7. v + u * 2^t = u * 2^t + v
  <2> DEFINE z == u * 2^t
  <2>1. z \in Int
    BY <1>6
  <2>2. v + z = z + v
    BY <1>6, <2>1
  <2>3. QED
    BY <2>2
<1>8. QED
  BY <1>4, <1>5, <1>7

\* So are shifts by less than the width.
LEMMA ShiftsAreWords ==
  ASSUME NEW n \in Nat \ {0}, NEW s \in 0 .. n - 1, NEW x \in 0 .. 2^n - 1
  PROVE  /\ Shl(n, x, s) = ((x * 2^s) % 2^n) /\ Shl(n, x, s) \in 0 .. 2^n - 1
         /\ Lshr(n, x, s) = x \div 2^s /\ Lshr(n, x, s) \in 0 .. 2^n - 1
         /\ Ashr(n, x, s) = ((Signed(SignBit(n), x) \div 2^s) % 2^n) /\ Ashr(n, x, s) \in 0 .. 2^n - 1
<1> DEFINE p == 2^s
           w == 2^n
           sx == Signed(SignBit(n), x)
<1>1. p \in Nat \ {0} /\ w \in Nat \ {0}
  BY Powers
<1>2. SignBit(n) \in Nat
  BY SignBitIs
<1>3. sx \in Int
  BY <1>2 DEF Signed, Negative
<1> HIDE DEF p, w, sx
<1>4. x \in 0 .. w - 1
  BY DEF w
<1>5. (x * p) \in Int /\ ((x * p) % w) \in 0 .. w - 1
  <2>1. x * p \in Int
    BY <1>1, <1>4
  <2>2. QED
    BY <1>1, <2>1
<1>6. x \div p \in 0 .. w - 1
  <2>1. x \div p \in Nat /\ x \div p <= x
    BY <1>1, <1>4, QuotientBelow
  <2>2. QED
    BY <1>1, <1>4, <2>1
<1>7. ((sx \div p) % w) \in 0 .. w - 1
  BY <1>1, <1>3
<1>8. s < n
  OBVIOUS
<1>9. QED
  BY <1>5, <1>6, <1>7, <1>8 DEF Shl, Lshr, Ashr, p, w, sx

-----------------------------------------------------------------------------
(***************************************************************************)
(* arm.                                                                    *)
(***************************************************************************)
Machine32 == [reg : [Registers -> Word(Top32)], f : Flags, written : BOOLEAN]

\* Both sides have the same registers and the same flags.
InStep32(m, h) == m \in Machine32 /\ h \in Machine32 /\ m.reg = h.reg /\ m.f = h.f

\* The width of a register of arm and its sign bit.
LEMMA Width32 ==
  /\ RBits \in Nat \ {0} /\ RBits \in 0 .. MaxBits
  /\ Top32 \in Nat \ {0} /\ 2 * Top32 = 2^RBits /\ Word(Top32) = 0 .. 2^RBits - 1
  /\ Top32 = SignBit(RBits)
<1>1. RBits \in Nat \ {0} /\ RBits \in 0 .. MaxBits
  BY RBitsAssumption, MaxBitsAssumption
<1>2. QED
  BY <1>1, SignBitIs DEF Top32

\* Bit operations on words of arm are words.
LEMMA Words32 ==
  ASSUME NEW x \in Word(Top32), NEW y \in Word(Top32)
  PROVE  /\ AddW(Top32, x, y) \in Word(Top32) /\ SubW(Top32, x, y) \in Word(Top32)
         /\ AndW(x, y) \in Word(Top32) /\ OrW(x, y) \in Word(Top32) /\ XorW(x, y) \in Word(Top32)
         /\ NotW(RBits, x) \in Word(Top32) /\ NotW(RBits, x) = Complement(Top32, x)
<1>1. AndW(x, y) \in Word(Top32) /\ OrW(x, y) \in Word(Top32) /\ XorW(x, y) \in Word(Top32)
  BY Width32, OpsKeepWidth
<1>0. Top32 \in Nat \ {0} /\ 2 * Top32 = 2^RBits
  BY Width32
<1> DEFINE t == Top32
<1>2. AddW(Top32, x, y) \in Word(Top32) /\ SubW(Top32, x, y) \in Word(Top32)
  <2>1. t \in Nat \ {0} /\ x \in 0 .. 2 * t - 1 /\ y \in 0 .. 2 * t - 1
    BY <1>0 DEF Word
  <2> HIDE DEF t
  <2>2. AddW(t, x, y) \in Word(t) /\ SubW(t, x, y) \in Word(t)
    BY <2>1 DEF AddW, SubW, Word
  <2>3. QED
    BY <2>2 DEF t
<1>3. NotW(RBits, x) = 2 * Top32 - 1 - x
  BY <1>0 DEF NotW
<1>4. Complement(t, x) \in Word(t)
  <2>1. t \in Nat \ {0} /\ x \in 0 .. 2 * t - 1
    BY <1>0 DEF Word
  <2> HIDE DEF t
  <2>2. QED
    BY <2>1 DEF Complement, Word
<1>5. QED
  BY <1>1, <1>2, <1>3, <1>4 DEF Complement

\* A source of arm is a word.
LEMMA Sources32 ==
  ASSUME NEW m \in Machine32, NEW o, A32Source(o)
  PROVE  Eval32(m, o) \in Word(Top32)
  BY DEF Machine32, A32Source, Eval32

\* The first source, shifted, is what the barrel shifter gives.
LEMMA Shifter32 ==
  ASSUME NEW i, A32Operands(i), i.op \in DataProcessing, NEW m, NEW h, InStep32(m, h)
  PROVE  Operand2(i, m) = Shifted(i, h) /\ Operand2(i, m) \in Word(Top32)
<1> DEFINE x == Eval32(m, i.a)
           s == i.amount
           c == i.shift
<1>1. x = Eval32(h, i.a) /\ x \in Word(Top32)
  BY Sources32 DEF InStep32, A32Operands, Eval32
<1>2. s \in 0 .. RBits - 1 /\ c \in {"", "<<", ">>", "->", "@>"}
  BY DEF A32Operands
<1>3. x \in 0 .. 2^RBits - 1 /\ RBits \in Nat \ {0}
  BY <1>1, Width32
<1>4. /\ Operand2(i, m) = EvalShift(x, c, s)
      /\ Shifted(i, h) = CASE c = ""   -> x
                           [] c = "<<" -> (x * 2^s) % 2^RBits
                           [] c = ">>" -> x \div 2^s
                           [] c = "->" -> (Signed(Top32, x) \div 2^s) % 2^RBits
                           [] c = "@>" -> RotateRight(RBits, x, s)
  BY <1>1 DEF Operand2, Shifted
<1> HIDE DEF x, s, c
<1>5. CASE c = ""
  BY <1>1, <1>4, <1>5 DEF EvalShift
<1>6. CASE c = "<<"
  <2>1. Shl(RBits, x, s) = ((x * 2^s) % 2^RBits) /\ Shl(RBits, x, s) \in Word(Top32)
    BY <1>2, <1>3, ShiftsAreWords, Width32
  <2>2. QED
    BY <1>4, <1>6, <2>1 DEF EvalShift
<1>7. CASE c = ">>"
  <2>1. Lshr(RBits, x, s) = x \div 2^s /\ Lshr(RBits, x, s) \in Word(Top32)
    BY <1>2, <1>3, ShiftsAreWords, Width32
  <2>2. QED
    BY <1>4, <1>7, <2>1 DEF EvalShift
<1>8. CASE c = "->"
  <2>1. Ashr(RBits, x, s) = ((Signed(Top32, x) \div 2^s) % 2^RBits) /\ Ashr(RBits, x, s) \in Word(Top32)
    BY <1>2, <1>3, ShiftsAreWords, Width32
  <2>2. QED
    BY <1>4, <1>8, <2>1 DEF EvalShift
<1>9. CASE c = "@>"
  <2>1. (s % RBits) = s /\ s \in 0 .. RBits
    <3>0. RBits \in Nat \ {0} /\ s \in 0 .. RBits - 1
      BY <1>2, <1>3
    <3>1. s \in Int /\ s \in 0 .. RBits
      BY <3>0
    <3>2. QED
      BY <3>0, <3>1, DivMod
  <2>2. RotateRight(RBits, x, s) \in Word(Top32)
    BY <1>3, <2>1, RotateIsWord, Width32
  <2>3. QED
    BY <1>4, <1>9, <2>1, <2>2 DEF EvalShift
<1>10. QED
  BY <1>2, <1>5, <1>6, <1>7, <1>8, <1>9

\* A register is written.
LEMMA Write32 ==
  ASSUME NEW m \in Machine32, NEW r \in Registers, NEW v \in Word(Top32)
  PROVE  /\ [m EXCEPT !.reg[r] = v] \in Machine32
         /\ [m EXCEPT !.reg[r] = v].reg = [m.reg EXCEPT ![r] = v]
         /\ [m EXCEPT !.reg[r] = v].f = m.f
  BY DEF Machine32

\* A register is written under a condition, by the translation and by the
\* processor.
LEMMA Select32 ==
  ASSUME NEW m, NEW h, InStep32(m, h), NEW cond \in Conditions, NEW r \in Registers, NEW v \in Word(Top32)
  PROVE  /\ InStep32(SelectRegWrite(cond, m, r, v), IF ConditionHolds(cond, h.f) THEN [h EXCEPT !.reg[r] = v] ELSE h)
         /\ SelectRegWrite(cond, m, r, v).f = m.f
<1>1. m \in Machine32 /\ h \in Machine32 /\ m.reg = h.reg /\ m.f = h.f /\ m.f \in Flags
  BY DEF InStep32, Machine32
<1>2. CondValue(cond, m.f) = ConditionHolds(cond, h.f)
  BY <1>1, ConditionsExact
<1> DEFINE a == [m EXCEPT !.reg[r] = v]
           b == [h EXCEPT !.reg[r] = v]
<1>3. /\ a \in Machine32 /\ b \in Machine32 /\ a.f = m.f /\ b.f = h.f
      /\ a.reg = [m.reg EXCEPT ![r] = v] /\ b.reg = [h.reg EXCEPT ![r] = v]
  BY <1>1, Write32
<1>4. SelectRegWrite(cond, m, r, v) = IF CondValue(cond, m.f) THEN a ELSE m
  BY DEF SelectRegWrite
<1> HIDE DEF a, b
<1>5. InStep32(a, b)
  BY <1>1, <1>3 DEF InStep32
<1>6. CASE CondValue(cond, m.f)
  BY <1>2, <1>3, <1>4, <1>5, <1>6 DEF b
<1>7. CASE ~CondValue(cond, m.f)
  BY <1>2, <1>4, <1>7
<1>8. QED
  BY <1>6, <1>7

\* The same with flags, g being what the slots hold afterwards.
LEMMA SelectFlags32 ==
  ASSUME NEW m, NEW h, InStep32(m, h), NEW cond \in Conditions, NEW r \in Registers, NEW v \in Word(Top32),
         NEW new \in Flags, NEW g, g = IF CondValue(cond, m.f) THEN new ELSE m.f
  PROVE  InStep32(WriteFlags(SelectRegWrite(cond, m, r, v), g),
                  IF ConditionHolds(cond, h.f) THEN [[h EXCEPT !.reg[r] = v] EXCEPT !.f = new] ELSE h)
<1>1. m \in Machine32 /\ h \in Machine32 /\ m.reg = h.reg /\ m.f = h.f /\ m.f \in Flags
  BY DEF InStep32, Machine32
<1>2. CondValue(cond, m.f) = ConditionHolds(cond, h.f)
  BY <1>1, ConditionsExact
<1> DEFINE a == [m EXCEPT !.reg[r] = v]
           b == [h EXCEPT !.reg[r] = v]
<1>3. /\ a \in Machine32 /\ b \in Machine32 /\ a.f = m.f /\ b.f = h.f
      /\ a.reg = [m.reg EXCEPT ![r] = v] /\ b.reg = [h.reg EXCEPT ![r] = v]
  BY <1>1, Write32
<1>4. SelectRegWrite(cond, m, r, v) = IF CondValue(cond, m.f) THEN a ELSE m
  BY DEF SelectRegWrite
<1> HIDE DEF a, b
<1>5. \A t \in Machine32 : \A p \in Flags :
        /\ WriteFlags(t, p) \in Machine32 /\ WriteFlags(t, p).reg = t.reg /\ WriteFlags(t, p).f = p
        /\ [t EXCEPT !.f = p] \in Machine32 /\ [t EXCEPT !.f = p].reg = t.reg /\ [t EXCEPT !.f = p].f = p
  BY DEF Machine32, WriteFlags
<1>6. CASE CondValue(cond, m.f)
  <2>1. InStep32(WriteFlags(a, new), [b EXCEPT !.f = new])
    <3>1. WriteFlags(a, new) \in Machine32 /\ WriteFlags(a, new).reg = a.reg /\ WriteFlags(a, new).f = new
      BY <1>3, <1>5
    <3>2. [b EXCEPT !.f = new] \in Machine32 /\ [b EXCEPT !.f = new].reg = b.reg /\ [b EXCEPT !.f = new].f = new
      BY <1>3, <1>5
    <3>3. a.reg = b.reg
      BY <1>1, <1>3
    <3>4. QED
      BY <3>1, <3>2, <3>3 DEF InStep32
  <2>2. g = new /\ SelectRegWrite(cond, m, r, v) = a
    BY <1>4, <1>6
  <2>3. QED
    BY <1>2, <1>6, <2>1, <2>2 DEF b
<1>7. CASE ~CondValue(cond, m.f)
  <2>1. InStep32(WriteFlags(m, m.f), h)
    BY <1>1, <1>5 DEF InStep32
  <2>2. g = m.f /\ SelectRegWrite(cond, m, r, v) = m
    BY <1>4, <1>7
  <2>3. QED
    BY <1>2, <1>7, <2>1, <2>2
<1>8. QED
  BY <1>6, <1>7

\* Where a condition that holds goes on holding while the new flags come in,
\* all stores are made, and otherwise none.
LEMMA StoreOnce ==
  ASSUME NEW f \in Flags, NEW new \in Flags, NEW kept \in Flags, NEW cond \in Conditions,
         kept.z = new.z, kept.n = new.n, ConditionHolds(cond, f) => KeepsHolding(cond, f, kept)
  PROVE  /\ kept = new => StoreZNCV(cond, f, new) = IF CondValue(cond, f) THEN new ELSE f
         /\ StoreZN(cond, f, new) = IF CondValue(cond, f) THEN [f EXCEPT !.n = new.n, !.z = new.z] ELSE f
<1>1. CASE ~CondValue(cond, f)
  BY <1>1, FailedConditionKeepsFlags
<1>2. CASE CondValue(cond, f)
  <2> DEFINE f1 == [f EXCEPT !["z"] = new.z]
             f2 == [f1 EXCEPT !["n"] = new.n]
             f3 == [f2 EXCEPT !["c"] = new.c]
             f4 == [f3 EXCEPT !["v"] = new.v]
             k3 == [f2 EXCEPT !["c"] = kept.c]
  <2>1. f1 \in Flags /\ f2 \in Flags /\ f3 \in Flags /\ k3 \in Flags
    BY DEF Flags
  <2>2. f4 = new /\ f2 = [f EXCEPT !.n = new.n, !.z = new.z]
    BY DEF Flags
  <2>3. KeepsHolding(cond, f, kept) <=> ConditionHolds(cond, f1) /\ ConditionHolds(cond, f2) /\ ConditionHolds(cond, k3)
    BY Zenon DEF KeepsHolding
  <2>4. kept = new => k3 = f3
    OBVIOUS
  <2> HIDE DEF f1, f2, f3, f4, k3
  <2>5. ConditionHolds(cond, f)
    BY <1>2, ConditionsExact
  <2>6. CondValue(cond, f1) /\ CondValue(cond, f2) /\ (kept = new => CondValue(cond, f3))
    BY <2>1, <2>3, <2>4, <2>5, ConditionsExact
  <2>7. StoreFlagCond(cond, f, "z", new.z) = f1
    BY <1>2 DEF StoreFlagCond, f1
  <2>8. StoreFlagCond(cond, f1, "n", new.n) = f2
    BY <2>6 DEF StoreFlagCond, f2
  <2>9. StoreZN(cond, f, new) = f2
    BY <2>7, <2>8 DEF StoreZN
  <2>10. ASSUME kept = new PROVE StoreZNCV(cond, f, new) = f4
    <3>1. StoreFlagCond(cond, f2, "c", new.c) = f3
      BY <2>6, <2>10 DEF StoreFlagCond, f3
    <3>2. StoreFlagCond(cond, f3, "v", new.v) = f4
      BY <2>6, <2>10 DEF StoreFlagCond, f4
    <3>3. QED
      BY <2>9, <3>1, <3>2 DEF StoreZNCV
  <2>11. QED
    BY <1>2, <2>2, <2>9, <2>10
<1>3. QED
  BY <1>1, <1>2

\* Flags are flags.
LEMMA StoredFlags ==
  ASSUME NEW t, NEW x, NEW y, NEW r
  PROVE  FlagsOfSub(t, x, y, r) \in Flags /\ FlagsOfAdd(t, x, y, r) \in Flags /\ FlagsOfLogic(t, r) \in Flags
  BY DEF Flags, FlagsOfSub, FlagsOfAdd, FlagsOfLogic, Negative, SignsDiffer

\* What an addition or a subtraction of the processor writes are flags.
LEMMA ComputedFlags ==
  ASSUME NEW t, NEW x, NEW y
  PROVE  /\ ArchAdd(t, x, y).f \in Flags /\ ArchSub(t, x, y).f \in Flags
         /\ \A cin : AddWithCarry(t, x, y, cin).f \in Flags
<1>1. \A u, v, c : AddWithCarry(t, u, v, c).f \in Flags
  BY DEF Flags, AddWithCarry, Negative
<1>2. QED
  BY <1>1 DEF ArchAdd, ArchSub

\* Flags of which N and Z were written are flags.
LEMMA ZNFlags ==
  ASSUME NEW t, NEW r, NEW f \in Flags
  PROVE  [f EXCEPT !.n = Negative(t, r), !.z = r = 0] \in Flags
<1> DEFINE n == Negative(t, r)
           z == r = 0
<1>1. n \in BOOLEAN /\ z \in BOOLEAN
  BY DEF Negative
<1> HIDE DEF n, z
<1>2. [f EXCEPT !.n = n, !.z = z] \in Flags
  BY <1>1 DEF Flags
<1>3. QED
  BY <1>2 DEF n, z

\* The result and the flags of an instruction with two sources.
LEMMA Result32 ==
  ASSUME NEW i, A32Operands(i), i.op \in {"ADD", "SUB", "RSB", "AND", "ORR", "EOR", "BIC"},
         NEW m, NEW h, InStep32(m, h), A32Safe(i, h), NEW x, NEW y, NEW r, NEW res,
         x = Eval32(m, i.b), y = Operand2(i, m), r = ALUResult(i.op, x, y),
         res = IF i.op \in Arithmetic THEN ArithOf(i, h) ELSE LogicOf(i, h)
  PROVE  /\ r = res.res /\ r \in Word(Top32) /\ res.f \in Flags
         /\ i.s => ALUFlags(i.op, i.cond, m.f, x, y, r) = IF CondValue(i.cond, m.f) THEN res.f ELSE m.f
<1>1. m \in Machine32 /\ h \in Machine32 /\ m.reg = h.reg /\ m.f = h.f /\ m.f \in Flags
  BY DEF InStep32, Machine32
<1>2. x \in Word(Top32) /\ y \in Word(Top32) /\ x = Eval32(h, i.b) /\ y = Shifted(i, h)
  <2>1. i.op \in DataProcessing
    BY DEF DataProcessing, Arithmetic, Logical
  <2>2. y = Shifted(i, h) /\ y \in Word(Top32)
    BY <2>1, Shifter32
  <2>3. A32Source(i.b)
    BY DEF A32Operands
  <2>4. x \in Word(Top32) /\ x = Eval32(h, i.b)
    BY <1>1, <2>3, Sources32 DEF Eval32
  <2>5. QED
    BY <2>2, <2>4
<1>3. Top32 \in Nat \ {0}
  BY Width32
<1>4. i.cond \in Conditions /\ NewFlags(i, h) = res.f
  BY DEF A32Operands, NewFlags
<1>5. ASSUME i.s, res.f \in Flags, NEW new \in Flags, res.f.z = new.z, res.f.n = new.n
      PROVE  /\ res.f = new => StoreZNCV(i.cond, m.f, new) = IF CondValue(i.cond, m.f) THEN new ELSE m.f
             /\ StoreZN(i.cond, m.f, new) = IF CondValue(i.cond, m.f) THEN [m.f EXCEPT !.n = new.n, !.z = new.z] ELSE m.f
  <2> DEFINE c == i.cond
             f == m.f
             kept == res.f
  <2>1. c \in Conditions /\ f \in Flags /\ kept \in Flags /\ kept.z = new.z /\ kept.n = new.n
    BY <1>1, <1>4, <1>5
  <2>2. ConditionHolds(c, f) => KeepsHolding(c, f, kept)
    BY <1>1, <1>4, <1>5 DEF A32Safe, SetsFlags, DataProcessing, Arithmetic, Logical, Comparisons
  <2> HIDE DEF c, f, kept
  <2>3. /\ kept = new => StoreZNCV(c, f, new) = IF CondValue(c, f) THEN new ELSE f
        /\ StoreZN(c, f, new) = IF CondValue(c, f) THEN [f EXCEPT !.n = new.n, !.z = new.z] ELSE f
    BY <2>1, <2>2, StoreOnce, Zenon
  <2>4. QED
    BY <2>3 DEF c, f, kept
<1>6. Word(Top32) \subseteq Int
  BY <1>3 DEF Word
<1>7. CASE i.op = "ADD"
  <2>1. r = AddW(Top32, x, y) /\ res = ArchAdd(Top32, x, y)
    BY <1>2, <1>7 DEF ALUResult, ArithOf, Arithmetic
  <2>2. r = res.res /\ FlagsOfAdd(Top32, x, y, r) = res.f
    BY <1>2, <1>3, <2>1, AddFlagsExact
  <2>3. r \in Word(Top32)
    BY <1>2, <2>1, Words32
  <2>4. res.f \in Flags
    BY <2>1, ComputedFlags
  <2>5. ALUFlags(i.op, i.cond, m.f, x, y, r) = StoreZNCV(i.cond, m.f, res.f)
    BY <1>7, <2>2 DEF ALUFlags
  <2>6. QED
    BY <1>5, <2>2, <2>3, <2>4, <2>5
<1>8. CASE i.op = "SUB"
  <2>1. r = SubW(Top32, x, y) /\ res = ArchSub(Top32, x, y)
    BY <1>2, <1>8 DEF ALUResult, ArithOf, Arithmetic
  <2>2. r = res.res /\ FlagsOfSub(Top32, x, y, r) = res.f
    BY <1>2, <1>3, <2>1, SubFlagsExact
  <2>3. r \in Word(Top32)
    BY <1>2, <2>1, Words32
  <2>4. res.f \in Flags
    BY <2>1, ComputedFlags
  <2>5. ALUFlags(i.op, i.cond, m.f, x, y, r) = StoreZNCV(i.cond, m.f, res.f)
    BY <1>8, <2>2 DEF ALUFlags
  <2>6. QED
    BY <1>5, <2>2, <2>3, <2>4, <2>5
<1>9. CASE i.op = "RSB"
  <2>1. r = SubW(Top32, y, x) /\ res = ArchSub(Top32, y, x)
    BY <1>2, <1>9 DEF ALUResult, ArithOf, Arithmetic
  <2>2. r = res.res /\ FlagsOfSub(Top32, y, x, r) = res.f
    BY <1>2, <1>3, <2>1, SubFlagsExact
  <2>3. r \in Word(Top32)
    BY <1>2, <2>1, Words32
  <2>4. res.f \in Flags
    BY <2>1, ComputedFlags
  <2>5. ALUFlags(i.op, i.cond, m.f, x, y, r) = StoreZNCV(i.cond, m.f, res.f)
    BY <1>9, <2>2 DEF ALUFlags
  <2>6. QED
    BY <1>5, <2>2, <2>3, <2>4, <2>5
<1>10. CASE i.op \in {"AND", "ORR", "EOR", "BIC"}
  <2>1. r \in Word(Top32) /\ r = LogicResult(i.op, x, y)
    <3>1. \A u \in Word(Top32) : AndW(x, u) \in Word(Top32) /\ OrW(x, u) \in Word(Top32) /\ XorW(x, u) \in Word(Top32)
      BY <1>2, Words32
    <3>2. NotW(RBits, y) \in Word(Top32)
      BY <1>2, Words32
    <3>3. QED
      BY <1>2, <1>10, <3>1, <3>2 DEF ALUResult, LogicResult
  <2>2. res = LogicOf(i, h)
    BY <1>10 DEF Arithmetic
  <2>3. res.res = r /\ res.f = [m.f EXCEPT !.n = Negative(Top32, r), !.z = r = 0]
    <3>1. r = LogicResult(i.op, Eval32(h, i.b), Shifted(i, h)) /\ m.f = h.f
      BY <1>1, <1>2, <2>1
    <3> HIDE DEF Negative
    <3>2. LogicOf(i, h) = [res |-> r, f |-> [m.f EXCEPT !.n = Negative(Top32, r), !.z = r = 0]]
      BY <3>1, Zenon DEF LogicOf
    <3>3. QED
      BY <2>2, <3>2
  <2>4. res.f \in Flags /\ FlagsOfLogic(Top32, r) \in Flags
    <3>1. FlagsOfLogic(Top32, r) \in Flags
      BY StoredFlags
    <3>2. QED
      <4>1. [m.f EXCEPT !.n = Negative(Top32, r), !.z = r = 0] \in Flags
        BY <1>1, ZNFlags, Zenon
      <4>2. QED
        BY <2>3, <3>1, <4>1
  <2>5. ALUFlags(i.op, i.cond, m.f, x, y, r) = StoreZN(i.cond, m.f, FlagsOfLogic(Top32, r))
    BY <1>10 DEF ALUFlags
  <2>6. FlagsOfLogic(Top32, r).n = Negative(Top32, r) /\ FlagsOfLogic(Top32, r).z = (r = 0)
    BY DEF FlagsOfLogic
  <2>7. i.s => StoreZN(i.cond, m.f, FlagsOfLogic(Top32, r)) = IF CondValue(i.cond, m.f) THEN res.f ELSE m.f
    <3> DEFINE new == FlagsOfLogic(Top32, r)
    <3>1. res.f.n = Negative(Top32, r) /\ res.f.z = (r = 0)
      <4> DEFINE n == Negative(Top32, r)
                 z == r = 0
                 f == m.f
      <4>1. res.f = [f EXCEPT !.n = n, !.z = z] /\ f \in Flags
        BY <1>1, <2>3
      <4> HIDE DEF n, z, f
      <4>2. [f EXCEPT !.n = n, !.z = z].n = n /\ [f EXCEPT !.n = n, !.z = z].z = z
        BY <4>1 DEF Flags
      <4>3. res.f.n = n /\ res.f.z = z
        BY <4>1, <4>2
      <4>4. QED
        BY <4>3 DEF n, z
    <3>2. res.f = [m.f EXCEPT !.n = new.n, !.z = new.z]
      BY <2>3, <2>6
    <3>3. new \in Flags /\ res.f.z = new.z /\ res.f.n = new.n
      BY <2>4, <2>6, <3>1
    <3> HIDE DEF new
    <3>4. i.s => StoreZN(i.cond, m.f, new) = IF CondValue(i.cond, m.f) THEN [m.f EXCEPT !.n = new.n, !.z = new.z] ELSE m.f
      BY <1>5, <2>4, <3>3, Zenon
    <3>5. QED
      BY <3>2, <3>4 DEF new
  <2>8. QED
    BY <2>1, <2>3, <2>4, <2>5, <2>7
<1>11. QED
  BY <1>7, <1>8, <1>9, <1>10

\* An instruction that stores its result and perhaps flags.
LEMMA Stored32 ==
  ASSUME NEW i, A32Operands(i), i.op \in DataProcessing \ Comparisons, NEW m, NEW h, InStep32(m, h), NEW res,
         res = IF i.op \in Arithmetic THEN ArithOf(i, h) ELSE LogicOf(i, h), res.res \in Word(Top32), res.f \in Flags,
         NEW g, i.s => g = IF CondValue(i.cond, m.f) THEN res.f ELSE m.f
  PROVE  InStep32(IF i.s THEN WriteFlags(SelectRegWrite(i.cond, m, i.d, res.res), g)
                         ELSE SelectRegWrite(i.cond, m, i.d, res.res),
                  ArchARM(i, h))
<1> DEFINE v == res.res
           b == [h EXCEPT !.reg[i.d] = v]
           low1 == SelectRegWrite(i.cond, m, i.d, v)
<1>1. i.cond \in Conditions /\ i.d \in Registers /\ i.s \in BOOLEAN
  BY DEF A32Operands
<1>2. ArchARM(i, h) = IF ConditionHolds(i.cond, h.f) THEN IF i.s THEN [b EXCEPT !.f = res.f] ELSE b ELSE h
  BY DEF ArchARM, Predicated
<1>3. InStep32(low1, IF ConditionHolds(i.cond, h.f) THEN b ELSE h)
  BY <1>1, Select32
<1>4. ASSUME i.s PROVE InStep32(WriteFlags(low1, g), IF ConditionHolds(i.cond, h.f) THEN [b EXCEPT !.f = res.f] ELSE h)
  <2>1. g = IF CondValue(i.cond, m.f) THEN res.f ELSE m.f
    BY <1>4
  <2>2. QED
    BY <1>1, <2>1, SelectFlags32
<1> HIDE DEF low1, b
<1>5. QED
  BY <1>1, <1>2, <1>3, <1>4 DEF low1

\* Addition, subtraction and logic.
LEMMA ALUStep32 ==
  ASSUME NEW i, A32Operands(i), i.op \in {"ADD", "SUB", "RSB", "AND", "ORR", "EOR", "BIC"},
         NEW m, NEW h, InStep32(m, h), A32Safe(i, h)
  PROVE  InStep32(LowerARMALU(i, m), ArchARM(i, h))
<1> DEFINE x == Eval32(m, i.b)
           y == Operand2(i, m)
           r == ALUResult(i.op, x, y)
           g == ALUFlags(i.op, i.cond, m.f, x, y, r)
           res == IF i.op \in Arithmetic THEN ArithOf(i, h) ELSE LogicOf(i, h)
<1>1. /\ r = res.res /\ r \in Word(Top32) /\ res.f \in Flags
      /\ i.s => g = IF CondValue(i.cond, m.f) THEN res.f ELSE m.f
  BY Result32
<1>2. i.op \in DataProcessing \ Comparisons
  BY DEF DataProcessing, Arithmetic, Logical, Comparisons
<1>3. LowerARMALU(i, m) = IF i.s THEN WriteFlags(SelectRegWrite(i.cond, m, i.d, r), g)
                                 ELSE SelectRegWrite(i.cond, m, i.d, r)
  BY DEF LowerARMALU
<1> HIDE DEF r, g, res
<1>4. InStep32(IF i.s THEN WriteFlags(SelectRegWrite(i.cond, m, i.d, res.res), g)
                      ELSE SelectRegWrite(i.cond, m, i.d, res.res),
               ArchARM(i, h))
  BY <1>1, <1>2, Stored32 DEF res
<1>5. QED
  BY <1>1, <1>3, <1>4

\* MVN.
LEMMA MVNStep32 ==
  ASSUME NEW i, A32Operands(i), i.op = "MVN", NEW m, NEW h, InStep32(m, h), A32Safe(i, h)
  PROVE  InStep32(LowerARMMVN(i, m), ArchARM(i, h))
<1> DEFINE y == Operand2(i, m)
           r == NotW(RBits, y)
           g == StoreZN(i.cond, m.f, FlagsOfLogic(Top32, r))
           res == LogicOf(i, h)
<1>1. i.op \in DataProcessing \ Comparisons /\ i.op \notin Arithmetic /\ i.cond \in Conditions /\ NewFlags(i, h) = res.f
  BY DEF DataProcessing, Arithmetic, Logical, Comparisons, A32Operands, NewFlags
<1>2. y \in Word(Top32) /\ y = Shifted(i, h)
  BY <1>1, Shifter32
<1>3. r \in Word(Top32)
  BY <1>2, Words32
<1>4. m.f = h.f /\ m.f \in Flags
  BY DEF InStep32, Machine32
<1>5. r = LogicResult(i.op, Eval32(h, i.b), Shifted(i, h))
  BY <1>2 DEF LogicResult
<1> HIDE DEF r
<1>6. res = [res |-> r, f |-> [m.f EXCEPT !.n = Negative(Top32, r), !.z = r = 0]]
  BY <1>4, <1>5, Zenon DEF LogicOf
<1>7. [m.f EXCEPT !.n = Negative(Top32, r), !.z = r = 0] \in Flags
  BY <1>4, ZNFlags, Zenon
<1>8. res.res = r /\ res.f = [m.f EXCEPT !.n = Negative(Top32, r), !.z = r = 0] /\ res.f \in Flags
  BY <1>6, <1>7
<1>9. ASSUME i.s PROVE g = IF CondValue(i.cond, m.f) THEN res.f ELSE m.f
  <2>1. FlagsOfLogic(Top32, r) \in Flags /\ FlagsOfLogic(Top32, r).n = Negative(Top32, r) /\ FlagsOfLogic(Top32, r).z = (r = 0)
    BY StoredFlags DEF FlagsOfLogic
  <2> DEFINE new == FlagsOfLogic(Top32, r)
             f == m.f
             c == i.cond
             kept == res.f
  <2>2. new \in Flags /\ f \in Flags /\ kept \in Flags /\ c \in Conditions
    BY <1>1, <1>4, <1>8, <2>1
  <2>3. kept.z = new.z /\ kept.n = new.n
    <3>1. \A n, z : [f EXCEPT !.n = n, !.z = z].n = n /\ [f EXCEPT !.n = n, !.z = z].z = z
      BY <1>4 DEF Flags
    <3>2. QED
      BY <1>8, <2>1, <3>1
  <2>4. ConditionHolds(c, f) => KeepsHolding(c, f, kept)
    BY <1>1, <1>4, <1>9 DEF A32Safe, SetsFlags
  <2> HIDE DEF new, f, c, kept
  <2>5. StoreZN(c, f, new) = IF CondValue(c, f) THEN [f EXCEPT !.n = new.n, !.z = new.z] ELSE f
    BY <2>2, <2>3, <2>4, StoreOnce, Zenon
  <2>6. QED
    BY <1>8, <2>1, <2>5 DEF new, f, c
<1>10. LowerARMMVN(i, m) = IF i.s THEN WriteFlags(SelectRegWrite(i.cond, m, i.d, r), g)
                                  ELSE SelectRegWrite(i.cond, m, i.d, r)
  BY DEF LowerARMMVN, r
<1> HIDE DEF g, res
<1>11. InStep32(IF i.s THEN WriteFlags(SelectRegWrite(i.cond, m, i.d, res.res), g)
                       ELSE SelectRegWrite(i.cond, m, i.d, res.res),
                ArchARM(i, h))
  <2>1. res = IF i.op \in Arithmetic THEN ArithOf(i, h) ELSE LogicOf(i, h)
    BY <1>1 DEF res
  <2>2. QED
    BY <1>1, <1>3, <1>8, <1>9, <2>1, Stored32
<1>12. QED
  BY <1>8, <1>10, <1>11

\* Adding or subtracting the carry separately gives the sum of three.
LEMMA CarrySums ==
  ASSUME NEW t \in Nat \ {0}, NEW x \in Word(t), NEW y \in Word(t), NEW cin \in BOOLEAN
  PROVE  /\ AddW(t, AddW(t, x, y), Bool2Int(cin)) = AddWithCarry(t, x, y, cin).res
         /\ SubW(t, SubW(t, x, y), Bool2Int(~cin)) = AddWithCarry(t, x, Complement(t, y), cin).res
         /\ AddWithCarry(t, x, y, cin).res \in Word(t) /\ Complement(t, y) \in Word(t)
  BY SMT DEF Word, AddW, SubW, AddWithCarry, Bool2Int, Complement

\* A condition that does not read C does not see that it is stored twice.
LEMMA TwiceStored ==
  ASSUME NEW cond \in Conditions, NEW f \in Flags, NEW first \in Flags, NEW c \in BOOLEAN, NEW new \in Flags,
         [first EXCEPT !.c = c] = new,
         ConditionHolds(cond, f) => KeepsHolding(cond, f, new) /\ ConditionHolds(cond, new) /\ cond \notin ReadsCarry
  PROVE  StoreFlagCond(cond, StoreZNCV(cond, f, first), "c", c) = IF CondValue(cond, f) THEN new ELSE f
<1>1. CASE ~CondValue(cond, f)
  <2>1. StoreZNCV(cond, f, first) = f
    BY <1>1, FailedConditionKeepsFlags
  <2>2. QED
    BY <1>1, <2>1 DEF StoreFlagCond
<1>2. CASE CondValue(cond, f)
  <2>1. ConditionHolds(cond, f) /\ KeepsHolding(cond, f, new) /\ ConditionHolds(cond, new) /\ cond \notin ReadsCarry
    BY <1>2, ConditionsExact
  <2>2. /\ first.z = new.z /\ first.n = new.n /\ first.v = new.v /\ c = new.c
    BY DEF Flags
  <2>3. ASSUME NEW p \in Flags, NEW q \in Flags, p.z = q.z, p.n = q.n, p.v = q.v
        PROVE  ConditionHolds(cond, p) <=> ConditionHolds(cond, q)
    BY <2>1, <2>3 DEF ConditionHolds, ReadsCarry, Conditions
  <2>4. KeepsHolding(cond, f, first)
    <3> DEFINE z == [f EXCEPT !.z = new.z]
               zn == [z EXCEPT !.n = new.n]
               old == [zn EXCEPT !.c = first.c]
               znc == [zn EXCEPT !.c = new.c]
    <3>1. /\ old \in Flags /\ znc \in Flags
          /\ old.z = znc.z /\ old.n = znc.n /\ old.v = znc.v
      BY DEF Flags
    <3>2. ConditionHolds(cond, z) /\ ConditionHolds(cond, zn) /\ ConditionHolds(cond, znc)
      BY <2>1, Zenon DEF KeepsHolding
    <3>3. KeepsHolding(cond, f, first) <=> ConditionHolds(cond, z) /\ ConditionHolds(cond, zn) /\ ConditionHolds(cond, old)
      BY <2>2, Zenon DEF KeepsHolding
    <3> HIDE DEF z, zn, old, znc
    <3>4. QED
      BY <2>3, <3>1, <3>2, <3>3
  <2>5. StoreZNCV(cond, f, first) = first
    BY <1>2, <2>4, StoreOnce
  <2>6. CondValue(cond, first)
    BY <2>1, <2>2, <2>3, ConditionsExact
  <2>7. StoreFlagCond(cond, first, "c", c) = [first EXCEPT !["c"] = c]
    BY <2>6 DEF StoreFlagCond
  <2>8. QED
    BY <1>2, <2>5, <2>7
<1>3. QED
  BY <1>1, <1>2

\* So a conditional ADC.S or SBC.S stores what an unconditional one does, or
\* nothing.
LEMMA StoreCarry ==
  ASSUME NEW cond \in Conditions, NEW f \in Flags, NEW new \in Flags, NEW t, NEW x, NEW y, NEW cin, NEW r,
         ConditionHolds(cond, f) => KeepsHolding(cond, f, new) /\ ConditionHolds(cond, new) /\ cond \notin ReadsCarry
  PROVE  /\ StoreAdc("AL", f, t, x, y, cin, r) = new =>
              StoreAdc(cond, f, t, x, y, cin, r) = IF CondValue(cond, f) THEN new ELSE f
         /\ StoreSbc("AL", f, t, x, y, cin, r) = new =>
              StoreSbc(cond, f, t, x, y, cin, r) = IF CondValue(cond, f) THEN new ELSE f
<1>1. ASSUME NEW first \in Flags, NEW c \in BOOLEAN, StoreFlagCond("AL", StoreZNCV("AL", f, first), "c", c) = new
      PROVE  StoreFlagCond(cond, StoreZNCV(cond, f, first), "c", c) = IF CondValue(cond, f) THEN new ELSE f
  <2>1. CondValue("AL", f) /\ CondValue("AL", first) /\ "AL" \in Conditions /\ ConditionHolds("AL", f)
    BY DEF CondValue, Conditions, ConditionHolds
  <2>2. KeepsHolding("AL", f, first)
    BY DEF KeepsHolding, ConditionHolds
  <2>3. StoreZNCV("AL", f, first) = first
    BY <2>1, <2>2, StoreOnce
  <2>4. [first EXCEPT !["c"] = c] = new
    BY <1>1, <2>1, <2>3 DEF StoreFlagCond
  <2>5. QED
    BY <2>4, TwiceStored
<1>2. FlagsOfAdd(t, x, y, r) \in Flags /\ FlagsOfSub(t, x, y, r) \in Flags
  BY StoredFlags
<1>3. (x + y + Bool2Int(cin) > 2 * t - 1) \in BOOLEAN /\ (~(x < y + Bool2Int(~cin))) \in BOOLEAN
  OBVIOUS
<1>4. QED
  BY <1>1, <1>2, <1>3, Zenon DEF StoreAdc, StoreSbc

\* ADC and SBC.
LEMMA CarryStep32 ==
  ASSUME NEW i, A32Operands(i), i.op \in {"ADC", "SBC"}, NEW m, NEW h, InStep32(m, h), A32Safe(i, h)
  PROVE  InStep32(LowerARMADCSBC(i, m), ArchARM(i, h))
<1> DEFINE y == Operand2(i, m)
           x == Eval32(m, i.b)
           cin == m.f.c
           r == IF i.op = "SBC" THEN SubW(Top32, SubW(Top32, x, y), Bool2Int(~cin))
                                ELSE AddW(Top32, AddW(Top32, x, y), Bool2Int(cin))
           g == IF i.op = "SBC" THEN StoreSbc(i.cond, m.f, Top32, x, y, cin, r)
                                ELSE StoreAdc(i.cond, m.f, Top32, x, y, cin, r)
           res == ArithOf(i, h)
<1>1. i.op \in DataProcessing \ Comparisons /\ i.op \in Arithmetic /\ i.cond \in Conditions
  BY DEF DataProcessing, Arithmetic, Logical, Comparisons, A32Operands
<1>2. y \in Word(Top32) /\ y = Shifted(i, h)
  BY <1>1, Shifter32
<1>3. m \in Machine32 /\ m.f = h.f /\ m.f \in Flags /\ cin \in BOOLEAN /\ m.reg = h.reg
  BY DEF InStep32, Machine32, Flags
<1>4. x \in Word(Top32) /\ x = Eval32(h, i.b)
  BY <1>3, Sources32 DEF Eval32, A32Operands
<1>5. Top32 \in Nat \ {0}
  BY Width32
<1>6. /\ i.op = "ADC" => res = AddWithCarry(Top32, x, y, cin)
      /\ i.op = "SBC" => res = AddWithCarry(Top32, x, Complement(Top32, y), cin)
  BY <1>2, <1>3, <1>4 DEF ArithOf
<1>7. LowerARMADCSBC(i, m) = IF i.s THEN WriteFlags(SelectRegWrite(i.cond, m, i.d, r), g)
                                    ELSE SelectRegWrite(i.cond, m, i.d, r)
  BY DEF LowerARMADCSBC
<1>8. r = res.res /\ r \in Word(Top32)
  <2> HIDE DEF x, y, cin, res
  <2>1. Complement(Top32, y) \in Word(Top32)
    BY <1>2, <1>4, <1>3, <1>5, CarrySums
  <2>2. /\ AddW(Top32, AddW(Top32, x, y), Bool2Int(cin)) = AddWithCarry(Top32, x, y, cin).res
        /\ SubW(Top32, SubW(Top32, x, y), Bool2Int(~cin)) = AddWithCarry(Top32, x, Complement(Top32, y), cin).res
        /\ AddWithCarry(Top32, x, y, cin).res \in Word(Top32)
    BY <1>2, <1>4, <1>3, <1>5, CarrySums
  <2> DEFINE k == Complement(Top32, y)
  <2> HIDE DEF k
  <2>3. AddWithCarry(Top32, x, k, cin).res \in Word(Top32)
    <3>1. k \in Word(Top32)
      BY <2>1 DEF k
    <3>2. QED
      BY <1>4, <1>3, <1>5, <3>1, CarrySums
  <2>4. QED
    BY <1>6, <2>2, <2>3 DEF k
<1>9. res.f \in Flags
  BY <1>6, ComputedFlags
<1>10. ASSUME i.s PROVE g = IF CondValue(i.cond, m.f) THEN res.f ELSE m.f
  <2>1. ConditionHolds(i.cond, m.f) =>
          /\ KeepsHolding(i.cond, m.f, res.f) /\ ConditionHolds(i.cond, res.f) /\ i.cond \notin ReadsCarry
    BY <1>1, <1>3, <1>10 DEF A32Safe, SetsFlags, NewFlags
  <2>2. /\ StoreAdc("AL", m.f, Top32, x, y, cin, AddWithCarry(Top32, x, y, cin).res) = AddWithCarry(Top32, x, y, cin).f
        /\ StoreSbc("AL", m.f, Top32, x, y, cin, AddWithCarry(Top32, x, Complement(Top32, y), cin).res)
             = AddWithCarry(Top32, x, Complement(Top32, y), cin).f
    <3> DEFINE f == m.f
    <3>1. f \in Flags
      BY <1>3
    <3> HIDE DEF x, y, cin, f
    <3>2. /\ StoreAdc("AL", f, Top32, x, y, cin, AddWithCarry(Top32, x, y, cin).res) = AddWithCarry(Top32, x, y, cin).f
          /\ StoreSbc("AL", f, Top32, x, y, cin, AddWithCarry(Top32, x, Complement(Top32, y), cin).res)
               = AddWithCarry(Top32, x, Complement(Top32, y), cin).f
      <4>1. Top32 \in Nat \ {0} /\ x \in Word(Top32) /\ y \in Word(Top32) /\ cin \in BOOLEAN
        BY <1>2, <1>3, <1>4, <1>5
      <4>2. QED
        BY <3>1, <4>1, CarryFlagsExact
    <3>3. QED
      BY <3>2 DEF f
  <2> HIDE DEF r, x, y, cin, res
  <2>3. r = res.res /\ res.f \in Flags /\ m.f \in Flags /\ i.cond \in Conditions
    BY <1>1, <1>3, <1>8, <1>9
  <2>4. CASE i.op = "ADC"
    <3>1. StoreAdc("AL", m.f, Top32, x, y, cin, r) = res.f
      BY <1>6, <2>2, <2>3, <2>4
    <3>2. StoreAdc(i.cond, m.f, Top32, x, y, cin, r) = IF CondValue(i.cond, m.f) THEN res.f ELSE m.f
      BY <2>1, <2>3, <3>1, StoreCarry
    <3>3. QED
      BY <2>4, <3>2
  <2>5. CASE i.op = "SBC"
    <3>1. StoreSbc("AL", m.f, Top32, x, y, cin, r) = res.f
      BY <1>6, <2>2, <2>3, <2>5
    <3>2. StoreSbc(i.cond, m.f, Top32, x, y, cin, r) = IF CondValue(i.cond, m.f) THEN res.f ELSE m.f
      BY <2>1, <2>3, <3>1, StoreCarry
    <3>3. QED
      BY <2>5, <3>2
  <2>6. QED
    BY <2>4, <2>5
<1> HIDE DEF r, g, res
<1>11. InStep32(IF i.s THEN WriteFlags(SelectRegWrite(i.cond, m, i.d, res.res), g)
                       ELSE SelectRegWrite(i.cond, m, i.d, res.res),
                ArchARM(i, h))
  <2>1. res = IF i.op \in Arithmetic THEN ArithOf(i, h) ELSE LogicOf(i, h)
    BY <1>1 DEF res
  <2>2. QED
    BY <1>1, <1>8, <1>9, <1>10, <2>1, Stored32
<1>12. QED
  BY <1>7, <1>8, <1>11

\* CMP, CMN, TST and TEQ.
LEMMA CompareStep32 ==
  ASSUME NEW i, A32Operands(i), i.op \in Comparisons, NEW m, NEW h, InStep32(m, h), A32Safe(i, h)
  PROVE  InStep32(LowerARMCompare(i, m), ArchARM(i, h))
<1> DEFINE x == Eval32(m, i.b)
           y == Operand2(i, m)
           g == CompareFlags(i.op, m.f, x, y)
           res == IF i.op \in Arithmetic THEN ArithOf(i, h) ELSE LogicOf(i, h)
<1>1. i.op \in DataProcessing /\ ConditionHolds(i.cond, h.f) /\ A32Source(i.b)
  BY DEF DataProcessing, Arithmetic, Logical, Comparisons, A32Safe, A32Operands
<1>2. m \in Machine32 /\ h \in Machine32 /\ m.reg = h.reg /\ m.f = h.f /\ m.f \in Flags
  BY DEF InStep32, Machine32
<1>3. y \in Word(Top32) /\ y = Shifted(i, h)
  BY <1>1, Shifter32
<1>4. x \in Word(Top32) /\ x = Eval32(h, i.b)
  BY <1>1, <1>2, Sources32 DEF Eval32
<1>5. Top32 \in Nat \ {0}
  BY Width32
<1> HIDE DEF x, y
<1>6. g = res.f /\ g \in Flags
  <2>1. CASE i.op = "CMP"
    <3>1. g = FlagsOfSub(Top32, x, y, SubW(Top32, x, y)) /\ res = ArchSub(Top32, x, y)
      BY <1>3, <1>4, <2>1 DEF CompareFlags, Arithmetic, ArithOf
    <3>2. FlagsOfSub(Top32, x, y, SubW(Top32, x, y)) = ArchSub(Top32, x, y).f
      BY <1>3, <1>4, <1>5, SubFlagsExact
    <3>3. QED
      BY <3>1, <3>2, StoredFlags
  <2>2. CASE i.op = "CMN"
    <3>1. g = FlagsOfAdd(Top32, x, y, AddW(Top32, x, y)) /\ res = ArchAdd(Top32, x, y)
      BY <1>3, <1>4, <2>2 DEF CompareFlags, Arithmetic, ArithOf
    <3>2. FlagsOfAdd(Top32, x, y, AddW(Top32, x, y)) = ArchAdd(Top32, x, y).f
      BY <1>3, <1>4, <1>5, AddFlagsExact
    <3>3. QED
      BY <3>1, <3>2, StoredFlags
  <2>3. ASSUME i.op \in {"TST", "TEQ"} PROVE g = res.f /\ g \in Flags
    <3> DEFINE r == LogicResult(i.op, x, y)
               f == m.f
               new == FlagsOfLogic(Top32, r)
    <3>1. g = StoreZN("AL", f, new)
      BY <2>3 DEF CompareFlags, LogicResult
    <3>2. r = LogicResult(i.op, Eval32(h, i.b), Shifted(i, h)) /\ f = h.f /\ f \in Flags
      BY <1>2, <1>3, <1>4
    <3>3. res = LogicOf(i, h)
      BY <2>3 DEF Arithmetic
    <3> HIDE DEF r, f, g, res
    <3>4. LogicOf(i, h) = [res |-> r, f |-> [f EXCEPT !.n = Negative(Top32, r), !.z = r = 0]]
      BY <3>2, Zenon DEF LogicOf
    <3>5. res.f = [f EXCEPT !.n = Negative(Top32, r), !.z = r = 0]
      BY <3>3, <3>4
    <3>6. [f EXCEPT !.n = Negative(Top32, r), !.z = r = 0] \in Flags
      BY <3>2, ZNFlags, Zenon
    <3>7. new \in Flags /\ new.n = Negative(Top32, r) /\ new.z = (r = 0)
      BY StoredFlags DEF FlagsOfLogic
    <3> HIDE DEF new
    <3>8. StoreZN("AL", f, new) = IF CondValue("AL", f) THEN [f EXCEPT !.n = new.n, !.z = new.z] ELSE f
      <4>1. "AL" \in Conditions /\ KeepsHolding("AL", f, new)
        BY DEF Conditions, KeepsHolding, ConditionHolds
      <4>2. QED
        BY <3>2, <3>7, <4>1, StoreOnce
    <3>9. CondValue("AL", f)
      BY DEF CondValue
    <3>10. QED
      BY <3>1, <3>5, <3>6, <3>7, <3>8, <3>9
  <2>4. QED
    BY <2>1, <2>2, <2>3 DEF Comparisons
<1> HIDE DEF g, res
<1>7. LowerARMCompare(i, m) = WriteFlags(m, g)
  BY DEF LowerARMCompare, g, x, y
<1>8. ArchARM(i, h) = [h EXCEPT !.f = res.f]
  BY <1>1 DEF ArchARM, Predicated, res
<1>9. /\ WriteFlags(m, g) \in Machine32 /\ WriteFlags(m, g).reg = m.reg /\ WriteFlags(m, g).f = g
      /\ [h EXCEPT !.f = g] \in Machine32 /\ [h EXCEPT !.f = g].reg = h.reg /\ [h EXCEPT !.f = g].f = g
  BY <1>2, <1>6 DEF Machine32, WriteFlags
<1>10. QED
  BY <1>2, <1>6, <1>7, <1>8, <1>9 DEF InStep32

\* An instruction that writes one register under its condition.
LEMMA Written32 ==
  ASSUME NEW i, A32Operands(i), NEW m, NEW h, InStep32(m, h), NEW v \in Word(Top32)
  PROVE  InStep32(SelectRegWrite(i.cond, m, i.d, v), Predicated(i, h, [h EXCEPT !.reg[i.d] = v]))
<1>1. i.cond \in Conditions /\ i.d \in Registers
  BY DEF A32Operands
<1>2. QED
  BY <1>1, Select32 DEF Predicated

\* Both sides read the same words.
LEMMA SameSource32 ==
  ASSUME NEW m, NEW h, InStep32(m, h), NEW o, A32Source(o)
  PROVE  Eval32(m, o) = Eval32(h, o) /\ Eval32(m, o) \in Word(Top32) /\ Eval32(m, o) \in 0 .. 2^RBits - 1 /\ Eval32(m, o) \in Nat
<1>1. m \in Machine32 /\ m.reg = h.reg
  BY DEF InStep32
<1>2. Eval32(m, o) \in Word(Top32) /\ Eval32(m, o) = Eval32(h, o)
  BY <1>1, Sources32 DEF Eval32
<1>3. QED
  BY <1>2, Width32

\* MUL and MULA.
LEMMA MultiplyStep32 ==
  ASSUME NEW i, A32Operands(i), NEW m, NEW h, InStep32(m, h)
  PROVE  /\ i.op = "MUL" => InStep32(LowerARMMUL(i, m), ArchARMMultiply(i, h))
         /\ i.op = "MULA" => InStep32(LowerARMMULA(i, m), ArchARMMultiply(i, h))
<1> DEFINE x == Eval32(m, i.a)
           y == Eval32(m, i.b)
           w == 2^RBits
           p == x * y
<1>1. w \in Nat \ {0} /\ w = 2 * Top32 /\ Top32 \in Nat \ {0} /\ Word(Top32) = 0 .. w - 1
  BY Width32
<1>2. ASSUME i.op \in {"MUL", "MULA"}
      PROVE  x = Eval32(h, i.a) /\ y = Eval32(h, i.b) /\ p \in Nat
  <2>1. A32Source(i.a) /\ A32Source(i.b)
    BY <1>2 DEF A32Operands
  <2>2. x = Eval32(h, i.a) /\ y = Eval32(h, i.b) /\ x \in Nat /\ y \in Nat
    BY <2>1, SameSource32
  <2> HIDE DEF x, y
  <2>3. QED
    BY <2>2
<1>3. ASSUME i.op = "MUL" PROVE InStep32(LowerARMMUL(i, m), ArchARMMultiply(i, h))
  <2> DEFINE v == p % w
  <2>1. v \in Word(Top32)
    <3>1. p \in Nat
      BY <1>2, <1>3
    <3> HIDE DEF p, w
    <3>2. p \in Int /\ w \in Nat \ {0}
      BY <1>1, <3>1
    <3>3. (p % w) \in 0 .. w - 1
      BY <3>2, ModIn
    <3>4. QED
      BY <1>1, <3>3
  <2>2. LowerARMMUL(i, m) = SelectRegWrite(i.cond, m, i.d, v)
    BY DEF LowerARMMUL, MulW
  <2>3. ArchARMMultiply(i, h) = Predicated(i, h, [h EXCEPT !.reg[i.d] = v])
    BY <1>2, <1>3 DEF ArchARMMultiply
  <2> HIDE DEF v
  <2>4. QED
    BY <2>1, <2>2, <2>3, Written32
<1>4. ASSUME i.op = "MULA" PROVE InStep32(LowerARMMULA(i, m), ArchARMMultiply(i, h))
  <2> DEFINE c == Eval32(m, i.c)
             v == (p + c) % w
  <2>1. c = Eval32(h, i.c) /\ c \in Word(Top32)
    BY <1>4, SameSource32 DEF A32Operands
  <2>2. v \in Word(Top32) /\ AddW(Top32, p % w, c) = v
    <3>1. p \in Nat
      BY <1>2, <1>4
    <3> HIDE DEF p, w, c
    <3>2. (((p % w) + c) % w) = ((p + c) % w) /\ (p % w) \in 0 .. w - 1
      <4>1. p \in Int /\ c \in Int /\ w \in Nat \ {0}
        BY <1>1, <2>1, <3>1
      <4>2. QED
        <5>1. (((p % w) + c) % w) = ((p + c) % w)
          BY <4>1, ModOfMod, Zenon
        <5>2. (p % w) \in 0 .. w - 1
          BY <4>1, ModIn
        <5>3. QED
          BY <5>1, <5>2
    <3> DEFINE q == p % w
    <3>3. q \in 0 .. w - 1 /\ c \in 0 .. w - 1
      BY <1>1, <2>1, <3>2
    <3> HIDE DEF q
    <3>4. AddW(Top32, q, c) = ((q + c) % w) /\ ((q + c) % w) \in 0 .. w - 1
      <4>1. AddW(Top32, q, c) = IF q + c >= w THEN q + c - w ELSE q + c
        BY <1>1 DEF AddW
      <4>2. CASE q + c >= w
        <5>1. q + c = 1 * w + (q + c - w) /\ q + c - w \in 0 .. w - 1
          BY <1>1, <3>3, <4>2
        <5> DEFINE u == q + c - w
                   k == 1
        <5>2. k \in Int /\ u \in 0 .. w - 1 /\ q + c = k * w + u
          BY <5>1
        <5> HIDE DEF u, k
        <5>3. ((k * w + u) % w) = u
          BY <1>1, <5>2, DivModIs
        <5>4. QED
          BY <4>1, <4>2, <5>2, <5>3 DEF u
      <4>3. CASE ~(q + c >= w)
        <5>1. q + c \in 0 .. w - 1
          BY <1>1, <3>3, <4>3
        <5>2. QED
          <6> DEFINE u == q + c
          <6>1. u \in 0 .. w - 1 /\ u \in Int /\ w \in Nat \ {0}
            BY <1>1, <5>1
          <6> HIDE DEF u
          <6>2. (u % w) = u
            BY <6>1, ModIn
          <6>3. QED
            BY <4>1, <4>3, <6>1, <6>2 DEF u
      <4>4. QED
        BY <4>2, <4>3
    <3>5. QED
      BY <1>1, <3>2, <3>4 DEF q
  <2>3. LowerARMMULA(i, m) = SelectRegWrite(i.cond, m, i.d, AddW(Top32, p % w, c))
    BY DEF LowerARMMULA, MulW
  <2>4. ArchARMMultiply(i, h) = Predicated(i, h, [h EXCEPT !.reg[i.d] = v])
    BY <1>2, <1>4, <2>1 DEF ArchARMMultiply
  <2> HIDE DEF v
  <2>5. QED
    BY <2>2, <2>3, <2>4, Written32
<1>5. QED
  BY <1>3, <1>4

\* The multiplications into a pair.
LEMMA LongStep32 ==
  ASSUME NEW i, A32Operands(i), i.op \in {"MULLU", "MULALU"}, NEW m, NEW h, InStep32(m, h)
  PROVE  /\ i.op = "MULLU" => InStep32(LowerARMMULLU(i, m), ArchARMLong(i, h))
         /\ i.op = "MULALU" => InStep32(LowerARMMULAL(i, m), ArchARMLong(i, h))
<1> DEFINE x == Eval32(m, i.a)
           y == Eval32(m, i.b)
           w == 2^RBits
           p == x * y
           d == Eval32(m, i.d)
           e == Eval32(m, i.e)
           old == d * w + e
           sum == IF i.op = "MULALU" THEN old + p ELSE p
           v == IF i.op = "MULALU" THEN (old + p) % 2^(2 * RBits) ELSE p
           hi == (sum \div w) % w
           lo == sum % w
           a == [m EXCEPT !.reg[i.d] = hi, !.reg[i.e] = lo]
           b == [h EXCEPT !.reg[i.d] = hi, !.reg[i.e] = lo]
<1>1. w \in Nat \ {0} /\ Word(Top32) = 0 .. w - 1
  <2>1. Top32 \in Nat \ {0} /\ w = 2 * Top32 /\ Word(Top32) = 0 .. w - 1
    BY Width32
  <2>2. QED
    BY <2>1
<1>2. /\ i.d \in Registers /\ i.e \in Registers /\ i.cond \in Conditions
      /\ A32Source(i.a) /\ A32Source(i.b) /\ A32Source(i.d) /\ A32Source(i.e)
  BY DEF A32Operands, A32Source
<1>3. /\ x \in 0 .. w - 1 /\ y \in 0 .. w - 1 /\ d \in Nat /\ e \in Nat
      /\ x = Eval32(h, i.a) /\ y = Eval32(h, i.b) /\ d = Eval32(h, i.d) /\ e = Eval32(h, i.e)
  BY <1>2, SameSource32
<1>4. m \in Machine32 /\ h \in Machine32 /\ m.reg = h.reg /\ m.f = h.f /\ m.f \in Flags
  BY DEF InStep32, Machine32
<1>5. p \in Nat /\ p < w * w
  <2> HIDE DEF x, y, w
  <2>1. p \in Nat /\ p <= (w - 1) * y /\ (w - 1) * y <= (w - 1) * w
    BY <1>1, <1>3
  <2>2. (w - 1) * w < w * w
    BY <1>1
  <2>3. (w - 1) * w \in Int /\ w * w \in Int /\ (w - 1) * y \in Int
    BY <1>1, <1>3
  <2> DEFINE q1 == (w - 1) * y
             q2 == (w - 1) * w
             q3 == w * w
  <2>4. p \in Nat /\ q1 \in Int /\ q2 \in Int /\ q3 \in Int /\ p <= q1 /\ q1 <= q2 /\ q2 < q3
    BY <2>1, <2>2, <2>3
  <2> HIDE DEF q1, q2, q3, p
  <2>5. p \in Nat /\ p < q3
    BY <2>4
  <2>6. QED
    BY <2>5 DEF q3
<1>6. sum \in Nat /\ old + p \in Nat
  <2> HIDE DEF x, y, w, d, e
  <2>1. old \in Nat
    BY <1>1, <1>3
  <2> HIDE DEF p, old
  <2>2. QED
    BY <1>5, <2>1
<1>7. hi \in Word(Top32) /\ lo \in Word(Top32)
  <2> HIDE DEF sum, w
  <2>1. sum \div w \in Int /\ sum \in Int /\ w \in Nat \ {0}
    BY <1>1, <1>6
  <2> DEFINE s == sum \div w
  <2>2. s \in Int
    BY <2>1
  <2> HIDE DEF s
  <2>3. (s % w) \in 0 .. w - 1 /\ (sum % w) \in 0 .. w - 1
    BY <2>1, <2>2, ModIn
  <2>4. QED
    BY <1>1, <2>3 DEF s
<1>8. v \div w = hi /\ (v % w) = lo
  <2>1. CASE i.op = "MULALU"
    <3>1. 2^(2 * RBits) = w * w
      <4>1. RBits \in Nat /\ 2 * RBits = RBits + RBits
        BY Width32
      <4>2. QED
        BY <4>1, PowerSum
    <3> DEFINE s == old + p
               k == w * w
    <3>2. v = s % k /\ sum = s
      BY <2>1, <3>1
    <3>3. s \in Int
      BY <1>6
    <3> HIDE DEF s, w
    <3>4. (s % (w * w)) \div w = ((s \div w) % w) /\ ((s % (w * w)) % w) = (s % w)
      BY <1>1, <3>3, DivByProduct
    <3> HIDE DEF v, sum
    <3>5. QED
      BY <3>2, <3>4
  <2>2. CASE i.op = "MULLU"
    <3>1. v = p /\ sum = p
      BY <2>2
    <3> HIDE DEF p, w, v, sum
    <3>2. p \div w \in 0 .. w - 1
      BY <1>1, <1>5, DivBelow
    <3> DEFINE q == p \div w
    <3>3. q \in 0 .. w - 1 /\ q \in Int
      BY <3>2
    <3> HIDE DEF q
    <3>4. (q % w) = q
      BY <1>1, <3>3, ModIn
    <3>5. QED
      BY <3>1, <3>4 DEF q
  <2>3. QED
    BY <2>1, <2>2
<1>9. /\ i.op = "MULLU" => LowerARMMULLU(i, m) = SelectRegPairWrite(i.cond, m, i.d, i.e, v)
      /\ i.op = "MULALU" => LowerARMMULAL(i, m) = SelectRegPairWrite(i.cond, m, i.d, i.e, v)
  BY DEF LowerARMMULLU, LowerARMMULAL
<1>10. SelectRegPairWrite(i.cond, m, i.d, i.e, v) = IF CondValue(i.cond, m.f) THEN a ELSE m
  <2> HIDE DEF v, hi, lo
  <2>1. SelectRegPairWrite(i.cond, m, i.d, i.e, v)
          = IF CondValue(i.cond, m.f) THEN [m EXCEPT !.reg[i.d] = v \div w, !.reg[i.e] = v % w] ELSE m
    BY DEF SelectRegPairWrite
  <2>2. QED
    BY <1>8, <2>1
<1>11. ArchARMLong(i, h) = IF ConditionHolds(i.cond, h.f) THEN b ELSE h
  <2>1. sum = IF i.op = "MULALU" THEN (Eval32(h, i.d) * 2^RBits + Eval32(h, i.e)) + Eval32(h, i.a) * Eval32(h, i.b)
                                 ELSE Eval32(h, i.a) * Eval32(h, i.b)
    BY <1>3
  <2> DEFINE z == IF i.op = "MULALU" THEN (Eval32(h, i.d) * 2^RBits + Eval32(h, i.e)) + Eval32(h, i.a) * Eval32(h, i.b)
                                     ELSE Eval32(h, i.a) * Eval32(h, i.b)
  <2>2. ArchARMLong(i, h) = IF ConditionHolds(i.cond, h.f)
                            THEN [h EXCEPT !.reg[i.d] = (z \div 2^RBits) % 2^RBits, !.reg[i.e] = z % 2^RBits] ELSE h
    BY Zenon DEF ArchARMLong, Predicated
  <2> HIDE DEF sum, z
  <2>3. sum = z
    BY <2>1 DEF z
  <2>4. QED
    BY <2>2, <2>3
<1> HIDE DEF hi, lo, v
<1>12. a \in Machine32 /\ b \in Machine32 /\ a.reg = b.reg /\ a.f = b.f
  BY <1>2, <1>4, <1>7 DEF Machine32
<1>13. CondValue(i.cond, m.f) = ConditionHolds(i.cond, h.f)
  BY <1>2, <1>4, ConditionsExact
<1> HIDE DEF a, b
<1>14. InStep32(a, b)
  BY <1>12 DEF InStep32
<1>15. QED
  BY <1>9, <1>10, <1>11, <1>13, <1>14

\* DIVUHW, by what is not zero.
LEMMA DivideStep32 ==
  ASSUME NEW i, A32Operands(i), i.op = "DIVUHW", NEW m, NEW h, InStep32(m, h), A32Safe(i, h)
  PROVE  InStep32(LowerARMDIVUHW(i, m), ArchARMDivide(i, h))
<1> DEFINE x == Eval32(m, i.a)
           y == Eval32(m, i.b)
           v == y \div x
<1>1. A32Source(i.a) /\ A32Source(i.b) /\ Eval32(h, i.a) # 0
  BY DEF A32Operands, A32Safe
<1>2. x = Eval32(h, i.a) /\ y = Eval32(h, i.b) /\ x \in Nat /\ y \in Nat /\ y \in Word(Top32)
  BY <1>1, SameSource32
<1>3. x # 0
  BY <1>1, <1>2
<1>4. v \in Word(Top32)
  <2> HIDE DEF x, y
  <2>1. y \div x \in Nat /\ y \div x <= y
    BY <1>2, <1>3, QuotientBelow
  <2>2. Top32 \in Nat
    BY Width32
  <2>3. QED
    BY <1>2, <2>1, <2>2 DEF Word
<1>5. LowerARMDIVUHW(i, m) = SelectRegWrite(i.cond, m, i.d, v)
  BY <1>3 DEF LowerARMDIVUHW
<1>6. ArchARMDivide(i, h) = Predicated(i, h, [h EXCEPT !.reg[i.d] = v])
  BY <1>2, <1>3 DEF ArchARMDivide
<1> HIDE DEF v
<1>7. QED
  BY <1>4, <1>5, <1>6, Written32

\* There are fewer bits than words.
LEMMA BelowPower ==
  \A n \in Nat : n < 2^n
<1> DEFINE S == {n \in Nat : n < 2^n}
<1>1. 0 \in S
  BY Powers
<1>2. ASSUME NEW n \in Nat, n \in S PROVE n + 1 \in S
  <2>1. 2^n \in Nat \ {0} /\ 2^(n + 1) = 2 * 2^n /\ n < 2^n
    BY <1>2, Powers
  <2>2. n + 1 < 2^(n + 1)
    BY <2>1
  <2>3. QED
    BY <2>2
<1>3. Nat \subseteq S
  <2> HIDE DEF S
  <2>1. QED
    BY <1>1, <1>2, Induct
<1>4. QED
  BY <1>3

\* ctlz counts the bits above the highest that is set.
LEMMA CtlzIs ==
  ASSUME NEW n \in Nat \ {0}, NEW x \in 0 .. 2^n - 1
  PROVE  /\ Ctlz(n, x) \in 0 .. n /\ Ctlz(n, x) \in 0 .. 2^n - 1
         /\ Cardinality({k \in 0 .. n - 1 : x < 2^k}) = Ctlz(n, x)
<1> DEFINE S == {j \in Nat : x < 2^j}
           P(k) == x < 2^(n - k) /\ (k = n \/ x >= 2^(n - k - 1))
           c == Ctlz(n, x)
<1>1. \A j \in Nat : 2^j \in Nat
  BY Powers
<1>2. x \in Nat /\ x < 2^n
  BY <1>1
<1>3. PICK j \in S : \A l \in S : j =< l
  <2>1. n \in S
    BY <1>2
  <2>2. S \in SUBSET Nat /\ S # {}
    BY <2>1
  <2> HIDE DEF S
  <2>3. QED
    BY <2>2, LeastElement
<1>4. j \in 0 .. n /\ x < 2^j
  BY <1>2, <1>3
<1>5. j # 0 => x >= 2^(j - 1)
  <2>1. SUFFICES ASSUME j # 0 PROVE x >= 2^(j - 1)
    OBVIOUS
  <2>2. j - 1 \in Nat /\ j - 1 \notin S
    BY <1>3, <1>4, <2>1
  <2>3. 2^(j - 1) \in Nat
    BY <1>1, <2>2
  <2>4. QED
    BY <1>2, <2>2, <2>3
<1>6. \E k \in 0 .. n : P(k)
  <2> DEFINE k == n - j
  <2>1. k \in 0 .. n /\ n - k = j /\ (k = n <=> j = 0) /\ n - k - 1 = j - 1
    BY <1>4
  <2> HIDE DEF k
  <2>2. P(k)
    BY <1>4, <1>5, <2>1
  <2>3. QED
    BY <2>1, <2>2
<1>7. c \in 0 .. n /\ P(c)
  <2>1. c = CHOOSE k \in 0 .. n : P(k)
    BY DEF Ctlz
  <2> HIDE DEF P, c
  <2>2. QED
    BY <1>6, <2>1
<1> HIDE DEF c
<1>8. {k \in 0 .. n - 1 : x < 2^k} = (n - c) .. (n - 1)
  <2>1. ASSUME NEW k \in 0 .. n - 1 PROVE x < 2^k <=> k >= n - c
    <3>1. ASSUME k >= n - c PROVE x < 2^k
      <4> DEFINE l == n - c
      <4>1. l \in 0 .. k /\ k \in Nat
        BY <1>7, <3>1
      <4>2. x < 2^l
        BY <1>7
      <4> HIDE DEF l
      <4>3. 2^l <= 2^k /\ 2^l \in Nat /\ 2^k \in Nat
        BY <1>1, <4>1, PowersGrow
      <4>4. QED
        BY <1>2, <4>2, <4>3
    <3>2. ASSUME k < n - c PROVE ~(x < 2^k)
      <4> DEFINE l == n - c - 1
      <4>1. l \in Nat /\ k \in 0 .. l /\ c # n
        BY <1>7, <3>2
      <4>2. x >= 2^l
        BY <1>7, <4>1
      <4> HIDE DEF l
      <4>3. 2^k <= 2^l /\ 2^l \in Nat /\ 2^k \in Nat
        BY <1>1, <4>1, PowersGrow
      <4>4. QED
        BY <1>2, <4>2, <4>3
    <3>3. QED
      BY <1>7, <3>1, <3>2
  <2>2. QED
    BY <1>7, <2>1
<1>9. Cardinality((n - c) .. (n - 1)) = c
  <2> DEFINE a == n - c
             b == n - 1
  <2>1. a \in Int /\ b \in Int /\ (IF a > b THEN 0 ELSE b - a + 1) = c
    BY <1>7
  <2> HIDE DEF a, b
  <2>2. Cardinality(a .. b) = IF a > b THEN 0 ELSE b - a + 1
    BY <2>1, FS_Interval
  <2>3. QED
    BY <2>1, <2>2 DEF a, b
<1>10. c \in 0 .. 2^n - 1
  <2>1. n < 2^n /\ 2^n \in Nat
    BY <1>1, BelowPower
  <2>2. QED
    BY <1>7, <2>1
<1>11. QED
  BY <1>7, <1>8, <1>9, <1>10 DEF c

\* CLZ.
LEMMA ClzStep32 ==
  ASSUME NEW i, A32Operands(i), i.op = "CLZ", NEW m, NEW h, InStep32(m, h)
  PROVE  InStep32(LowerARMCLZ(i, m), ArchARMClz(i, h))
<1> DEFINE x == Eval32(m, i.a)
           v == Ctlz(RBits, x)
<1>1. A32Source(i.a)
  BY DEF A32Operands
<1>2. x = Eval32(h, i.a) /\ x \in 0 .. 2^RBits - 1
  BY <1>1, SameSource32
<1> HIDE DEF x
<1>3. v \in Word(Top32) /\ Cardinality({k \in 0 .. RBits - 1 : x < 2^k}) = v
  BY <1>2, Width32, CtlzIs
<1>4. LowerARMCLZ(i, m) = SelectRegWrite(i.cond, m, i.d, v)
  BY DEF LowerARMCLZ, x
<1>5. ArchARMClz(i, h) = Predicated(i, h, [h EXCEPT !.reg[i.d] = v])
  BY <1>2, <1>3 DEF ArchARMClz
<1> HIDE DEF v
<1>6. QED
  BY <1>3, <1>4, <1>5, Written32

-----------------------------------------------------------------------------
(***************************************************************************)
(* arm64.                                                                  *)
(***************************************************************************)
Machine64 == [reg : [Registers -> Word(SignBit(XBits))], f : Flags, written : BOOLEAN]

\* Both sides have the same registers and, once flags were written, the same
\* flags.
InStep64(m, h) == m \in Machine64 /\ h \in Machine64 /\ m.reg = h.reg /\ (m.written => m.f = h.f)

\* The widths of arm64.
LEMMA Widths64 ==
  /\ WBits \in Nat \ {0} /\ ByteBits \in Nat \ {0} /\ XBits \in Nat \ {0}
  /\ XBits = WBits + WBits /\ (WBits % (2 * ByteBits)) = 0 /\ XBits <= MaxBits /\ MaxBits \in Nat
<1>0. MaxBits \in Nat \ {0} /\ ByteBits \in Nat \ {0}
  BY MaxBitsAssumption, WidthsAssumption
<1>1. WBits \in Nat \ {0} /\ XBits = 2 * WBits /\ XBits =< MaxBits /\ (WBits % (2 * ByteBits)) = 0
  BY WidthsAssumption
<1>2. QED
  BY <1>0, <1>1

\* An instruction works on all bits of the registers or on half of them.
LEMMA Width64 ==
  ASSUME NEW i, i.w \in BOOLEAN
  PROVE  /\ Width(i) \in Nat \ {0} /\ Width(i) \in 0 .. MaxBits /\ Width(i) \in 0 .. XBits
         /\ 2^Width(i) \in Nat \ {0} /\ 2^Width(i) <= 2^XBits /\ 2^XBits \in Nat \ {0}
         /\ SignBit(Width(i)) \in Nat \ {0} /\ 2 * SignBit(Width(i)) = 2^Width(i)
         /\ Word(SignBit(Width(i))) = 0 .. 2^Width(i) - 1
         /\ Word(SignBit(XBits)) = 0 .. 2^XBits - 1
<1>1. XBits \in Nat \ {0} /\ WBits \in Nat \ {0} /\ XBits = WBits + WBits /\ XBits <= MaxBits /\ MaxBits \in Nat
  BY Widths64
<1>2. Width(i) \in Nat \ {0} /\ Width(i) \in 0 .. MaxBits /\ Width(i) \in 0 .. XBits
  BY <1>1 DEF Width
<1>3. 2^Width(i) <= 2^XBits
  BY <1>1, <1>2, PowersGrow
<1>4. 2^Width(i) \in Nat \ {0} /\ 2^XBits \in Nat \ {0}
  BY <1>1, <1>2, Powers
<1>5. QED
  BY <1>1, <1>2, <1>3, <1>4, SignBitIs

\* Both sides read the same words.
LEMMA Sources64 ==
  ASSUME NEW m, NEW h, InStep64(m, h), NEW o, A64Source(o)
  PROVE  /\ Eval(m, o) = Eval(h, o) /\ Eval(m, o) \in Word(SignBit(XBits))
         /\ \A i : i.w \in BOOLEAN =>
              /\ Source(i, m, o) = Source(i, h, o)
              /\ Source(i, m, o) \in 0 .. 2^Width(i) - 1 /\ Source(i, m, o) \in Word(SignBit(Width(i)))
              /\ ~i.w => Source(i, m, o) = Eval(m, o)
<1> DEFINE x == Eval(m, o)
           w == 2^XBits
<1>1. w \in Nat \ {0} /\ Word(SignBit(XBits)) = 0 .. w - 1
  BY Widths64, Powers, SignBitIs
<1>2. x = Eval(h, o) /\ x \in Word(SignBit(XBits))
  <2>1. m.reg = h.reg /\ m.reg \in [Registers -> Word(SignBit(XBits))] /\ DOMAIN m.reg = Registers
    BY DEF InStep64, Machine64
  <2>2. 0 \in Word(SignBit(XBits))
    BY <1>1
  <2>3. QED
    BY <2>1, <2>2 DEF Eval, LoadReg, A64Source
<1>3. ASSUME NEW i, i.w \in BOOLEAN
      PROVE  /\ Source(i, m, o) = Source(i, h, o)
             /\ Source(i, m, o) \in 0 .. 2^Width(i) - 1 /\ Source(i, m, o) \in Word(SignBit(Width(i)))
             /\ ~i.w => Source(i, m, o) = x
  <2> DEFINE n == 2^Width(i)
  <2>1. n \in Nat \ {0} /\ Word(SignBit(Width(i))) = 0 .. n - 1
    BY <1>3, Width64
  <2>2. ~i.w => n = w
    BY DEF Width
  <2>3. Source(i, m, o) = (x % n) /\ Source(i, h, o) = (x % n)
    BY <1>2 DEF Source, Trunc
  <2> HIDE DEF x, n, w
  <2>4. x \in 0 .. w - 1 /\ x \in Int
    BY <1>1, <1>2
  <2>5. (x % n) \in 0 .. n - 1 /\ (x \in 0 .. n - 1 => (x % n) = x)
    BY <2>1, <2>4, ModIn
  <2>6. QED
    BY <2>1, <2>2, <2>3, <2>4, <2>5 DEF n
<1>4. QED
  BY <1>2, <1>3

\* A register is written on both sides.
LEMMA Store64 ==
  ASSUME NEW m, NEW h, InStep64(m, h), NEW r \in Registers \cup {ZR}, NEW v \in Word(SignBit(XBits))
  PROVE  /\ InStep64(StoreReg(m, r, v), StoreReg(h, r, v))
         /\ StoreReg(m, r, v).f = m.f /\ StoreReg(h, r, v).f = h.f
<1>1. m \in Machine64 /\ h \in Machine64 /\ m.reg = h.reg /\ (m.written => m.f = h.f)
  BY DEF InStep64
<1>2. CASE r = ZR
  BY <1>2 DEF StoreReg
<1>3. CASE r # ZR
  <2>1. r \in Registers
    BY <1>3
  <2> DEFINE a == [m EXCEPT !.reg[r] = v]
             b == [h EXCEPT !.reg[r] = v]
  <2>2. \A t \in Machine64 : /\ [t EXCEPT !.reg[r] = v] \in Machine64 /\ [t EXCEPT !.reg[r] = v].reg = [t.reg EXCEPT ![r] = v]
                             /\ [t EXCEPT !.reg[r] = v].f = t.f /\ [t EXCEPT !.reg[r] = v].written = t.written
    BY <2>1 DEF Machine64
  <2>3. /\ a \in Machine64 /\ a.reg = [m.reg EXCEPT ![r] = v] /\ a.f = m.f /\ a.written = m.written
        /\ b \in Machine64 /\ b.reg = [h.reg EXCEPT ![r] = v] /\ b.f = h.f
    BY <1>1, <2>2
  <2>4. StoreReg(m, r, v) = a /\ StoreReg(h, r, v) = b
    BY <1>3 DEF StoreReg
  <2> HIDE DEF a, b
  <2>5. InStep64(a, b)
    BY <1>1, <2>3 DEF InStep64
  <2>6. QED
    BY <2>3, <2>4, <2>5
<1>4. QED
  BY <1>2, <1>3

\* Flags are written on both sides.
LEMMA Flags64 ==
  ASSUME NEW m, NEW h, InStep64(m, h), NEW f \in Flags
  PROVE  InStep64(StoreFlags(m, f), [h EXCEPT !.f = f])
<1>1. m \in Machine64 /\ h \in Machine64 /\ m.reg = h.reg
  BY DEF InStep64
<1>2. /\ StoreFlags(m, f) \in Machine64 /\ StoreFlags(m, f).reg = m.reg /\ StoreFlags(m, f).f = f
      /\ [h EXCEPT !.f = f] \in Machine64 /\ [h EXCEPT !.f = f].reg = h.reg /\ [h EXCEPT !.f = f].f = f
  BY <1>1 DEF Machine64, StoreFlags
<1>3. QED
  BY <1>1, <1>2 DEF InStep64

\* A register and the flags, in either order.
LEMMA StoreBoth64 ==
  ASSUME NEW m, NEW h, InStep64(m, h), NEW r \in Registers \cup {ZR}, NEW v \in Word(SignBit(XBits)), NEW f \in Flags
  PROVE  /\ InStep64(StoreFlags(StoreReg(m, r, v), f), [StoreReg(h, r, v) EXCEPT !.f = f])
         /\ InStep64(StoreReg(StoreFlags(m, f), r, v), [StoreReg(h, r, v) EXCEPT !.f = f])
<1>1. InStep64(StoreFlags(StoreReg(m, r, v), f), [StoreReg(h, r, v) EXCEPT !.f = f])
  BY Store64, Flags64
<1>2. StoreReg(StoreFlags(m, f), r, v) = StoreFlags(StoreReg(m, r, v), f)
  <2>1. m \in Machine64
    BY DEF InStep64
  <2>2. CASE r = ZR
    BY <2>2 DEF StoreReg
  <2>3. CASE r # ZR
    BY <2>1, <2>3 DEF StoreReg, StoreFlags, Machine64
  <2>4. QED
    BY <2>2, <2>3
<1>3. QED
  BY <1>1, <1>2

-----------------------------------------------------------------------------
(***************************************************************************)
(* Masks and fields.                                                       *)
(***************************************************************************)
\* Operations on words that are put together from two parts.
LEMMA OpsOfParts ==
  ASSUME NEW n \in 0 .. MaxBits, NEW k \in 0 .. n, NEW u \in 0 .. 2^(n - k) - 1, NEW v \in 0 .. 2^(n - k) - 1,
         NEW x \in 0 .. 2^k - 1, NEW y \in 0 .. 2^k - 1
  PROVE  /\ AndW(u * 2^k + x, v * 2^k + y) = AndW(u, v) * 2^k + AndW(x, y)
         /\ OrW(u * 2^k + x, v * 2^k + y) = OrW(u, v) * 2^k + OrW(x, y)
         /\ u * 2^k + x \in 0 .. 2^n - 1 /\ v * 2^k + y \in 0 .. 2^n - 1
<1> DEFINE p == 2^k
           a == u * p + x
           b == v * p + y
<1>1. n \in Nat /\ k \in Nat /\ n - k \in Nat /\ p \in Nat \ {0} /\ 2^(n - k) \in Nat
  <2>1. n \in Nat /\ k \in Nat /\ n - k \in Nat
    BY MaxBitsAssumption
  <2>2. QED
    BY <2>1, Powers
<1>2. a \in 0 .. 2^n - 1 /\ b \in 0 .. 2^n - 1
  BY <1>1, JoinWord
<1>3. a \in AllWords /\ b \in AllWords
  <2>1. 0 .. 2^n - 1 \subseteq AllWords
    BY NarrowWords, MaxBitsAssumption DEF AllWords
  <2> HIDE DEF a, b
  <2>2. QED
    BY <1>2, <2>1
<1>4. a \div p = u /\ (a % p) = x /\ b \div p = v /\ (b % p) = y
  <2>1. u \in Int /\ v \in Int /\ x \in 0 .. p - 1 /\ y \in 0 .. p - 1
    BY <1>1
  <2> HIDE DEF p
  <2>2. QED
    BY <1>1, <2>1, DivModIs
<1> HIDE DEF a, b
<1>5. \A o \in Pure : OpW(o, a, b) = OpW(o, u, v) * p + OpW(o, x, y)
  <2>1. \A o \in Pure : OpW(o, a, b) = OpW(o, a \div p, b \div p) * p + OpW(o, a % p, b % p)
    BY <1>1, <1>3, OpSplit
  <2>2. QED
    BY <1>4, <2>1
<1>6. AndW(a, b) = AndW(u, v) * p + AndW(x, y) /\ OrW(a, b) = OrW(u, v) * p + OrW(x, y)
  BY <1>5, Ops
<1>7. QED
  BY <1>2, <1>6 DEF a, b, p

\* What no bits and all bits do, one by one.
LEMMA Neutral ==
  ASSUME NEW n \in 0 .. MaxBits, NEW x \in 0 .. 2^n - 1
  PROVE  /\ AndW(x, 0) = 0 /\ AndW(0, x) = 0 /\ OrW(x, 0) = x /\ OrW(0, x) = x
         /\ AndW(x, 2^n - 1) = x /\ AndW(x, x) = x /\ OrW(x, x) = x
         /\ XorW(x, 2^n - 1) = 2^n - 1 - x
  BY FullOpsHold DEF FullOps

\* The lowest w bits.
LEMMA AndMask ==
  ASSUME NEW n \in 0 .. MaxBits, NEW w \in 0 .. n, NEW x \in 0 .. 2^n - 1
  PROVE  AndW(x, 2^w - 1) = (x % 2^w)
<1>1. n \in Nat /\ w \in Nat /\ n - w \in Nat /\ w \in 0 .. MaxBits /\ n - w \in 0 .. MaxBits
  BY MaxBitsAssumption
<1> DEFINE p == 2^w
           u == x \div p
           r == x % p
           m == p - 1
<1>2. u \in 0 .. 2^(n - w) - 1 /\ r \in 0 .. 2^w - 1 /\ x = u * 2^w + r
  BY <1>1, SplitWord
<1>3. p \in Nat \ {0} /\ 2^(n - w) \in Nat \ {0}
  BY <1>1, Powers
<1>4. 0 \in 0 .. 2^(n - w) - 1 /\ m \in 0 .. 2^w - 1
  BY <1>3
<1> HIDE DEF u, r, m
<1>5. AndW(u * 2^w + r, 0 * 2^w + m) = AndW(u, 0) * 2^w + AndW(r, m)
  <2> DEFINE z == 0
  <2>1. z \in 0 .. 2^(n - w) - 1
    BY <1>4
  <2> HIDE DEF z
  <2>2. AndW(u * 2^w + r, z * 2^w + m) = AndW(u, z) * 2^w + AndW(r, m)
    BY <1>2, <1>4, <2>1, OpsOfParts
  <2>3. QED
    BY <2>2 DEF z
<1>6. AndW(u, 0) = 0
  BY <1>1, <1>2, Neutral
<1>7. AndW(r, m) = r
  <2>1. AndW(r, 2^w - 1) = r
    BY <1>1, <1>2, Neutral
  <2>2. QED
    BY <2>1 DEF m
<1>8. 0 * 2^w + m = m /\ 0 * 2^w + r = r
  BY <1>3, <1>2, <1>4
<1>9. AndW(x, m) = r
  BY <1>2, <1>5, <1>6, <1>7, <1>8
<1>10. QED
  BY <1>9 DEF m, r, p

\* Or of bits that do not overlap is their sum.
LEMMA OrOfParts ==
  ASSUME NEW n \in 0 .. MaxBits, NEW k \in 0 .. n, NEW u \in 0 .. 2^(n - k) - 1, NEW x \in 0 .. 2^k - 1
  PROVE  OrW(u * 2^k, x) = u * 2^k + x /\ OrW(x, u * 2^k) = u * 2^k + x
<1>1. n \in Nat /\ k \in Nat /\ n - k \in Nat /\ k \in 0 .. MaxBits /\ n - k \in 0 .. MaxBits
  BY MaxBitsAssumption
<1>2. 2^k \in Nat \ {0} /\ 2^(n - k) \in Nat \ {0}
  BY <1>1, Powers
<1> DEFINE z == 0
           y == 0
<1>3. z \in 0 .. 2^(n - k) - 1 /\ y \in 0 .. 2^k - 1
  BY <1>2
<1> HIDE DEF z, y
<1>4. /\ OrW(u * 2^k + y, z * 2^k + x) = OrW(u, z) * 2^k + OrW(y, x)
      /\ OrW(z * 2^k + x, u * 2^k + y) = OrW(z, u) * 2^k + OrW(x, y)
  BY <1>3, OpsOfParts
<1>5. OrW(u, z) = u /\ OrW(z, u) = u /\ OrW(y, x) = x /\ OrW(x, y) = x
  <2>1. OrW(u, 0) = u /\ OrW(0, u) = u
    BY <1>1, Neutral
  <2>2. OrW(0, x) = x /\ OrW(x, 0) = x
    BY <1>1, Neutral
  <2>3. QED
    BY <2>1, <2>2 DEF z, y
<1>6. u * 2^k + y = u * 2^k /\ z * 2^k + x = x
  BY <1>2 DEF z, y
<1>7. QED
  BY <1>4, <1>5, <1>6

\* The rotation that is emitted is the processor's.
LEMMA LowerRotateIs ==
  ASSUME NEW n \in 1 .. MaxBits, NEW s \in 0 .. n - 1, NEW x \in 0 .. 2^n - 1
  PROVE  /\ OrW(Lshr(n, x, s), Shl(n, x, (n - s) % n)) = RotateRight(n, x, s)
         /\ RotateRight(n, x, s) \in 0 .. 2^n - 1
<1>1. n \in Nat \ {0} /\ s \in Nat /\ n \in 0 .. MaxBits /\ s \in 0 .. n /\ n - s \in Nat
  BY MaxBitsAssumption
<1>2. RotateRight(n, x, s) \in 0 .. 2^n - 1
  BY <1>1, RotateIsWord
<1> DEFINE t == n - s
           u == x % 2^s
           v == x \div 2^s
           p == 2^t
           q == 2^s
<1>3. v \in 0 .. 2^t - 1 /\ u \in 0 .. 2^s - 1 /\ 2^n = 2^t * 2^s
  BY <1>1, SplitWord
<1>4. p \in Nat \ {0} /\ q \in Nat \ {0} /\ t \in Nat
  BY <1>1, Powers
<1>5. CASE s = 0
  <2>1. (t % n) = 0 /\ q = 1
    <3>1. t = n /\ (n % n) = 0
      BY <1>1, <1>5
    <3>2. QED
      BY <1>5, <3>1, Powers
  <2>2. u = 0 /\ v = x
    <3>1. (x % 1) = 0 /\ x \div 1 = x /\ x \in Nat
      OBVIOUS
    <3>2. QED
      BY <2>1, <3>1
  <2>3. Lshr(n, x, s) = x /\ Shl(n, x, 0) = x
    <3>1. 0 \in 0 .. n - 1
      BY <1>1
    <3>2. Lshr(n, x, s) = x \div 2^s /\ Shl(n, x, 0) = ((x * 2^0) % 2^n)
      BY <1>1, <3>1, ShiftsAreWords
    <3>3. x * 2^0 = x
      BY Powers
    <3>4. 2^n \in Nat \ {0} /\ x \in Int
      BY <1>1, Powers
    <3>5. (x % 2^n) = x
      BY <3>4, ModIn
    <3>6. QED
      BY <2>2, <3>2, <3>3, <3>5
  <2>4. OrW(x, x) = x
    BY <1>1, Neutral
  <2>5. RotateRight(n, x, s) = v + u * p
    BY DEF RotateRight
  <2>6. v + u * p = x
    <3> HIDE DEF p, u, v
    <3>1. QED
      BY <1>4, <2>2
  <2>7. QED
    BY <1>2, <2>1, <2>3, <2>4, <2>5, <2>6
<1>6. CASE s # 0
  <2>1. t \in 0 .. n - 1 /\ t \in 0 .. n /\ n - t = s
    BY <1>1, <1>6
  <2>2. (t % n) = t
    <3>1. t \in Int /\ n \in Nat \ {0} /\ t \in 0 .. n - 1
      BY <1>1, <2>1
    <3> HIDE DEF t
    <3>2. QED
      BY <3>1, ModIn
  <2>3. Lshr(n, x, s) = v /\ Shl(n, x, t) = ((x * 2^t) % 2^n)
    <3> HIDE DEF t
    <3>1. QED
      BY <1>1, <2>1, ShiftsAreWords
  <2>4. ((x * 2^t) % 2^n) = u * p
    <3>1. 2^n = q * p
      <4>1. 2^n = p * q
        BY <1>3
      <4> HIDE DEF p, q
      <4>2. QED
        BY <1>4, <4>1
    <3>2. x \in Int
      BY <1>1, Powers
    <3> DEFINE w == 2^n
    <3>3. w = q * p
      BY <3>1
    <3> HIDE DEF p, q, w
    <3>4. ((x * p) % (q * p)) = (x % q) * p
      BY <1>4, <3>2, ModOfMultiple
    <3>5. ((x * p) % w) = (x % q) * p
      BY <3>3, <3>4
    <3>6. QED
      BY <3>5 DEF p, q, w
  <2>5. OrW(v, u * p) = u * p + v
    <3>1. u \in 0 .. 2^(n - t) - 1 /\ v \in 0 .. 2^t - 1
      BY <1>3, <2>1
    <3> HIDE DEF u, v, t
    <3>2. OrW(v, u * 2^t) = u * 2^t + v
      BY <1>1, <2>1, <3>1, OrOfParts
    <3>3. QED
      BY <3>2
  <2>6. RotateRight(n, x, s) = v + u * p
    BY DEF RotateRight
  <2>7. u * p + v = v + u * p
    <3>1. u \in Int /\ v \in Int /\ p \in Int
      BY <1>3, <1>4
    <3> HIDE DEF u, v, p
    <3> DEFINE z == u * p
    <3>2. z \in Int
      BY <3>1
    <3> HIDE DEF z
    <3>3. z + v = v + z
      BY <3>1, <3>2
    <3>4. QED
      BY <3>3 DEF z
  <2>8. QED
    BY <1>2, <2>2, <2>3, <2>4, <2>5, <2>6, <2>7
<1>7. QED
  BY <1>5, <1>6

\* Words of the instruction's width are words.
LEMMA Narrow64 ==
  ASSUME NEW i, i.w \in BOOLEAN, NEW v \in Word(SignBit(Width(i)))
  PROVE  v \in Word(SignBit(XBits))
<1> DEFINE n == 2^Width(i)
           w == 2^XBits
<1>1. n \in Nat /\ w \in Nat /\ n <= w /\ Word(SignBit(Width(i))) = 0 .. n - 1 /\ Word(SignBit(XBits)) = 0 .. w - 1
  BY Width64
<1> HIDE DEF n, w
<1>2. QED
  BY <1>1

\* Sums, differences and bits of words are words.
LEMMA Words64 ==
  ASSUME NEW i, i.w \in BOOLEAN, NEW x \in Word(SignBit(Width(i))), NEW y \in Word(SignBit(Width(i)))
  PROVE  /\ AddW(SignBit(Width(i)), x, y) \in Word(SignBit(Width(i)))
         /\ SubW(SignBit(Width(i)), x, y) \in Word(SignBit(Width(i)))
         /\ AndW(x, y) \in Word(SignBit(Width(i))) /\ OrW(x, y) \in Word(SignBit(Width(i)))
         /\ XorW(x, y) \in Word(SignBit(Width(i)))
         /\ NotW(Width(i), x) \in Word(SignBit(Width(i))) /\ XorW(x, 2^Width(i) - 1) = NotW(Width(i), x)
         /\ SubW(SignBit(Width(i)), 0, x) = NegW(Width(i), x) /\ NegW(Width(i), x) \in Word(SignBit(Width(i)))
<1> DEFINE t == SignBit(Width(i))
           w == 2^Width(i)
           n == Width(i)
<1>1. t \in Nat \ {0} /\ w \in Nat \ {0} /\ w = 2 * t /\ Word(t) = 0 .. w - 1 /\ n \in 0 .. MaxBits
  BY Width64
<1>2. x \in 0 .. w - 1 /\ y \in 0 .. w - 1
  BY <1>1
<1>3. AndW(x, y) \in Word(t) /\ OrW(x, y) \in Word(t) /\ XorW(x, y) \in Word(t)
  BY <1>1, <1>2, OpsKeepWidth
<1>4. XorW(x, w - 1) = w - 1 - x
  BY <1>1, <1>2, Neutral
<1>5. NotW(n, x) = w - 1 - x /\ NegW(n, x) = ((w - x) % w)
  BY DEF NotW, NegW
<1> HIDE DEF t, w, n
<1>6. AddW(t, x, y) \in Word(t) /\ SubW(t, x, y) \in Word(t) /\ w - 1 - x \in Word(t)
  BY <1>1, <1>2 DEF AddW, SubW
<1>7. SubW(t, 0, x) = ((w - x) % w) /\ ((w - x) % w) \in Word(t)
  <2>1. CASE x = 0
    <3>1. ((w - x) % w) = 0
      BY <1>1, <2>1
    <3>2. QED
      BY <1>1, <2>1, <3>1 DEF SubW
  <2>2. CASE x # 0
    <3> DEFINE z == w - x
    <3>1. z \in 0 .. w - 1 /\ z \in Int
      BY <1>1, <1>2, <2>2
    <3>2. SubW(t, 0, x) = z
      BY <1>1, <1>2, <2>2 DEF SubW
    <3> HIDE DEF z
    <3>3. (z % w) = z
      BY <1>1, <3>1, ModIn
    <3>4. QED
      BY <1>1, <3>1, <3>2, <3>3 DEF z
  <2>3. QED
    BY <2>1, <2>2
<1>8. QED
  BY <1>3, <1>4, <1>5, <1>6, <1>7 DEF t, w, n

\* ADD, SUB and ADDS.
LEMMA AddSubStep ==
  ASSUME NEW i, A64Operands(i), i.op \in {"ADD", "SUB", "ADDS"}, NEW m, NEW h, InStep64(m, h)
  PROVE  InStep64(IF i.w THEN LowerAddSubWord(i, m) ELSE LowerAddSub(i, m), ArchArith(i, h))
<1> DEFINE t == SignBit(Width(i))
           a == Source(i, m, i.a)
           b == Source(i, m, i.b)
           r == IF i.op = "SUB" THEN SubW(t, b, a) ELSE AddW(t, b, a)
<1>1. i.w \in BOOLEAN /\ i.d \in Registers \cup {ZR} /\ A64Source(i.a) /\ A64Source(i.b) /\ (i.op = "ADDS" => ~i.w)
  BY DEF A64Operands, A64Bitfields, A64Sets, A64Unary, A64OnlyWide
<1>2. t \in Nat \ {0}
  BY <1>1, Width64
<1>3. /\ a = Source(i, h, i.a) /\ b = Source(i, h, i.b) /\ a \in Word(t) /\ b \in Word(t)
      /\ ~i.w => a = Eval(m, i.a) /\ b = Eval(m, i.b) /\ t = SignBit(XBits)
  BY <1>1, Sources64 DEF Width
<1> HIDE DEF a, b, t
<1>4. /\ SubW(t, b, a) = ArchSub(t, b, a).res
      /\ AddW(t, b, a) = ArchAdd(t, b, a).res /\ FlagsOfAdd(t, b, a, AddW(t, b, a)) = ArchAdd(t, b, a).f
  BY <1>2, <1>3, SubFlagsExact, AddFlagsExact
<1>5. r \in Word(SignBit(XBits))
  <2>1. r \in Word(t)
    BY <1>1, <1>3, Words64 DEF t
  <2>2. QED
    BY <1>1, <2>1, Narrow64 DEF t
<1>6. ArchArith(i, h) = IF i.op = "ADDS" THEN [StoreReg(h, i.d, r) EXCEPT !.f = ArchAdd(t, b, a).f] ELSE StoreReg(h, i.d, r)
  BY <1>3, <1>4 DEF ArchArith, Flagged, t
<1>7. ~i.w => LowerAddSub(i, m) = IF i.op = "ADDS" THEN StoreFlags(StoreReg(m, i.d, r), ArchAdd(t, b, a).f)
                                  ELSE StoreReg(m, i.d, r)
  BY <1>3, <1>4 DEF LowerAddSub
<1>8. i.w => LowerAddSubWord(i, m) = StoreReg(m, i.d, r)
  BY <1>3 DEF LowerAddSubWord, t, a, b, Width
<1>9. ArchAdd(t, b, a).f \in Flags
  BY ComputedFlags
<1> HIDE DEF r
<1>10. /\ InStep64(StoreReg(m, i.d, r), StoreReg(h, i.d, r))
       /\ InStep64(StoreFlags(StoreReg(m, i.d, r), ArchAdd(t, b, a).f), [StoreReg(h, i.d, r) EXCEPT !.f = ArchAdd(t, b, a).f])
  BY <1>1, <1>5, <1>9, Store64, StoreBoth64
<1>11. QED
  BY <1>1, <1>6, <1>7, <1>8, <1>10

\* Where the operands and the carry in are not the ones it cannot tell apart,
\* comparing the result with an operand gives the carry.
LEMMA ComparedCarry ==
  ASSUME NEW t \in Nat \ {0}, NEW x \in Word(t), NEW y \in Word(t), NEW cin \in BOOLEAN
  PROVE  /\ ~cin \/ y # 2 * t - 1 => FlagsOfAdd(t, x, y, AddWithCarry(t, x, y, cin).res) = AddWithCarry(t, x, y, cin).f
         /\ cin \/ x # y => FlagsOfSub(t, x, y, AddWithCarry(t, x, Complement(t, y), cin).res)
                       = AddWithCarry(t, x, Complement(t, y), cin).f
  BY SMT DEF Word, FlagsOfAdd, FlagsOfSub, AddWithCarry, SignsDiffer, Negative, Signed, Complement, Bool2Int

\* ADC, SBC, ADCS and SBCS.
LEMMA CarryStep64 ==
  ASSUME NEW i, A64Operands(i), i.op \in {"ADC", "SBC", "ADCS", "SBCS"}, NEW m, NEW h, InStep64(m, h), m.written, A64Safe(i, h)
  PROVE  InStep64(LowerCarry(i, m), ArchArith(i, h))
<1> DEFINE t == SignBit(XBits)
           a == Eval(m, i.a)
           b == Eval(m, i.b)
           cin == m.f.c
           k == Complement(t, a)
           r == IF i.op \in {"SBC", "SBCS"} THEN SubW(t, SubW(t, b, a), Bool2Int(~cin)) ELSE AddW(t, AddW(t, b, a), Bool2Int(cin))
           sum == IF i.op \in {"SBC", "SBCS"} THEN AddWithCarry(t, b, k, cin) ELSE AddWithCarry(t, b, a, cin)
<1>1. i.w = FALSE /\ i.w \in BOOLEAN /\ i.d \in Registers \cup {ZR} /\ A64Source(i.a) /\ A64Source(i.b)
  BY DEF A64Operands, A64Bitfields, A64Sets, A64Unary, A64OnlyWide
<1>2. t \in Nat \ {0} /\ 2 * t = 2^XBits
  BY Widths64, SignBitIs
<1>3. /\ a = Source(i, h, i.a) /\ b = Source(i, h, i.b) /\ a \in Word(t) /\ b \in Word(t) /\ t = SignBit(Width(i))
  BY <1>1, Sources64 DEF Width
<1>4. m \in Machine64 /\ m.f = h.f /\ m.f \in Flags /\ cin \in BOOLEAN
  BY DEF InStep64, Machine64, Flags
<1>5. /\ i.op = "ADCS" => ~cin \/ a # 2 * t - 1
      /\ i.op = "SBCS" => cin \/ b # a
  BY <1>2, <1>3, <1>4 DEF A64Safe
<1>6. LowerCarry(i, m) = IF i.op = "ADCS" THEN StoreFlags(StoreReg(m, i.d, r), FlagsOfAdd(t, b, a, r))
                         ELSE IF i.op = "SBCS" THEN StoreFlags(StoreReg(m, i.d, r), FlagsOfSub(t, b, a, r))
                         ELSE StoreReg(m, i.d, r)
  BY DEF LowerCarry
<1>7. ArchArith(i, h) = IF i.op \in {"ADCS", "SBCS"} THEN [StoreReg(h, i.d, sum.res) EXCEPT !.f = sum.f] ELSE StoreReg(h, i.d, sum.res)
  BY <1>3, <1>4 DEF ArchArith, Flagged
<1> HIDE DEF a, b, t, cin
<1>8. k \in Word(t)
  BY <1>2, <1>3, <1>4, CarrySums
<1>9. /\ AddW(t, AddW(t, b, a), Bool2Int(cin)) = AddWithCarry(t, b, a, cin).res
      /\ SubW(t, SubW(t, b, a), Bool2Int(~cin)) = AddWithCarry(t, b, k, cin).res
      /\ AddWithCarry(t, b, a, cin).res \in Word(t)
  BY <1>2, <1>3, <1>4, CarrySums
<1>10. AddWithCarry(t, b, k, cin).res \in Word(t)
  <2> HIDE DEF k
  <2>1. QED
    BY <1>2, <1>3, <1>4, <1>8, CarrySums
<1>11. /\ ~cin \/ a # 2 * t - 1 => FlagsOfAdd(t, b, a, AddWithCarry(t, b, a, cin).res) = AddWithCarry(t, b, a, cin).f
       /\ cin \/ b # a => FlagsOfSub(t, b, a, AddWithCarry(t, b, k, cin).res) = AddWithCarry(t, b, k, cin).f
  BY <1>2, <1>3, <1>4, ComparedCarry
<1>12. r = sum.res /\ r \in Word(t)
  BY <1>9, <1>10
<1>13. /\ i.op = "ADCS" => FlagsOfAdd(t, b, a, r) = sum.f
       /\ i.op = "SBCS" => FlagsOfSub(t, b, a, r) = sum.f
  BY <1>5, <1>9, <1>11
<1>14. sum.f \in Flags
  BY ComputedFlags
<1> HIDE DEF r, sum
<1>15. /\ InStep64(StoreReg(m, i.d, r), StoreReg(h, i.d, r))
       /\ InStep64(StoreFlags(StoreReg(m, i.d, r), sum.f), [StoreReg(h, i.d, r) EXCEPT !.f = sum.f])
  BY <1>1, <1>12, <1>14, Store64, StoreBoth64 DEF t
<1>16. QED
  BY <1>6, <1>7, <1>12, <1>13, <1>15

\* SUBS, and the same written as WORD.
LEMMA SubsStep ==
  ASSUME NEW i, A64Operands(i), i.op \in {"SUBS", "WORD_SUBS"}, NEW m, NEW h, InStep64(m, h)
  PROVE  /\ i.op = "SUBS" => InStep64(IF i.w THEN LowerSubsWord(i, m) ELSE LowerSubs(i, m), ArchArith(i, h))
         /\ i.op = "WORD_SUBS" => InStep64(LowerRawWord(i, m), ArchArith(i, h))
<1> DEFINE t == SignBit(Width(i))
           a == Source(i, m, i.a)
           b == Source(i, m, i.b)
           r == SubW(t, b, a)
           f == FlagsOfSub(t, b, a, r)
<1>1. i.w \in BOOLEAN /\ i.d \in Registers \cup {ZR} /\ A64Source(i.a) /\ A64Source(i.b) /\ (i.op = "WORD_SUBS" => ~i.w)
  BY DEF A64Operands, A64Bitfields, A64Sets, A64Unary, A64OnlyWide
<1>2. t \in Nat \ {0}
  BY <1>1, Width64
<1>3. /\ a = Source(i, h, i.a) /\ b = Source(i, h, i.b) /\ a \in Word(t) /\ b \in Word(t)
      /\ ~i.w => a = Eval(m, i.a) /\ b = Eval(m, i.b) /\ t = SignBit(XBits)
  BY <1>1, Sources64 DEF Width
<1>4. r = ArchSub(t, b, a).res /\ f = ArchSub(t, b, a).f
  <2> HIDE DEF a, b, t
  <2>1. QED
    BY <1>2, <1>3, SubFlagsExact
<1>5. f \in Flags
  BY StoredFlags
<1>6. r \in Word(SignBit(XBits))
  <2>1. r \in Word(t)
    BY <1>1, <1>3, Words64
  <2>2. QED
    BY <1>1, <2>1, Narrow64
<1>7. ArchArith(i, h) = [StoreReg(h, i.d, r) EXCEPT !.f = f]
  <2>1. ArchArith(i, h) = [StoreReg(h, i.d, ArchSub(t, b, a).res) EXCEPT !.f = ArchSub(t, b, a).f]
    BY <1>3 DEF ArchArith, Flagged
  <2> HIDE DEF r, f
  <2>2. QED
    BY <1>4, <2>1
<1>8. ~i.w => LowerSubs(i, m) = StoreFlags(StoreReg(m, i.d, r), f)
  BY <1>3 DEF LowerSubs
<1>9. i.w => LowerSubsWord(i, m) = StoreReg(StoreFlags(m, f), i.d, r)
  BY DEF LowerSubsWord, Width
<1>10. i.op = "WORD_SUBS" => LowerRawWord(i, m) = LowerSubs(i, m)
  BY DEF LowerRawWord
<1> HIDE DEF r, f
<1>11. /\ InStep64(StoreFlags(StoreReg(m, i.d, r), f), [StoreReg(h, i.d, r) EXCEPT !.f = f])
       /\ InStep64(StoreReg(StoreFlags(m, f), i.d, r), [StoreReg(h, i.d, r) EXCEPT !.f = f])
  BY <1>1, <1>5, <1>6, StoreBoth64
<1>12. QED
  BY <1>1, <1>7, <1>8, <1>9, <1>10, <1>11

\* NEG.
LEMMA NegStep ==
  ASSUME NEW i, A64Operands(i), i.op = "NEG", NEW m, NEW h, InStep64(m, h)
  PROVE  InStep64(LowerNeg(i, m), ArchArith(i, h))
<1> DEFINE a == Source(i, m, i.a)
           r == NegW(Width(i), a)
<1>1. i.w = FALSE /\ i.w \in BOOLEAN /\ i.d \in Registers \cup {ZR} /\ A64Source(i.a) /\ Width(i) = XBits
  BY DEF A64Operands, A64Bitfields, A64Sets, A64Unary, A64OnlyWide, Width
<1>2. a = Source(i, h, i.a) /\ a = Eval(m, i.a) /\ a \in Word(SignBit(Width(i)))
  BY <1>1, Sources64
<1>3. r \in Word(SignBit(XBits)) /\ r = SubW(SignBit(XBits), 0, a)
  <2> HIDE DEF a
  <2>1. SubW(SignBit(Width(i)), 0, a) = NegW(Width(i), a) /\ NegW(Width(i), a) \in Word(SignBit(Width(i)))
    BY <1>1, <1>2, Words64
  <2>2. QED
    BY <1>1, <2>1
<1>4. LowerNeg(i, m) = StoreReg(m, i.d, r)
  BY <1>2, <1>3 DEF LowerNeg
<1>5. ArchArith(i, h) = StoreReg(h, i.d, r)
  BY <1>2 DEF ArchArith
<1> HIDE DEF r
<1>6. QED
  BY <1>1, <1>3, <1>4, <1>5, Store64

\* The order of the operands makes no difference.
LEMMA Commute64 ==
  ASSUME NEW i, i.w \in BOOLEAN, NEW x \in Word(SignBit(Width(i))), NEW y \in Word(SignBit(Width(i)))
  PROVE  AndW(y, x) = AndW(x, y) /\ OrW(y, x) = OrW(x, y) /\ XorW(y, x) = XorW(x, y)
<1>1. Width(i) \in 0 .. MaxBits /\ Word(SignBit(Width(i))) = 0 .. 2^Width(i) - 1
  BY Width64
<1>2. 0 .. 2^Width(i) - 1 \subseteq AllWords
  BY <1>1, NarrowWords, MaxBitsAssumption DEF AllWords
<1>3. x \in AllWords /\ y \in AllWords
  BY <1>1, <1>2
<1>4. QED
  BY <1>3, OpsCommute DEF SameOps

\* The flags of a logical instruction.
LEMMA LogicFlags64 ==
  ASSUME NEW i, NEW r
  PROVE  LogicFlags(i, r) \in Flags /\ FlagsOfLogic(SignBit(Width(i)), r) = LogicFlags(i, r)
<1> DEFINE n == Negative(SignBit(Width(i)), r)
           z == r = 0
<1>1. n \in BOOLEAN /\ z \in BOOLEAN
  BY DEF Negative
<1>2. FlagsOfLogic(SignBit(Width(i)), r) = [n |-> n, z |-> z, c |-> FALSE, v |-> FALSE]
  BY DEF FlagsOfLogic, Negative
<1>3. LogicFlags(i, r) = [NoFlags EXCEPT !.n = n, !.z = z]
  BY DEF LogicFlags
<1> HIDE DEF n, z
<1>4. [NoFlags EXCEPT !.n = n, !.z = z] = [n |-> n, z |-> z, c |-> FALSE, v |-> FALSE]
  <2> DEFINE g == NoFlags
             k == [g EXCEPT !.n = n, !.z = z]
  <2>1. g \in Flags /\ g.c = FALSE /\ g.v = FALSE
    BY DEF NoFlags, Flags
  <2> HIDE DEF g
  <2>2. k \in Flags /\ (k.n <=> n) /\ (k.z <=> z) /\ k.c = g.c /\ k.v = g.v
    BY <1>1, <2>1 DEF Flags
  <2> HIDE DEF k
  <2>3. k \in Flags /\ k.n = n /\ k.z = z /\ k.c = FALSE /\ k.v = FALSE
    BY <1>1, <2>1, <2>2 DEF Flags
  <2>4. k = [n |-> n, z |-> z, c |-> FALSE, v |-> FALSE]
    BY <2>3 DEF Flags
  <2>5. QED
    BY <2>4 DEF k, g
<1>5. QED
  BY <1>1, <1>2, <1>3, <1>4 DEF Flags
\* AND, ANDS, ORR and EOR.
LEMMA LogicStep ==
  ASSUME NEW i, A64Operands(i), i.op \in {"AND", "ANDS", "ORR", "EOR"}, NEW m, NEW h, InStep64(m, h)
  PROVE  InStep64(IF i.w /\ i.op = "ANDS" THEN LowerAndsWord(i, m) ELSE LowerLogic(i, m), ArchLogic(i, h))
<1> DEFINE t == SignBit(Width(i))
           a == Source(i, m, i.a)
           b == Source(i, m, i.b)
           r == IF i.op \in {"AND", "ANDS"} THEN AndW(a, b) ELSE IF i.op = "EOR" THEN XorW(a, b) ELSE OrW(a, b)
           f == LogicFlags(i, r)
<1>1. i.w \in BOOLEAN /\ i.d \in Registers \cup {ZR} /\ A64Source(i.a) /\ A64Source(i.b)
  BY DEF A64Operands, A64Bitfields, A64Sets, A64Unary
<1>2. a = Source(i, h, i.a) /\ b = Source(i, h, i.b) /\ a \in Word(t) /\ b \in Word(t)
  BY <1>1, Sources64
<1>3. AndW(b, a) = AndW(a, b) /\ OrW(b, a) = OrW(a, b) /\ XorW(b, a) = XorW(a, b)
  <2> HIDE DEF a, b
  <2>1. QED
    BY <1>1, <1>2, Commute64
<1>4. r \in Word(SignBit(XBits))
  <2>1. AndW(a, b) \in Word(t) /\ OrW(a, b) \in Word(t) /\ XorW(a, b) \in Word(t)
    <3> HIDE DEF a, b
    <3>1. QED
      BY <1>1, <1>2, Words64
  <2>2. QED
    BY <1>1, <2>1, Narrow64
<1>5. f \in Flags /\ FlagsOfLogic(t, r) = f
  BY LogicFlags64
<1>6. i.op \in {"AND", "ANDS"} => r = AndW(a, b)
  OBVIOUS
<1>7. i.op = "ANDS" => /\ LowerLogic(i, m) = StoreFlags(StoreReg(m, i.d, r), f)
                       /\ i.w => LowerAndsWord(i, m) = StoreFlags(StoreReg(m, i.d, r), f)
                       /\ ArchLogic(i, h) = [StoreReg(h, i.d, r) EXCEPT !.f = f]
  <2>1. ASSUME i.op = "ANDS"
        PROVE  /\ LowerLogic(i, m) = StoreFlags(StoreReg(m, i.d, AndW(b, a)), FlagsOfLogic(t, AndW(b, a)))
               /\ i.w => LowerAndsWord(i, m) = StoreFlags(StoreReg(m, i.d, AndW(b, a)), FlagsOfLogic(t, AndW(b, a)))
               /\ ArchLogic(i, h) = [StoreReg(h, i.d, AndW(a, b)) EXCEPT !.f = LogicFlags(i, AndW(a, b))]
    BY <1>2, <2>1 DEF LowerLogic, LowerAndsWord, ArchLogic, Width
  <2>2. QED
    BY <1>3, <1>5, <1>6, <2>1
<1>8. i.op # "ANDS" => LowerLogic(i, m) = StoreReg(m, i.d, r)
  BY <1>3 DEF LowerLogic
<1>9. i.op # "ANDS" => ArchLogic(i, h) = StoreReg(h, i.d, r)
  BY <1>2 DEF ArchLogic
<1> HIDE DEF r, f
<1>10. /\ InStep64(StoreReg(m, i.d, r), StoreReg(h, i.d, r))
       /\ InStep64(StoreFlags(StoreReg(m, i.d, r), f), [StoreReg(h, i.d, r) EXCEPT !.f = f])
  BY <1>1, <1>4, <1>5, Store64, StoreBoth64
<1>11. QED
  BY <1>1, <1>7, <1>8, <1>9, <1>10

\* TST, and the same written as WORD.
LEMMA TestStep ==
  ASSUME NEW i, A64Operands(i), A64Exact(i), i.op \in {"TST", "WORD_TST"}, NEW m, NEW h, InStep64(m, h)
  PROVE  /\ i.op = "TST" => InStep64(LowerTest(i, m), ArchLogic(i, h))
         /\ i.op = "WORD_TST" => InStep64(LowerRawWord(i, m), ArchLogic(i, h))
<1> DEFINE t == SignBit(Width(i))
           a == Source(i, m, i.a)
           b == Source(i, m, i.b)
           r == AndW(a, b)
           f == LogicFlags(i, r)
<1>1. /\ i.w \in BOOLEAN /\ A64Source(i.a) /\ A64Source(i.b)
      /\ i.op = "WORD_TST" => ~i.w /\ i.b = i.a
  BY DEF A64Operands, A64Exact, A64Bitfields, A64Sets, A64Unary, A64OnlyWide
<1>2. /\ a = Source(i, h, i.a) /\ b = Source(i, h, i.b) /\ a \in Word(t) /\ b \in Word(t)
      /\ ~i.w => a = Eval(m, i.a) /\ t = SignBit(XBits)
  BY <1>1, Sources64 DEF Width
<1>3. AndW(b, a) = r
  <2> HIDE DEF a, b
  <2>1. QED
    BY <1>1, <1>2, Commute64
<1>4. f \in Flags /\ FlagsOfLogic(t, r) = f
  BY LogicFlags64
<1>5. i.op = "WORD_TST" => r = a
  <2>1. AndW(a, a) = a
    <3> HIDE DEF a
    <3>1. QED
      BY <1>1, <1>2, Width64, Neutral
  <2>2. QED
    BY <1>1, <2>1
<1>6. i.op = "TST" => LowerTest(i, m) = StoreFlags(m, f)
  <2>1. LowerTest(i, m) = StoreFlags(m, FlagsOfLogic(t, AndW(b, a)))
    BY DEF LowerTest
  <2>2. QED
    BY <1>3, <1>4, <2>1
<1>7. i.op = "WORD_TST" => LowerRawWord(i, m) = StoreFlags(m, f)
  <2>1. i.op = "WORD_TST" => LowerRawWord(i, m) = StoreFlags(m, FlagsOfLogic(t, a))
    BY <1>1, <1>2 DEF LowerRawWord
  <2>2. QED
    BY <1>4, <1>5, <2>1
<1>8. ArchLogic(i, h) = [h EXCEPT !.f = f]
  <2>1. CASE i.op = "TST"
    BY <1>2, <2>1 DEF ArchLogic
  <2>2. CASE i.op = "WORD_TST"
    BY <1>2, <2>2 DEF ArchLogic
  <2>3. QED
    BY <2>1, <2>2
<1> HIDE DEF f
<1>9. InStep64(StoreFlags(m, f), [h EXCEPT !.f = f])
  BY <1>4, Flags64
<1>10. QED
  BY <1>6, <1>7, <1>8, <1>9

\* BIC and MVN.
LEMMA ClearStep ==
  ASSUME NEW i, A64Operands(i), i.op \in {"BIC", "MVN"}, NEW m, NEW h, InStep64(m, h)
  PROVE  /\ i.op = "BIC" => InStep64(LowerBic(i, m), ArchLogic(i, h))
         /\ i.op = "MVN" => InStep64(LowerMvn(i, m), ArchLogic(i, h))
<1> DEFINE n == Width(i)
           t == SignBit(n)
           a == Source(i, m, i.a)
           b == Source(i, m, i.b)
           r == IF i.op = "BIC" THEN AndW(b, NotW(n, a)) ELSE NotW(n, a)
<1>1. i.w \in BOOLEAN /\ i.d \in Registers \cup {ZR} /\ A64Source(i.a) /\ (i.op = "BIC" => A64Source(i.b))
  BY DEF A64Operands, A64Bitfields, A64Sets, A64Unary
<1>2. a = Source(i, h, i.a) /\ a \in Word(t) /\ (i.op = "BIC" => b = Source(i, h, i.b) /\ b \in Word(t))
  BY <1>1, Sources64
<1>3. XorW(a, 2^n - 1) = NotW(n, a) /\ NotW(n, a) \in Word(t)
  <2> HIDE DEF a
  <2>1. QED
    BY <1>1, <1>2, Words64
<1>4. i.op = "BIC" => AndW(b, NotW(n, a)) \in Word(t)
  <2> DEFINE x == NotW(n, a)
  <2>1. x \in Word(t)
    BY <1>3
  <2> HIDE DEF x, b
  <2>2. i.op = "BIC" => AndW(b, x) \in Word(t)
    BY <1>1, <1>2, <2>1, Words64
  <2>3. QED
    BY <2>2 DEF x
<1>5. r \in Word(SignBit(XBits))
  BY <1>1, <1>3, <1>4, Narrow64
<1>6. /\ i.op = "BIC" => LowerBic(i, m) = StoreReg(m, i.d, r)
      /\ i.op = "MVN" => LowerMvn(i, m) = StoreReg(m, i.d, r)
  BY <1>3 DEF LowerBic, LowerMvn
<1>7. ArchLogic(i, h) = StoreReg(h, i.d, r)
  <2>1. CASE i.op = "BIC"
    BY <1>2, <2>1 DEF ArchLogic
  <2>2. CASE i.op = "MVN"
    BY <1>2, <2>2 DEF ArchLogic
  <2>3. QED
    BY <2>1, <2>2
<1> HIDE DEF r
<1>8. QED
  BY <1>1, <1>5, <1>6, <1>7, Store64

\* CMP and CMN.
LEMMA CompareStep64 ==
  ASSUME NEW i, A64Operands(i), i.op \in {"CMP", "CMN"}, NEW m, NEW h, InStep64(m, h)
  PROVE  InStep64(IF i.op = "CMP" THEN LowerCmp(i, m) ELSE LowerCmn(i, m), ArchCompare(i, h))
<1> DEFINE t == SignBit(Width(i))
           a == Source(i, m, i.a)
           b == Source(i, m, i.b)
           f == IF i.op = "CMP" THEN FlagsOfSub(t, b, a, SubW(t, b, a)) ELSE FlagsOfAdd(t, b, a, AddW(t, b, a))
<1>1. i.w \in BOOLEAN /\ A64Source(i.a) /\ A64Source(i.b) /\ (i.op = "CMN" => ~i.w)
  BY DEF A64Operands, A64Bitfields, A64Sets, A64Unary, A64OnlyWide
<1>2. t \in Nat \ {0}
  BY <1>1, Width64
<1>3. /\ a = Source(i, h, i.a) /\ b = Source(i, h, i.b) /\ a \in Word(t) /\ b \in Word(t)
      /\ ~i.w => a = Eval(m, i.a) /\ b = Eval(m, i.b) /\ t = SignBit(XBits)
  BY <1>1, Sources64 DEF Width
<1>4. /\ FlagsOfSub(t, b, a, SubW(t, b, a)) = ArchSub(t, b, a).f
      /\ FlagsOfAdd(t, b, a, AddW(t, b, a)) = ArchAdd(t, b, a).f
  <2> HIDE DEF a, b, t
  <2>1. QED
    BY <1>2, <1>3, SubFlagsExact, AddFlagsExact
<1>5. f \in Flags
  BY StoredFlags
<1>6. (IF i.op = "CMP" THEN LowerCmp(i, m) ELSE LowerCmn(i, m)) = StoreFlags(m, f)
  BY <1>1, <1>3 DEF LowerCmp, LowerCmn
<1>7. ArchCompare(i, h) = [h EXCEPT !.f = f]
  <2>1. ArchCompare(i, h) = [h EXCEPT !.f = IF i.op = "CMP" THEN ArchSub(t, b, a).f ELSE ArchAdd(t, b, a).f]
    BY <1>3 DEF ArchCompare
  <2>2. QED
    BY <1>4, <2>1
<1> HIDE DEF f
<1>8. QED
  BY <1>5, <1>6, <1>7, Flags64

\* CCMP and CCMN.
LEMMA CondCompareStep ==
  ASSUME NEW i, A64Operands(i), i.op \in {"CCMP", "CCMN"}, NEW m, NEW h, InStep64(m, h), m.written
  PROVE  InStep64(LowerCondCompare(i, m), ArchCompare(i, h))
<1> DEFINE t == SignBit(Width(i))
           a == Source(i, m, i.a)
           b == Source(i, m, i.b)
           holds == CondValue(i.cond, m.f)
           f == IF holds THEN (IF i.op = "CCMN" THEN FlagsOfAdd(t, a, b, AddW(t, a, b)) ELSE FlagsOfSub(t, a, b, SubW(t, a, b)))
                         ELSE i.nzcv
<1>1. i.w \in BOOLEAN /\ A64Source(i.a) /\ A64Source(i.b) /\ i.cond \in Conditions /\ i.nzcv \in Flags
  BY DEF A64Operands, A64Bitfields, A64Sets, A64Unary, A64Conditional
<1>2. t \in Nat \ {0}
  BY <1>1, Width64
<1>3. a = Source(i, h, i.a) /\ b = Source(i, h, i.b) /\ a \in Word(t) /\ b \in Word(t)
  BY <1>1, Sources64
<1>4. /\ FlagsOfSub(t, a, b, SubW(t, a, b)) = ArchSub(t, a, b).f
      /\ FlagsOfAdd(t, a, b, AddW(t, a, b)) = ArchAdd(t, a, b).f
  <2> HIDE DEF a, b, t
  <2>1. QED
    BY <1>2, <1>3, SubFlagsExact, AddFlagsExact
<1>5. f \in Flags
  BY <1>1, StoredFlags
<1>6. m.f = h.f /\ m.f \in Flags
  BY DEF InStep64, Machine64
<1>7. holds = ConditionHolds(i.cond, h.f)
  BY <1>1, <1>6, ConditionsExact
<1>8. LowerCondCompare(i, m) = StoreFlags(m, f)
  BY DEF LowerCondCompare, FlagsOfCondCompare
<1>9. ArchCompare(i, h) = [h EXCEPT !.f = f]
  <2>1. ArchCompare(i, h) = [h EXCEPT !.f = IF ConditionHolds(i.cond, h.f)
                                            THEN (IF i.op = "CCMN" THEN ArchAdd(t, a, b).f ELSE ArchSub(t, a, b).f)
                                            ELSE i.nzcv]
    BY <1>3 DEF ArchCompare
  <2> HIDE DEF a, b, t
  <2>2. QED
    BY <1>4, <1>7, <2>1
<1> HIDE DEF f
<1>10. QED
  BY <1>5, <1>8, <1>9, Flags64

\* Sums and differences wrap around.
LEMMA WrapIs ==
  ASSUME NEW t \in Nat \ {0}, NEW w, w = 2 * t, NEW x \in Word(t), NEW y \in Word(t)
  PROVE  AddW(t, x, y) = ((x + y) % w) /\ SubW(t, x, y) = ((x - y) % w)
<1>1. w \in Nat \ {0} /\ x \in 0 .. w - 1 /\ y \in 0 .. w - 1
  BY DEF Word
<1>2. AddW(t, x, y) = ((x + y) % w)
  <2> DEFINE r == AddW(t, x, y)
             z == x + y
  <2>1. r \in Int /\ r \in 0 .. w - 1 /\ z \in Int /\ (z = r \/ z = r + w)
    BY <1>1 DEF AddW, Word
  <2> HIDE DEF r, z
  <2>2. (r % w) = r
    BY <1>1, <2>1, ModIn
  <2> DEFINE one == 1
  <2>3. one \in Int /\ r + w = r + one * w
    BY <1>1, <2>1
  <2> HIDE DEF one
  <2>4. ((r + one * w) % w) = (r % w)
    BY <1>1, <2>1, <2>3, ModUp
  <2>5. QED
    BY <2>1, <2>2, <2>3, <2>4 DEF r, z
<1>3. SubW(t, x, y) = ((x - y) % w)
  <2> DEFINE r == SubW(t, x, y)
             z == x - y
  <2>1. r \in Int /\ r \in 0 .. w - 1 /\ z \in Int /\ (r = z \/ r = z + w)
    BY <1>1 DEF SubW, Word
  <2> HIDE DEF r, z
  <2>2. (r % w) = r
    BY <1>1, <2>1, ModIn
  <2> DEFINE one == 1
  <2>3. one \in Int /\ z + w = z + one * w
    BY <1>1, <2>1
  <2> HIDE DEF one
  <2>4. ((z + one * w) % w) = (z % w)
    BY <1>1, <2>1, <2>3, ModUp
  <2>5. QED
    BY <2>1, <2>2, <2>3, <2>4 DEF r, z
<1>4. QED
  BY <1>2, <1>3

\* MUL, MADD and MSUB.
LEMMA MultiplyStep64 ==
  ASSUME NEW i, A64Operands(i), A64Exact(i), NEW m, NEW h, InStep64(m, h)
  PROVE  /\ i.op = "MUL" => InStep64(LowerMul(i, m), ArchMultiply(i, h))
         /\ i.op \in {"MADD", "MSUB"} => InStep64(LowerMulAdd(i, m), ArchMultiply(i, h))
<1> SUFFICES ASSUME i.op \in {"MUL", "MADD", "MSUB"}
             PROVE  /\ i.op = "MUL" => InStep64(LowerMul(i, m), ArchMultiply(i, h))
                    /\ i.op \in {"MADD", "MSUB"} => InStep64(LowerMulAdd(i, m), ArchMultiply(i, h))
  OBVIOUS
<1> DEFINE t == SignBit(Width(i))
           w == 2^Width(i)
           a == Source(i, m, i.a)
           b == Source(i, m, i.b)
           p == a * b
           q == p % w
           v == IF i.op = "MUL" THEN q ELSE IF i.op = "MADD" THEN (b + p) % w ELSE (b - p) % w
<1>1. i.w \in BOOLEAN /\ i.d \in Registers \cup {ZR} /\ A64Source(i.a) /\ A64Source(i.b) /\ (i.op # "MUL" => i.c = i.b)
  BY DEF A64Operands, A64Exact, A64Bitfields, A64Sets, A64Unary
<1>2. t \in Nat \ {0} /\ w = 2 * t /\ w \in Nat \ {0} /\ Word(t) = 0 .. w - 1
  BY <1>1, Width64
<1>3. a = Source(i, h, i.a) /\ b = Source(i, h, i.b) /\ a \in Word(t) /\ b \in Word(t)
  BY <1>1, Sources64
<1>4. p \in Int /\ b \in Int
  <2> HIDE DEF a, b
  <2>1. a \in Int /\ b \in Int
    BY <1>2, <1>3
  <2>2. QED
    BY <2>1
<1>5. q \in Word(t) /\ v \in Word(t)
  <2> DEFINE x == b + p
             y == b - p
  <2>1. x \in Int /\ y \in Int
    <3> HIDE DEF p, b
    <3>1. QED
      BY <1>4
  <2> HIDE DEF p, x, y, w
  <2>2. (p % w) \in 0 .. w - 1 /\ (x % w) \in 0 .. w - 1 /\ (y % w) \in 0 .. w - 1
    BY <1>2, <1>4, <2>1, ModIn
  <2>3. QED
    BY <1>2, <2>2 DEF x, y
<1>6. AddW(t, q, b) = ((b + p) % w) /\ SubW(t, b, q) = ((b - p) % w)
  <2> HIDE DEF w, t, p, b
  <2>1. (((p % w) + b) % w) = ((p + b) % w) /\ ((b - (p % w)) % w) = ((b - p) % w)
    BY <1>2, <1>4, ModOfMod
  <2>2. p + b = b + p
    BY <1>4
  <2> HIDE DEF q
  <2>3. AddW(t, q, b) = ((q + b) % w) /\ SubW(t, b, q) = ((b - q) % w)
    <3>1. t \in Nat \ {0} /\ w = 2 * t /\ q \in Word(t) /\ b \in Word(t)
      BY <1>2, <1>3, <1>5
    <3>2. QED
      BY <3>1, WrapIs
  <2>4. QED
    BY <2>1, <2>2, <2>3 DEF q
<1>7. /\ i.op = "MUL" => LowerMul(i, m) = StoreReg(m, i.d, v)
      /\ i.op # "MUL" => LowerMulAdd(i, m) = StoreReg(m, i.d, v)
  <2>1. i.op = "MUL" => LowerMul(i, m) = StoreReg(m, i.d, v)
    <3>1. b * a = a * b
      <4> HIDE DEF a, b
      <4>1. a \in Int /\ b \in Int
        BY <1>2, <1>3
      <4>2. QED
        BY <4>1
    <3>2. LowerMul(i, m) = StoreReg(m, i.d, (b * a) % w)
      BY DEF LowerMul, MulW
    <3>3. QED
      BY <3>1, <3>2
  <2>2. i.op # "MUL" => LowerMulAdd(i, m) = StoreReg(m, i.d, v)
    <3>1. i.op # "MUL" => LowerMulAdd(i, m) = StoreReg(m, i.d, IF i.op = "MADD" THEN AddW(t, q, b) ELSE SubW(t, b, q))
      BY <1>1 DEF LowerMulAdd, MulW
    <3> HIDE DEF q, p
    <3>2. QED
      BY <1>6, <3>1
  <2>3. QED
    BY <2>1, <2>2
<1>8. ArchMultiply(i, h) = StoreReg(h, i.d, v)
  <2>1. b * a = p
    <3> HIDE DEF a, b
    <3>1. a \in Int /\ b \in Int
      BY <1>2, <1>3
    <3>2. QED
      BY <3>1
  <2>2. ArchMultiply(i, h) = StoreReg(h, i.d, IF i.op = "MUL" THEN p % w ELSE IF i.op = "MADD" THEN (b + b * a) % w
                                              ELSE (b - b * a) % w)
    BY <1>1, <1>3 DEF ArchMultiply
  <2>3. QED
    BY <2>1, <2>2
<1> HIDE DEF v
<1>9. v \in Word(SignBit(XBits))
  BY <1>1, <1>5, Narrow64
<1>10. QED
  BY <1>1, <1>7, <1>8, <1>9, Store64

\* The product of two words is below their number squared.
LEMMA ProductBelow ==
  ASSUME NEW w \in Nat \ {0}, NEW x \in 0 .. w - 1, NEW y \in 0 .. w - 1
  PROVE  x * y \in Nat /\ x * y < w * w
<1>1. x * y \in Nat /\ x * y <= (w - 1) * y /\ (w - 1) * y <= (w - 1) * w
  OBVIOUS
<1>2. (w - 1) * w < w * w
  OBVIOUS
<1>3. (w - 1) * w \in Int /\ w * w \in Int /\ (w - 1) * y \in Int
  OBVIOUS
<1> DEFINE p == x * y
           q1 == (w - 1) * y
           q2 == (w - 1) * w
           q3 == w * w
<1>4. p \in Nat /\ q1 \in Int /\ q2 \in Int /\ q3 \in Int /\ p <= q1 /\ q1 <= q2 /\ q2 < q3
  BY <1>1, <1>2, <1>3
<1> HIDE DEF p, q1, q2, q3
<1>5. p < q3
  BY <1>4
<1>6. QED
  BY <1>4, <1>5 DEF p, q3

\* UMULH, and UDIV by what is not zero.
LEMMA HighStep ==
  ASSUME NEW i, A64Operands(i), NEW m, NEW h, InStep64(m, h), A64Safe(i, h)
  PROVE  /\ i.op = "UMULH" => InStep64(LowerMulHigh(i, m), ArchMultiply(i, h))
         /\ i.op = "UDIV" => InStep64(LowerUdiv(i, m), ArchMultiply(i, h))
<1> SUFFICES ASSUME i.op \in {"UMULH", "UDIV"}
             PROVE  /\ i.op = "UMULH" => InStep64(LowerMulHigh(i, m), ArchMultiply(i, h))
                    /\ i.op = "UDIV" => InStep64(LowerUdiv(i, m), ArchMultiply(i, h))
  OBVIOUS
<1> DEFINE w == 2^XBits
           a == Eval(m, i.a)
           b == Eval(m, i.b)
           v == IF i.op = "UMULH" THEN (a * b) \div w ELSE b \div a
<1>1. i.w = FALSE /\ i.w \in BOOLEAN /\ i.d \in Registers \cup {ZR} /\ A64Source(i.a) /\ A64Source(i.b) /\ Width(i) = XBits
  BY DEF A64Operands, A64Bitfields, A64Sets, A64Unary, A64OnlyWide, Width
<1>2. w \in Nat \ {0} /\ Word(SignBit(XBits)) = 0 .. w - 1
  BY <1>1, Width64
<1>3. /\ a = Source(i, h, i.a) /\ b = Source(i, h, i.b)
      /\ a \in 0 .. w - 1 /\ b \in 0 .. w - 1
  <2>1. /\ a = Source(i, h, i.a) /\ b = Source(i, h, i.b)
        /\ a \in Word(SignBit(XBits)) /\ b \in Word(SignBit(XBits))
    BY <1>1, Sources64
  <2>2. QED
    BY <1>2, <2>1
<1>4. i.op = "UDIV" => a # 0
  BY <1>3 DEF A64Safe
<1>5. v \in 0 .. w - 1
  <2> HIDE DEF a, b, w
  <2>1. CASE i.op = "UMULH"
    <3> DEFINE p == a * b
    <3>1. p \in Nat /\ p < w * w
      BY <1>2, <1>3, ProductBelow
    <3> HIDE DEF p
    <3>2. p \div w \in 0 .. w - 1
      BY <1>2, <3>1, DivBelow
    <3>3. QED
      BY <2>1, <3>2 DEF p
  <2>2. CASE i.op = "UDIV"
    <3>1. a \in Nat \ {0} /\ b \in Nat
      BY <1>2, <1>3, <1>4, <2>2
    <3>2. b \div a \in Nat /\ b \div a <= b
      BY <3>1, QuotientBelow
    <3> DEFINE z == b \div a
    <3> HIDE DEF z
    <3>3. z \in 0 .. w - 1
      BY <1>2, <1>3, <3>2 DEF z
    <3>4. QED
      BY <2>2, <3>3 DEF z
  <2>3. QED
    BY <2>1, <2>2
<1>6. /\ i.op = "UMULH" => LowerMulHigh(i, m) = StoreReg(m, i.d, v)
      /\ i.op = "UDIV" => LowerUdiv(i, m) = StoreReg(m, i.d, v)
  BY <1>4 DEF LowerMulHigh, LowerUdiv
<1>7. ArchMultiply(i, h) = StoreReg(h, i.d, v)
  BY <1>1, <1>3, <1>4 DEF ArchMultiply
<1> HIDE DEF v
<1>8. QED
  BY <1>1, <1>2, <1>5, <1>6, <1>7, Store64

\* LSL, LSR, ASR and ROR.
LEMMA ShiftStep64 ==
  ASSUME NEW i, A64Operands(i), NEW m, NEW h, InStep64(m, h)
  PROVE  /\ i.op \in {"LSL", "LSR"} => InStep64(LowerShift(i, m), ArchShift(i, h))
         /\ i.op = "ASR" => InStep64(LowerAsr(i, m), ArchShift(i, h))
         /\ i.op = "ROR" => InStep64(LowerRor(i, m), ArchShift(i, h))
<1> SUFFICES ASSUME i.op \in {"LSL", "LSR", "ASR", "ROR"}
             PROVE  /\ i.op \in {"LSL", "LSR"} => InStep64(LowerShift(i, m), ArchShift(i, h))
                    /\ i.op = "ASR" => InStep64(LowerAsr(i, m), ArchShift(i, h))
                    /\ i.op = "ROR" => InStep64(LowerRor(i, m), ArchShift(i, h))
  OBVIOUS
<1> DEFINE n == Width(i)
           a == Source(i, m, i.a)
           x == Source(i, m, i.b)
           s == a % n
           v == IF i.op = "LSL" THEN (x * 2^s) % 2^n ELSE IF i.op = "LSR" THEN x \div 2^s
                ELSE IF i.op = "ASR" THEN (Signed(SignBit(n), x) \div 2^s) % 2^n ELSE RotateRight(n, x, s)
<1>1. i.w \in BOOLEAN /\ i.d \in Registers \cup {ZR} /\ A64Source(i.a) /\ A64Source(i.b)
  BY DEF A64Operands, A64Bitfields, A64Sets, A64Unary
<1>2. n \in Nat \ {0} /\ n \in 1 .. MaxBits /\ Word(SignBit(n)) = 0 .. 2^n - 1
  <2>1. n \in Nat \ {0} /\ n \in 0 .. MaxBits /\ Word(SignBit(n)) = 0 .. 2^n - 1
    BY <1>1, Width64
  <2> HIDE DEF n
  <2>2. QED
    BY <2>1, MaxBitsAssumption
<1>3. a = Source(i, h, i.a) /\ x = Source(i, h, i.b) /\ a \in 0 .. 2^n - 1 /\ x \in 0 .. 2^n - 1
  BY <1>1, Sources64
<1>4. s \in 0 .. n - 1
  <2> HIDE DEF a, n
  <2>1. 2^n \in Nat
    BY <1>2, Powers
  <2>2. a \in Int
    BY <1>3, <2>1
  <2>3. QED
    BY <1>2, <2>2, ModIn
<1>5. s = Amount(i, m)
  BY DEF Amount
<1>6. /\ i.op \in {"LSL", "LSR"} => LowerShift(i, m) = StoreReg(m, i.d, IF i.op = "LSL" THEN Shl(n, x, s) ELSE Lshr(n, x, s))
      /\ i.op = "ASR" => LowerAsr(i, m) = StoreReg(m, i.d, Ashr(n, x, s))
      /\ i.op = "ROR" => LowerRor(i, m) = StoreReg(m, i.d, OrW(Lshr(n, x, s), Shl(n, x, (n - s) % n)))
  BY <1>5 DEF LowerShift, LowerAsr, LowerRor, LowerRotate
<1>7. ArchShift(i, h) = StoreReg(h, i.d, v)
  <2>1. \A r : ArchShift(i, h) = StoreReg(h, i.d, r) \/ r # v
    BY <1>3 DEF ArchShift
  <2>2. QED
    BY <2>1
<1> HIDE DEF a, x, n, s
<1>8. /\ Shl(n, x, s) = ((x * 2^s) % 2^n) /\ Shl(n, x, s) \in 0 .. 2^n - 1
      /\ Lshr(n, x, s) = x \div 2^s /\ Lshr(n, x, s) \in 0 .. 2^n - 1
      /\ Ashr(n, x, s) = ((Signed(SignBit(n), x) \div 2^s) % 2^n) /\ Ashr(n, x, s) \in 0 .. 2^n - 1
  BY <1>2, <1>3, <1>4, ShiftsAreWords
<1>9. /\ OrW(Lshr(n, x, s), Shl(n, x, (n - s) % n)) = RotateRight(n, x, s)
      /\ RotateRight(n, x, s) \in 0 .. 2^n - 1
  BY <1>2, <1>3, <1>4, LowerRotateIs
<1>10. v \in Word(SignBit(n))
  BY <1>2, <1>8, <1>9
<1>11. v \in Word(SignBit(XBits))
  BY <1>1, <1>10, Narrow64 DEF n
<1>12. /\ i.op \in {"LSL", "LSR"} => LowerShift(i, m) = StoreReg(m, i.d, v)
       /\ i.op = "ASR" => LowerAsr(i, m) = StoreReg(m, i.d, v)
       /\ i.op = "ROR" => LowerRor(i, m) = StoreReg(m, i.d, v)
  BY <1>6, <1>8, <1>9
<1> HIDE DEF v
<1>13. QED
  BY <1>1, <1>7, <1>11, <1>12, Store64

\* The middle of two words.
LEMMA ExtractIs ==
  ASSUME NEW n \in 1 .. MaxBits, NEW s \in 1 .. n - 1, NEW x \in 0 .. 2^n - 1, NEW y \in 0 .. 2^n - 1
  PROVE  /\ OrW(Lshr(n, y, s), Shl(n, x, (n - s) % n)) = Field(x * 2^n + y, s, n)
         /\ Field(x * 2^n + y, s, n) \in 0 .. 2^n - 1
<1> DEFINE t == n - s
           p == 2^t
           q == 2^s
           w == 2^n
           u == y \div q
           k == x \div q
           r == x % q
           z == r * p + u
<1>1. /\ n \in Nat \ {0} /\ n \in Nat /\ n \in 0 .. MaxBits /\ s \in Nat /\ s \in 0 .. n - 1 /\ s \in 0 .. n
      /\ t \in 0 .. n - 1 /\ t \in 0 .. n /\ n - t = s
  BY MaxBitsAssumption
<1>2. (t % n) = t
  <2> HIDE DEF t
  <2>1. t \in Int
    BY <1>1
  <2>2. QED
    BY <1>1, <2>1, ModIn
<1>3. p \in Nat \ {0} /\ q \in Nat \ {0} /\ w \in Nat \ {0} /\ w = p * q
  <2>1. p \in Nat \ {0} /\ q \in Nat \ {0} /\ w \in Nat \ {0}
    BY <1>1, Powers
  <2>2. w = p * q
    BY <1>1, SplitWord
  <2>3. QED
    BY <2>1, <2>2
<1>4. u \in 0 .. p - 1 /\ r \in 0 .. q - 1 /\ x = k * q + r /\ y \in Nat /\ x \in Nat
  <2>1. u \in 0 .. p - 1
    BY <1>1, SplitWord
  <2>2. r \in 0 .. q - 1 /\ x = k * q + r
    BY <1>1, SplitWord
  <2>3. QED
    BY <1>3, <2>1, <2>2
<1>5. z \in 0 .. w - 1
  <2>1. r \in 0 .. 2^(n - t) - 1 /\ u \in 0 .. 2^t - 1
    BY <1>1, <1>4
  <2> HIDE DEF r, u, t
  <2>2. r * 2^t + u \in 0 .. 2^n - 1
    BY <1>1, <2>1, JoinWord
  <2>3. QED
    BY <2>2
<1>6. Lshr(n, y, s) = u
  BY <1>1, ShiftsAreWords
<1>7. Shl(n, x, t) = r * p
  <2>1. Shl(n, x, t) = ((x * p) % w)
    <3> HIDE DEF t
    <3>1. QED
      BY <1>1, ShiftsAreWords
  <2> HIDE DEF p, q, w
  <2>2. w = q * p
    BY <1>3
  <2>3. ((x * p) % (q * p)) = (x % q) * p
    <3>1. x \in Int /\ q \in Nat \ {0} /\ p \in Nat \ {0}
      BY <1>3, <1>4
    <3>2. QED
      BY <3>1, ModOfMultiple
  <2>4. QED
    BY <2>1, <2>2, <2>3
<1>8. OrW(u, r * p) = z
  <2>1. r \in 0 .. 2^(n - t) - 1 /\ u \in 0 .. 2^t - 1
    BY <1>1, <1>4
  <2> HIDE DEF r, u, t
  <2>2. OrW(u, r * 2^t) = r * 2^t + u
    BY <1>1, <2>1, OrOfParts
  <2>3. QED
    BY <2>2
<1>9. Field(x * w + y, s, n) = z
  <2> HIDE DEF p, q, w, r, k, z
  <2> DEFINE e == x * p
             g == x * w + y
  <2>1. e \in Int /\ e * q = x * w
    BY <1>3, <1>4
  <2> HIDE DEF e
  <2>2. g = y + e * q
    <3> DEFINE f == x * w
    <3>1. f = e * q /\ f \in Int
      BY <1>3, <1>4, <2>1
    <3> HIDE DEF f
    <3>2. f + y = y + f
      BY <1>4, <3>1
    <3>3. QED
      BY <3>1, <3>2 DEF f
  <2>3. (y + e * q) \div q = y \div q + e
    <3>1. y \in Int /\ e \in Int /\ q \in Nat \ {0}
      BY <1>3, <1>4, <2>1
    <3>2. QED
      BY <3>1, ModUp
  <2>4. e + u = z + k * w
    <3> DEFINE kw == k * w
               rp == r * p
    <3>1. x * p = (k * q + r) * p /\ k \in Int /\ r \in Int
      BY <1>3, <1>4 DEF k
    <3>2. (k * q + r) * p = k * (p * q) + r * p
      BY <1>3, <3>1
    <3>3. e = kw + rp
      BY <1>3, <3>1, <3>2 DEF e
    <3>4. kw \in Int /\ rp \in Int /\ z = rp + u
      BY <1>3, <3>1 DEF z
    <3> HIDE DEF kw, rp
    <3>5. e + u = z + kw
      BY <1>4, <3>3, <3>4
    <3>6. QED
      BY <3>5 DEF kw
  <2>5. k \in Int /\ z \in Int /\ (z % w) = z
    <3>1. k \in Int
      BY <1>3, <1>4 DEF k
    <3>2. z \in Int
      BY <1>5, <1>3
    <3>3. QED
      BY <1>3, <1>5, <3>1, <3>2, ModIn
  <2>6. ((z + k * w) % w) = (z % w)
    BY <1>3, <2>5, ModUp
  <2>7. Field(g, s, n) = ((g \div q) % w)
    BY DEF Field, q, w
  <2>8. g \div q = z + k * w
    <3>1. g \div q = u + e
      BY <2>2, <2>3 DEF u
    <3>2. u + e = e + u
      BY <1>4, <2>1
    <3>3. QED
      BY <2>4, <3>1, <3>2
  <2>9. QED
    BY <2>5, <2>6, <2>7, <2>8 DEF g
<1>10. QED
  BY <1>2, <1>5, <1>6, <1>7, <1>8, <1>9

\* EXTR.
LEMMA ExtractStep64 ==
  ASSUME NEW i, A64Operands(i), i.op = "EXTR", NEW m, NEW h, InStep64(m, h)
  PROVE  InStep64(LowerExtr(i, m), ArchExtr(i, h))
<1> DEFINE a == Eval(m, i.a)
           b == Eval(m, i.b)
           v == Field(a * 2^XBits + b, i.shift, XBits)
<1>1. i.d \in Registers \cup {ZR} /\ A64Source(i.a) /\ A64Source(i.b) /\ i.shift \in 1 .. XBits - 1
  BY DEF A64Operands, A64Bitfields, A64Sets, A64Unary
<1>2. XBits \in 1 .. MaxBits /\ Word(SignBit(XBits)) = 0 .. 2^XBits - 1
  BY Widths64, SignBitIs
<1>3. a = Eval(h, i.a) /\ b = Eval(h, i.b) /\ a \in 0 .. 2^XBits - 1 /\ b \in 0 .. 2^XBits - 1
  BY <1>1, <1>2, Sources64
<1>4. ArchExtr(i, h) = StoreReg(h, i.d, v)
  BY <1>3 DEF ArchExtr
<1>5. LowerExtr(i, m) = StoreReg(m, i.d, OrW(Lshr(XBits, b, i.shift), Shl(XBits, a, (XBits - i.shift) % XBits)))
  BY DEF LowerExtr
<1> HIDE DEF a, b
<1>6. OrW(Lshr(XBits, b, i.shift), Shl(XBits, a, (XBits - i.shift) % XBits)) = v /\ v \in 0 .. 2^XBits - 1
  BY <1>1, <1>2, <1>3, ExtractIs
<1> HIDE DEF v
<1>7. v \in Word(SignBit(XBits))
  BY <1>2, <1>6
<1>8. QED
  BY <1>1, <1>4, <1>5, <1>6, <1>7, Store64

\* What the conditional instructions make of a word.
LEMMA ChangedIs ==
  ASSUME NEW i, i.w \in BOOLEAN, NEW x \in Word(SignBit(Width(i)))
  PROVE  /\ AddW(SignBit(Width(i)), x, 1) = ((x + 1) % 2^Width(i))
         /\ ((x + 1) % 2^Width(i)) \in Word(SignBit(Width(i)))
         /\ XorW(x, 2^Width(i) - 1) = NotW(Width(i), x) /\ NotW(Width(i), x) \in Word(SignBit(Width(i)))
         /\ SubW(SignBit(Width(i)), 0, x) = NegW(Width(i), x) /\ NegW(Width(i), x) \in Word(SignBit(Width(i)))
<1> DEFINE t == SignBit(Width(i))
           w == 2^Width(i)
           one == 1
<1>1. t \in Nat \ {0} /\ w = 2 * t
  BY Width64
<1>2. one \in Word(t)
  BY <1>1 DEF Word
<1>3. AddW(t, x, one) \in Word(t)
  <2> HIDE DEF one
  <2>1. QED
    BY <1>2, Words64
<1>4. AddW(t, x, one) = ((x + one) % w)
  <2> HIDE DEF one, w, t
  <2>1. x \in Word(t)
    BY DEF t
  <2>2. QED
    BY <1>1, <1>2, <2>1, WrapIs
<1>5. /\ XorW(x, 2^Width(i) - 1) = NotW(Width(i), x) /\ NotW(Width(i), x) \in Word(SignBit(Width(i)))
      /\ SubW(SignBit(Width(i)), 0, x) = NegW(Width(i), x) /\ NegW(Width(i), x) \in Word(SignBit(Width(i)))
  BY Words64
<1>6. QED
  BY <1>3, <1>4, <1>5

\* CSEL, CSINC, CSINV and CSNEG.
LEMMA SelectStep64 ==
  ASSUME NEW i, A64Operands(i), i.op \in {"CSEL", "CSINC", "CSINV", "CSNEG"}, NEW m, NEW h, InStep64(m, h), m.written
  PROVE  InStep64(LowerSelect(i, m), ArchSelect(i, h))
<1> DEFINE n == Width(i)
           a == Source(i, m, i.a)
           b == Source(i, m, i.b)
           c == IF i.op = "CSEL" THEN b ELSE IF i.op = "CSINC" THEN (b + 1) % 2^n ELSE IF i.op = "CSINV" THEN NotW(n, b)
                ELSE NegW(n, b)
           v == IF CondValue(i.cond, m.f) THEN a ELSE c
<1>1. i.w \in BOOLEAN /\ i.d \in Registers \cup {ZR} /\ A64Source(i.a) /\ A64Source(i.b) /\ i.cond \in Conditions
  BY DEF A64Operands, A64Bitfields, A64Sets, A64Unary, A64Conditional
<1>2. a = Source(i, h, i.a) /\ b = Source(i, h, i.b) /\ a \in Word(SignBit(n)) /\ b \in Word(SignBit(n))
  BY <1>1, Sources64
<1>3. m.f = h.f /\ m.f \in Flags
  BY DEF InStep64, Machine64
<1>4. CondValue(i.cond, m.f) = ConditionHolds(i.cond, h.f)
  BY <1>1, <1>3, ConditionsExact
<1>5. ArchSelect(i, h) = StoreReg(h, i.d, v)
  <2>1. Changed(i.op, n, b) = c
    BY DEF Changed
  <2>2. ArchSelect(i, h) = StoreReg(h, i.d, IF ConditionHolds(i.cond, h.f) THEN a ELSE Changed(i.op, n, b))
    BY <1>2 DEF ArchSelect
  <2> HIDE DEF a, c
  <2>3. QED
    BY <1>4, <2>1, <2>2
<1>6. LowerSelect(i, m) = StoreReg(m, i.d, IF CondValue(i.cond, m.f) THEN a ELSE
         IF i.op = "CSEL" THEN b ELSE IF i.op = "CSINC" THEN AddW(SignBit(n), b, 1)
         ELSE IF i.op = "CSINV" THEN XorW(b, 2^n - 1) ELSE SubW(SignBit(n), 0, b))
  BY DEF LowerSelect
<1> HIDE DEF a, b
<1>7. /\ AddW(SignBit(n), b, 1) = ((b + 1) % 2^n) /\ ((b + 1) % 2^n) \in Word(SignBit(n))
      /\ XorW(b, 2^n - 1) = NotW(n, b) /\ NotW(n, b) \in Word(SignBit(n))
      /\ SubW(SignBit(n), 0, b) = NegW(n, b) /\ NegW(n, b) \in Word(SignBit(n))
  BY <1>1, <1>2, ChangedIs
<1>8. LowerSelect(i, m) = StoreReg(m, i.d, v)
  BY <1>6, <1>7
<1>9. v \in Word(SignBit(n))
  BY <1>2, <1>7
<1> HIDE DEF v
<1>10. v \in Word(SignBit(XBits))
  BY <1>1, <1>9, Narrow64
<1>11. QED
  BY <1>1, <1>5, <1>8, <1>10, Store64

\* CINC, CINV and CNEG.
LEMMA CondChangeStep ==
  ASSUME NEW i, A64Operands(i), i.op \in {"CINC", "CINV", "CNEG"}, NEW m, NEW h, InStep64(m, h), m.written
  PROVE  InStep64(LowerCondChange(i, m), ArchSelect(i, h))
<1> DEFINE n == Width(i)
           a == Source(i, m, i.a)
           c == IF i.op = "CINC" THEN (a + 1) % 2^n ELSE IF i.op = "CINV" THEN NotW(n, a) ELSE NegW(n, a)
           v == IF CondValue(i.cond, m.f) THEN c ELSE a
<1>1. i.w \in BOOLEAN /\ i.d \in Registers \cup {ZR} /\ A64Source(i.a) /\ i.cond \in Conditions
  BY DEF A64Operands, A64Bitfields, A64Sets, A64Unary, A64Conditional
<1>2. a = Source(i, h, i.a) /\ a \in Word(SignBit(n))
  BY <1>1, Sources64
<1>3. m.f = h.f /\ m.f \in Flags
  BY DEF InStep64, Machine64
<1>4. CondValue(i.cond, m.f) = ConditionHolds(i.cond, h.f)
  BY <1>1, <1>3, ConditionsExact
<1>5. ArchSelect(i, h) = StoreReg(h, i.d, v)
  <2>1. Changed(i.op, n, a) = c
    BY DEF Changed
  <2>2. ArchSelect(i, h) = StoreReg(h, i.d, IF ConditionHolds(i.cond, h.f) THEN Changed(i.op, n, a) ELSE a)
    BY <1>2 DEF ArchSelect
  <2> HIDE DEF a, c
  <2>3. QED
    BY <1>4, <2>1, <2>2
<1>6. LowerCondChange(i, m) = StoreReg(m, i.d, IF CondValue(i.cond, m.f) THEN
         (IF i.op = "CINC" THEN AddW(SignBit(n), a, 1)
          ELSE IF i.op = "CINV" THEN XorW(a, 2^n - 1) ELSE SubW(SignBit(n), 0, a)) ELSE a)
  BY DEF LowerCondChange
<1> HIDE DEF a
<1>7. /\ AddW(SignBit(n), a, 1) = ((a + 1) % 2^n) /\ ((a + 1) % 2^n) \in Word(SignBit(n))
      /\ XorW(a, 2^n - 1) = NotW(n, a) /\ NotW(n, a) \in Word(SignBit(n))
      /\ SubW(SignBit(n), 0, a) = NegW(n, a) /\ NegW(n, a) \in Word(SignBit(n))
  BY <1>1, <1>2, ChangedIs
<1>8. LowerCondChange(i, m) = StoreReg(m, i.d, v)
  BY <1>6, <1>7
<1>9. v \in Word(SignBit(n))
  BY <1>2, <1>7
<1> HIDE DEF v
<1>10. v \in Word(SignBit(XBits))
  BY <1>1, <1>9, Narrow64
<1>11. QED
  BY <1>1, <1>5, <1>8, <1>10, Store64

\* CSET and CSETM.
LEMMA SetStep64 ==
  ASSUME NEW i, A64Operands(i), i.op \in {"CSET", "CSETM"}, NEW m, NEW h, InStep64(m, h), m.written
  PROVE  InStep64(LowerSet(i, m), ArchSelect(i, h))
<1> DEFINE n == Width(i)
           v == IF CondValue(i.cond, m.f) THEN (IF i.op = "CSETM" THEN 2^n - 1 ELSE 1) ELSE 0
<1>1. i.w \in BOOLEAN /\ i.d \in Registers \cup {ZR} /\ i.cond \in Conditions
  BY DEF A64Operands, A64Sets, A64Conditional
<1>2. m.f = h.f /\ m.f \in Flags
  BY DEF InStep64, Machine64
<1>3. CondValue(i.cond, m.f) = ConditionHolds(i.cond, h.f)
  BY <1>1, <1>2, ConditionsExact
<1>4. LowerSet(i, m) = StoreReg(m, i.d, v)
  BY DEF LowerSet
<1>5. ArchSelect(i, h) = StoreReg(h, i.d, v)
  <2>1. ArchSelect(i, h) = StoreReg(h, i.d, IF ConditionHolds(i.cond, h.f) THEN (IF i.op = "CSETM" THEN 2^n - 1 ELSE 1) ELSE 0)
    BY DEF ArchSelect, Bool2Int
  <2>2. QED
    BY <1>3, <2>1
<1>6. v \in Word(SignBit(n))
  <2> DEFINE w == 2^n
             t == SignBit(n)
  <2>1. w \in Nat \ {0} /\ w = 2 * t /\ t \in Nat \ {0} /\ Word(t) = 0 .. w - 1
    BY <1>1, Width64
  <2> HIDE DEF t, n
  <2>2. v \in 0 .. w - 1
    BY <2>1
  <2>3. QED
    BY <2>1, <2>2 DEF t, n
<1> HIDE DEF v
<1>7. v \in Word(SignBit(XBits))
  BY <1>1, <1>6, Narrow64
<1>8. QED
  BY <1>1, <1>4, <1>5, <1>7, Store64
\* The bits of a field, shifted and masked.
LEMMA ExtractBitsIs ==
  ASSUME NEW n \in 1 .. MaxBits, NEW lsb \in Nat, NEW width \in Nat \ {0}, lsb + width <= n, NEW x \in 0 .. 2^n - 1
  PROVE  /\ AndW(Lshr(n, x, lsb), 2^width - 1) = Field(x, lsb, width)
         /\ Field(x, lsb, width) \in 0 .. 2^width - 1 /\ Field(x, lsb, width) \in 0 .. 2^n - 1
<1>1. /\ n \in Nat \ {0} /\ n \in 0 .. MaxBits /\ lsb \in 0 .. n - 1 /\ width \in 0 .. n /\ width \in Nat
  BY MaxBitsAssumption
<1>2. Lshr(n, x, lsb) = x \div 2^lsb /\ Lshr(n, x, lsb) \in 0 .. 2^n - 1
  BY <1>1, ShiftsAreWords
<1> DEFINE y == Lshr(n, x, lsb)
           p == 2^width
           w == 2^n
<1>3. y \in 0 .. w - 1 /\ Field(x, lsb, width) = (y % p)
  BY <1>2 DEF Field
<1>4. p \in Nat \ {0} /\ w \in Nat \ {0} /\ p <= w
  <2>1. p <= w
    BY <1>1, PowersGrow
  <2>2. QED
    BY <1>1, <2>1, Powers
<1>5. AndW(y, p - 1) = (y % p)
  <2> HIDE DEF y
  <2>1. QED
    BY <1>1, <1>3, AndMask
<1> HIDE DEF y, p, w
<1>6. (y % p) \in 0 .. p - 1
  <2>1. y \in Int
    BY <1>3, <1>4
  <2>2. QED
    BY <1>4, <2>1, ModIn
<1> DEFINE r == y % p
<1>7. r \in 0 .. w - 1
  <2>1. r \in 0 .. p - 1
    BY <1>6
  <2> HIDE DEF r
  <2>2. QED
    BY <1>4, <2>1
<1>8. QED
  BY <1>3, <1>5, <1>6, <1>7 DEF r, y, p, w

\* A field moved up within the word.
LEMMA ShiftedField ==
  ASSUME NEW n \in 1 .. MaxBits, NEW lsb \in Nat, NEW width \in Nat \ {0}, lsb + width <= n, NEW f \in 0 .. 2^width - 1
  PROVE  Shl(n, f, lsb) = f * 2^lsb /\ f * 2^lsb \in 0 .. 2^n - 1 /\ f \in 0 .. 2^(n - lsb) - 1
<1>1. /\ n \in Nat \ {0} /\ n \in Nat /\ lsb \in 0 .. n - 1 /\ lsb \in 0 .. n /\ width \in 0 .. n - lsb /\ width \in 0 .. n
      /\ n - lsb \in Nat /\ width \in Nat
  BY MaxBitsAssumption
<1> DEFINE p == 2^width
           t == 2^(n - lsb)
           w == 2^n
           q == 2^lsb
           v == f * q
<1>2. p \in Nat \ {0} /\ t \in Nat \ {0} /\ w \in Nat \ {0} /\ q \in Nat \ {0} /\ p <= t /\ p <= w
  <2>1. p <= t
    <3> DEFINE k == n - lsb
    <3>1. k \in Nat /\ width \in 0 .. k
      BY <1>1
    <3> HIDE DEF k
    <3>2. 2^width <= 2^k
      BY <3>1, PowersGrow
    <3>3. QED
      BY <3>2 DEF k
  <2>2. p <= w
    BY <1>1, PowersGrow
  <2>3. QED
    BY <1>1, <2>1, <2>2, Powers
<1>3. f \in 0 .. t - 1 /\ f \in 0 .. w - 1 /\ f \in Int
  <2> HIDE DEF p, t, w
  <2>1. f \in 0 .. p - 1
    BY DEF p
  <2>2. QED
    BY <1>2, <2>1
<1>4. v \in 0 .. w - 1
  <2> DEFINE z == 0
  <2>1. z \in 0 .. 2^lsb - 1 /\ f \in 0 .. 2^(n - lsb) - 1
    BY <1>2, <1>3
  <2> HIDE DEF z
  <2>2. f * 2^lsb + z \in 0 .. 2^n - 1
    BY <1>1, <2>1, JoinWord
  <2> HIDE DEF q
  <2>3. v \in Int /\ v + z = v
    BY <1>2, <1>3 DEF z
  <2>4. QED
    BY <2>2, <2>3 DEF q
<1>5. Shl(n, f, lsb) = (v % w)
  BY <1>1, <1>3, ShiftsAreWords
<1>6. (v % w) = v
  <2> HIDE DEF v, w
  <2>1. v \in Int
    BY <1>2, <1>4
  <2>2. QED
    BY <1>2, <1>4, <2>1, ModIn
<1>7. QED
  BY <1>3, <1>4, <1>5, <1>6

\* A field put in the place of another.
LEMMA InsertIs ==
  ASSUME NEW n \in 1 .. MaxBits, NEW lsb \in Nat, NEW width \in Nat \ {0}, lsb + width <= n,
         NEW dst \in 0 .. 2^n - 1, NEW f \in 0 .. 2^width - 1
  PROVE  /\ OrW(AndW(dst, NotW(n, Shl(n, 2^width - 1, lsb))), Shl(n, f, lsb)) = dst + (f - Field(dst, lsb, width)) * 2^lsb
         /\ dst + (f - Field(dst, lsb, width)) * 2^lsb \in 0 .. 2^n - 1
<1> DEFINE k == n - lsb
           s == k - width
           q == 2^lsb
           p == 2^width
           w == 2^n
           r == 2^s
           d == dst \div q
           l == dst % q
           u == d \div p
           g == d % p
           mask == p - 1
           up == r - 1
           ones == q - 1
           nd == up * p + 0
           e == u * p + f
<1>1. /\ n \in 0 .. MaxBits /\ n \in Nat /\ lsb \in 0 .. n /\ k \in 0 .. MaxBits /\ k \in Nat /\ width \in 0 .. k /\ width \in Nat
      /\ s \in Nat /\ s \in 0 .. MaxBits /\ k - width = s /\ n - lsb = k /\ lsb \in 0 .. MaxBits
  BY MaxBitsAssumption
<1>2. /\ q \in Nat \ {0} /\ p \in Nat \ {0} /\ w \in Nat \ {0} /\ r \in Nat \ {0} /\ 2^k = r * p /\ w = 2^k * q
      /\ 2^k \in Nat \ {0}
  <2>1. q \in Nat \ {0} /\ p \in Nat \ {0} /\ w \in Nat \ {0} /\ r \in Nat \ {0} /\ 2^k \in Nat \ {0}
    BY <1>1, Powers
  <2>2. w = 2^k * q
    BY <1>1, SplitWord
  <2>3. 2^k = r * p
    <3>1. s + width = k
      BY <1>1
    <3>2. 2^(s + width) = 2^s * 2^width
      BY <1>1, PowerSum
    <3>3. QED
      BY <3>1, <3>2
  <2>4. QED
    BY <2>1, <2>2, <2>3
<1>3. d \in 0 .. 2^k - 1 /\ l \in 0 .. 2^lsb - 1 /\ dst = d * q + l
  BY <1>1, SplitWord
<1>4. u \in 0 .. 2^(k - width) - 1 /\ g \in 0 .. 2^width - 1 /\ d = u * p + g
  <2> HIDE DEF d, k
  <2>1. QED
    BY <1>1, <1>3, SplitWord
<1>5. Field(dst, lsb, width) = g
  BY DEF Field
<1>6. mask \in 0 .. 2^width - 1 /\ up \in 0 .. 2^(k - width) - 1 /\ ones \in 0 .. 2^lsb - 1 /\ 0 \in 0 .. 2^width - 1 /\ 0 \in 0 .. 2^lsb - 1
  BY <1>2
<1>7. Shl(n, mask, lsb) = mask * q /\ Shl(n, f, lsb) = f * q
  <2> HIDE DEF mask
  <2>1. QED
    BY <1>6, ShiftedField
<1>8. NotW(n, mask * q) = nd * q + ones
  <2>1. NotW(n, mask * q) = w - 1 - mask * q
    BY DEF NotW
  <2> HIDE DEF q, p, r, w, k
  <2>2. nd * q = up * p * q /\ up * p * q = r * p * q - p * q /\ mask * q = p * q - q
    BY <1>2
  <2>3. w = r * p * q
    BY <1>2
  <2> DEFINE x == r * p * q
             y == p * q
             z == mask * q
             v == nd * q
  <2>4. x \in Int /\ y \in Int /\ z = y - q /\ v = x - y /\ w = x
    BY <1>2, <2>2, <2>3
  <2> HIDE DEF x, y, z, v
  <2>5. w - 1 - z = v + ones
    BY <1>2, <2>4
  <2>6. QED
    BY <2>1, <2>5 DEF z, v
<1>9. AndW(u * p + g, nd) = u * p /\ nd \in 0 .. 2^k - 1
  <2> HIDE DEF u, g, up, s, k
  <2> DEFINE z == 0
  <2>1. z \in 0 .. 2^width - 1
    BY <1>6
  <2> HIDE DEF z
  <2>2. /\ AndW(u * 2^width + g, up * 2^width + z) = AndW(u, up) * 2^width + AndW(g, z)
        /\ up * 2^width + z \in 0 .. 2^k - 1
    BY <1>1, <1>4, <1>6, <2>1, OpsOfParts
  <2>3. AndW(u, up) = u
    <3>1. AndW(u, 2^s - 1) = u
      BY <1>1, <1>4, Neutral
    <3>2. QED
      BY <3>1 DEF up
  <2>4. AndW(g, z) = 0
    <3>1. width \in 0 .. MaxBits
      BY <1>1, MaxBitsAssumption
    <3>2. AndW(g, 0) = 0
      BY <1>4, <3>1, Neutral
    <3>3. QED
      BY <3>2 DEF z
  <2>5. u * p + 0 = u * p
    BY <1>1, <1>2, <1>4
  <2>6. QED
    BY <2>2, <2>3, <2>4, <2>5 DEF z
<1>10. AndW(d * q + l, nd * q + ones) = (u * p) * q + l
  <2>1. AndW(d, nd) = u * p
    BY <1>4, <1>9
  <2> HIDE DEF d, l, nd, ones, k
  <2>2. AndW(d * 2^lsb + l, nd * 2^lsb + ones) = AndW(d, nd) * 2^lsb + AndW(l, ones)
    BY <1>1, <1>3, <1>6, <1>9, OpsOfParts
  <2>3. AndW(l, ones) = l
    <3>1. AndW(l, 2^lsb - 1) = l
      BY <1>1, <1>3, Neutral
    <3>2. QED
      BY <3>1 DEF ones
  <2>4. QED
    BY <2>1, <2>2, <2>3
<1>11. OrW(u * p, f) = e /\ e \in 0 .. 2^k - 1 /\ u * p \in 0 .. 2^k - 1
  <2> HIDE DEF u, s, k
  <2>1. OrW(u * 2^width, f) = u * 2^width + f
    BY <1>1, <1>4, OrOfParts
  <2>2. u * 2^width + f \in 0 .. 2^k - 1
    BY <1>1, <1>4, JoinWord
  <2> DEFINE z == 0
  <2>3. z \in 0 .. 2^width - 1
    BY <1>6
  <2> HIDE DEF z
  <2>4. u * 2^width + z \in 0 .. 2^k - 1
    BY <1>1, <1>4, <2>3, JoinWord
  <2>5. u * p + z = u * p
    BY <1>2, <1>4, <1>1 DEF z
  <2>6. QED
    BY <2>1, <2>2, <2>4, <2>5
<1>12. OrW((u * p) * q + l, f * q) = e * q + l /\ e * q + l \in 0 .. 2^n - 1
  <2> DEFINE z == 0
             a == u * p
  <2>1. z \in 0 .. 2^lsb - 1 /\ a \in 0 .. 2^k - 1 /\ f \in 0 .. 2^k - 1
    <3>1. f \in 0 .. 2^(n - lsb) - 1
      BY ShiftedField
    <3>2. QED
      BY <1>6, <1>11, <3>1
  <2> HIDE DEF z, a, l, k
  <2>2. OrW(a * 2^lsb + l, f * 2^lsb + z) = OrW(a, f) * 2^lsb + OrW(l, z)
    BY <1>1, <1>3, <2>1, OpsOfParts
  <2>3. OrW(l, z) = l
    <3>1. OrW(l, 0) = l
      BY <1>1, <1>3, Neutral
    <3>2. QED
      BY <3>1 DEF z
  <2>4. f * 2^lsb + z = f * q
    <3> DEFINE y == f * q
    <3>1. y \in Int
      BY <1>2
    <3> HIDE DEF y
    <3>2. y + 0 = y
      BY <3>1
    <3>3. QED
      BY <3>2 DEF y, z
  <2> HIDE DEF e
  <2>5. e * 2^lsb + l \in 0 .. 2^n - 1
    BY <1>1, <1>3, <1>11, JoinWord
  <2>6. QED
    BY <1>11, <2>2, <2>3, <2>4, <2>5 DEF a
<1>13. e * q + l = dst + (f - g) * q
  <2> HIDE DEF q, p, d, u, g, l, k
  <2>1. u * p \in Int /\ g \in Int /\ f \in Int /\ l \in Int
    BY <1>1, <1>2, <1>3, <1>4
  <2> DEFINE a == u * p
  <2>2. a \in Int /\ e = a + f /\ d = a + g
    BY <1>4, <2>1
  <2> HIDE DEF a, e
  <2>3. (a + f) * q = a * q + f * q /\ (a + g) * q = a * q + g * q /\ (f - g) * q = f * q - g * q
    BY <1>2, <2>1, <2>2
  <2> DEFINE aq == a * q
             fq == f * q
             gq == g * q
  <2>4. aq \in Int /\ fq \in Int /\ gq \in Int
    BY <1>2, <2>1, <2>2
  <2>5. e * q = aq + fq /\ dst = aq + gq + l /\ (f - g) * q = fq - gq
    BY <1>3, <2>2, <2>3
  <2> HIDE DEF aq, fq, gq
  <2> DEFINE x == e * q
             y == (f - g) * q
  <2>6. x = aq + fq /\ y = fq - gq
    BY <2>5
  <2> HIDE DEF x, y
  <2>7. x + l = dst + y
    BY <2>1, <2>4, <2>5, <2>6
  <2>8. QED
    BY <2>7 DEF x, y
<1>14. QED
  <2>1. OrW(AndW(dst, NotW(n, Shl(n, mask, lsb))), Shl(n, f, lsb)) = e * q + l
    BY <1>3, <1>7, <1>8, <1>10, <1>12
  <2>2. QED
    BY <1>5, <1>12, <1>13, <2>1

\* A signed field, by a shift up and an arithmetic one down.
LEMMA SignExtractIs ==
  ASSUME NEW n \in 1 .. MaxBits, NEW width \in 1 .. n, NEW f \in 0 .. 2^width - 1
  PROVE  /\ Ashr(n, Shl(n, f, n - width), n - width) = (Signed(SignBit(width), f) % 2^n)
         /\ (Signed(SignBit(width), f) % 2^n) \in 0 .. 2^n - 1 /\ Signed(SignBit(width), f) \in Int
<1> DEFINE k == n - width
           q == 2^k
           p == 2^width
           w == 2^n
           x == f * q
           t == SignBit(n)
           h == SignBit(width)
           sg == Signed(h, f)
<1>1. /\ n \in Nat \ {0} /\ n \in Nat /\ k \in 0 .. n - 1 /\ k \in Nat /\ width \in Nat \ {0} /\ k + width <= n
      /\ k \in 0 .. n /\ n - k = width
  BY MaxBitsAssumption
<1>2. q \in Nat \ {0} /\ p \in Nat \ {0} /\ w \in Nat \ {0} /\ w = p * q
  <2>1. q \in Nat \ {0} /\ p \in Nat \ {0} /\ w \in Nat \ {0}
    BY <1>1, Powers
  <2>2. 1 \in 0 .. w - 1 \/ w = 1
    BY <2>1
  <2>3. w = 2^(n - k) * q
    <3> DEFINE z == 0
    <3>1. z \in 0 .. 2^n - 1
      BY <2>1
    <3> HIDE DEF z, k
    <3>2. QED
      BY <1>1, <3>1, SplitWord
  <2>4. QED
    BY <1>1, <2>1, <2>3
<1>3. Shl(n, f, k) = x /\ x \in 0 .. w - 1
  <2> HIDE DEF k
  <2>1. QED
    BY <1>1, ShiftedField
<1>4. t \in Nat \ {0} /\ 2 * t = w /\ h \in Nat \ {0} /\ 2 * h = p
  BY <1>1, SignBitIs
<1>5. Ashr(n, x, k) = ((Signed(t, x) \div q) % w)
  <2> HIDE DEF k, x
  <2>1. QED
    BY <1>1, <1>3, ShiftsAreWords
<1> HIDE DEF q, p, w, t, h
<1>6. sg \in Int /\ f \in Int
  BY <1>2, <1>4 DEF Signed, p
<1>7. Signed(t, x) = sg * q
  <2> DEFINE y == h * q
  <2>1. y \in Int /\ w = 2 * y
    <3>1. (2 * h) * q = 2 * (h * q)
      BY <1>2, <1>4
    <3>2. QED
      BY <1>2, <1>4, <3>1
  <2>2. t = y
    <3> HIDE DEF y
    <3>1. QED
      BY <1>4, <2>1
  <2>3. x >= y <=> f >= h
    <3>1. f >= h => f * q >= h * q
      BY <1>2, <1>4, <1>6
    <3>2. f < h => f * q < h * q
      BY <1>2, <1>4, <1>6
    <3>3. f * q \in Int /\ h * q \in Int
      BY <1>2, <1>4, <1>6
    <3>4. QED
      BY <1>4, <1>6, <3>1, <3>2, <3>3
  <2>4. (f - p) * q = x - w
    <3>1. (f - p) * q = f * q - p * q
      BY <1>2, <1>6
    <3>2. QED
      BY <1>2, <3>1
  <2>5. CASE f >= h
    <3>1. sg = f - p /\ Signed(t, x) = x - w
      BY <1>4, <2>2, <2>3, <2>5 DEF Signed, Negative
    <3>2. QED
      BY <2>4, <3>1
  <2>6. CASE ~(f >= h)
    BY <2>2, <2>3, <2>6 DEF Signed, Negative
  <2>7. QED
    BY <2>5, <2>6
<1>8. (sg * q) \div q = sg
  <2> HIDE DEF sg
  <2> DEFINE z == 0
  <2>1. z \in 0 .. q - 1
    BY <1>2
  <2> HIDE DEF z
  <2>2. (sg * q + z) \div q = sg
    BY <1>2, <1>6, <2>1, DivModIs
  <2> DEFINE y == sg * q
  <2>3. y \in Int
    BY <1>2, <1>6
  <2> HIDE DEF y
  <2>4. y + z = y
    BY <2>3 DEF z
  <2>5. QED
    BY <2>2, <2>4 DEF y
<1>9. (sg % w) \in 0 .. w - 1
  <2> HIDE DEF sg
  <2>1. QED
    BY <1>2, <1>6, ModIn
<1>10. QED
  BY <1>3, <1>5, <1>6, <1>7, <1>8, <1>9 DEF w, h

\* What a bit field instruction stores.
LEMMA BitfieldIs ==
  ASSUME NEW n \in 1 .. MaxBits, NEW lsb \in Nat, NEW width \in Nat \ {0}, lsb + width <= n,
         NEW src \in 0 .. 2^n - 1, NEW dst \in 0 .. 2^n - 1
  PROVE  /\ InsertBits(n, src, dst, lsb, width, 0) = dst + (Field(src, 0, width) - Field(dst, lsb, width)) * 2^lsb
         /\ dst + (Field(src, 0, width) - Field(dst, lsb, width)) * 2^lsb \in 0 .. 2^n - 1
         /\ InsertBits(n, src, dst, 0, width, lsb) = dst + Field(src, lsb, width) - Field(dst, 0, width)
         /\ dst + Field(src, lsb, width) - Field(dst, 0, width) \in 0 .. 2^n - 1
         /\ ExtractBits(n, src, lsb, width, FALSE) = Field(src, lsb, width) /\ Field(src, lsb, width) \in 0 .. 2^n - 1
         /\ ExtractBits(n, src, lsb, width, TRUE) = (Signed(SignBit(width), Field(src, lsb, width)) % 2^n)
         /\ (Signed(SignBit(width), Field(src, lsb, width)) % 2^n) \in 0 .. 2^n - 1
         /\ Shl(n, ExtractBits(n, src, 0, width, FALSE), lsb) = Field(src, 0, width) * 2^lsb
         /\ Field(src, 0, width) * 2^lsb \in 0 .. 2^n - 1
         /\ Shl(n, ExtractBits(n, src, 0, width, TRUE), lsb) = ((Signed(SignBit(width), Field(src, 0, width)) * 2^lsb) % 2^n)
         /\ ((Signed(SignBit(width), Field(src, 0, width)) * 2^lsb) % 2^n) \in 0 .. 2^n - 1
<1> DEFINE at == Field(src, lsb, width)
           lows == Field(src, 0, width)
           zero == 0
<1>1. /\ n \in Nat \ {0} /\ n \in 0 .. MaxBits /\ zero \in Nat /\ zero + width <= n /\ width \in 1 .. n /\ width \in 0 .. n
      /\ lsb \in 0 .. n - 1 /\ lsb \in 0 .. n
  BY MaxBitsAssumption
<1>2. AndW(Lshr(n, src, lsb), 2^width - 1) = at /\ at \in 0 .. 2^width - 1 /\ at \in 0 .. 2^n - 1
  BY ExtractBitsIs
<1>3. AndW(Lshr(n, src, 0), 2^width - 1) = lows /\ lows \in 0 .. 2^width - 1 /\ lows \in 0 .. 2^n - 1
  <2>1. \A z : z = 0 /\ z \in Nat /\ z + width <= n => AndW(Lshr(n, src, z), 2^width - 1) = Field(src, z, width)
             /\ Field(src, z, width) \in 0 .. 2^width - 1 /\ Field(src, z, width) \in 0 .. 2^n - 1
    BY ExtractBitsIs
  <2>2. QED
    BY <1>1, <2>1
<1> HIDE DEF at, lows
<1>4. /\ InsertBits(n, src, dst, lsb, width, 0) = OrW(AndW(dst, NotW(n, Shl(n, 2^width - 1, lsb))), Shl(n, lows, lsb))
      /\ InsertBits(n, src, dst, 0, width, lsb) = OrW(AndW(dst, NotW(n, Shl(n, 2^width - 1, 0))), Shl(n, at, 0))
  BY <1>2, <1>3 DEF InsertBits
<1>5. /\ ExtractBits(n, src, lsb, width, FALSE) = at /\ ExtractBits(n, src, 0, width, FALSE) = lows
      /\ ExtractBits(n, src, lsb, width, TRUE) = Ashr(n, Shl(n, at, n - width), n - width)
      /\ ExtractBits(n, src, 0, width, TRUE) = Ashr(n, Shl(n, lows, n - width), n - width)
  BY <1>2, <1>3 DEF ExtractBits
<1>6. /\ OrW(AndW(dst, NotW(n, Shl(n, 2^width - 1, lsb))), Shl(n, lows, lsb)) = dst + (lows - Field(dst, lsb, width)) * 2^lsb
      /\ dst + (lows - Field(dst, lsb, width)) * 2^lsb \in 0 .. 2^n - 1
  BY <1>3, InsertIs
<1>7. /\ OrW(AndW(dst, NotW(n, Shl(n, 2^width - 1, 0))), Shl(n, at, 0)) = dst + at - Field(dst, 0, width)
      /\ dst + at - Field(dst, 0, width) \in 0 .. 2^n - 1
  <2> DEFINE g == Field(dst, zero, width)
             q == 2^zero
             d == at - g
             w == 2^n
  <2> HIDE DEF zero
  <2>1. /\ OrW(AndW(dst, NotW(n, Shl(n, 2^width - 1, zero))), Shl(n, at, zero)) = dst + (at - g) * 2^zero
        /\ dst + (at - g) * 2^zero \in 0 .. 2^n - 1
    BY <1>1, <1>2, InsertIs
  <2>2. g \in 0 .. 2^width - 1
    BY <1>1, ExtractBitsIs
  <2>3. 2^width \in Nat \ {0} /\ w \in Nat \ {0}
    BY <1>1, Powers
  <2>4. at \in Int /\ g \in Int /\ dst \in Int
    BY <1>2, <2>2, <2>3
  <2>5. q = 1
    BY Powers DEF zero
  <2> HIDE DEF g, q
  <2>6. dst + (at - g) * q = dst + at - g
    BY <2>4, <2>5
  <2>7. QED
    BY <2>1, <2>6 DEF g, q, zero
<1>8. /\ Ashr(n, Shl(n, at, n - width), n - width) = (Signed(SignBit(width), at) % 2^n)
      /\ (Signed(SignBit(width), at) % 2^n) \in 0 .. 2^n - 1
  BY <1>1, <1>2, SignExtractIs
<1>9. /\ Ashr(n, Shl(n, lows, n - width), n - width) = (Signed(SignBit(width), lows) % 2^n)
      /\ (Signed(SignBit(width), lows) % 2^n) \in 0 .. 2^n - 1 /\ Signed(SignBit(width), lows) \in Int
  BY <1>1, <1>3, SignExtractIs
<1>10. Shl(n, lows, lsb) = lows * 2^lsb /\ lows * 2^lsb \in 0 .. 2^n - 1
  BY <1>3, ShiftedField
<1>11. /\ Shl(n, Signed(SignBit(width), lows) % 2^n, lsb) = ((Signed(SignBit(width), lows) * 2^lsb) % 2^n)
       /\ ((Signed(SignBit(width), lows) * 2^lsb) % 2^n) \in 0 .. 2^n - 1
  <2> DEFINE sg == Signed(SignBit(width), lows)
             w == 2^n
             q == 2^lsb
             e == sg % w
  <2>1. e \in 0 .. 2^n - 1 /\ sg \in Int
    BY <1>9
  <2>2. w \in Nat \ {0} /\ q \in Nat \ {0}
    BY <1>1, Powers
  <2> HIDE DEF e, sg
  <2>3. Shl(n, e, lsb) = ((e * q) % w)
    BY <1>1, <2>1, ShiftsAreWords
  <2> HIDE DEF w, q
  <2>4. (((sg % w) * q) % w) = ((sg * q) % w)
    <3>1. sg \in Int /\ q \in Int /\ w \in Nat \ {0}
      BY <2>1, <2>2
    <3>2. QED
      BY <3>1, ModOfMod
  <2>5. ((sg * q) % w) \in 0 .. w - 1
    <3> DEFINE z == sg * q
    <3>1. z \in Int
      BY <2>1, <2>2
    <3> HIDE DEF z
    <3>2. (z % w) \in 0 .. w - 1
      BY <2>2, <3>1, ModIn
    <3>3. QED
      BY <3>2 DEF z
  <2>6. QED
    BY <2>3, <2>4, <2>5 DEF e, sg, w, q
<1>12. QED
  BY <1>2, <1>3, <1>4, <1>5, <1>6, <1>7, <1>8, <1>9, <1>10, <1>11 DEF at, lows

\* BFI, BFXIL, UBFX, SBFX, UBFIZ and SBFIZ.
LEMMA BitfieldStep64 ==
  ASSUME NEW i, A64Operands(i), i.op \in A64Bitfields, NEW m, NEW h, InStep64(m, h)
  PROVE  InStep64(LowerBitfield(i, m), ArchBitfield(i, h))
<1> DEFINE n == Width(i)
           src == Source(i, m, i.b)
           dst == Source(i, m, i.d)
           lows == Field(src, 0, i.width)
           at == Field(src, i.lsb, i.width)
           v == IF i.op = "BFI" THEN dst + (lows - Field(dst, i.lsb, i.width)) * 2^i.lsb
                ELSE IF i.op = "BFXIL" THEN dst + at - Field(dst, 0, i.width)
                ELSE IF i.op = "UBFX" THEN at
                ELSE IF i.op = "SBFX" THEN Signed(SignBit(i.width), at) % 2^n
                ELSE IF i.op = "UBFIZ" THEN lows * 2^i.lsb
                ELSE (Signed(SignBit(i.width), lows) * 2^i.lsb) % 2^n
           u == IF i.op = "BFI" THEN InsertBits(n, src, dst, i.lsb, i.width, 0)
                ELSE IF i.op = "BFXIL" THEN InsertBits(n, src, dst, 0, i.width, i.lsb)
                ELSE IF i.op = "UBFX" THEN ExtractBits(n, src, i.lsb, i.width, FALSE)
                ELSE IF i.op = "SBFX" THEN ExtractBits(n, src, i.lsb, i.width, TRUE)
                ELSE IF i.op = "UBFIZ" THEN Shl(n, ExtractBits(n, src, 0, i.width, FALSE), i.lsb)
                ELSE Shl(n, ExtractBits(n, src, 0, i.width, TRUE), i.lsb)
<1>1. /\ i.w \in BOOLEAN /\ i.d \in Registers \cup {ZR} /\ A64Source(i.b) /\ A64Source(i.d)
      /\ i.lsb \in Nat /\ i.width \in Nat \ {0} /\ i.lsb + i.width <= n
  BY DEF A64Operands, A64Bitfields, A64Sets, A64Unary, A64Source
<1>2. n \in 1 .. MaxBits /\ Word(SignBit(n)) = 0 .. 2^n - 1
  <2>1. n \in Nat \ {0} /\ n \in 0 .. MaxBits /\ Word(SignBit(n)) = 0 .. 2^n - 1
    BY <1>1, Width64
  <2> HIDE DEF n
  <2>2. QED
    BY <2>1, MaxBitsAssumption
<1>3. src = Source(i, h, i.b) /\ dst = Source(i, h, i.d) /\ src \in 0 .. 2^n - 1 /\ dst \in 0 .. 2^n - 1
  BY <1>1, Sources64
<1>4. LowerBitfield(i, m) = StoreReg(m, i.d, u)
  BY DEF LowerBitfield, A64Bitfields
<1>5. ArchBitfield(i, h) = StoreReg(h, i.d, v)
  BY <1>3 DEF ArchBitfield, A64Bitfields
<1> HIDE DEF src, dst, n
<1>6. u = v /\ v \in 0 .. 2^n - 1
  <2>1. /\ InsertBits(n, src, dst, i.lsb, i.width, 0) = dst + (lows - Field(dst, i.lsb, i.width)) * 2^i.lsb
        /\ dst + (lows - Field(dst, i.lsb, i.width)) * 2^i.lsb \in 0 .. 2^n - 1
        /\ InsertBits(n, src, dst, 0, i.width, i.lsb) = dst + at - Field(dst, 0, i.width)
        /\ dst + at - Field(dst, 0, i.width) \in 0 .. 2^n - 1
        /\ ExtractBits(n, src, i.lsb, i.width, FALSE) = at /\ at \in 0 .. 2^n - 1
        /\ ExtractBits(n, src, i.lsb, i.width, TRUE) = (Signed(SignBit(i.width), at) % 2^n)
        /\ (Signed(SignBit(i.width), at) % 2^n) \in 0 .. 2^n - 1
        /\ Shl(n, ExtractBits(n, src, 0, i.width, FALSE), i.lsb) = lows * 2^i.lsb
        /\ lows * 2^i.lsb \in 0 .. 2^n - 1
        /\ Shl(n, ExtractBits(n, src, 0, i.width, TRUE), i.lsb) = ((Signed(SignBit(i.width), lows) * 2^i.lsb) % 2^n)
        /\ ((Signed(SignBit(i.width), lows) * 2^i.lsb) % 2^n) \in 0 .. 2^n - 1
    <3> DEFINE l == i.lsb
               k == i.width
    <3>1. l \in Nat /\ k \in Nat \ {0} /\ l + k <= n /\ n \in 1 .. MaxBits /\ src \in 0 .. 2^n - 1 /\ dst \in 0 .. 2^n - 1
      BY <1>1, <1>2, <1>3
    <3> HIDE DEF l, k
    <3>2. /\ InsertBits(n, src, dst, l, k, 0) = dst + (Field(src, 0, k) - Field(dst, l, k)) * 2^l
          /\ dst + (Field(src, 0, k) - Field(dst, l, k)) * 2^l \in 0 .. 2^n - 1
          /\ InsertBits(n, src, dst, 0, k, l) = dst + Field(src, l, k) - Field(dst, 0, k)
          /\ dst + Field(src, l, k) - Field(dst, 0, k) \in 0 .. 2^n - 1
          /\ ExtractBits(n, src, l, k, FALSE) = Field(src, l, k) /\ Field(src, l, k) \in 0 .. 2^n - 1
          /\ ExtractBits(n, src, l, k, TRUE) = (Signed(SignBit(k), Field(src, l, k)) % 2^n)
          /\ (Signed(SignBit(k), Field(src, l, k)) % 2^n) \in 0 .. 2^n - 1
          /\ Shl(n, ExtractBits(n, src, 0, k, FALSE), l) = Field(src, 0, k) * 2^l
          /\ Field(src, 0, k) * 2^l \in 0 .. 2^n - 1
          /\ Shl(n, ExtractBits(n, src, 0, k, TRUE), l) = ((Signed(SignBit(k), Field(src, 0, k)) * 2^l) % 2^n)
          /\ ((Signed(SignBit(k), Field(src, 0, k)) * 2^l) % 2^n) \in 0 .. 2^n - 1
      BY <3>1, BitfieldIs, Zenon
    <3>3. QED
      BY <3>2 DEF l, k
  <2> HIDE DEF lows, at
  <2>2. QED
    BY <2>1
<1> HIDE DEF u, v
<1>7. v \in Word(SignBit(XBits))
  <2>1. v \in Word(SignBit(n))
    BY <1>2, <1>6
  <2>2. QED
    BY <1>1, <2>1, Narrow64 DEF n
<1>8. QED
  BY <1>1, <1>4, <1>5, <1>6, <1>7, Store64

-----------------------------------------------------------------------------
(***************************************************************************)
(* Fields of k bits: where they go, and that they make up the word.        *)
(***************************************************************************)
\* A field is a number of its bits.
LEMMA FieldIn ==
  ASSUME NEW x \in Int, NEW l \in Nat, NEW k \in Nat
  PROVE  /\ Field(x, l, k) \in 0 .. 2^k - 1 /\ x \div 2^l \in Int /\ (x % 2^l) \in Int
         /\ x \in 0 .. 2^k - 1 => Field(x, 0, k) = x
         /\ x \in 0 .. 2^l - 1 => Field(x, l, k) = 0
<1> DEFINE q == 2^l
           p == 2^k
           d == x \div q
           r == x % q
<1>1. q \in Nat \ {0} /\ p \in Nat \ {0} /\ 2^0 = 1
  BY Powers
<1>2. Field(x, l, k) = (d % p) /\ Field(x, 0, k) = ((x \div 1) % p)
  BY <1>1 DEF Field
<1> HIDE DEF q, p
<1>3. d \in Int /\ (x \in 0 .. q - 1 => d = 0) /\ x \div 1 = x /\ r \in Int
  BY <1>1, DivMod
<1>4. (x % p) \in 0 .. p - 1 /\ (x \in 0 .. p - 1 => (x % p) = x)
  BY <1>1, ModIn
<1> HIDE DEF d, r
<1>5. (d % p) \in 0 .. p - 1 /\ (d \in 0 .. p - 1 => (d % p) = d)
  BY <1>1, <1>3, ModIn
<1>6. d = 0 => (d % p) = 0
  <2>1. 0 \in 0 .. p - 1
    BY <1>1
  <2>2. QED
    BY <1>5, <2>1
<1>7. QED
  BY <1>2, <1>3, <1>4, <1>5, <1>6 DEF p, q, d, r

\* A field of a word shifted down.
LEMMA FieldOfDiv ==
  ASSUME NEW x \in Int, NEW m \in Nat, NEW l \in Nat, NEW k \in Nat
  PROVE  Field(x \div 2^m, l, k) = Field(x, m + l, k)
<1> DEFINE q == 2^m
           p == 2^l
<1>1. q \in Nat \ {0} /\ p \in Nat \ {0} /\ 2^(m + l) = q * p
  BY Powers, PowerSum
<1> HIDE DEF q, p
<1>2. x \div (q * p) = (x \div q) \div p
  BY <1>1, DivByProduct
<1>3. QED
  BY <1>1, <1>2 DEF Field, q, p

\* Bits u above the m bits of v.
Join(u, m, v) == u * 2^m + v

\* A field below what is added.
LEMMA FieldOfJoin ==
  ASSUME NEW u \in Int, NEW v \in Int, NEW m \in Nat, NEW l \in Nat, NEW k \in Nat, l + k <= m
  PROVE  Field(Join(u, m, v), l, k) = Field(v, l, k)
<1> DEFINE d == m - l - k
           lk == l + k
           q == 2^l
           p == 2^k
           r == 2^d
           w == 2^m
           f == u * r
           e == f * p
<1>1. d \in Nat /\ lk \in Nat /\ m = d + lk
  OBVIOUS
<1>2. q \in Nat \ {0} /\ p \in Nat \ {0} /\ r \in Nat \ {0} /\ w = r * (q * p)
  <2>1. 2^(l + k) = q * p
    BY PowerSum
  <2> HIDE DEF d, lk
  <2>2. 2^(d + lk) = r * 2^lk
    BY <1>1, PowerSum
  <2>3. q \in Nat \ {0} /\ p \in Nat \ {0} /\ r \in Nat \ {0}
    BY <1>1, Powers
  <2>4. QED
    BY <1>1, <2>1, <2>2, <2>3 DEF lk
<1>3. Field(u * w + v, l, k) = (((u * w + v) \div q) % p) /\ Field(v, l, k) = ((v \div q) % p)
  BY DEF Field
<1> HIDE DEF q, p, r, w, d, lk
<1>4. f \in Int
  BY <1>2
<1>5. u * w = e * q
  <2>1. u * (r * (q * p)) = ((u * r) * p) * q
    BY <1>2
  <2>2. QED
    BY <1>2, <2>1
<1> HIDE DEF f
<1>6. e \in Int
  BY <1>2, <1>4
<1>7. u * w + v = v + e * q
  <2> DEFINE y == e * q
  <2>1. y \in Int /\ u * w = y
    BY <1>2, <1>5, <1>6
  <2> HIDE DEF y, e
  <2>2. y + v = v + y
    BY <2>1
  <2>3. QED
    BY <2>1, <2>2 DEF y
<1>8. (v + e * q) \div q = v \div q + e
  <2> HIDE DEF e
  <2>1. QED
    BY <1>2, <1>6, ModUp
<1> DEFINE a == v \div q
<1>9. a \in Int
  BY <1>2, DivMod
<1> HIDE DEF a
<1>10. ((a + f * p) % p) = (a % p)
  BY <1>2, <1>4, <1>9, ModUp
<1>11. Join(u, m, v) = u * w + v
  BY DEF Join, w
<1>12. QED
  BY <1>3, <1>7, <1>8, <1>10, <1>11 DEF a, e

\* The field that is added.
LEMMA HighOfJoin ==
  ASSUME NEW m \in Nat, NEW k \in Nat, NEW u \in 0 .. 2^k - 1, NEW v \in 0 .. 2^m - 1
  PROVE  Field(u * 2^m + v, m, k) = u
<1> DEFINE q == 2^m
           p == 2^k
<1>1. q \in Nat \ {0} /\ p \in Nat \ {0}
  BY Powers
<1>2. Field(u * q + v, m, k) = (((u * q + v) \div q) % p)
  BY DEF Field
<1>3. u \in 0 .. p - 1 /\ v \in 0 .. q - 1
  OBVIOUS
<1> HIDE DEF q, p
<1>4. u \in Int
  BY <1>1, <1>3
<1>5. (u * q + v) \div q = u /\ (u % p) = u
  BY <1>1, <1>3, <1>4, DivModIs, ModIn
<1>6. QED
  BY <1>2, <1>5 DEF q

\* A field of the lower bits.
LEMMA FieldOfMod ==
  ASSUME NEW x \in Int, NEW m \in Nat, NEW l \in Nat, NEW k \in Nat, l + k <= m
  PROVE  Field(x % 2^m, l, k) = Field(x, l, k)
<1> DEFINE w == 2^m
           u == x \div w
           v == x % w
<1>1. w \in Nat \ {0}
  BY Powers
<1>2. u \in Int /\ v \in Int /\ x = u * w + v
  <2> HIDE DEF w
  <2>1. u \in Int /\ v \in 0 .. w - 1 /\ x = u * w + v
    BY <1>1, DivMod
  <2> HIDE DEF u, v
  <2>2. QED
    BY <1>1, <2>1
<1> HIDE DEF u, v
<1>3. Field(Join(u, m, v), l, k) = Field(v, l, k)
  BY <1>2, FieldOfJoin
<1>4. x = Join(u, m, v)
  BY <1>2 DEF Join
<1>5. QED
  BY <1>3, <1>4 DEF v

\* A field of a field.
LEMMA FieldOfField ==
  ASSUME NEW x \in Int, NEW m \in Nat, NEW n \in Nat, NEW l \in Nat, NEW k \in Nat, l + k <= n
  PROVE  Field(Field(x, m, n), l, k) = Field(x, m + l, k)
<1> DEFINE y == x \div 2^m
<1>1. y \in Int /\ Field(x, m, n) = (y % 2^n)
  BY FieldIn DEF Field
<1>2. Field(y, l, k) = Field(x, m + l, k)
  BY FieldOfDiv
<1> HIDE DEF y
<1>3. Field(y % 2^n, l, k) = Field(y, l, k)
  BY <1>1, FieldOfMod
<1>4. QED
  BY <1>1, <1>2, <1>3
\* There is a word with any fields.
LEMMA FieldsExist ==
  ASSUME NEW k \in Nat, NEW g, \A j \in Nat : g[j] \in 0 .. 2^k - 1, NEW c \in Nat
  PROVE  \E y \in 0 .. 2^(c * k) - 1 : \A j \in 0 .. c - 1 : Field(y, j * k, k) = g[j]
<1> DEFINE Has(y, e) == \A j \in 0 .. e - 1 : Field(y, j * k, k) = g[j]
           S == {e \in Nat : \E y \in 0 .. 2^(e * k) - 1 : Has(y, e)}
<1>1. 0 \in S
  <2> DEFINE z == 0
  <2>1. z \in Nat /\ z * k \in Nat
    OBVIOUS
  <2>2. 2^(z * k) \in Nat \ {0}
    BY <2>1, Powers
  <2>3. 0 \in 0 .. 2^(z * k) - 1
    BY <2>2
  <2>4. Has(0, z)
    OBVIOUS
  <2>5. QED
    BY <2>1, <2>3, <2>4
<1>2. ASSUME NEW e \in Nat, e \in S PROVE e + 1 \in S
  <2> DEFINE m == e * k
             n == (e + 1) * k
  <2>1. m \in Nat /\ n \in Nat /\ n = m + k /\ m \in 0 .. n /\ n - m = k
    OBVIOUS
  <2>2. PICK y \in 0 .. 2^m - 1 : Has(y, e)
    BY <1>2
  <2> DEFINE z == g[e] * 2^m + y
  <2>3. g[e] \in 0 .. 2^(n - m) - 1
    BY <2>1
  <2>4. z \in 0 .. 2^n - 1
    <3> HIDE DEF m, n
    <3>1. QED
      BY <2>1, <2>3, JoinWord
  <2>5. g[e] \in Int /\ y \in Int
    <3>1. 2^k \in Nat /\ 2^m \in Nat
      BY <2>1, Powers
    <3>2. QED
      BY <3>1
  <2>6. ASSUME NEW j \in 0 .. e - 1 PROVE Field(z, j * k, k) = g[j]
    <3> DEFINE l == j * k
               u == g[e]
    <3>1. l \in Nat /\ l + k <= m
      <4>1. (j + 1) * k <= e * k /\ (j + 1) * k = j * k + k
        OBVIOUS
      <4>2. QED
        BY <4>1
    <3>2. u \in Int
      BY <2>5
    <3> HIDE DEF l, m, u
    <3>3. Field(Join(u, m, y), l, k) = Field(y, l, k)
      BY <2>1, <2>5, <3>1, <3>2, FieldOfJoin
    <3>4. Field(y, l, k) = g[j]
      BY <2>2 DEF l
    <3>5. QED
      BY <3>3, <3>4 DEF l, u, Join
  <2>7. Field(z, e * k, k) = g[e]
    <3> DEFINE u == g[e]
    <3>1. u \in 0 .. 2^k - 1
      OBVIOUS
    <3> HIDE DEF u, m
    <3>2. Field(u * 2^m + y, m, k) = u
      BY <2>1, <3>1, HighOfJoin
    <3>3. QED
      BY <3>2 DEF u, m
  <2>8. Has(z, e + 1)
    <3>1. ASSUME NEW j \in 0 .. (e + 1) - 1 PROVE j \in 0 .. e - 1 \/ j = e
      OBVIOUS
    <3> HIDE DEF z
    <3>2. QED
      BY <2>6, <2>7, <3>1
  <2>9. QED
    <3> HIDE DEF Has, z
    <3>1. QED
      BY <2>4, <2>8
<1>3. Nat \subseteq S
  <2> HIDE DEF S
  <2>1. QED
    BY <1>1, <1>2, Induct
<1>4. QED
  BY <1>3

\* There is one word with the fields it has.
LEMMA FieldsUnique ==
  ASSUME NEW k \in Nat, NEW c \in Nat, NEW x \in 0 .. 2^(c * k) - 1, NEW z \in 0 .. 2^(c * k) - 1,
         \A j \in 0 .. c - 1 : Field(x, j * k, k) = Field(z, j * k, k)
  PROVE  x = z
<1> DEFINE Same(u, v, e) == \A j \in 0 .. e - 1 : Field(u, j * k, k) = Field(v, j * k, k)
           S == {e \in Nat : \A u, v \in 0 .. 2^(e * k) - 1 : Same(u, v, e) => u = v}
<1>1. 0 \in S
  <2> DEFINE o == 0
  <2>1. o \in Nat /\ 2^(o * k) = 1
    <3>1. o \in Nat /\ o * k = 0
      OBVIOUS
    <3> HIDE DEF o
    <3>2. QED
      BY <3>1, Powers
  <2>2. \A u, v \in 0 .. 2^(o * k) - 1 : u = v
    BY <2>1
  <2>3. QED
    BY <2>1, <2>2
<1>2. ASSUME NEW e \in Nat, e \in S PROVE e + 1 \in S
  <2> DEFINE m == e * k
             n == (e + 1) * k
  <2>1. m \in Nat /\ n \in Nat /\ n = m + k /\ m \in 0 .. n /\ n - m = k
    OBVIOUS
  <2>2. SUFFICES ASSUME NEW u \in 0 .. 2^n - 1, NEW v \in 0 .. 2^n - 1, Same(u, v, e + 1) PROVE u = v
    <3> HIDE DEF Same
    <3>1. QED
      OBVIOUS
  <2>3. /\ u \div 2^m \in 0 .. 2^k - 1 /\ (u % 2^m) \in 0 .. 2^m - 1 /\ u = (u \div 2^m) * 2^m + (u % 2^m)
        /\ v \div 2^m \in 0 .. 2^k - 1 /\ (v % 2^m) \in 0 .. 2^m - 1 /\ v = (v \div 2^m) * 2^m + (v % 2^m)
    <3> HIDE DEF m, n
    <3>1. QED
      BY <2>1, SplitWord
  <2>4. u \in Int /\ v \in Int
    <3>1. 2^n \in Nat
      BY <2>1, Powers
    <3>2. QED
      BY <3>1
  <2>5. u \div 2^m = v \div 2^m
    <3>1. Field(u, m, k) = Field(v, m, k)
      <4>1. e \in 0 .. (e + 1) - 1
        OBVIOUS
      <4>2. QED
        BY <2>2, <4>1
    <3> DEFINE p == u \div 2^m
               q == v \div 2^m
               w == 2^k
    <3>2. Field(u, m, k) = (p % w) /\ Field(v, m, k) = (q % w) /\ p \in 0 .. w - 1 /\ q \in 0 .. w - 1 /\ w \in Nat \ {0}
      BY <2>3, Powers DEF Field
    <3> HIDE DEF p, q, w, m
    <3>3. p \in Int /\ q \in Int
      BY <3>2
    <3>4. (p % w) = p /\ (q % w) = q
      BY <3>2, <3>3, ModIn
    <3>5. p = q
      BY <3>1, <3>2, <3>4
    <3>6. QED
      BY <3>5 DEF p, q
  <2>6. (u % 2^m) = (v % 2^m)
    <3>1. ASSUME NEW j \in 0 .. e - 1 PROVE Field(u % 2^m, j * k, k) = Field(v % 2^m, j * k, k)
      <4> DEFINE l == j * k
      <4>1. l \in Nat /\ l + k <= m
        <5>1. (j + 1) * k <= e * k /\ (j + 1) * k = j * k + k
          OBVIOUS
        <5>2. QED
          BY <5>1
      <4>2. Field(u, l, k) = Field(v, l, k)
        <5>1. j \in 0 .. (e + 1) - 1
          OBVIOUS
        <5>2. QED
          BY <2>2, <5>1
      <4> HIDE DEF l, m
      <4>3. Field(u % 2^m, l, k) = Field(u, l, k) /\ Field(v % 2^m, l, k) = Field(v, l, k)
        BY <2>1, <2>4, <4>1, FieldOfMod
      <4>4. QED
        BY <4>2, <4>3 DEF l
    <3> DEFINE a == u % 2^m
               b == v % 2^m
    <3>2. a \in 0 .. 2^(e * k) - 1 /\ b \in 0 .. 2^(e * k) - 1 /\ Same(a, b, e)
      BY <2>3, <3>1
    <3> HIDE DEF a, b, Same
    <3>3. a = b
      BY <1>2, <3>2
    <3>4. QED
      BY <3>3 DEF a, b
  <2>7. QED
    BY <2>3, <2>5, <2>6
<1>3. Nat \subseteq S
  <2> HIDE DEF S
  <2>1. QED
    BY <1>1, <1>2, Induct
<1>4. c \in S /\ Same(x, z, c)
  BY <1>3
<1> HIDE DEF Same
<1>5. QED
  BY <1>4

\* A product by the number of fields, field by field.
LEMMA FieldPlaces ==
  ASSUME NEW k \in Nat \ {0}, NEW c \in Nat, NEW j \in 0 .. c - 1
  PROVE  /\ j * k \in Nat /\ c * k \in Nat /\ j * k + k <= c * k /\ c * k - k - j * k \in Nat
         /\ (c * k) \div k = c
<1>1. (j + 1) * k <= c * k /\ (j + 1) * k = j * k + k
  OBVIOUS
<1>2. (c * k) \div k = c
  <2> DEFINE z == 0
             y == c * k
  <2>1. z \in 0 .. k - 1 /\ y \in Int /\ y + z = y
    OBVIOUS
  <2> HIDE DEF z
  <2>2. (c * k + z) \div k = c
    BY <2>1, DivModIs
  <2>3. QED
    BY <2>1, <2>2
<1>3. j * k \in Nat /\ c * k \in Nat
  OBVIOUS
<1>4. QED
  BY <1>1, <1>2, <1>3

\* bitreverse and bswap are defined.
LEMMA SwapIs ==
  ASSUME NEW k \in Nat \ {0}, NEW c \in Nat \ {0}, NEW x \in Int
  PROVE  /\ Swap(c * k, k, x) \in 0 .. 2^(c * k) - 1
         /\ \A j \in 0 .. c - 1 : Field(Swap(c * k, k, x), j * k, k) = Field(x, c * k - k - j * k, k)
<1> DEFINE n == c * k
           g == [j \in Nat |-> IF j < c THEN Field(x, n - k - j * k, k) ELSE 0]
           P(y) == \A j \in 0 .. c - 1 : Field(y, j * k, k) = Field(x, n - k - j * k, k)
<1>1. 2^k \in Nat \ {0} /\ k \in Nat
  BY Powers
<1>2. ASSUME NEW j \in Nat PROVE g[j] \in 0 .. 2^k - 1
  <2>1. CASE j < c
    <3> DEFINE l == n - k - j * k
    <3>1. j \in 0 .. c - 1 /\ c \in Nat
      BY <2>1
    <3>2. c * k - k - j * k \in Nat
      BY <3>1, FieldPlaces
    <3>3. l \in Nat
      BY <3>2
    <3> HIDE DEF l
    <3>4. Field(x, l, k) \in 0 .. 2^k - 1
      BY <1>1, <3>3, FieldIn
    <3>5. QED
      BY <2>1, <3>4 DEF l
  <2>2. CASE ~(j < c)
    BY <1>1, <2>2
  <2>3. QED
    BY <2>1, <2>2
<1>3. n \div k = c
  <2>1. 0 \in 0 .. c - 1 /\ c \in Nat
    OBVIOUS
  <2>2. (c * k) \div k = c
    BY <2>1, FieldPlaces
  <2>3. QED
    BY <2>2
<1>4. \E y \in 0 .. 2^n - 1 : P(y)
  <2>1. \A j \in 0 .. c - 1 : g[j] = Field(x, n - k - j * k, k)
    OBVIOUS
  <2> HIDE DEF g
  <2>2. \E y \in 0 .. 2^(c * k) - 1 : \A j \in 0 .. c - 1 : Field(y, j * k, k) = g[j]
    <3>1. c \in Nat
      OBVIOUS
    <3>2. QED
      BY <1>1, <1>2, <3>1, FieldsExist
  <2>3. QED
    BY <2>1, <2>2
<1>5. Swap(n, k, x) = CHOOSE y \in 0 .. 2^n - 1 : P(y)
  BY <1>3 DEF Swap
<1>6. Swap(n, k, x) \in 0 .. 2^n - 1 /\ P(Swap(n, k, x))
  <2> HIDE DEF P
  <2>1. QED
    BY <1>4, <1>5
<1>7. QED
  BY <1>6

\* RBIT and CLZ.
LEMMA BitsStep64 ==
  ASSUME NEW i, A64Operands(i), i.op \in {"RBIT", "CLZ"}, NEW m, NEW h, InStep64(m, h)
  PROVE  InStep64(LowerBits(i, m), ArchBits(i, h))
<1> DEFINE n == XBits
           x == Eval(h, i.a)
           v == IF i.op = "RBIT" THEN Swap(n, 1, x) ELSE Ctlz(n, x)
           P(y) == \A j \in 0 .. n - 1 : Field(y, j, 1) = Field(x, n - 1 - j, 1)
           reversed == CHOOSE y \in Word(SignBit(n)) : P(y)
<1>1. i.d \in Registers \cup {ZR} /\ A64Source(i.a)
  BY DEF A64Operands, A64Bitfields, A64Sets
<1>2. n \in Nat \ {0} /\ Word(SignBit(n)) = 0 .. 2^n - 1 /\ 2^n \in Nat
  BY Widths64, SignBitIs, Powers
<1>3. x = Eval(m, i.a) /\ x \in 0 .. 2^n - 1 /\ x \in Int
  <2>1. x = Eval(m, i.a) /\ x \in 0 .. 2^n - 1
    BY <1>1, <1>2, Sources64
  <2>2. QED
    BY <1>2, <2>1
<1>4. LowerBits(i, m) = StoreReg(m, i.d, v)
  BY <1>3 DEF LowerBits
<1>5. ArchBits(i, h) = StoreReg(h, i.d, IF i.op = "CLZ" THEN Cardinality({j \in 0 .. n - 1 : x < 2^j}) ELSE reversed)
  BY DEF ArchBits
<1> HIDE DEF x, n
<1>6. Ctlz(n, x) \in 0 .. 2^n - 1 /\ Cardinality({j \in 0 .. n - 1 : x < 2^j}) = Ctlz(n, x)
  BY <1>2, <1>3, CtlzIs
<1>7. Swap(n, 1, x) \in 0 .. 2^n - 1 /\ P(Swap(n, 1, x))
  <2> DEFINE k == 1
  <2>1. k \in Nat \ {0} /\ n = n * k /\ \A j \in 0 .. n - 1 : j * k = j
    BY <1>2
  <2> HIDE DEF k
  <2>2. /\ Swap(n * k, k, x) \in 0 .. 2^(n * k) - 1
        /\ \A j \in 0 .. n - 1 : Field(Swap(n * k, k, x), j * k, k) = Field(x, n * k - k - j * k, k)
    BY <1>2, <1>3, <2>1, SwapIs
  <2>3. QED
    BY <2>1, <2>2 DEF k
<1>8. reversed = Swap(n, 1, x)
  <2> DEFINE a == Swap(n, 1, x)
  <2>1. a \in Word(SignBit(n)) /\ P(a)
    BY <1>2, <1>7
  <2>2. reversed \in Word(SignBit(n)) /\ P(reversed)
    <3> HIDE DEF a, P
    <3>1. QED
      BY <2>1
  <2> HIDE DEF reversed, a
  <2> DEFINE k == 1
  <2>3. k \in Nat /\ n * k = n /\ n \in Nat /\ \A j \in 0 .. n - 1 : j * k = j
    BY <1>2
  <2>4. \A j \in 0 .. n - 1 : Field(reversed, j * k, k) = Field(a, j * k, k)
    BY <2>1, <2>2, <2>3
  <2>5. reversed \in 0 .. 2^(n * k) - 1 /\ a \in 0 .. 2^(n * k) - 1
    BY <1>2, <2>1, <2>2, <2>3
  <2> HIDE DEF k
  <2>6. reversed = a
    BY <2>3, <2>4, <2>5, FieldsUnique
  <2>7. QED
    BY <2>6 DEF a
<1>9. ArchBits(i, h) = StoreReg(h, i.d, v)
  BY <1>5, <1>6, <1>8
<1>10. v \in Word(SignBit(n))
  BY <1>2, <1>6, <1>7
<1> HIDE DEF v
<1>11. QED
  BY <1>1, <1>4, <1>9, <1>10, Store64 DEF n

-----------------------------------------------------------------------------
(***************************************************************************)
(* Bytes.                                                                  *)
(***************************************************************************)
Byte(x, j) == Field(x, j * ByteBits, ByteBits)

\* A byte is a byte, and above the word there are none.
LEMMA ByteIn ==
  ASSUME NEW x \in Int, NEW j \in Nat
  PROVE  /\ Byte(x, j) \in 0 .. 2^ByteBits - 1
         /\ x \in 0 .. 2^(j * ByteBits) - 1 => Byte(x, j) = 0
<1> DEFINE l == j * ByteBits
<1>1. ByteBits \in Nat /\ l \in Nat
  BY Widths64
<1> HIDE DEF l
<1>2. /\ Field(x, l, ByteBits) \in 0 .. 2^ByteBits - 1
      /\ x \in 0 .. 2^l - 1 => Field(x, l, ByteBits) = 0
  BY <1>1, FieldIn
<1>3. QED
  BY <1>2 DEF Byte, l

\* Words of c bytes that have the same bytes.
LEMMA BytesUnique ==
  ASSUME NEW c \in Nat, NEW x \in 0 .. 2^(c * ByteBits) - 1, NEW z \in 0 .. 2^(c * ByteBits) - 1,
         \A j \in 0 .. c - 1 : Byte(x, j) = Byte(z, j)
  PROVE  x = z
<1> DEFINE b == ByteBits
<1>1. b \in Nat /\ x \in 0 .. 2^(c * b) - 1 /\ z \in 0 .. 2^(c * b) - 1
  BY Widths64
<1>2. \A j \in 0 .. c - 1 : Field(x, j * b, b) = Field(z, j * b, b)
  BY DEF Byte
<1> HIDE DEF b
<1>3. QED
  BY <1>1, <1>2, FieldsUnique

\* bswap reverses the bytes, and that is what it is.
LEMMA SwapBytes ==
  ASSUME NEW c \in Nat \ {0}, NEW x \in Int
  PROVE  /\ Swap(c * ByteBits, ByteBits, x) \in 0 .. 2^(c * ByteBits) - 1
         /\ \A j \in 0 .. c - 1 : Byte(Swap(c * ByteBits, ByteBits, x), j) = Byte(x, c - 1 - j)
         /\ \A v \in 0 .. 2^(c * ByteBits) - 1 :
              (\A j \in 0 .. c - 1 : Byte(v, j) = Byte(x, c - 1 - j)) => Swap(c * ByteBits, ByteBits, x) = v
<1> DEFINE s == Swap(c * ByteBits, ByteBits, x)
<1>1. ByteBits \in Nat \ {0}
  BY Widths64
<1>2. /\ s \in 0 .. 2^(c * ByteBits) - 1
      /\ \A j \in 0 .. c - 1 : Field(s, j * ByteBits, ByteBits) = Field(x, c * ByteBits - ByteBits - j * ByteBits, ByteBits)
  BY <1>1, SwapIs
<1> HIDE DEF s
<1>3. ASSUME NEW j \in 0 .. c - 1 PROVE Byte(s, j) = Byte(x, c - 1 - j)
  <2>1. c * ByteBits - ByteBits - j * ByteBits = (c - 1 - j) * ByteBits
    BY <1>1
  <2>2. QED
    BY <1>2, <2>1 DEF Byte
<1>4. ASSUME NEW v \in 0 .. 2^(c * ByteBits) - 1, \A j \in 0 .. c - 1 : Byte(v, j) = Byte(x, c - 1 - j) PROVE s = v
  <2>1. c \in Nat /\ \A j \in 0 .. c - 1 : Byte(s, j) = Byte(v, j)
    BY <1>3, <1>4
  <2>2. QED
    BY <1>2, <2>1, BytesUnique
<1>5. QED
  BY <1>2, <1>3, <1>4 DEF s

\* The bytes of part j, where a part is p bytes.
LEMMA PartBytes ==
  ASSUME NEW x \in Int, NEW p \in Nat, NEW j \in Nat, NEW t \in 0 .. p - 1
  PROVE  Byte(Field(x, j * (p * ByteBits), p * ByteBits), t) = Byte(x, j * p + t)
<1> DEFINE m == j * (p * ByteBits)
           n == p * ByteBits
           l == t * ByteBits
<1>1. ByteBits \in Nat /\ p \in Nat /\ j \in Nat /\ t \in Nat
  BY Widths64
<1>2. m \in Nat /\ n \in Nat /\ l \in Nat /\ l + ByteBits <= n
  <2>1. (t + 1) * ByteBits <= p * ByteBits /\ (t + 1) * ByteBits = t * ByteBits + ByteBits
    BY <1>1
  <2>2. n \in Nat /\ l \in Nat
    BY <1>1
  <2>3. m \in Nat
    <3> HIDE DEF n
    <3>1. j * n \in Nat
      BY <1>1, <2>2
    <3>2. QED
      BY <3>1 DEF n
  <2>4. QED
    BY <2>1, <2>2, <2>3
<1>3. m + l = (j * p + t) * ByteBits
  BY <1>1
<1> HIDE DEF m, n, l
<1>4. Field(Field(x, m, n), l, ByteBits) = Field(x, m + l, ByteBits)
  BY <1>1, <1>2, FieldOfField
<1>5. QED
  BY <1>3, <1>4 DEF Byte, m, n, l

\* The bytes of c bytes shifted by one.
LEMMA ShiftedBytes ==
  ASSUME NEW c \in Nat, c > 1, NEW x \in 0 .. 2^(c * ByteBits) - 1, NEW j \in 0 .. c - 1
  PROVE  /\ Byte(Shl(c * ByteBits, x, ByteBits), j) = IF j = 0 THEN 0 ELSE Byte(x, j - 1)
         /\ Byte(Lshr(c * ByteBits, x, ByteBits), j) = IF j = c - 1 THEN 0 ELSE Byte(x, j + 1)
         /\ Shl(c * ByteBits, x, ByteBits) \in 0 .. 2^(c * ByteBits) - 1
         /\ Lshr(c * ByteBits, x, ByteBits) \in 0 .. 2^(c * ByteBits) - 1
<1> DEFINE b == ByteBits
           n == c * b
           w == 2^n
           q == 2^b
           l == j * b
           y == x * q
<1>1. b \in Nat \ {0} /\ b \in Nat
  BY Widths64
<1> HIDE DEF b
<1>2. n \in Nat \ {0} /\ n \in Nat /\ b < n /\ l \in Nat /\ l + b <= n /\ b \in 0 .. n - 1
  <2>1. (j + 1) * b <= c * b /\ (j + 1) * b = j * b + b /\ 2 * b <= c * b
    BY <1>1
  <2>2. n \in Nat /\ l \in Nat
    BY <1>1
  <2> HIDE DEF n, l
  <2>3. 2 * b <= n /\ l + b <= n
    BY <2>1 DEF n, l
  <2>4. QED
    BY <1>1, <2>2, <2>3
<1>3. w \in Nat \ {0} /\ q \in Nat \ {0}
  <2> HIDE DEF n
  <2>1. QED
    BY <1>1, <1>2, Powers
<1>4. x \in 0 .. w - 1 /\ x \in Int /\ y \in Int
  <2>1. x \in 0 .. w - 1
    BY DEF b
  <2> HIDE DEF w, q
  <2>2. QED
    BY <1>3, <2>1
<1>5. /\ Shl(n, x, b) = (y % w) /\ Shl(n, x, b) \in 0 .. w - 1
      /\ Lshr(n, x, b) = x \div q /\ Lshr(n, x, b) \in 0 .. w - 1
  <2> HIDE DEF n
  <2>1. QED
    BY <1>2, <1>4, ShiftsAreWords
<1>6. Field(y % w, l, b) = Field(y, l, b)
  <2> HIDE DEF y, l, n
  <2>1. QED
    BY <1>1, <1>2, <1>4, FieldOfMod
<1>7. j = 0 => Field(y, l, b) = 0
  <2>1. SUFFICES ASSUME j = 0 PROVE Field(y, l, b) = 0
    OBVIOUS
  <2> DEFINE z == 0
  <2>2. l \in Nat /\ l + b <= b /\ z \in Int /\ l = 0
    BY <1>1, <2>1
  <2> HIDE DEF z, l
  <2>3. Field(Join(x, b, z), l, b) = Field(z, l, b)
    BY <1>1, <1>4, <2>2, FieldOfJoin
  <2>4. Field(z, l, b) = 0
    <3>1. 2^l \in Nat \ {0}
      BY <1>2, Powers
    <3>2. z \in 0 .. 2^l - 1
      BY <3>1 DEF z
    <3>3. QED
      BY <1>1, <2>2, <3>2, FieldIn
  <2>5. Join(x, b, z) = y
    <3>1. Join(x, b, z) = y + z
      BY DEF Join
    <3> HIDE DEF y
    <3>2. QED
      BY <1>4, <3>1 DEF z
  <2>6. QED
    BY <2>3, <2>4, <2>5
<1>8. j # 0 => Field(y, l, b) = Byte(x, j - 1)
  <2>1. SUFFICES ASSUME j # 0 PROVE Field(y, l, b) = Byte(x, j - 1)
    OBVIOUS
  <2> DEFINE k == (j - 1) * b
  <2>2. k \in Nat /\ b + k = l
    <3>1. (j - 1) * b = j * b - b /\ j - 1 \in Nat
      BY <1>1, <2>1
    <3>2. k \in Nat
      BY <1>1, <3>1
    <3>3. QED
      BY <1>1, <1>2, <3>1, <3>2
  <2>3. y \div q = x
    <3> DEFINE z == 0
    <3>1. z \in 0 .. q - 1
      BY <1>3
    <3> HIDE DEF z, q
    <3>2. (x * q + z) \div q = x
      BY <1>3, <1>4, <3>1, DivModIs
    <3>3. x * q + z = y
      <4>1. y \in Int
        BY <1>4
      <4> HIDE DEF y
      <4>2. y + z = y
        BY <4>1 DEF z
      <4>3. QED
        BY <4>2 DEF y
    <3>4. QED
      BY <3>2, <3>3
  <2> HIDE DEF k, y
  <2>4. Field(y \div 2^b, k, b) = Field(y, b + k, b)
    BY <1>1, <1>4, <2>2, FieldOfDiv
  <2>5. QED
    BY <2>2, <2>3, <2>4 DEF Byte, k, b
<1>9. Field(x \div q, l, b) = Byte(x, j + 1)
  <2>1. b + l = (j + 1) * b
    BY <1>1
  <2> HIDE DEF l
  <2>2. Field(x \div 2^b, l, b) = Field(x, b + l, b)
    BY <1>1, <1>2, <1>4, FieldOfDiv
  <2>3. QED
    BY <2>1, <2>2 DEF Byte, b
<1>10. j = c - 1 => Byte(x, j + 1) = 0
  <2>1. SUFFICES ASSUME j = c - 1 PROVE Byte(x, j + 1) = 0
    OBVIOUS
  <2>2. j + 1 = c /\ j + 1 \in Nat
    BY <2>1
  <2>3. QED
    BY <1>4, <2>2, ByteIn
<1>11. QED
  BY <1>5, <1>6, <1>7, <1>8, <1>9, <1>10 DEF Byte, b
\* And, or and complement work byte by byte.
LEMMA OpField ==
  ASSUME NEW b \in Pure, NEW n \in 0 .. MaxBits, NEW x \in 0 .. 2^n - 1, NEW y \in 0 .. 2^n - 1,
         NEW l \in Nat, NEW k \in Nat, l + k <= n
  PROVE  Field(OpW(b, x, y), l, k) = OpW(b, Field(x, l, k), Field(y, l, k))
<1> DEFINE q == 2^l
           p == 2^k
           s == n - l
           xd == x \div q
           yd == y \div q
<1>1. /\ n \in Nat /\ l \in 0 .. n /\ l \in 0 .. MaxBits /\ k \in 0 .. MaxBits /\ k \in 0 .. s /\ s \in 0 .. MaxBits /\ s \in Nat
  BY MaxBitsAssumption
<1>2. q \in Nat \ {0} /\ p \in Nat \ {0}
  BY Powers
<1>3. \A z \in 0 .. MaxBits : 0 .. 2^z - 1 \subseteq AllWords
  BY NarrowWords, MaxBitsAssumption DEF AllWords
<1>4. /\ xd \in 0 .. 2^s - 1 /\ (x % q) \in 0 .. 2^l - 1 /\ yd \in 0 .. 2^s - 1 /\ (y % q) \in 0 .. 2^l - 1
  BY <1>1, SplitWord
<1>5. x \in AllWords /\ y \in AllWords /\ xd \in AllWords /\ yd \in AllWords
  <2> HIDE DEF xd, yd, s
  <2>1. QED
    BY <1>1, <1>3, <1>4
<1>6. OpW(b, x, y) = OpW(b, xd, yd) * q + OpW(b, x % q, y % q)
  BY <1>5, OpSplit
<1> DEFINE u == OpW(b, xd, yd)
           v == OpW(b, x % q, y % q)
<1>7. u \in 0 .. 2^s - 1
  <2> HIDE DEF xd, yd, s
  <2>1. QED
    BY <1>1, <1>4, OpBits
<1>8. v \in 0 .. q - 1
  <2> DEFINE xm == x % q
             ym == y % q
  <2>1. xm \in 0 .. 2^l - 1 /\ ym \in 0 .. 2^l - 1
    BY <1>4
  <2> HIDE DEF xm, ym
  <2>2. OpW(b, xm, ym) \in 0 .. 2^l - 1
    BY <1>1, <2>1, OpBits
  <2>3. QED
    BY <2>2 DEF xm, ym
<1>9. OpW(b, x, y) \div q = u
  <2> HIDE DEF u, v, q
  <2>1. 2^s \in Nat
    BY <1>1, Powers
  <2>2. u \in Int
    BY <1>7, <2>1
  <2>3. (u * q + v) \div q = u
    BY <1>2, <1>8, <2>2, DivModIs
  <2>4. OpW(b, x, y) = u * q + v
    BY <1>6 DEF u, v
  <2>5. QED
    BY <2>3, <2>4
<1>10. (u % p) = OpW(b, xd % p, yd % p)
  <2> HIDE DEF xd, yd, s
  <2>1. u = OpW(b, xd \div p, yd \div p) * p + OpW(b, xd % p, yd % p)
    BY <1>5, OpSplit
  <2> DEFINE xh == xd \div p
             yh == yd \div p
             xl == xd % p
             yl == yd % p
             sk == s - k
  <2>2. xh \in 0 .. 2^sk - 1 /\ yh \in 0 .. 2^sk - 1 /\ xl \in 0 .. 2^k - 1 /\ yl \in 0 .. 2^k - 1
    BY <1>1, <1>4, SplitWord
  <2>3. sk \in 0 .. MaxBits /\ sk \in Nat
    BY <1>1, MaxBitsAssumption
  <2> HIDE DEF xh, yh, xl, yl, sk
  <2>4. OpW(b, xh, yh) \in 0 .. 2^sk - 1 /\ OpW(b, xl, yl) \in 0 .. 2^k - 1
    BY <1>1, <2>2, <2>3, OpBits
  <2> DEFINE a == OpW(b, xh, yh)
             c == OpW(b, xl, yl)
  <2>5. a \in Int /\ c \in 0 .. p - 1
    <3>1. 2^sk \in Nat
      BY <2>3, Powers
    <3>2. QED
      BY <2>4, <3>1
  <2> HIDE DEF a, c, p
  <2>6. ((a * p + c) % p) = c
    BY <1>2, <2>5, DivModIs
  <2>7. u = a * p + c
    BY <2>1 DEF a, c, xh, yh, xl, yl
  <2>8. QED
    BY <2>6, <2>7 DEF c, xl, yl
<1>11. QED
  BY <1>9, <1>10 DEF Field

\* The complement of a word has the complements of its fields.
LEMMA NotField ==
  ASSUME NEW n \in Nat, NEW x \in 0 .. 2^n - 1, NEW l \in Nat, NEW k \in Nat, l + k <= n
  PROVE  NotW(n, x) \in 0 .. 2^n - 1 /\ Field(NotW(n, x), l, k) = 2^k - 1 - Field(x, l, k)
<1> DEFINE s == n - l
           t == s - k
           q == 2^l
           p == 2^k
           r == 2^t
           a == x \div q
           b == x % q
           u == a \div p
           f == a % p
           e == r - 1 - u
           g == p - 1 - f
           c == q - 1 - b
<1>1. l \in 0 .. n /\ s \in Nat /\ k \in 0 .. s /\ t \in Nat
  OBVIOUS
<1>2. /\ q \in Nat \ {0} /\ p \in Nat \ {0} /\ r \in Nat \ {0} /\ 2^n \in Nat \ {0}
      /\ a \in 0 .. 2^s - 1 /\ b \in 0 .. q - 1 /\ x = a * q + b /\ 2^n = 2^s * q
  <2>1. q \in Nat \ {0} /\ p \in Nat \ {0} /\ r \in Nat \ {0} /\ 2^n \in Nat \ {0}
    BY <1>1, Powers
  <2>2. QED
    BY <1>1, <2>1, SplitWord
<1>3. u \in 0 .. r - 1 /\ f \in 0 .. p - 1 /\ a = u * p + f /\ 2^s = r * p
  <2> HIDE DEF a, s
  <2>1. QED
    BY <1>1, <1>2, SplitWord
<1>4. Field(x, l, k) = f
  BY DEF Field
<1>5. e \in Int /\ g \in 0 .. p - 1 /\ c \in 0 .. q - 1
  BY <1>2, <1>3
<1>6. NotW(n, x) = (e * p + g) * q + c
  <2>1. NotW(n, x) = 2^n - 1 - x
    BY DEF NotW
  <2>2. 2^n = r * p * q /\ x = (u * p + f) * q + b
    BY <1>2, <1>3
  <2> HIDE DEF q, p, r, a, b, u, f
  <2>3. u \in Int /\ f \in Int /\ b \in Int /\ q \in Int /\ p \in Int /\ r \in Int
    BY <1>2, <1>3
  <2>4. (e * p + g) * q = r * p * q - q - (u * p + f) * q
    <3>1. e * p + g = r * p - 1 - (u * p + f)
      <4>1. e * p = r * p - p - u * p
        BY <2>3
      <4> DEFINE ep == e * p
                 rp == r * p
                 up == u * p
      <4>2. ep = rp - p - up /\ rp \in Int /\ up \in Int
        BY <2>3, <4>1
      <4> HIDE DEF ep, rp, up
      <4>3. ep + g = rp - 1 - (up + f)
        BY <2>3, <4>2
      <4>4. QED
        BY <4>3 DEF ep, rp, up
    <3> DEFINE rp == r * p
               d == u * p + f
    <3>2. e * p + g = rp - 1 - d /\ rp \in Int /\ d \in Int
      BY <2>3, <3>1
    <3> HIDE DEF rp, d
    <3>3. (rp - 1 - d) * q = rp * q - q - d * q
      BY <2>3, <3>2
    <3>4. QED
      BY <3>2, <3>3 DEF rp, d
  <2> DEFINE lhs == (e * p + g) * q
             full == r * p * q
             mine == (u * p + f) * q
  <2>5. lhs = full - q - mine /\ full \in Int /\ mine \in Int /\ 2^n = full /\ x = mine + b
    BY <2>2, <2>3, <2>4
  <2> HIDE DEF lhs, full, mine
  <2>6. 2^n - 1 - x = lhs + c
    BY <2>3, <2>5
  <2>7. QED
    BY <2>1, <2>6 DEF lhs
<1>7. NotW(n, x) \in 0 .. 2^n - 1
  BY <1>2 DEF NotW
<1> DEFINE y == e * p + g
<1>8. NotW(n, x) \div q = y /\ (y % p) = g
  <2> HIDE DEF e, g, c, q, p
  <2>1. (e * p + g) % p = g
    BY <1>2, <1>5, DivModIs
  <2>2. y \in Int
    BY <1>2, <1>5
  <2> HIDE DEF y
  <2>3. (y * q + c) \div q = y
    BY <1>2, <1>5, <2>2, DivModIs
  <2>4. QED
    BY <1>6, <2>1, <2>3 DEF y
<1>9. Field(NotW(n, x), l, k) = g
  BY <1>8 DEF Field
<1>10. QED
  BY <1>4, <1>7, <1>9

\* Where a byte lies in a word of c bytes.
LEMMA BytePlace ==
  ASSUME NEW c \in Nat \ {0}, NEW j \in 0 .. c - 1
  PROVE  j * ByteBits \in Nat /\ c * ByteBits \in Nat /\ j * ByteBits + ByteBits <= c * ByteBits /\ j \in Nat
<1> DEFINE b == ByteBits
<1>1. b \in Nat \ {0} /\ c \in Nat
  BY Widths64
<1> HIDE DEF b
<1>2. j * b \in Nat /\ c * b \in Nat /\ j * b + b <= c * b
  BY <1>1, FieldPlaces
<1>3. QED
  BY <1>2 DEF b

\* Bit operations on words of c bytes, byte by byte.
LEMMA ByteOps ==
  ASSUME NEW c \in Nat \ {0}, c * ByteBits \in 0 .. MaxBits, NEW x \in 0 .. 2^(c * ByteBits) - 1,
         NEW y \in 0 .. 2^(c * ByteBits) - 1, NEW j \in 0 .. c - 1
  PROVE  /\ Byte(AndW(x, y), j) = AndW(Byte(x, j), Byte(y, j)) /\ Byte(OrW(x, y), j) = OrW(Byte(x, j), Byte(y, j))
         /\ Byte(NotW(c * ByteBits, x), j) = 2^ByteBits - 1 - Byte(x, j)
         /\ NotW(c * ByteBits, x) \in 0 .. 2^(c * ByteBits) - 1
<1> DEFINE n == c * ByteBits
           l == j * ByteBits
           b == ByteBits
<1>1. n \in 0 .. MaxBits /\ n \in Nat /\ l \in Nat /\ l + b <= n /\ b \in Nat
  BY BytePlace, Widths64
<1>2. x \in 0 .. 2^n - 1 /\ y \in 0 .. 2^n - 1
  OBVIOUS
<1> HIDE DEF n, l, b
<1>3. \A o \in Pure : Field(OpW(o, x, y), l, b) = OpW(o, Field(x, l, b), Field(y, l, b))
  BY <1>1, <1>2, OpField
<1>4. /\ Field(AndW(x, y), l, b) = AndW(Field(x, l, b), Field(y, l, b))
      /\ Field(OrW(x, y), l, b) = OrW(Field(x, l, b), Field(y, l, b))
  BY <1>3, Ops
<1>5. NotW(n, x) \in 0 .. 2^n - 1 /\ Field(NotW(n, x), l, b) = 2^b - 1 - Field(x, l, b)
  BY <1>1, <1>2, NotField
<1>6. QED
  BY <1>4, <1>5 DEF Byte, n, l, b

\* 0x00ff00ff...
LEMMA EvenBytesIs ==
  ASSUME NEW c \in Nat \ {0}
  PROVE  /\ EvenBytes(c * ByteBits) \in 0 .. 2^(c * ByteBits) - 1
         /\ \A j \in 0 .. c - 1 : Byte(EvenBytes(c * ByteBits), j) = IF (j % 2) = 0 THEN 2^ByteBits - 1 ELSE 0
<1> DEFINE b == ByteBits
           n == c * b
           g == [j \in Nat |-> IF (j % 2) = 0 THEN 2^b - 1 ELSE 0]
           P(y) == \A j \in 0 .. c - 1 : Field(y, j * b, b) = IF (j % 2) = 0 THEN 2^b - 1 ELSE 0
<1>1. b \in Nat \ {0} /\ b \in Nat /\ c \in Nat
  BY Widths64
<1>2. EvenBytes(n) = CHOOSE y \in 0 .. 2^n - 1 : \A j \in 0 .. n \div b - 1 : Field(y, j * b, b) = IF (j % 2) = 0 THEN 2^b - 1 ELSE 0
  BY DEF EvenBytes
<1> HIDE DEF b
<1>3. n \div b = c
  <2>1. 0 \in 0 .. c - 1
    OBVIOUS
  <2>2. QED
    BY <1>1, <2>1, FieldPlaces
<1>4. \A j \in Nat : g[j] \in 0 .. 2^b - 1
  <2>1. 2^b \in Nat \ {0}
    BY <1>1, Powers
  <2>2. QED
    BY <2>1
<1>5. \E y \in 0 .. 2^n - 1 : P(y)
  <2>1. \A j \in 0 .. c - 1 : g[j] = IF (j % 2) = 0 THEN 2^b - 1 ELSE 0
    OBVIOUS
  <2> HIDE DEF g
  <2>2. \E y \in 0 .. 2^(c * b) - 1 : \A j \in 0 .. c - 1 : Field(y, j * b, b) = g[j]
    BY <1>1, <1>4, FieldsExist
  <2>3. QED
    BY <2>1, <2>2
<1>6. EvenBytes(n) = CHOOSE y \in 0 .. 2^n - 1 : P(y)
  BY <1>2, <1>3
<1>7. EvenBytes(n) \in 0 .. 2^n - 1 /\ P(EvenBytes(n))
  <2> HIDE DEF P
  <2>1. QED
    BY <1>5, <1>6
<1>8. QED
  BY <1>7 DEF Byte, b

\* What a reversal within parts of p bytes makes of e parts.
LEMMA ReversedIs ==
  ASSUME NEW p \in Nat \ {0}, NEW e \in Nat \ {0}, NEW x \in Int, NEW v \in 0 .. 2^(e * (p * ByteBits)) - 1,
         \A j \in 0 .. e - 1 : \A t \in 0 .. p - 1 : Byte(v, j * p + t) = Byte(x, j * p + (p - 1 - t))
  PROVE  v = CHOOSE y \in 0 .. 2^(e * (p * ByteBits)) - 1 :
               \A j \in 0 .. (e * (p * ByteBits)) \div (p * ByteBits) - 1 :
                 Field(y, j * (p * ByteBits), p * ByteBits) = Swap(p * ByteBits, ByteBits, Field(x, j * (p * ByteBits), p * ByteBits))
<1> DEFINE k == p * ByteBits
           n == e * k
           P(y) == \A j \in 0 .. n \div k - 1 : Field(y, j * k, k) = Swap(k, ByteBits, Field(x, j * k, k))
<1>1. ByteBits \in Nat \ {0} /\ k \in Nat \ {0} /\ k \in Nat /\ e \in Nat /\ p \in Nat
  <2>1. ByteBits \in Nat \ {0}
    BY Widths64
  <2>2. QED
    BY <2>1
<1>2. n \div k = e /\ n \in Nat
  <2>1. 0 \in 0 .. e - 1
    OBVIOUS
  <2> HIDE DEF k
  <2>2. QED
    BY <1>1, <2>1, FieldPlaces
<1>3. v \in Int
  <2>1. 2^n \in Nat
    BY <1>2, Powers
  <2> HIDE DEF n
  <2>2. v \in 0 .. 2^n - 1
    BY DEF n
  <2>3. QED
    BY <2>1, <2>2
<1>4. ASSUME NEW j \in 0 .. e - 1 PROVE Field(v, j * k, k) = Swap(k, ByteBits, Field(x, j * k, k))
  <2> DEFINE f == Field(v, j * k, k)
             g == Field(x, j * k, k)
  <2>1. j * k \in Nat /\ 2^k \in Nat
    <3> HIDE DEF k
    <3>1. QED
      BY <1>1, Powers
  <2>2. f \in 0 .. 2^k - 1 /\ g \in 0 .. 2^k - 1
    <3> DEFINE l == j * k
    <3> HIDE DEF l, k
    <3>1. QED
      BY <1>1, <1>3, <2>1, FieldIn DEF l
  <2>3. g \in Int
    <3> HIDE DEF g, k
    <3>1. QED
      BY <2>1, <2>2
  <2>4. ASSUME NEW t \in 0 .. p - 1 PROVE Byte(f, t) = Byte(g, p - 1 - t)
    <3>1. Byte(f, t) = Byte(v, j * p + t)
      BY <1>1, <1>3, PartBytes
    <3> DEFINE s == p - 1 - t
    <3>2. s \in 0 .. p - 1 /\ j \in Nat
      BY <1>1
    <3>3. Byte(g, s) = Byte(x, j * p + s)
      <4> HIDE DEF s
      <4>1. QED
        BY <1>1, <3>2, PartBytes
    <3>4. QED
      BY <3>1, <3>3
  <2> HIDE DEF f, g
  <2>5. Swap(p * ByteBits, ByteBits, g) = f
    BY <2>2, <2>3, <2>4, SwapBytes
  <2>6. QED
    BY <2>5 DEF f, g
<1>5. P(v) /\ v \in 0 .. 2^n - 1
  BY <1>2, <1>4
<1> DEFINE y == CHOOSE z \in 0 .. 2^n - 1 : P(z)
<1>6. P(y) /\ y \in 0 .. 2^n - 1
  <2> HIDE DEF P, n
  <2>1. QED
    BY <1>5
<1> HIDE DEF y
<1>7. \A j \in 0 .. e - 1 : Field(v, j * k, k) = Field(y, j * k, k)
  BY <1>2, <1>5, <1>6
<1>8. v = y
  <2> HIDE DEF P, k
  <2>1. v \in 0 .. 2^(e * k) - 1 /\ y \in 0 .. 2^(e * k) - 1
    BY <1>5, <1>6
  <2>2. QED
    BY <1>1, <1>7, <2>1, FieldsUnique
<1>9. QED
  BY <1>8 DEF y

\* The parts of x with their bytes reversed.
Reversed(n, part, x) ==
  CHOOSE y \in 0 .. 2^n - 1 :
    \A j \in 0 .. n \div part - 1 : Field(y, j * part, part) = Swap(part, ByteBits, Field(x, j * part, part))

\* A word with the bytes of x reversed in parts is that word.
LEMMA ReversedHas ==
  ASSUME NEW p \in Nat \ {0}, NEW e \in Nat \ {0}, NEW x \in Int, NEW v \in 0 .. 2^(e * (p * ByteBits)) - 1,
         \A j \in 0 .. e - 1 : \A t \in 0 .. p - 1 : Byte(v, j * p + t) = Byte(x, j * p + (p - 1 - t))
  PROVE  v = Reversed(e * (p * ByteBits), p * ByteBits, x)
BY ReversedIs DEF Reversed

\* A half is a whole number of pairs of bytes.
LEMMA PairsOfBytes ==
  \E e \in Nat \ {0} : WBits = (2 * e) * ByteBits /\ XBits = (2 * (2 * e)) * ByteBits
<1> DEFINE k == 2 * ByteBits
           e == WBits \div k
<1>1. k \in Nat \ {0} /\ WBits \in Nat \ {0} /\ (WBits % k) = 0 /\ ByteBits \in Nat
  BY Widths64
<1>2. e \in Nat /\ WBits = e * k
  <2>1. WBits \in Int /\ WBits >= 0
    BY <1>1
  <2> HIDE DEF k
  <2>2. e \in Nat /\ WBits = e * k + (WBits % k)
    BY <1>1, <2>1, DivMod
  <2> HIDE DEF e
  <2>3. e * k \in Nat
    BY <1>1, <2>2
  <2> DEFINE y == e * k
  <2> HIDE DEF y
  <2>4. WBits = y
    BY <1>1, <2>2, <2>3 DEF y
  <2>5. QED
    BY <2>2, <2>4 DEF y
<1> HIDE DEF e
<1>3. e # 0
  BY <1>1, <1>2
<1>4. WBits = (2 * e) * ByteBits /\ XBits = (2 * (2 * e)) * ByteBits
  <2>1. e * (2 * ByteBits) = (2 * e) * ByteBits /\ (2 * (2 * e)) * ByteBits = (2 * e) * ByteBits + (2 * e) * ByteBits
    BY <1>1, <1>2
  <2>2. XBits = WBits + WBits
    BY Widths64
  <2>3. QED
    BY <1>2, <2>1, <2>2
<1>5. QED
  BY <1>2, <1>3, <1>4

\* The bytes REV16 is made of: those at even places go up, the others down.
LEMMA SwappedPairs ==
  ASSUME NEW e \in Nat \ {0}, NEW c, c = 2 * e, c * ByteBits \in 0 .. MaxBits, NEW x \in 0 .. 2^(c * ByteBits) - 1,
         NEW v, v = OrW(Shl(c * ByteBits, AndW(x, EvenBytes(c * ByteBits)), ByteBits),
                        Lshr(c * ByteBits, AndW(x, NotW(c * ByteBits, EvenBytes(c * ByteBits))), ByteBits))
  PROVE  /\ v \in 0 .. 2^(c * ByteBits) - 1
         /\ \A j \in 0 .. c - 1 : Byte(v, j) = IF (j % 2) = 0 THEN Byte(x, j + 1) ELSE Byte(x, j - 1)
<1> DEFINE n == c * ByteBits
           mask == EvenBytes(n)
           not  == NotW(n, mask)
           lo   == AndW(x, mask)
           hi   == AndW(x, not)
           up   == Shl(n, lo, ByteBits)
           down == Lshr(n, hi, ByteBits)
           ones == 2^ByteBits - 1
<1>1. c \in Nat \ {0} /\ c \in Nat /\ c > 1 /\ n \in 0 .. MaxBits /\ v = OrW(up, down)
  OBVIOUS
<1>2. /\ mask \in 0 .. 2^n - 1
      /\ \A j \in 0 .. c - 1 : Byte(mask, j) = IF (j % 2) = 0 THEN ones ELSE 0
  BY <1>1, EvenBytesIs
<1> HIDE DEF mask, ones
<1>3. /\ not \in 0 .. 2^n - 1
      /\ \A j \in 0 .. c - 1 : Byte(not, j) = 2^ByteBits - 1 - Byte(mask, j)
  <2>1. 0 \in 0 .. c - 1
    BY <1>1
  <2>2. QED
    BY <1>1, <1>2, <2>1, ByteOps
<1> HIDE DEF not
<1>4. lo \in 0 .. 2^n - 1 /\ hi \in 0 .. 2^n - 1
  <2> HIDE DEF n
  <2>1. x \in 0 .. 2^n - 1
    BY DEF n
  <2>2. QED
    BY <1>1, <1>2, <1>3, <2>1, OpBits, Ops
<1>5. \A j \in 0 .. c - 1 : Byte(lo, j) = AndW(Byte(x, j), Byte(mask, j)) /\ Byte(hi, j) = AndW(Byte(x, j), Byte(not, j))
  BY <1>1, <1>2, <1>3, ByteOps
<1>6. ones \in Nat /\ ByteBits \in 0 .. MaxBits /\ x \in Int
  <2>1. 2^ByteBits \in Nat \ {0} /\ 2^n \in Nat
    <3> HIDE DEF n
    <3>1. QED
      BY <1>1, Widths64, Powers
  <2>2. ByteBits <= n
    <3>1. 0 \in 0 .. c - 1
      BY <1>1
    <3>2. 0 * ByteBits + ByteBits <= c * ByteBits
      BY <1>1, <3>1, BytePlace
    <3>3. QED
      BY <3>2, Widths64
  <2> HIDE DEF n
  <2>3. x \in Int
    <3>1. x \in 0 .. 2^n - 1
      BY DEF n
    <3>2. QED
      BY <2>1, <3>1
  <2>4. QED
    BY <1>1, <2>1, <2>2, <2>3, Widths64 DEF ones
<1>7. ASSUME NEW j \in 0 .. c - 1 PROVE Byte(x, j) \in 0 .. 2^ByteBits - 1
  <2>1. j \in Nat
    OBVIOUS
  <2>2. QED
    BY <1>6, <2>1, ByteIn
<1>8. \A j \in 0 .. c - 1 :
        /\ Byte(lo, j) = IF (j % 2) = 0 THEN Byte(x, j) ELSE 0
        /\ Byte(hi, j) = IF (j % 2) = 0 THEN 0 ELSE Byte(x, j)
  <2>1. SUFFICES ASSUME NEW j \in 0 .. c - 1
                 PROVE  /\ Byte(lo, j) = IF (j % 2) = 0 THEN Byte(x, j) ELSE 0
                        /\ Byte(hi, j) = IF (j % 2) = 0 THEN 0 ELSE Byte(x, j)
    OBVIOUS
  <2> DEFINE y == Byte(x, j)
  <2>2. y \in 0 .. 2^ByteBits - 1
    BY <1>7
  <2>3. Byte(lo, j) = AndW(y, Byte(mask, j)) /\ Byte(hi, j) = AndW(y, Byte(not, j))
    BY <1>5
  <2> HIDE DEF y, lo, hi
  <2>4. AndW(y, 0) = 0 /\ AndW(y, 2^ByteBits - 1) = y
    BY <1>6, <2>2, Neutral
  <2>5. CASE (j % 2) = 0
    <3>1. Byte(mask, j) = 2^ByteBits - 1 /\ Byte(not, j) = 0
      <4>1. Byte(mask, j) = ones /\ Byte(not, j) = ones - Byte(mask, j)
        BY <1>2, <1>3, <2>5 DEF ones
      <4>2. Byte(not, j) = 0
        BY <1>6, <4>1
      <4>3. QED
        BY <4>1, <4>2 DEF ones
    <3>2. QED
      BY <2>3, <2>4, <2>5, <3>1 DEF y
  <2>6. CASE (j % 2) # 0
    <3>1. Byte(mask, j) = 0 /\ Byte(not, j) = 2^ByteBits - 1
      <4>1. Byte(mask, j) = 0 /\ Byte(not, j) = ones - Byte(mask, j)
        BY <1>2, <1>3, <2>6 DEF ones
      <4>2. Byte(not, j) = ones
        BY <1>6, <4>1
      <4>3. QED
        BY <4>1, <4>2 DEF ones
    <3>2. QED
      BY <2>3, <2>4, <2>6, <3>1 DEF y
  <2>7. QED
    BY <2>5, <2>6
<1> HIDE DEF lo, hi
<1>9. /\ up \in 0 .. 2^n - 1 /\ down \in 0 .. 2^n - 1
      /\ \A j \in 0 .. c - 1 : /\ Byte(up, j) = IF j = 0 THEN 0 ELSE Byte(lo, j - 1)
                               /\ Byte(down, j) = IF j = c - 1 THEN 0 ELSE Byte(hi, j + 1)
  <2>1. 0 \in 0 .. c - 1
    BY <1>1
  <2>2. QED
    BY <1>1, <1>4, <2>1, ShiftedBytes
<1> HIDE DEF up, down
<1>10. v \in 0 .. 2^n - 1
  <2> HIDE DEF n
  <2>1. QED
    BY <1>1, <1>9, OpBits, Ops
<1>11. \A j \in 0 .. c - 1 : Byte(v, j) = OrW(Byte(up, j), Byte(down, j))
  BY <1>1, <1>9, ByteOps
<1>12. ASSUME NEW j \in 0 .. c - 1 PROVE Byte(v, j) = IF (j % 2) = 0 THEN Byte(x, j + 1) ELSE Byte(x, j - 1)
  <2>1. CASE (j % 2) = 0
    <3>1. j + 1 \in 0 .. c - 1 /\ ((j + 1) % 2) # 0 /\ j # c - 1
      BY <1>1, <2>1
    <3>2. j # 0 => j - 1 \in 0 .. c - 1 /\ ((j - 1) % 2) # 0
      BY <1>1, <2>1
    <3>3. Byte(up, j) = 0 /\ Byte(down, j) = Byte(x, j + 1)
      BY <1>8, <1>9, <3>1, <3>2
    <3> DEFINE y == Byte(x, j + 1)
    <3>4. y \in 0 .. 2^ByteBits - 1
      BY <1>7, <3>1
    <3>5. Byte(v, j) = OrW(0, y)
      BY <1>11, <3>3
    <3> HIDE DEF y
    <3>6. Byte(v, j) = y
      BY <1>6, <3>4, <3>5, Neutral
    <3>7. QED
      BY <2>1, <3>6 DEF y
  <2>2. CASE (j % 2) # 0
    <3>1. j # 0 /\ j - 1 \in 0 .. c - 1 /\ ((j - 1) % 2) = 0
      BY <1>1, <2>2
    <3>2. j # c - 1 => j + 1 \in 0 .. c - 1 /\ ((j + 1) % 2) = 0
      BY <1>1, <2>2
    <3>3. Byte(up, j) = Byte(x, j - 1) /\ Byte(down, j) = 0
      BY <1>8, <1>9, <3>1, <3>2
    <3> DEFINE y == Byte(x, j - 1)
    <3>4. y \in 0 .. 2^ByteBits - 1
      BY <1>7, <3>1
    <3>5. Byte(v, j) = OrW(y, 0)
      BY <1>11, <3>3
    <3> HIDE DEF y
    <3>6. Byte(v, j) = y
      BY <1>6, <3>4, <3>5, Neutral
    <3>7. QED
      BY <2>2, <3>6 DEF y
  <2>3. QED
    BY <2>1, <2>2
<1>13. QED
  BY <1>10, <1>12

\* v has the bytes of x, reversed within each of e parts of p bytes.
PartsReversed(v, x, p, e) ==
  \A j \in 0 .. e - 1 : \A t \in 0 .. p - 1 : Byte(v, j * p + t) = Byte(x, j * p + (p - 1 - t))

\* The bytes REV32 is made of: those of bswap, its halves exchanged.
LEMMA SwappedHalves ==
  ASSUME NEW w \in Nat \ {0}, NEW x \in Int, NEW s, NEW v, NEW c, c = 2 * w, s \in 0 .. 2^(c * ByteBits) - 1,
         PartsReversed(s, x, c, 1), v = RotateRight(c * ByteBits, s, w * ByteBits)
  PROVE  PartsReversed(v, x, w, 2)
<1>0. \A j \in 0 .. c - 1 : Byte(s, j) = Byte(x, c - 1 - j)
  <2>1. SUFFICES ASSUME NEW j \in 0 .. c - 1 PROVE Byte(s, j) = Byte(x, c - 1 - j)
    OBVIOUS
  <2>2. 0 \in 0 .. 1 - 1 /\ 0 * c + j = j /\ 0 * c + (c - 1 - j) = c - 1 - j
    OBVIOUS
  <2>3. Byte(s, 0 * c + j) = Byte(x, 0 * c + (c - 1 - j))
    BY <2>2 DEF PartsReversed
  <2>4. QED
    BY <2>2, <2>3
<1> DEFINE m == w * ByteBits
           n == c * ByteBits
           u == s % 2^m
           d == s \div 2^m
<1>1. m \in Nat /\ n \in Nat /\ n - m = m /\ m \in 0 .. n /\ w \in Nat /\ ByteBits \in Nat
  <2>1. ByteBits \in Nat
    BY Widths64
  <2>2. (2 * w) * ByteBits = w * ByteBits + w * ByteBits /\ w * ByteBits \in Nat
    BY <2>1
  <2>3. QED
    BY <2>1, <2>2
<1>2. s \in Int
  <2>1. s \in 0 .. 2^n - 1
    OBVIOUS
  <2> HIDE DEF n
  <2>2. 2^n \in Nat
    BY <1>1, Powers
  <2>3. QED
    BY <2>1, <2>2
<1>3. d \in 0 .. 2^m - 1 /\ u \in 0 .. 2^m - 1 /\ 2^m \in Nat \ {0}
  <2>1. s \in 0 .. 2^n - 1
    OBVIOUS
  <2> HIDE DEF n, m
  <2>2. s \div 2^m \in 0 .. 2^(n - m) - 1 /\ (s % 2^m) \in 0 .. 2^m - 1
    BY <1>1, <2>1, SplitWord
  <2>3. QED
    BY <1>1, <2>2, Powers
<1>4. u \in Int /\ d \in Int
  <2> HIDE DEF u, d, m
  <2>1. QED
    BY <1>3
<1>5. v = Join(u, m, d)
  <2>1. v = d + u * 2^(n - m)
    BY DEF RotateRight
  <2> HIDE DEF u, d, m, n
  <2>2. QED
    BY <1>1, <1>3, <1>4, <2>1 DEF Join
<1>6. ASSUME NEW t \in 0 .. w - 1 PROVE Byte(v, t) = Byte(x, w - 1 - t)
  <2> DEFINE l == t * ByteBits
  <2>1. l \in Nat /\ l + ByteBits <= m /\ m + l = (w + t) * ByteBits
    <3>1. l \in Nat /\ l + ByteBits <= m /\ t \in Nat
      BY BytePlace
    <3>2. QED
      BY <1>1, <3>1
  <2> HIDE DEF l, m, u, d
  <2>2. Field(Join(u, m, d), l, ByteBits) = Field(d, l, ByteBits)
    BY <1>1, <1>4, <2>1, FieldOfJoin
  <2>3. Field(s \div 2^m, l, ByteBits) = Field(s, m + l, ByteBits)
    BY <1>1, <1>2, <2>1, FieldOfDiv
  <2>4. Byte(v, t) = Byte(s, w + t)
    BY <1>5, <2>1, <2>2, <2>3 DEF Byte, l, d
  <2>5. w + t \in 0 .. c - 1 /\ c - 1 - (w + t) = w - 1 - t
    BY <1>1
  <2>6. QED
    BY <1>0, <2>4, <2>5
<1>7. ASSUME NEW t \in 0 .. w - 1 PROVE Byte(v, w + t) = Byte(x, 2 * w - 1 - t)
  <2> DEFINE l == t * ByteBits
  <2>1. l \in Nat /\ l + ByteBits <= m /\ m + l = (w + t) * ByteBits
    <3>1. l \in Nat /\ l + ByteBits <= m /\ t \in Nat
      BY BytePlace
    <3>2. QED
      BY <1>1, <3>1
  <2>2. v \in Int /\ v \div 2^m = u
    <3> DEFINE q == 2^m
               y == u * q
    <3>1. q \in Nat \ {0} /\ d \in 0 .. q - 1 /\ v = u * q + d
      BY <1>3, <1>5 DEF Join
    <3> HIDE DEF q, u, d
    <3>2. (u * q + d) \div q = u
      BY <1>4, <3>1, DivModIs
    <3>3. y \in Int
      BY <1>4, <3>1
    <3>4. v = y + d
      BY <3>1
    <3> HIDE DEF y
    <3>5. v \in Int
      BY <1>4, <3>3, <3>4
    <3>6. QED
      BY <3>1, <3>2, <3>5 DEF q
  <2> HIDE DEF l, m
  <2>3. Field(v \div 2^m, l, ByteBits) = Field(v, m + l, ByteBits)
    BY <1>1, <2>1, <2>2, FieldOfDiv
  <2>4. Field(s % 2^m, l, ByteBits) = Field(s, l, ByteBits)
    BY <1>1, <1>2, <2>1, FieldOfMod
  <2>5. Byte(v, w + t) = Byte(s, t)
    BY <2>1, <2>2, <2>3, <2>4 DEF Byte, l
  <2>6. t \in 0 .. c - 1 /\ c - 1 - t = 2 * w - 1 - t
    BY <1>1
  <2>7. QED
    BY <1>0, <2>5, <2>6
<1> HIDE DEF m, n, u, d
<1>8. ASSUME NEW j \in 0 .. 1, NEW t \in 0 .. w - 1 PROVE Byte(v, j * w + t) = Byte(x, j * w + (w - 1 - t))
  <2>1. CASE j = 0
    <3>1. j * w + t = t /\ j * w + (w - 1 - t) = w - 1 - t
      BY <1>1, <2>1
    <3>2. QED
      BY <1>6, <3>1
  <2>2. CASE j = 1
    <3>1. j * w + t = w + t /\ j * w + (w - 1 - t) = 2 * w - 1 - t
      BY <1>1, <2>2
    <3>2. QED
      BY <1>7, <3>1
  <2>3. QED
    BY <2>1, <2>2
<1>9. QED
  BY <1>8 DEF PartsReversed

\* REV: the parts are the word.
LEMMA RevIs ==
  ASSUME NEW c \in Nat \ {0}, NEW x \in Int
  PROVE  /\ Swap(c * ByteBits, ByteBits, x) = Reversed(c * ByteBits, c * ByteBits, x)
         /\ Swap(c * ByteBits, ByteBits, x) \in 0 .. 2^(c * ByteBits) - 1
<1> DEFINE s == Swap(c * ByteBits, ByteBits, x)
           e == 1
<1>1. s \in 0 .. 2^(c * ByteBits) - 1 /\ \A j \in 0 .. c - 1 : Byte(s, j) = Byte(x, c - 1 - j)
  BY SwapBytes
<1>2. e \in Nat \ {0} /\ e * (c * ByteBits) = c * ByteBits
  <2>1. c * ByteBits \in Nat
    BY Widths64
  <2>2. QED
    BY <2>1
<1> HIDE DEF s
<1>3. \A j \in 0 .. e - 1 : \A t \in 0 .. c - 1 : Byte(s, j * c + t) = Byte(x, j * c + (c - 1 - t))
  <2>1. SUFFICES ASSUME NEW j \in 0 .. e - 1, NEW t \in 0 .. c - 1 PROVE Byte(s, j * c + t) = Byte(x, j * c + (c - 1 - t))
    OBVIOUS
  <2>2. j * c + t = t /\ j * c + (c - 1 - t) = c - 1 - t
    OBVIOUS
  <2>3. QED
    BY <1>1, <2>2
<1>4. s \in 0 .. 2^(e * (c * ByteBits)) - 1
  BY <1>1, <1>2
<1> HIDE DEF e
<1>5. s = Reversed(e * (c * ByteBits), c * ByteBits, x)
  BY <1>2, <1>3, <1>4, ReversedHas
<1>6. QED
  BY <1>1, <1>2, <1>5 DEF s

\* REV16: the parts are pairs of bytes.
LEMMA Rev16Is ==
  ASSUME NEW e \in Nat \ {0}, NEW n, n = (2 * e) * ByteBits, n \in 0 .. MaxBits, NEW x \in 0 .. 2^n - 1,
         NEW v, v = OrW(Shl(n, AndW(x, EvenBytes(n)), ByteBits), Lshr(n, AndW(x, NotW(n, EvenBytes(n))), ByteBits))
  PROVE  v = Reversed(n, 2 * ByteBits, x) /\ v \in 0 .. 2^n - 1
<1> DEFINE c == 2 * e
           p == 2
<1>1. c = 2 * e /\ n = c * ByteBits
  OBVIOUS
<1>2. /\ v \in 0 .. 2^(c * ByteBits) - 1
      /\ \A j \in 0 .. c - 1 : Byte(v, j) = IF (j % 2) = 0 THEN Byte(x, j + 1) ELSE Byte(x, j - 1)
  <2> HIDE DEF c
  <2>1. QED
    BY <1>1, SwappedPairs
<1>3. p \in Nat \ {0} /\ n = e * (p * ByteBits) /\ p * ByteBits = 2 * ByteBits /\ x \in Int
  <2>1. ByteBits \in Nat /\ 2^n \in Nat
    <3>1. n \in Nat
      BY Widths64
    <3>2. QED
      BY <3>1, Powers, Widths64
  <2>2. (2 * e) * ByteBits = e * (2 * ByteBits)
    BY <2>1
  <2>3. x \in Int
    BY <2>1
  <2>4. QED
    BY <2>2, <2>3
<1>4. \A j \in 0 .. e - 1 : \A t \in 0 .. p - 1 : Byte(v, j * p + t) = Byte(x, j * p + (p - 1 - t))
  <2>1. SUFFICES ASSUME NEW j \in 0 .. e - 1, NEW t \in 0 .. p - 1 PROVE Byte(v, j * p + t) = Byte(x, j * p + (p - 1 - t))
    OBVIOUS
  <2> DEFINE y == j * p + t
  <2>2. y \in 0 .. c - 1
    OBVIOUS
  <2>3. CASE t = 0
    <3>1. (y % 2) = 0 /\ y + 1 = j * p + (p - 1 - t)
      BY <2>3
    <3>2. QED
      BY <1>2, <2>2, <3>1
  <2>4. CASE t = 1
    <3>1. (y % 2) # 0 /\ y - 1 = j * p + (p - 1 - t)
      BY <2>4
    <3>2. QED
      BY <1>2, <2>2, <3>1
  <2>5. QED
    BY <2>3, <2>4
<1>5. v \in 0 .. 2^(e * (p * ByteBits)) - 1
  BY <1>1, <1>2, <1>3
<1> HIDE DEF p
<1>6. v = Reversed(e * (p * ByteBits), p * ByteBits, x)
  BY <1>3, <1>4, <1>5, ReversedHas
<1>7. QED
  BY <1>3, <1>5, <1>6

\* REV32: the parts are the halves of the word.
LEMMA Rev32Is ==
  ASSUME NEW x \in Int, NEW v, v = LowerRotate(XBits, Swap(XBits, ByteBits, x), WBits)
  PROVE  v = Reversed(XBits, WBits, x) /\ v \in 0 .. 2^XBits - 1
<1>1. PICK k \in Nat \ {0} : WBits = (2 * k) * ByteBits /\ XBits = (2 * (2 * k)) * ByteBits
  BY PairsOfBytes
<1> DEFINE w == 2 * k
           c == 2 * w
           e == 2
           s == Swap(XBits, ByteBits, x)
<1>2. w \in Nat \ {0} /\ c \in Nat \ {0} /\ e \in Nat \ {0} /\ WBits = w * ByteBits /\ XBits = c * ByteBits
  BY <1>1
<1>3. c = 2 * w
  OBVIOUS
<1> HIDE DEF w, c
<1>4. s \in 0 .. 2^XBits - 1 /\ \A j \in 0 .. c - 1 : Byte(s, j) = Byte(x, c - 1 - j)
  <2>1. /\ Swap(c * ByteBits, ByteBits, x) \in 0 .. 2^(c * ByteBits) - 1
        /\ \A j \in 0 .. c - 1 : Byte(Swap(c * ByteBits, ByteBits, x), j) = Byte(x, c - 1 - j)
    BY <1>2, SwapBytes
  <2>2. QED
    BY <1>2, <2>1
<1> HIDE DEF s
<1>5. v = RotateRight(XBits, s, WBits) /\ v \in 0 .. 2^XBits - 1
  <2>1. XBits \in 1 .. MaxBits /\ WBits \in 0 .. XBits - 1
    BY Widths64
  <2>2. /\ OrW(Lshr(XBits, s, WBits), Shl(XBits, s, (XBits - WBits) % XBits)) = RotateRight(XBits, s, WBits)
        /\ RotateRight(XBits, s, WBits) \in 0 .. 2^XBits - 1
    BY <1>4, <2>1, LowerRotateIs
  <2>3. v = OrW(Lshr(XBits, s, WBits), Shl(XBits, s, (XBits - WBits) % XBits))
    BY DEF LowerRotate, s
  <2>4. QED
    BY <2>2, <2>3
<1>6. \A j \in 0 .. 1 : \A t \in 0 .. w - 1 : Byte(v, j * w + t) = Byte(x, j * w + (w - 1 - t))
  <2>1. s \in 0 .. 2^(c * ByteBits) - 1 /\ v = RotateRight(c * ByteBits, s, w * ByteBits)
    BY <1>2, <1>4, <1>5
  <2>2. PartsReversed(s, x, c, 1)
    <3>1. SUFFICES ASSUME NEW j \in 0 .. 1 - 1, NEW t \in 0 .. c - 1 PROVE Byte(s, j * c + t) = Byte(x, j * c + (c - 1 - t))
      BY DEF PartsReversed
    <3>2. j * c + t = t /\ j * c + (c - 1 - t) = c - 1 - t
      BY <1>2
    <3>3. QED
      BY <1>4, <3>2
  <2>3. PartsReversed(v, x, w, 2)
    BY <1>2, <1>3, <2>1, <2>2, SwappedHalves
  <2>4. QED
    BY <2>3 DEF PartsReversed
<1>7. XBits = e * (w * ByteBits) /\ \A j \in 0 .. e - 1 : \A t \in 0 .. w - 1 : Byte(v, j * w + t) = Byte(x, j * w + (w - 1 - t))
  <2>1. ByteBits \in Nat /\ (2 * w) * ByteBits = 2 * (w * ByteBits)
    BY <1>2, Widths64
  <2>2. QED
    BY <1>2, <1>3, <1>6, <2>1
<1>8. v \in 0 .. 2^(e * (w * ByteBits)) - 1
  BY <1>5, <1>7
<1> HIDE DEF e
<1>9. v = Reversed(e * (w * ByteBits), w * ByteBits, x)
  BY <1>2, <1>7, <1>8, ReversedHas
<1>10. QED
  BY <1>2, <1>5, <1>7, <1>9

\* REV, REV16 and REV32.
LEMMA ReverseStep64 ==
  ASSUME NEW i, A64Operands(i), i.op \in {"REV", "REV16", "REV32"}, NEW m, NEW h, InStep64(m, h)
  PROVE  InStep64(LowerRev(i, m), ArchReverse(i, h))
<1> DEFINE n == Width(i)
           x == Source(i, h, i.a)
           part == CASE i.op = "REV"   -> n
                     [] i.op = "REV16" -> 2 * ByteBits
                     [] i.op = "REV32" -> WBits
           halves == OrW(Shl(n, AndW(x, EvenBytes(n)), ByteBits), Lshr(n, AndW(x, NotW(n, EvenBytes(n))), ByteBits))
           v == CASE i.op = "REV"   -> Swap(n, ByteBits, x)
                  [] i.op = "REV16" -> halves
                  [] i.op = "REV32" -> LowerRotate(XBits, Swap(XBits, ByteBits, x), WBits)
<1>1. i.d \in Registers \cup {ZR} /\ A64Source(i.a) /\ i.w \in BOOLEAN /\ (i.op = "REV32" => ~i.w)
  BY DEF A64Operands, A64Bitfields, A64Sets, A64OnlyWide
<1>2. n \in Nat \ {0} /\ n \in 0 .. MaxBits /\ 2^n \in Nat \ {0} /\ Word(SignBit(n)) = 0 .. 2^n - 1
  BY <1>1, Width64
<1>3. x = Source(i, m, i.a) /\ x \in 0 .. 2^n - 1
  BY <1>1, Sources64
<1>4. LowerRev(i, m) = StoreReg(m, i.d, v)
  BY <1>3 DEF LowerRev
<1>5. ArchReverse(i, h) = StoreReg(h, i.d, Reversed(n, part, x))
  BY DEF ArchReverse, Reversed
<1>6. \E e \in Nat \ {0} : n = (2 * e) * ByteBits
  <2>1. PICK e \in Nat \ {0} : WBits = (2 * e) * ByteBits /\ XBits = (2 * (2 * e)) * ByteBits
    BY PairsOfBytes
  <2>2. 2 * e \in Nat \ {0} /\ (n = WBits \/ n = XBits)
    BY <1>1 DEF Width
  <2>3. QED
    BY <2>1, <2>2
<1>7. PICK e \in Nat \ {0} : n = (2 * e) * ByteBits
  BY <1>6
<1>8. i.op = "REV32" => n = XBits
  BY <1>1 DEF Width
<1> HIDE DEF n, x
<1>9. x \in Int
  BY <1>2, <1>3
<1>10. ASSUME i.op = "REV" PROVE v = Reversed(n, part, x) /\ v \in 0 .. 2^n - 1
  <2> DEFINE c == 2 * e
  <2>1. c \in Nat \ {0} /\ n = c * ByteBits
    BY <1>7
  <2> HIDE DEF c
  <2>2. Swap(n, ByteBits, x) = Reversed(n, n, x) /\ Swap(n, ByteBits, x) \in 0 .. 2^n - 1
    BY <1>9, <2>1, RevIs
  <2>3. QED
    BY <1>10, <2>2
<1>11. ASSUME i.op = "REV16" PROVE v = Reversed(n, part, x) /\ v \in 0 .. 2^n - 1
  <2>1. halves = Reversed(n, 2 * ByteBits, x) /\ halves \in 0 .. 2^n - 1
    BY <1>2, <1>3, <1>7, Rev16Is
  <2>2. QED
    BY <1>11, <2>1
<1>12. ASSUME i.op = "REV32" PROVE v = Reversed(n, part, x) /\ v \in 0 .. 2^n - 1
  <2> DEFINE r == LowerRotate(XBits, Swap(XBits, ByteBits, x), WBits)
  <2>1. r = Reversed(XBits, WBits, x) /\ r \in 0 .. 2^XBits - 1
    BY <1>9, Rev32Is
  <2>2. v = r /\ part = WBits
    BY <1>12
  <2>3. QED
    BY <1>8, <1>12, <2>1, <2>2
<1> HIDE DEF part, v
<1>13. v = Reversed(n, part, x) /\ v \in 0 .. 2^n - 1
  BY <1>10, <1>11, <1>12
<1>14. v \in Word(SignBit(XBits))
  <2>1. v \in Word(SignBit(n))
    BY <1>2, <1>13
  <2>2. QED
    BY <1>1, <2>1, Narrow64 DEF n
<1>15. QED
  BY <1>1, <1>4, <1>5, <1>13, <1>14, Store64

-----------------------------------------------------------------------------
(***************************************************************************)
(* The program.                                                            *)
(***************************************************************************)
\* An instruction of a program has one of the names asked for, and is of the
\* processor at hand.
LEMMA Chosen ==
  ASSUME NEW a, NEW program, NEW ops, NEW i, i \in OfOps(a, ByOp(program), ops)
  PROVE  arch = a /\ i \in program /\ i.op \in ops
<1>1. arch = a /\ \E o \in ops \cap {j.op : j \in program} : i \in ByOp(program)[o]
  BY DEF OfOps, ByOp
<1>2. QED
  BY <1>1 DEF ByOp

\* An instruction of an arm program keeps the two sides in step.
LEMMA ArmStep ==
  ASSUME A32Next, InStep32(low, hw)
  PROVE  arch = "arm" /\ arch' = arch /\ InStep32(low', hw')
<1>1. ASSUME NEW ops, NEW i, i \in A32Of(ops)
      PROVE  arch = "arm" /\ A32Operands(i) /\ i.op \in ops
  BY <1>1, Chosen, ProgramsAssumption DEF A32Of, A32ByOp
<1>2. CASE ARMALU
  BY <1>1, <1>2, ALUStep32 DEF ARMALU, Execute32
<1>3. CASE ARMCompare
  BY <1>1, <1>3, CompareStep32 DEF ARMCompare, Execute32, Comparisons
<1>4. CASE ARMMVN
  BY <1>1, <1>4, MVNStep32 DEF ARMMVN, Execute32
<1>5. CASE ARMADCSBC
  BY <1>1, <1>5, CarryStep32 DEF ARMADCSBC, Execute32
<1>6. CASE ARMMUL
  BY <1>1, <1>6, MultiplyStep32 DEF ARMMUL, Execute32
<1>7. CASE ARMMULA
  BY <1>1, <1>7, MultiplyStep32 DEF ARMMULA, Execute32
<1>8. CASE ARMMULLU
  BY <1>1, <1>8, LongStep32 DEF ARMMULLU, Execute32
<1>9. CASE ARMMULAL
  BY <1>1, <1>9, LongStep32 DEF ARMMULAL, Execute32
<1>10. CASE ARMDIVUHW
  BY <1>1, <1>10, DivideStep32 DEF ARMDIVUHW, Execute32
<1>11. CASE ARMCLZ
  BY <1>1, <1>11, ClzStep32 DEF ARMCLZ, Execute32
<1>12. QED
  BY <1>2, <1>3, <1>4, <1>5, <1>6, <1>7, <1>8, <1>9, <1>10, <1>11 DEF A32Next

\* The instructions of other processors are not executed.
LEMMA StepsOfArch ==
  /\ A64Next => arch = "arm64" /\ arch' = arch
  /\ X86Next => arch = "amd64" /\ arch' = arch
<1>1. \A ops, i : i \in A64Of(ops) => arch = "arm64"
  BY Chosen DEF A64Of, A64ByOp
<1>2. \A ops, sizes, i : i \in X86Of(ops, sizes) => arch = "amd64"
  BY Chosen DEF X86Of, X86ByOp
<1>3. A64Next => arch = "arm64" /\ arch' = arch
  <2> USE DEF Execute64
  <2>1. QED
    BY <1>1 DEF A64Next, AddSub, AddSubCarry, SubSetFlags, Neg, Logic, Test, Bic, Mvn, Compare, CondCompare,
                Multiply, MultiplyHigh, MultiplyAdd, Divide, Shift, ShiftArith, Rotate, Extract, BitCount, Reverse,
                Bitfield, Select, Set, CondChange, RawWordTest, RawWordSubs
<1>4. X86Next => arch = "amd64" /\ arch' = arch
  <2>1. ASSUME NEW i, NEW u, NEW v, Execute86(i, u, v) PROVE arch' = arch
    BY <2>1 DEF Execute86
  <2>2. QED
    BY <1>2, <2>1 DEF X86Next, X86Arith, X86Carry, X86Chain, X86Step, X86Neg, X86Rcr, X86Cmp, X86Test, X86BitTest,
                X86Set, X86Cmov, X86Scan, X86Tzcnt, X86Popcnt, X86Bswap, X86Not, X86Andn, X86Bextr, X86Bzhi, X86Shift,
                X86ShortShift, X86ShiftX, X86Rotate, X86DoubleShift, X86Mul, X86Mulx, X86Div, X86Imul, X86Mov
<1>5. QED
  BY <1>3, <1>4

\* Both sides start in step.
LEMMA ArmInit ==
  ASSUME Init, arch = "arm"
  PROVE  InStep32(low, hw)
<1>1. low \in [reg : [Registers -> Word(SignBit(RBits))], f : {NoFlags}, written : {FALSE}]
  BY DEF Init, Bits, Cleared
<1>2. hw = [low EXCEPT !.f = NoFlags]
  BY DEF Init, Cleared
<1>3. NoFlags \in Flags
  BY DEF NoFlags, Flags
<1>4. low \in Machine32 /\ hw = low
  BY <1>1, <1>2, <1>3 DEF Machine32, Top32
<1>5. QED
  BY <1>4 DEF InStep32

\* What the three invariants say of arm.
LEMMA ArmMeans ==
  ASSUME arch = "arm", InStep32(low, hw)
  PROVE  TypeOK /\ RegistersAgree /\ FlagsAgree
<1>1. Machine("arm") = Machine32
  BY DEF Machine, Machine32, Bits, FlagsOn, Top32
<1>2. QED
  BY <1>1 DEF TypeOK, RegistersAgree, FlagsAgree, InStep32

\* An instruction of an arm64 program keeps the two sides in step.
LEMMA A64Step ==
  ASSUME A64Next, InStep64(low, hw)
  PROVE  arch = "arm64" /\ arch' = arch /\ InStep64(low', hw')
<1>1. ASSUME NEW ops, NEW i, i \in A64Of(ops)
      PROVE  arch = "arm64" /\ A64Operands(i) /\ A64Exact(i) /\ i.op \in ops
  BY <1>1, Chosen, ProgramsAssumption DEF A64Of, A64ByOp
<1>2. CASE AddSub
  BY <1>1, <1>2, AddSubStep DEF AddSub, Execute64
<1>3. CASE AddSubCarry
  BY <1>1, <1>3, CarryStep64 DEF AddSubCarry, Execute64, ReadsFlags
<1>4. CASE SubSetFlags
  BY <1>1, <1>4, SubsStep DEF SubSetFlags, Execute64
<1>5. CASE Neg
  BY <1>1, <1>5, NegStep DEF Neg, Execute64
<1>6. CASE Logic
  BY <1>1, <1>6, LogicStep DEF Logic, Execute64
<1>7. CASE Test
  BY <1>1, <1>7, TestStep DEF Test, Execute64
<1>8. CASE Bic
  BY <1>1, <1>8, ClearStep DEF Bic, Execute64
<1>9. CASE Mvn
  BY <1>1, <1>9, ClearStep DEF Mvn, Execute64
<1>10. CASE Compare
  BY <1>1, <1>10, CompareStep64 DEF Compare, Execute64
<1>11. CASE CondCompare
  BY <1>1, <1>11, CondCompareStep DEF CondCompare, Execute64, ReadsFlags
<1>12. CASE Multiply
  BY <1>1, <1>12, MultiplyStep64 DEF Multiply, Execute64
<1>13. CASE MultiplyHigh
  BY <1>1, <1>13, HighStep DEF MultiplyHigh, Execute64
<1>14. CASE MultiplyAdd
  BY <1>1, <1>14, MultiplyStep64 DEF MultiplyAdd, Execute64
<1>15. CASE Divide
  BY <1>1, <1>15, HighStep DEF Divide, Execute64
<1>16. CASE Shift
  BY <1>1, <1>16, ShiftStep64 DEF Shift, Execute64
<1>17. CASE ShiftArith
  BY <1>1, <1>17, ShiftStep64 DEF ShiftArith, Execute64
<1>18. CASE Rotate
  BY <1>1, <1>18, ShiftStep64 DEF Rotate, Execute64
<1>19. CASE Extract
  BY <1>1, <1>19, ExtractStep64 DEF Extract, Execute64
<1>20. CASE BitCount
  BY <1>1, <1>20, BitsStep64 DEF BitCount, Execute64
<1>21. CASE Reverse
  BY <1>1, <1>21, ReverseStep64 DEF Reverse, Execute64
<1>22. CASE Bitfield
  BY <1>1, <1>22, BitfieldStep64 DEF Bitfield, Execute64, A64Bitfields
<1>23. CASE Select
  BY <1>1, <1>23, SelectStep64 DEF Select, Execute64, ReadsFlags
<1>24. CASE Set
  BY <1>1, <1>24, SetStep64 DEF Set, Execute64, ReadsFlags
<1>25. CASE CondChange
  BY <1>1, <1>25, CondChangeStep DEF CondChange, Execute64, ReadsFlags
<1>26. CASE RawWordTest
  BY <1>1, <1>26, TestStep DEF RawWordTest, Execute64
<1>27. CASE RawWordSubs
  BY <1>1, <1>27, SubsStep DEF RawWordSubs, Execute64
<1>28. QED
  BY <1>2, <1>3, <1>4, <1>5, <1>6, <1>7, <1>8, <1>9, <1>10, <1>11, <1>12, <1>13, <1>14,
     <1>15, <1>16, <1>17, <1>18, <1>19, <1>20, <1>21, <1>22, <1>23, <1>24, <1>25, <1>26, <1>27 DEF A64Next

\* Both sides of arm64 start in step, whatever the flags of the processor.
LEMMA A64Init ==
  ASSUME Init, arch = "arm64"
  PROVE  InStep64(low, hw)
<1>1. low \in [reg : [Registers -> Word(SignBit(XBits))], f : {NoFlags}, written : {FALSE}]
  BY DEF Init, Bits, Cleared
<1>2. PICK f \in {NoFlags, AllSet} : hw = [low EXCEPT !.f = f]
  BY DEF Init, Cleared
<1>3. NoFlags \in Flags /\ AllSet \in Flags
  BY DEF NoFlags, Flags, AllSet
<1>4. f \in Flags
  BY <1>2, <1>3
<1>5. low \in Machine64 /\ hw \in Machine64 /\ low.reg = hw.reg /\ ~low.written
  BY <1>1, <1>2, <1>3, <1>4 DEF Machine64
<1>6. QED
  BY <1>5 DEF InStep64

\* What the three invariants say of arm64.
LEMMA A64Means ==
  ASSUME arch = "arm64", InStep64(low, hw)
  PROVE  TypeOK /\ RegistersAgree /\ FlagsAgree
<1>1. Machine("arm64") = Machine64
  BY DEF Machine, Machine64, Bits, FlagsOn
<1>2. QED
  BY <1>1 DEF TypeOK, RegistersAgree, FlagsAgree, InStep64

\* The two sides are in step on arm and on arm64.
InStep ==
  /\ arch \in {"arm64", "arm", "amd64"}
  /\ arch = "arm" => InStep32(low, hw)
  /\ arch = "arm64" => InStep64(low, hw)

\* They stay in step.
LEMMA StaysInStep ==
  ASSUME InStep, [Next]_vars
  PROVE  InStep'
<1>1. CASE UNCHANGED vars
  BY <1>1 DEF vars, InStep, InStep32, InStep64
<1>2. CASE A32Next
  <2>1. arch = "arm"
    BY <1>2, Chosen DEF A32Next, ARMALU, ARMCompare, ARMMVN, ARMADCSBC, ARMMUL, ARMMULA, ARMMULLU, ARMMULAL, ARMDIVUHW, ARMCLZ, A32Of, A32ByOp
  <2>2. arch' = arch /\ InStep32(low', hw')
    BY <1>2, <2>1, ArmStep DEF InStep
  <2>3. QED
    BY <2>1, <2>2 DEF InStep
<1>3. CASE A64Next
  <2>1. arch = "arm64"
    BY <1>3, StepsOfArch
  <2>2. arch' = arch /\ InStep64(low', hw')
    BY <1>3, <2>1, A64Step DEF InStep
  <2>3. QED
    BY <2>1, <2>2 DEF InStep
<1>4. CASE X86Next
  BY <1>4, StepsOfArch DEF InStep
<1>5. QED
  BY <1>1, <1>2, <1>3, <1>4 DEF Next

\* On arm, after any sequence of instructions that are safe where they are
\* reached (A32Safe), conditional ones and flag setters under every condition
\* that survives its own flags among them, the emitted code has the registers
\* and the flags the processor has, whatever the width of a register, and no
\* shift that LLVM leaves open is reached.
THEOREM ArmInStep ==
  Spec => [](arch = "arm" => TypeOK /\ RegistersAgree /\ FlagsAgree)
<1>1. Init => InStep
  BY ArmInit, A64Init DEF Init, InStep
<1>2. InStep /\ [Next]_vars => InStep'
  BY StaysInStep
<1>3. InStep => (arch = "arm" => TypeOK /\ RegistersAgree /\ FlagsAgree)
  BY ArmMeans DEF InStep
<1>4. QED
  BY <1>1, <1>2, <1>3, PTL DEF Spec

\* The same on arm64, at both widths and whatever the widths of a register, its
\* lower half and a byte: for every instruction the lowerings of arm64 take but
\* MADD and MSUB of two different registers (A64Exact), and where A64Safe holds:
\* no division by zero, and no ADCS or SBCS whose result equals an operand
\* because of the carry in.
THEOREM A64InStep ==
  Spec => [](arch = "arm64" => TypeOK /\ RegistersAgree /\ FlagsAgree)
<1>1. Init => InStep
  BY ArmInit, A64Init DEF Init, InStep
<1>2. InStep /\ [Next]_vars => InStep'
  BY StaysInStep
<1>3. InStep => (arch = "arm64" => TypeOK /\ RegistersAgree /\ FlagsAgree)
  BY A64Means DEF InStep
<1>4. QED
  BY <1>1, <1>2, <1>3, PTL DEF Spec

\* On both, once flags were written, the four slots hold the flags of the
\* processor in every run in which no instruction that writes flags was reached
\* where it is not safe (A64Safe, A32Safe); amd64, whose slots are those of
\* SlotsExact, is no case of it.
THEOREM FlagsAgreeAlways == Spec => []FlagsAgree
<1>1. Init => InStep
  BY ArmInit, A64Init DEF Init, InStep
<1>2. InStep /\ [Next]_vars => InStep'
  BY StaysInStep
<1>3. InStep => FlagsAgree
  BY ArmMeans, A64Means DEF InStep, FlagsAgree
<1>4. QED
  BY <1>1, <1>2, <1>3, PTL DEF Spec
=============================================================================
