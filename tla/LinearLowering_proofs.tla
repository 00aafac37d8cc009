------------------------ MODULE LinearLowering_proofs ------------------------
(***************************************************************************)
(* Straight-line functions of every signature and length: both linear      *)
(* translators keep well-formed values, and where both accept a function   *)
(* they return the same.                                                   *)
(***************************************************************************)
EXTENDS LinearLowering, FiniteSetTheorems, WellFoundedInduction, TLAPS

-----------------------------------------------------------------------------
(***************************************************************************)
(* Induction by the least counterexample, and what it gives: recursion.    *)
(***************************************************************************)
\* Induction without an operator for the induction hypothesis: a set of
\* numbers has a least one.  The intervals below the numbers of S are
\* finite sets, of which strict inclusion has a minimal one.
LEMMA LeastElement ==
  ASSUME NEW S \in SUBSET Nat, S # {}
  PROVE  \E n \in S : \A m \in S : n =< m
<1> DEFINE T == {0..(n - 1) : n \in S}
           R == StrictSubsetOrdering(Nat)
           F == FiniteSubsetsOf(Nat)
<1>1. IsWellFoundedOn(R, F) BY FS_StrictSubsetOrderingWellFounded
<1>2. T \subseteq F
  <2>1. \A n \in S : IsFiniteSet(0..(n - 1)) BY FS_Interval
  <2>2. \A n \in S : 0..(n-1) \subseteq Nat OBVIOUS
  <2>3. QED BY <2>1, <2>2 DEF FiniteSubsetsOf
<1>3. T # {} OBVIOUS
<1>4. \E x \in T : \A y \in T : ~ (<<y, x>> \in R)
  <2> HIDE DEF T, R, F
  <2>1. QED BY <1>1, <1>2, <1>3, WFMin
<1>5. PICK n \in S : \A m \in S : ~ (<<0..(m-1), 0..(n-1)>> \in R)
  BY <1>4
<1>6. ASSUME NEW m \in S, m < n PROVE FALSE
  <2>1. 0..(m-1) \in F /\ 0..(n-1) \in F  BY <1>2
  <2>2. 0..(m-1) \subseteq 0..(n-1) BY <1>6
  <2>3. m \in 0..(n-1) /\ m \notin 0..(m-1) BY <1>6
  <2>4. <<0..(m-1), 0..(n-1)>> \in R BY <2>1, <2>2, <2>3 DEF StrictSubsetOrdering
  <2>5. QED BY <2>4, <1>5
<1>7. QED BY <1>5, <1>6

\* g iterates the n steps G from c.
Steps(S, n) == [1..n -> [S -> S]]
Iterates(g, S, c, n, G) ==
  /\ g \in [0..n -> S] /\ g[0] = c
  /\ \A i \in 1..n : g[i] = G[i][g[i - 1]]

\* A function that iterates given steps exists: the function of one step
\* less, extended by one.
LEMMA Recursion ==
  ASSUME NEW S, NEW c \in S, NEW n \in Nat, NEW G \in Steps(S, n)
  PROVE  \E g : Iterates(g, S, c, n, G)
<1> DEFINE Good(m, g) == /\ g \in [0..m -> S] /\ g[0] = c
                         /\ \A i \in 1..m : g[i] = G[i][g[i - 1]]
           Bad == {m \in 0..n : ~ \E g : Good(m, g)}
<1>1. SUFFICES ASSUME Bad # {} PROVE FALSE
  <2>1. n \in 0..n  OBVIOUS
  <2>2. QED BY <2>1 DEF Iterates
<1>2. PICK m \in Bad : \A b \in Bad : m =< b
  <2>1. Bad \in SUBSET Nat  OBVIOUS
  <2> HIDE DEF Bad
  <2>2. QED BY <1>1, <2>1, LeastElement
<1>3. m # 0
  <2>1. Good(0, [i \in 0..0 |-> c])  OBVIOUS
  <2>2. QED BY <2>1
<1>4. m \in 1..n /\ m - 1 \in 0..n /\ ~ (m =< m - 1)  BY <1>3
<1>5. PICK g : Good(m - 1, g)
  <2>1. m - 1 \notin Bad  BY <1>2, <1>4
  <2>2. QED BY <1>4, <2>1
<1> DEFINE h == [i \in 0..m |-> IF i = m THEN G[m][g[m - 1]] ELSE g[i]]
<1>6. g[m - 1] \in S /\ G[m][g[m - 1]] \in S  BY <1>4, <1>5 DEF Steps
<1>7. h \in [0..m -> S]  BY <1>4, <1>5, <1>6
<1>8. h[0] = c  BY <1>4, <1>5
<1>9. ASSUME NEW i \in 1..m PROVE h[i] = G[i][h[i - 1]]
  <2>1. h[i - 1] = g[i - 1]  BY <1>4
  <2>2. CASE i = m  BY <2>1, <2>2, <1>4
  <2>3. CASE i # m
    <3>1. h[i] = g[i] /\ i \in 1..(m - 1)  BY <2>3, <1>4
    <3>2. QED BY <1>5, <2>1, <3>1
  <2>4. QED BY <2>2, <2>3
<1> HIDE DEF h
<1>10. Good(m, h)  BY <1>7, <1>8, <1>9
<1>11. QED BY <1>10

-----------------------------------------------------------------------------
(***************************************************************************)
(* Powers of two: the number of subsets of an interval.                    *)
(***************************************************************************)
\* A power of two is a positive number.
LEMMA PowerOfTwo ==
  ASSUME NEW n \in Nat
  PROVE  2^n \in Nat \ {0}
<1> DEFINE S == 1 .. n
<1>1. IsFiniteSet(S) /\ Cardinality(S) = n
  BY FS_Interval
<1>2. IsFiniteSet(SUBSET S) /\ Cardinality(SUBSET S) = 2^n
  BY <1>1, FS_SUBSET
<1>3. Cardinality(SUBSET S) \in Nat /\ (Cardinality(SUBSET S) = 0 <=> SUBSET S = {})
  BY <1>2, FS_CardinalityType, FS_EmptySet
<1>4. SUBSET S # {}
  OBVIOUS
<1>5. QED
  BY <1>2, <1>3, <1>4

\* Powers of two grow.
LEMMA PowersGrow ==
  ASSUME NEW n \in Nat, NEW m \in 0 .. n
  PROVE  2^m <= 2^n
<1> DEFINE S == 1 .. n
           T == 1 .. m
<1>1. IsFiniteSet(S) /\ Cardinality(S) = n /\ IsFiniteSet(T) /\ Cardinality(T) = m
  BY FS_Interval
<1>2. IsFiniteSet(SUBSET S) /\ Cardinality(SUBSET S) = 2^n /\ Cardinality(SUBSET T) = 2^m
  BY <1>1, FS_SUBSET
<1>3. SUBSET T \in SUBSET (SUBSET S)
  OBVIOUS
<1>4. Cardinality(SUBSET T) <= Cardinality(SUBSET S)
  BY <1>2, <1>3, FS_Subset
<1>5. QED
  BY <1>2, <1>4

\* The widths of the types, and that what is poison is no word of them.
LEMMA Widths ==
  /\ \A typ : Bits(typ) \in {1, 2, 3, 4, 8}
  /\ \A n \in {1, 2, 3, 4, 8} : 2^n \in {2, 4, 8, 16, 256}
  /\ Poison \in Nat /\ Poison >= 256
<1>1. \A typ : Bits(typ) \in {1, 2, 3, 4, 8}
  BY DEF Bits, BitsOf
<1>2. 2^1 = 2 /\ 2^2 = 4 /\ 2^3 = 8 /\ 2^4 = 16 /\ 2^8 = 256
  BY SMT
<1>3. MaxBits \in Nat /\ 8 \in 0 .. MaxBits
  BY LinearAssumption, MaxBitsAssumption
<1>4. 2^MaxBits \in Nat /\ 2^8 <= 2^MaxBits
  BY <1>3, PowerOfTwo, PowersGrow
<1>5. QED
  BY <1>1, <1>2, <1>4 DEF Poison

-----------------------------------------------------------------------------
(***************************************************************************)
(* SSA values and casts.                                                   *)
(***************************************************************************)
AllTypes == SlotTypes \cup {"agg", "none", "error"}
Word_(typ) == (0 .. 2^Bits(typ) - 1) \cup {Poison}
Vals == {v \in [typ : AllTypes, ssa : BOOLEAN, val : Int] : v.typ # "agg" => v.val \in Word_(v.typ)}

\* A word of any type, its sizes spelled out.
LEMMA Word_Is ==
  ASSUME NEW typ
  PROVE  /\ 2^Bits(typ) \in {2, 4, 8, 16, 256}
         /\ Word_(typ) \subseteq Nat /\ 0 \in Word_(typ) /\ 1 \in Word_(typ) /\ Poison \in Word_(typ)
<1>1. 2^Bits(typ) \in {2, 4, 8, 16, 256}
  <2> DEFINE N == {1, 2, 3, 4, 8}
             M == {2, 4, 8, 16, 256}
  <2>1. Bits(typ) \in N /\ \A n \in N : 2^n \in M
    BY Widths
  <2> HIDE DEF N, M
  <2>2. 2^Bits(typ) \in M
    BY <2>1, Zenon
  <2>3. QED
    BY <2>2 DEF M
<1>2. 0 .. 2^Bits(typ) - 1 \subseteq Nat /\ 0 \in 0 .. 2^Bits(typ) - 1 /\ 1 \in 0 .. 2^Bits(typ) - 1
  BY <1>1
<1>3. QED
  BY <1>1, <1>2, Widths DEF Word_

\* Fit truncates to the type, and changes no word of it.
LEMMA FitIs ==
  ASSUME NEW typ, NEW x \in Int
  PROVE  /\ Fit(typ, x) \in Word_(typ)
         /\ x \in Word_(typ) => Fit(typ, x) = x
<1>1. 2^Bits(typ) \in {2, 4, 8, 16, 256}
  BY Word_Is
<1> DEFINE m == 2^Bits(typ)
<1>2. m \in {2, 4, 8, 16, 256} /\ m = 2^Bits(typ)
  BY <1>1
<1> HIDE DEF m
<1>3. x % m \in 0 .. m - 1 /\ (x \in 0 .. m - 1 => x % m = x)
  BY <1>2
<1>4. QED
  BY <1>2, <1>3 DEF Fit, Trunc, Word_

\* The binary fractions that a word of a floating-point type stands for.
LEMMA FpToUiIs ==
  ASSUME NEW w \in {4, 8}, NEW p \in Int
  PROVE  FpToUi(w, p) \in Int
<1> DEFINE M == MantBits(w)
           E == ExpBits(w)
           e == Field(p, M, E)
           m == p % 2^M
           one == M + 2^(E - 1) - 1
<1>1. M \in {1, 4} /\ E \in {2, 3} /\ 2^M \in {2, 16} /\ 2^E \in {4, 8} /\ 2^(E - 1) \in {2, 4}
  <2>1. 2^1 = 2 /\ 2^2 = 4 /\ 2^3 = 8 /\ 2^4 = 16
    BY SMT
  <2>2. CASE w = 4
    <3>1. M = 1 /\ E = 2 /\ E - 1 = 1
      BY <2>2 DEF MantBits, ExpBits
    <3>2. QED
      BY <3>1, <2>1
  <2>3. CASE w = 8
    <3>1. M = 4 /\ E = 3 /\ E - 1 = 2
      BY <2>3 DEF MantBits, ExpBits
    <3>2. QED
      BY <3>1, <2>1
  <2>4. QED
    BY <2>2, <2>3
<1>2. e \in Nat /\ m \in Nat /\ one \in Nat
  BY <1>1 DEF Field
<1> DEFINE k == 2^(one - e)
           l == 2^(e - one)
<1>3. (e <= one => k \in Nat \ {0}) /\ (~(e <= one) => l \in Nat \ {0})
  <2> HIDE DEF e, one, m
  <2>1. ASSUME e <= one PROVE k \in Nat \ {0}
    <3>1. one - e \in Nat
      BY <2>1, <1>2
    <3>2. QED
      BY <3>1, PowerOfTwo
  <2>2. ASSUME ~(e <= one) PROVE l \in Nat \ {0}
    <3>1. e - one \in Nat
      BY <2>2, <1>2
    <3>2. QED
      BY <3>1, PowerOfTwo
  <2>3. QED
    BY <2>1, <2>2
<1>4. FpToUi(w, p) = IF p >= SignBit(w) \/ e = 2^E - 1 THEN Poison
                     ELSE IF e = 0 THEN 0
                     ELSE IF e <= one THEN (2^M + m) \div k ELSE (2^M + m) * l
  BY DEF FpToUi
<1>5. 2^M + m \in Nat
  BY <1>1, <1>2
<1> DEFINE a == 2^M + m
<1>6. FpToUi(w, p) \in {Poison, 0} \/ (e <= one /\ FpToUi(w, p) = a \div k) \/ (~(e <= one) /\ FpToUi(w, p) = a * l)
  BY <1>4
<1> HIDE DEF a, k, l
<1>7. (e <= one => a \div k \in Int) /\ (~(e <= one) => a * l \in Int)
  <2>1. a \in Nat
    BY <1>5 DEF a
  <2> HIDE DEF e, one
  <2>2. QED
    BY <2>1, <1>3
<1>8. QED
  BY <1>6, <1>7, Widths

\* Converted back, a word gives a pattern.
LEMMA UiToFpIs ==
  ASSUME NEW w \in {4, 8}, NEW x
  PROVE  UiToFp(w, x) \in 0 .. 2^w - 1
<1>1. SignBit(w) = (IF w = 4 THEN 8 ELSE 128) /\ 2^w = (IF w = 4 THEN 16 ELSE 256)
  <2>1. 2^3 = 8 /\ 2^4 = 16 /\ 2^7 = 128 /\ 2^8 = 256
    BY SMT
  <2>2. CASE w = 4
    <3>1. w - 1 = 3
      BY <2>2
    <3>2. QED
      BY <3>1, <2>1, <2>2 DEF SignBit
  <2>3. CASE w = 8
    <3>1. w - 1 = 7
      BY <2>3
    <3>2. QED
      BY <3>1, <2>1, <2>3 DEF SignBit
  <2>4. QED
    BY <2>2, <2>3
<1>2. (2^ExpBits(w) - 1) * 2^MantBits(w) = IF w = 4 THEN 6 ELSE 112
  <2>1. 2^1 = 2 /\ 2^2 = 4 /\ 2^3 = 8 /\ 2^4 = 16
    BY SMT
  <2>2. MantBits(w) = (IF w = 4 THEN 1 ELSE 4) /\ ExpBits(w) = (IF w = 4 THEN 2 ELSE 3)
    BY DEF MantBits, ExpBits
  <2>3. QED
    BY <2>1, <2>2
<1> DEFINE P(p) == FpToUi(w, p) = x
           S == 0 .. SignBit(w) - 1
           First(p) == P(p) /\ \A q \in 0 .. p - 1 : ~P(q)
<1>3. UiToFp(w, x) = IF \E p \in S : P(p) THEN CHOOSE p \in S : First(p) ELSE (2^ExpBits(w) - 1) * 2^MantBits(w)
  BY DEF UiToFp
<1>4. ASSUME \E p \in S : P(p) PROVE \E p \in S : First(p)
  <2> DEFINE Q == {p \in S : P(p)}
  <2>1. Q \in SUBSET Nat /\ Q # {}
    BY <1>1, <1>4
  <2> HIDE DEF Q
  <2>2. PICK p \in Q : \A q \in Q : p =< q
    BY <2>1, LeastElement
  <2>3. p \in S /\ P(p)
    BY DEF Q
  <2>4. ASSUME NEW q \in 0 .. p - 1, P(q) PROVE FALSE
    <3>1. q \in S
      BY <2>3, <1>1
    <3>2. q \in Q
      BY <3>1, <2>4 DEF Q
    <3>3. QED
      BY <3>2, <2>2, <2>3, <1>1
  <2>5. QED
    BY <2>3, <2>4
<1> DEFINE c == CHOOSE p \in S : First(p)
<1>5. (\E p \in S : P(p)) => c \in S
  <2> HIDE DEF S, First, P
  <2>1. ASSUME \E p \in S : First(p) PROVE c \in S
    BY <2>1
  <2>2. QED
    BY <2>1, <1>4
<1>6. S \subseteq 0 .. 2^w - 1 /\ (IF w = 4 THEN 6 ELSE 112) \in 0 .. 2^w - 1
  BY <1>1
<1>7. CASE \E p \in S : P(p)
  <2>1. UiToFp(w, x) = c
    BY <1>3, <1>7
  <2>2. QED
    BY <2>1, <1>5, <1>6, <1>7
<1>8. CASE ~\E p \in S : P(p)
  <2>1. UiToFp(w, x) = IF w = 4 THEN 6 ELSE 112
    BY <1>2, <1>3, <1>8
  <2>2. QED
    BY <2>1, <1>6
<1>9. QED
  BY <1>7, <1>8

\* The values that the passes build.
LEMMA ValIs ==
  ASSUME NEW typ \in AllTypes
  PROVE  /\ \A x \in Word_(typ) : Val(typ, x) \in Vals
         /\ \A x \in Int : Val(typ, Fit(typ, x)) \in Vals
         /\ Zero(typ) \in Vals /\ ErrVal \in Vals /\ NoVal \in Vals
<1>1. \A t : Word_(t) \subseteq Int /\ 0 \in Word_(t)
  BY Word_Is
<1>2. \A x \in Int : Fit(typ, x) \in Word_(typ)
  BY FitIs
<1>3. \A t \in AllTypes : \A x \in Word_(t) : \A b \in BOOLEAN : [typ |-> t, ssa |-> b, val |-> x] \in Vals
  BY <1>1 DEF Vals
<1>4. QED
  BY <1>1, <1>2, <1>3 DEF Val, Const, Zero, ErrVal, NoVal, AllTypes

\* What is not a value of an aggregate is a word.
LEMMA ValsAre ==
  ASSUME NEW v \in Vals
  PROVE  /\ v.typ \in AllTypes /\ v.ssa \in BOOLEAN /\ v.val \in Int
         /\ v.typ # "agg" => v.val \in Word_(v.typ)
  BY DEF Vals

\* A cast gives a value of the type asked for, or fails.
LEMMA TextCastIs ==
  ASSUME NEW v \in Vals, NEW to
  PROVE  TextCast(v, to) \in Vals /\ TextCast(v, to).typ \in {to, "error"}
<1>1. v.typ \in AllTypes /\ v.val \in Int
  BY ValsAre
<1> DEFINE c == TextCast(v, to)
<1>2. \/ c = v /\ v.typ \in {to, "error"}
      \/ c = ErrVal
      \/ \E x \in Int : c = Val(to, x) /\ to \in AllTypes /\ Val(to, x) \in Vals
      \/ c = Zero(to) /\ to \in AllTypes
  <2>1. CASE v.typ \in {to, "error"}
    BY <2>1 DEF TextCast
  <2>2. CASE v.typ \notin {to, "error"} /\ <<v.typ, to>> \in IntCasts
    <3>1. to \in AllTypes
      BY <2>2 DEF IntCasts, AllTypes, SlotTypes, Ints
    <3>2. c = Val(to, Fit(to, v.val))
      BY <2>2 DEF TextCast
    <3>3. Fit(to, v.val) \in Int
      BY <1>1, FitIs, Word_Is
    <3>4. QED
      BY <1>1, <3>1, <3>2, <3>3, ValIs
  <2>3. CASE v.typ \notin {to, "error"} /\ <<v.typ, to>> \notin IntCasts /\ v.typ \in Ints /\ to \in Floats
    <3>1. to \in AllTypes /\ Bits(to) \in {4, 8}
      BY <2>3 DEF AllTypes, SlotTypes, Floats, Bits, BitsOf
    <3>2. c = Val(to, UiToFp(Bits(to), v.val))
      BY <2>3 DEF TextCast
    <3>3. UiToFp(Bits(to), v.val) \in 0 .. 2^Bits(to) - 1
      BY <3>1, UiToFpIs
    <3>4. UiToFp(Bits(to), v.val) \in Word_(to)
      BY <3>3 DEF Word_
    <3>5. QED
      BY <3>1, <3>2, <3>4, ValIs, Word_Is
  <2>4. CASE v.typ \notin {to, "error"} /\ v.typ \in Floats /\ to \in Ints
    <3>1. to \in AllTypes /\ Bits(v.typ) \in {4, 8} /\ <<v.typ, to>> \notin IntCasts /\ v.typ \notin Ints
      BY <2>4 DEF AllTypes, SlotTypes, Floats, Bits, BitsOf, IntCasts, Ints
    <3>2. c = Val(to, Fit(to, FpToUi(Bits(v.typ), v.val)))
      BY <2>4, <3>1 DEF TextCast
    <3>3. FpToUi(Bits(v.typ), v.val) \in Int
      BY <1>1, <3>1, FpToUiIs
    <3>4. Fit(to, FpToUi(Bits(v.typ), v.val)) \in Int
      BY <3>3, FitIs, Word_Is
    <3>5. QED
      BY <3>1, <3>2, <3>3, <3>4, ValIs
  <2>5. CASE /\ v.typ \notin {to, "error"} /\ <<v.typ, to>> \notin IntCasts
             /\ ~(v.typ \in Ints /\ to \in Floats) /\ ~(v.typ \in Floats /\ to \in Ints)
    <3>1. \/ c = ErrVal
          \/ c = Zero(to) /\ to \in {"i32", "i64"}
          \/ c = Val(to, Fit(to, v.val)) /\ to \in {"i32", "i64", "ptr"}
      BY <2>5 DEF TextCast
    <3>2. to \in {"i32", "i64", "ptr"} => to \in AllTypes
      BY DEF AllTypes, SlotTypes, Ints
    <3>3. Fit(to, v.val) \in Int
      BY <1>1, FitIs, Word_Is
    <3>4. QED
      BY <1>1, <3>1, <3>2, <3>3, ValIs
  <2>6. QED
    BY <2>1, <2>2, <2>3, <2>4, <2>5
<1>3. "agg" \in AllTypes
  BY DEF AllTypes
<1>4. ErrVal \in Vals /\ ErrVal.typ = "error" /\ Zero(to).typ = to /\ \A x : Val(to, x).typ = to
  BY <1>3, ValIs DEF ErrVal, Val, Const, Zero
<1>5. Zero(to) \in Vals \/ to \notin AllTypes
  BY ValIs
<1> HIDE DEF c
<1>6. c \in Vals /\ c.typ \in {to, "error"}
  BY <1>2, <1>4, <1>5
<1>7. QED
  BY <1>6 DEF c

\* Likewise the other path.
LEMMA DirectCastIs ==
  ASSUME NEW v \in Vals, NEW to
  PROVE  DirectCast(v, to) \in Vals /\ DirectCast(v, to).typ \in {to, "error"}
<1>1. v.typ \in AllTypes /\ v.val \in Int
  BY ValsAre
<1> DEFINE c == DirectCast(v, to)
<1>2. \/ c = v /\ v.typ \in {to, "error"}
      \/ c = ErrVal
      \/ c = Val(to, Fit(to, v.val)) /\ to \in Ints \cup {"ptr"}
  BY DEF DirectCast
<1>3. to \in Ints \cup {"ptr"} => to \in AllTypes
  BY DEF AllTypes, SlotTypes
<1>4. "agg" \in AllTypes
  BY DEF AllTypes
<1>5. to \in Ints \cup {"ptr"} => Val(to, Fit(to, v.val)) \in Vals
  BY <1>1, <1>3, ValIs
<1>6. ErrVal \in Vals /\ ErrVal.typ = "error" /\ Zero(to).typ = to /\ \A x : Val(to, x).typ = to
  BY <1>4, ValIs DEF ErrVal, Val, Const, Zero
<1>7. Zero(to) \in Vals \/ to \notin AllTypes
  BY ValIs
<1> HIDE DEF c
<1>8. c \in Vals /\ c.typ \in {to, "error"}
  BY <1>2, <1>5, <1>6
<1>9. QED
  BY <1>8 DEF c

\* One value on both paths: the same word of the same type.
Same(v, w) == v.typ = w.typ /\ v.val = w.val

\* Where neither refuses a cast, both give the same; a pointer that is no SSA
\* value is null.
LEMMA CastsAgree ==
  ASSUME NEW v \in Vals, NEW w \in Vals, NEW to, Same(v, w), v.typ = "ptr" => v.ssa \/ v.val = 0,
         TextCast(v, to).typ # "error", DirectCast(w, to).typ # "error"
  PROVE  Same(TextCast(v, to), DirectCast(w, to))
<1>1. v.typ # "error"
  <2>1. CASE v.typ = "error"
    BY <2>1 DEF TextCast
  <2>2. QED
    BY <2>1
<1>2. CASE v.typ = to
  BY <1>2 DEF TextCast, DirectCast, Same
<1>3. CASE v.typ # to
  <2>1. v.typ \in Ints \cup {"ptr"} /\ to \in Ints \cup {"ptr"} /\ DirectCast(w, to) = Val(to, Fit(to, v.val))
    BY <1>1, <1>3 DEF DirectCast, ErrVal, Const, Same
  <2>2. ~(v.typ \in Ints /\ to \in Floats) /\ ~(v.typ \in Floats /\ to \in Ints)
    BY <2>1 DEF Ints, Floats
  <2>3. CASE TextCast(v, to) = Val(to, Fit(to, v.val))
    BY <2>1, <2>3 DEF Same
  <2>4. CASE TextCast(v, to) = Zero(to) /\ v.typ = "ptr" /\ ~v.ssa
    <3>1. v.val = 0
      BY <2>4
    <3>2. Fit(to, 0) = 0
      BY FitIs, Word_Is
    <3>3. QED
      BY <2>1, <2>4, <3>1, <3>2 DEF Same, Val, Zero, Const
  <2>5. \/ TextCast(v, to) = Val(to, Fit(to, v.val))
        \/ TextCast(v, to) = Zero(to) /\ v.typ = "ptr" /\ ~v.ssa
        \/ TextCast(v, to) = ErrVal
    BY <1>1, <1>3, <2>2 DEF TextCast
  <2>6. QED
    BY <2>3, <2>4, <2>5 DEF ErrVal, Const
<1>4. QED
  BY <1>2, <1>3

-----------------------------------------------------------------------------
(***************************************************************************)
(* Bit operations: k steps of the table give k bits.                       *)
(***************************************************************************)
BitOps == [Bit -> [Bit -> Bit]]
Tables == [AllWords -> [AllWords -> Nat]]
NoBits == [x \in AllWords |-> [y \in AllWords |-> 0]]
OneMore(b, T) == [x \in AllWords |-> [y \in AllWords |-> b[x % 2][y % 2] + 2 * T[x \div 2][y \div 2]]]
Built(b, t) ==
  t = [k \in 0 .. MaxBits |->
        [x \in AllWords |-> [y \in AllWords |->
           IF k = 0 THEN 0 ELSE b[x % 2][y % 2] + 2 * t[k - 1][x \div 2][y \div 2]]]]

\* Half a word is a word, and its lowest bit is one.
LEMMA Halves ==
  /\ AllWords \subseteq Nat /\ 0 \in AllWords
  /\ \A x \in AllWords : x \div 2 \in AllWords /\ x % 2 \in Bit
<1>1. MaxBits \in Nat /\ 2^MaxBits \in Nat \ {0}
  BY MaxBitsAssumption, PowerOfTwo
<1> DEFINE m == 2^MaxBits
<1> HIDE DEF m
<1>2. m \in Nat \ {0}
  BY <1>1 DEF m
<1>3. \A x \in 0 .. m - 1 : x \div 2 \in 0 .. m - 1 /\ x % 2 \in {0, 1}
  BY <1>2
<1>4. QED
  BY <1>2, <1>3 DEF AllWords, Bit, m

\* One more bit of a table is a table.
LEMMA OneMoreIs ==
  ASSUME NEW b \in BitOps, NEW T \in Tables
  PROVE  OneMore(b, T) \in Tables
<1>1. ASSUME NEW x \in AllWords, NEW y \in AllWords
      PROVE  b[x % 2][y % 2] \in Nat /\ T[x \div 2][y \div 2] \in Nat
  <2>1. x % 2 \in Bit /\ y % 2 \in Bit /\ x \div 2 \in AllWords /\ y \div 2 \in AllWords
    BY Halves
  <2>2. b[x % 2] \in [Bit -> Bit] /\ T[x \div 2] \in [AllWords -> Nat]
    BY <2>1 DEF BitOps, Tables
  <2>3. b[x % 2][y % 2] \in Bit
    BY <2>1, <2>2
  <2>4. QED
    BY <2>1, <2>2, <2>3 DEF Bit
<1>2. \A x, y \in AllWords : b[x % 2][y % 2] + 2 * T[x \div 2][y \div 2] \in Nat
  BY <1>1
<1>3. QED
  BY <1>2 DEF OneMore, Tables

\* The recursion that defines the table of a bit operation has a solution.
LEMMA BitsExist ==
  ASSUME NEW b \in BitOps
  PROVE  \E t : Built(b, t) /\ t \in [0 .. MaxBits -> Tables]
<1> DEFINE G == [k \in 1 .. MaxBits |-> [T \in Tables |-> OneMore(b, T)]]
<1>1. MaxBits \in Nat
  BY MaxBitsAssumption
<1>2. G \in Steps(Tables, MaxBits)
  BY OneMoreIs DEF Steps
<1>3. NoBits \in Tables
  BY DEF NoBits, Tables
<1>4. PICK t : Iterates(t, Tables, NoBits, MaxBits, G)
  <2> HIDE DEF G
  <2>1. QED
    BY <1>1, <1>2, <1>3, Recursion
<1>5. t \in [0 .. MaxBits -> Tables] /\ t[0] = NoBits /\ \A k \in 1 .. MaxBits : t[k] = OneMore(b, t[k - 1])
  <2>1. t \in [0 .. MaxBits -> Tables] /\ t[0] = NoBits /\ \A k \in 1 .. MaxBits : t[k] = G[k][t[k - 1]]
    BY <1>4 DEF Iterates
  <2>2. ASSUME NEW k \in 1 .. MaxBits PROVE t[k] = OneMore(b, t[k - 1])
    <3>1. k - 1 \in 0 .. MaxBits
      BY <1>1
    <3>2. t[k - 1] \in Tables
      BY <2>1, <3>1
    <3>3. QED
      BY <2>1, <3>2
  <2>3. QED
    BY <2>1, <2>2
<1> DEFINE E(k) == [x \in AllWords |-> [y \in AllWords |->
                     IF k = 0 THEN 0 ELSE b[x % 2][y % 2] + 2 * t[k - 1][x \div 2][y \div 2]]]
<1>6. ASSUME NEW k \in 0 .. MaxBits PROVE t[k] = E(k)
  <2>1. CASE k = 0
    BY <2>1, <1>5 DEF NoBits
  <2>2. CASE k # 0
    <3>1. k \in 1 .. MaxBits
      BY <1>1, <2>2
    <3>2. QED
      BY <3>1, <2>2, <1>5 DEF OneMore
  <2>3. QED
    BY <2>1, <2>2
<1>7. Built(b, t)
  <2>1. t = [k \in 0 .. MaxBits |-> t[k]]
    BY <1>5
  <2>2. t = [k \in 0 .. MaxBits |-> E(k)]
    BY <2>1, <1>6
  <2>3. QED
    BY <2>2 DEF Built
<1>8. QED
  BY <1>5, <1>7

\* The table is the last step of it.
LEMMA BitTableIs ==
  ASSUME NEW b
  PROVE  BitTable(b) = (CHOOSE t : Built(b, t))[MaxBits]
  BY DEF BitTable, Built

\* The bit operations of words are natural numbers.
LEMMA BitWords ==
  ASSUME NEW x \in AllWords, NEW y \in AllWords
  PROVE  AndW(x, y) \in Nat /\ OrW(x, y) \in Nat /\ XorW(x, y) \in Nat
<1>1. ASSUME NEW b \in BitOps PROVE BitTable(b) \in Tables
  <2> DEFINE t == CHOOSE t : Built(b, t)
  <2>1. Built(b, t)
    BY BitsExist
  <2>2. PICK u : Built(b, u) /\ u \in [0 .. MaxBits -> Tables]
    BY BitsExist
  <2> HIDE DEF t
  <2>3. ASSUME NEW k \in 0 .. MaxBits, k # 0 PROVE t[k - 1] \in Tables => t[k] = OneMore(b, t[k - 1])
    BY <2>1, <2>3 DEF Built, OneMore
  <2>4. MaxBits \in Nat
    BY MaxBitsAssumption
  <2>5. t[0] = NoBits
    BY <2>1, <2>4 DEF Built, NoBits
  <2> DEFINE Bad == {k \in 0 .. MaxBits : t[k] \notin Tables}
  <2>6. ASSUME Bad # {} PROVE FALSE
    <3>1. PICK k \in Bad : \A m \in Bad : k =< m
      <4>1. Bad \in SUBSET Nat
        BY <2>4
      <4> HIDE DEF Bad
      <4>2. QED
        BY <2>6, <4>1, LeastElement
    <3>2. k \in 0 .. MaxBits /\ t[k] \notin Tables
      OBVIOUS
    <3>3. k # 0
      BY <2>5, <3>2 DEF Tables, NoBits
    <3>4. k - 1 \in 0 .. MaxBits /\ k - 1 \notin Bad
      BY <2>4, <3>1, <3>2, <3>3
    <3>5. t[k - 1] \in Tables
      BY <3>4
    <3>6. QED
      BY <2>3, <3>2, <3>3, <3>5, OneMoreIs
  <2>7. t[MaxBits] \in Tables
    BY <2>4, <2>6
  <2>8. QED
    BY <2>7, BitTableIs DEF t
<1>2. /\ [i \in Bit |-> [j \in Bit |-> i * j]] \in BitOps
      /\ [i \in Bit |-> [j \in Bit |-> IF i = 1 THEN 1 ELSE j]] \in BitOps
      /\ [i \in Bit |-> [j \in Bit |-> IF i = j THEN 0 ELSE 1]] \in BitOps
  BY DEF BitOps, Bit
<1>3. AndTable \in Tables /\ OrTable \in Tables /\ XorTable \in Tables
  BY <1>1, <1>2 DEF AndTable, OrTable, XorTable
<1>4. QED
  BY <1>3 DEF AndW, OrW, XorW, Tables

-----------------------------------------------------------------------------
(***************************************************************************)
(* The processor: what is known of its registers, of the frame and memory. *)
(***************************************************************************)
Counts == {0, 1, 2, 3, 4, 8}
Knowns == {k \in [n : Counts, v : Nat] : k.v \in 0 .. 2^k.n - 1}
Cell == 0 .. 3
SlotOffsets == {f.params[i].off : i \in DOMAIN f.params} \cup {f.results[i].off : i \in DOMAIN f.results}
Sources == [reg : [f.regs -> Knowns], slot : [SlotOffsets -> Knowns], mem : [0 .. MemSize - 1 -> Cell],
            ok : BOOLEAN, out : Seq(Knowns)]

\* Known keeps the low bits of any number.
LEMMA KnownIs ==
  ASSUME NEW n \in Counts, NEW v \in Int
  PROVE  /\ Known(n, v) \in Knowns /\ Known(n, v).n = n /\ Known(n, v).v = v % 2^n
         /\ 2^n \in {1, 2, 4, 8, 16, 256}
<1> DEFINE N == {1, 2, 4, 8, 16, 256}
<1>1. \A k \in Counts : 2^k \in N
  <2>1. 2^0 = 1 /\ 2^1 = 2 /\ 2^2 = 4 /\ 2^3 = 8 /\ 2^4 = 16 /\ 2^8 = 256
    BY SMT
  <2>2. \A k \in {1, 2, 3, 4, 8} : 2^k \in {2, 4, 8, 16, 256}
    BY Widths
  <2>3. 2^0 \in N /\ {2, 4, 8, 16, 256} \subseteq N /\ Counts = {0} \cup {1, 2, 3, 4, 8}
    BY <2>1 DEF Counts
  <2> DEFINE K == {1, 2, 3, 4, 8}
             M == {2, 4, 8, 16, 256}
  <2>4. \A k \in K : 2^k \in M
    BY <2>2
  <2>5. M \subseteq N /\ Counts = {0} \cup K
    BY <2>3
  <2> HIDE DEF K, M, N
  <2>6. ASSUME NEW k \in Counts PROVE 2^k \in N
    <3>1. CASE k = 0
      BY <3>1, <2>3, Zenon
    <3>2. CASE k \in K
      BY <3>2, <2>4, <2>5, Zenon
    <3>3. QED
      BY <2>5, <3>1, <3>2
  <2>7. QED
    BY <2>6
<1>2. 2^n \in N
  <2> HIDE DEF N
  <2>1. QED
    BY <1>1, Zenon
<1> DEFINE m == 2^n
           w == v % m
<1>3. m \in N
  BY <1>2
<1> HIDE DEF m
<1>4. w \in 0 .. m - 1 /\ w \in Nat
  BY <1>3
<1>5. Known(n, v) = [n |-> n, v |-> w]
  BY DEF Known, m
<1> HIDE DEF w
<1>6. Known(n, v) \in Knowns
  BY <1>4, <1>5 DEF Knowns, m
<1>7. QED
  BY <1>2, <1>5, <1>6 DEF w, m

\* What is known of a value.
LEMMA KnownsAre ==
  ASSUME NEW k \in Knowns
  PROVE  k.n \in Counts /\ k.v \in Nat /\ k.v \in 0 .. 2^k.n - 1
  BY DEF Knowns

\* Nothing is known, and the smaller of two widths.
LEMMA WidthsMeet ==
  /\ Unknown \in Knowns
  /\ \A a, b \in Counts : Least(a, b) \in Counts
<1>1. 0 \in Counts
  BY DEF Counts
<1>2. QED
  BY <1>1, KnownIs DEF Unknown, Counts, Least

\* Values that are narrowed, extended or overlaid are known values.
LEMMA PartsKnown ==
  ASSUME NEW k \in Knowns, NEW w \in {2, 4, 8}
  PROVE  /\ Low(k, w) \in Knowns
         /\ ZeroExt(f.arch, k, w) \in Knowns /\ SignExt(f.arch, k, w) \in Knowns
         /\ \A old \in Knowns : Overlay(old, k, w) \in Knowns
<1>1. k.n \in Counts /\ k.v \in Nat /\ w \in Counts
  BY KnownsAre DEF Counts
<1>2. 2^w \in {4, 16, 256} /\ RegBits(f.arch) \in Counts /\ 2^RegBits(f.arch) \in Nat
  <2>1. 2^2 = 4 /\ 2^4 = 16 /\ 2^8 = 256
    BY SMT
  <2>2. RegBits(f.arch) \in {4, 8}
    BY DEF RegBits
  <2>3. RegBits(f.arch) \in Nat /\ RegBits(f.arch) \in Counts
    BY <2>2 DEF Counts
  <2>4. 2^RegBits(f.arch) \in Nat
    BY <2>3, PowerOfTwo
  <2> DEFINE K == {2, 4, 8}
             M == {4, 16, 256}
  <2>5. (\A i \in K : 2^i \in M) /\ w \in K
    BY <2>1
  <2> HIDE DEF K, M
  <2>6. 2^w \in M
    BY <2>5, Zenon
  <2>7. QED
    BY <2>3, <2>4, <2>6 DEF M
<1> DEFINE m == 2^w
<1>3. m \in {4, 16, 256}
  BY <1>2
<1>4. Low(k, w) \in Knowns
  <2>1. Least(k.n, w) \in Counts
    BY <1>1, WidthsMeet
  <2> DEFINE n == Least(k.n, w)
             x == k.v
  <2>2. n \in Counts /\ x \in Int
    BY <1>1, <2>1
  <2> HIDE DEF m, n, x
  <2>3. Known(n, x) \in Knowns
    BY <2>2, KnownIs
  <2>4. QED
    BY <2>3 DEF Low, n, x
<1>5. ZeroExt(f.arch, k, w) \in Knowns
  <2> HIDE DEF m
  <2>1. k.v % m \in Int
    BY <1>1, <1>3
  <2>2. Known(RegBits(f.arch), k.v % m) \in Knowns
    BY <1>2, <2>1, KnownIs
  <2>3. QED
    BY <2>2 DEF ZeroExt, m
<1>6. SignExt(f.arch, k, w) \in Knowns
  <2> DEFINE x == Signed(SignBit(w), k.v % m) + 2^RegBits(f.arch)
  <2>1. SignBit(w) \in Int
    <3>1. 2^1 = 2 /\ 2^3 = 8 /\ 2^7 = 128
      BY SMT
    <3>2. w - 1 \in {1, 3, 7}
      OBVIOUS
    <3>3. QED
      BY <3>1, <3>2 DEF SignBit
  <2>2. x \in Int
    <3> HIDE DEF m
    <3>1. k.v % m \in Int
      BY <1>1, <1>3
    <3>2. QED
      BY <1>2, <2>1, <3>1 DEF Signed, Negative
  <2> HIDE DEF x
  <2>3. Known(RegBits(f.arch), x) \in Knowns
    BY <1>2, <2>2, KnownIs
  <2>4. QED
    BY <2>3 DEF SignExt, x, m
<1>7. ASSUME NEW old \in Knowns PROVE Overlay(old, k, w) \in Knowns
  <2> DEFINE x == (old.v \div m) * m + (k.v % m)
  <2>1. old.n \in Counts /\ old.v \in Nat
    BY KnownsAre
  <2>2. x \in Int
    <3> HIDE DEF m
    <3>1. QED
      BY <1>1, <1>3, <2>1
  <2> HIDE DEF x
  <2>3. Known(old.n, x) \in Knowns
    BY <2>1, <2>2, KnownIs
  <2>4. QED
    BY <1>4, <2>3 DEF Overlay, x, m
<1>8. QED
  BY <1>4, <1>5, <1>6, <1>7

\* What is known of a value is a word.
LEMMA KnownWords ==
  ASSUME NEW k \in Knowns
  PROVE  k.n \in Counts /\ k.v \in Nat /\ k.v \in 0 .. 255 /\ k.v \in AllWords
<1> DEFINE m == 2^k.n
           P == 2^MaxBits
<1>1. k.n \in Counts /\ k.v \in 0 .. m - 1 /\ k.v \in Nat
  BY KnownsAre
<1>2. m \in {1, 2, 4, 8, 16, 256} /\ P \in Nat /\ P >= 256
  BY <1>1, KnownIs, Widths DEF Poison
<1> HIDE DEF m, P
<1>3. k.v \in 0 .. 255 /\ k.v \in 0 .. P - 1
  BY <1>1, <1>2
<1>4. QED
  BY <1>1, <1>3 DEF AllWords, P

\* What arithmetic keeps.
LEMMA ArithKnown ==
  ASSUME NEW a \in Knowns, NEW b \in Knowns, NEW op \in QuadOps \cup ArmOps
  PROVE  Arith(op, a, b) \in Knowns
<1> DEFINE n == Least(a.n, b.n)
           P == 2^MaxBits
           x == a.v
           y == b.v
<1>1. n \in Counts /\ x \in Nat /\ y \in Nat /\ x \in AllWords /\ y \in AllWords /\ P \in Nat
  BY KnownWords, WidthsMeet, Widths DEF Poison
<1>2. XorW(x, y) \in Int /\ AndW(x, y) \in Int /\ OrW(x, y) \in Int
  BY <1>1, BitWords
<1>3. \A v \in Int : Known(n, v) \in Knowns
  <2> HIDE DEF n
  <2>1. QED
    BY <1>1, KnownIs
<1>4. \E v \in {x + y, x - y + P, y - x + P, XorW(x, y), AndW(x, y), OrW(x, y)} : Arith(op, a, b) = Known(n, v)
  <2> HIDE DEF n, x, y, P
  <2>1. \/ op \in {"ADDQ", "ADD"} \/ op \in {"SUBQ", "SUB"} \/ op = "RSB" \/ op \in {"XORQ", "EOR"}
        \/ op = "AND" \/ op = "ORR"
    BY DEF QuadOps, ArmOps
  <2>2. CASE op \in {"ADDQ", "ADD"}
    BY <2>2 DEF Arith, n, x, y
  <2>3. CASE op \in {"SUBQ", "SUB"}
    BY <2>3 DEF Arith, n, x, y, P
  <2>4. CASE op = "RSB"
    BY <2>4 DEF Arith, n, x, y, P
  <2>5. CASE op \in {"XORQ", "EOR"}
    BY <2>5 DEF Arith, n, x, y
  <2>6. CASE op = "AND"
    BY <2>6 DEF Arith, n, x, y
  <2>7. CASE op = "ORR"
    BY <2>7 DEF Arith, n, x, y
  <2>8. QED
    BY <2>1, <2>2, <2>3, <2>4, <2>5, <2>6, <2>7
<1> HIDE DEF n, x, y, P
<1>5. x + y \in Int /\ x - y + P \in Int /\ y - x + P \in Int
  BY <1>1
<1>6. QED
  BY <1>2, <1>3, <1>4, <1>5

\* What a shifted operand is known to be.
LEMMA ShiftedKnown ==
  ASSUME NEW k \in Knowns, NEW s \in Knowns, NEW how \in {"<<", ">>", "->", "@>"}
  PROVE  Shifted(how, k, s) \in Knowns
<1> DEFINE x == k.v
           e == s.v
           p == 2^e
           r == 2^(e % 4)
           q == 2^(4 - (e % 4))
<1>1. x \in Nat /\ e \in Nat /\ 4 \in Counts
  BY KnownWords DEF Counts
<1>2. p \in Nat \ {0} /\ r \in Nat \ {0} /\ q \in Nat \ {0}
  <2>1. e % 4 \in Nat /\ 4 - (e % 4) \in Nat
    BY <1>1
  <2>2. QED
    BY <1>1, <2>1, PowerOfTwo
<1>3. \E v \in {(x * p) % 16, x \div p, Signed(8, x) \div p + 16, (x \div r) + (x % r) * q} :
         Shifted(how, k, s) \in {Unknown, Known(4, v)}
  <2> HIDE DEF x, e, p, r, q
  <2>1. CASE how = "<<"
    BY <2>1 DEF Shifted, x, e, p
  <2>2. CASE how = ">>"
    BY <2>2 DEF Shifted, x, e, p
  <2>3. CASE how = "->"
    BY <2>3 DEF Shifted, x, e, p
  <2>4. CASE how = "@>"
    BY <2>4 DEF Shifted, RotateRight, x, e, r, q
  <2>5. QED
    BY <2>1, <2>2, <2>3, <2>4
<1> HIDE DEF x, e, p, r, q
<1>4. /\ (x * p) % 16 \in Int /\ x \div p \in Int /\ Signed(8, x) \div p + 16 \in Int
      /\ (x \div r) + (x % r) * q \in Int
  <2>1. (x * p) % 16 \in Int
    <3>1. x * p \in Int
      BY <1>1, <1>2
    <3>2. QED
      BY <3>1
  <2>2. x \div p \in Int /\ Signed(8, x) \div p \in Int
    BY <1>1, <1>2 DEF Signed, Negative
  <2>3. (x \div r) + (x % r) * q \in Int
    <3>1. x \div r \in Int /\ x % r \in Int
      BY <1>1, <1>2
    <3>2. (x % r) * q \in Int
      BY <3>1, <1>2
    <3>3. QED
      BY <3>1, <3>2
  <2>4. QED
    BY <2>1, <2>2, <2>3
<1>5. \A v \in Int : Known(4, v) \in Knowns
  BY <1>1, KnownIs
<1>6. QED
  BY <1>3, <1>4, <1>5, WidthsMeet

\* The index of a register that may be absent.
Part(s, r) == IF r = "" THEN Known(8, 0) ELSE s.reg[r]

\* An operand that addresses memory.
Indexed(o) == o.n \in Int /\ o.reg \in f.regs \cup {""} /\ o.index \in f.regs \cup {""}

\* Addresses are known values, and an access that is reachable is inside memory.
LEMMA AddressKnown ==
  ASSUME NEW s \in Sources, NEW o, Indexed(o)
  PROVE  /\ AddressOf(f.arch, s, o) \in Knowns
         /\ \A w \in {2, 4, 8} : Reachable(f.arch, s, o, w) =>
              \A k \in 0 .. w \div 2 - 1 : AddressOf(f.arch, s, o).v + k \in 0 .. MemSize - 1
<1> DEFINE b == Part(s, o.reg)
           x == Part(s, o.index)
           n == Least(RegBits(f.arch), Least(b.n, x.n))
           v == b.v + x.v + o.n
<1>1. b \in Knowns /\ x \in Knowns
  <2>1. 8 \in Counts /\ 0 \in Int
    BY DEF Counts
  <2>2. Known(8, 0) \in Knowns
    BY <2>1, KnownIs
  <2>3. \A r \in f.regs : s.reg[r] \in Knowns
    BY DEF Sources
  <2>4. QED
    BY <2>2, <2>3 DEF Part, Indexed
<1>2. AddressOf(f.arch, s, o) = Known(n, v)
  BY DEF AddressOf, Part
<1>3. b.n \in Counts /\ x.n \in Counts /\ RegBits(f.arch) \in Counts /\ v \in Int
  <2> HIDE DEF b, x
  <2>1. b.v \in Nat /\ x.v \in Nat /\ b.n \in Counts /\ x.n \in Counts
    BY <1>1, KnownsAre
  <2>2. o.n \in Int
    BY DEF Indexed
  <2>3. RegBits(f.arch) \in Counts
    BY DEF RegBits, Counts
  <2>4. b.v + x.v + o.n \in Int
    BY <2>1, <2>2
  <2>5. QED
    BY <2>1, <2>3, <2>4
<1>4. n \in Counts
  <2> HIDE DEF b, x
  <2>1. QED
    BY <1>3, WidthsMeet
<1> HIDE DEF n, v
<1>5. Known(n, v) \in Knowns
  BY <1>3, <1>4, KnownIs
<1> DEFINE a == AddressOf(f.arch, s, o).v
<1>6. a \in Nat
  BY <1>2, <1>5, KnownsAre
<1>7. ASSUME NEW w \in {2, 4, 8}, Reachable(f.arch, s, o, w), NEW k \in 0 .. w \div 2 - 1
      PROVE  a + k \in 0 .. MemSize - 1
  <2>1. a + w \div 2 <= MemSize
    BY <1>7 DEF Reachable, Fits, CellBits
  <2>2. MemSize \in Nat
    BY MemSizeAssumption
  <2> HIDE DEF a
  <2>3. w \div 2 \in Nat /\ k \in Nat /\ k < w \div 2
    OBVIOUS
  <2>4. QED
    BY <1>6, <2>1, <2>2, <2>3
<1>8. QED
  BY <1>2, <1>5, <1>7

\* What the cells at an address hold.
LEMMA CellsHold ==
  ASSUME NEW mem \in [0 .. MemSize - 1 -> Cell], NEW a \in Nat, NEW w \in {2, 4, 8},
         \A k \in 0 .. w \div 2 - 1 : a + k \in 0 .. MemSize - 1
  PROVE  Cells(mem, a, w) \in 0 .. 2^w - 1
<1> DEFINE c(k) == mem[a + k]
<1>1. Cells(mem, a, w) = IF w = 2 THEN c(0) * 2^(2 * 0) ELSE IF w = 4 THEN c(0) * 2^(2 * 0) + c(1) * 2^(2 * 1)
                         ELSE c(0) * 2^(2 * 0) + c(1) * 2^(2 * 1) + c(2) * 2^(2 * 2) + c(3) * 2^(2 * 3)
  BY DEF Cells, CellBits
<1>2. 2^(2 * 0) = 1 /\ 2^(2 * 1) = 4 /\ 2^(2 * 2) = 16 /\ 2^(2 * 3) = 64 /\ 2^2 = 4 /\ 2^4 = 16 /\ 2^8 = 256
  BY SMT
<1>3. \A k \in 0 .. w \div 2 - 1 : c(k) \in 0 .. 3
  BY DEF Cell
<1> HIDE DEF c
<1>4. CASE w = 2
  <2>1. c(0) \in 0 .. 3 /\ Cells(mem, a, w) = c(0) * 1
    BY <1>1, <1>2, <1>3, <1>4
  <2>2. QED
    BY <2>1, <1>2, <1>4
<1>5. CASE w = 4
  <2>1. c(0) \in 0 .. 3 /\ c(1) \in 0 .. 3 /\ Cells(mem, a, w) = c(0) * 1 + c(1) * 4
    BY <1>1, <1>2, <1>3, <1>5
  <2>2. QED
    BY <2>1, <1>2, <1>5
<1>6. CASE w = 8
  <2>1. c(0) \in 0 .. 3 /\ c(1) \in 0 .. 3 /\ c(2) \in 0 .. 3 /\ c(3) \in 0 .. 3
    BY <1>3, <1>6
  <2>2. Cells(mem, a, w) = c(0) * 2^(2 * 0) + c(1) * 2^(2 * 1) + c(2) * 2^(2 * 2) + c(3) * 2^(2 * 3)
    BY <1>1, <1>6
  <2>4. Cells(mem, a, w) = c(0) * 1 + c(1) * 4 + c(2) * 16 + c(3) * 64
    BY <2>2, <1>2
  <2>5. 2^w = 256
    BY <1>2, <1>6
  <2> DEFINE c0 == c(0)
             c1 == c(1)
             c2 == c(2)
             c3 == c(3)
  <2>6. c0 \in 0 .. 3 /\ c1 \in 0 .. 3 /\ c2 \in 0 .. 3 /\ c3 \in 0 .. 3
    BY <2>1
  <2>7. Cells(mem, a, w) = c0 * 1 + c1 * 4 + c2 * 16 + c3 * 64
    BY <2>4
  <2> HIDE DEF c0, c1, c2, c3
  <2>8. c0 * 1 + c1 * 4 + c2 * 16 + c3 * 64 \in 0 .. 256 - 1
    BY <2>6
  <2>9. QED
    BY <2>5, <2>7, <2>8
<1>7. QED
  BY <1>4, <1>5, <1>6

\* Operands that the function can have.
OperandKinds == {"imm", "raw", "reg", "fp", "sym", "ident", "mem", "shift"}
Operand_(o) ==
  /\ o.n \in Int
  /\ o.kind = "imm" => o.n \in 0 .. 255
  /\ o.kind \in {"reg", "shift"} => o.reg \in f.regs
  /\ o.kind = "mem" => o.reg \in f.regs \cup {""}
  /\ o.kind \in {"mem", "shift"} => o.index \in f.regs \cup {""}
  /\ o.kind = "shift" => o.how \in {"<<", ">>", "->", "@>"} /\ o.n \in 0 .. 3

\* Every operand is a known value.
LEMMA OperandKnown ==
  ASSUME NEW s \in Sources, NEW o, Operand_(o), NEW w \in {2, 4, 8}
  PROVE  SrcValue(f.arch, s, o, w) \in Knowns
<1>1. 8 \in Counts /\ 4 \in Counts /\ 0 \in Counts /\ w \in Counts
  BY DEF Counts
<1>2. CASE o.kind = "imm"
  <2>1. o.n + 256 \in Int
    BY <1>2 DEF Operand_
  <2>2. QED
    BY <1>1, <1>2, <2>1, KnownIs DEF SrcValue
<1>3. CASE o.kind = "reg"
  BY <1>3 DEF SrcValue, Sources, Operand_
<1>4. CASE o.kind = "fp"
  BY <1>4, WidthsMeet DEF SrcValue, Sources
<1>5. CASE o.kind = "sym"
  BY <1>5, <1>1, KnownIs DEF SrcValue, SymWord
<1>6. CASE o.kind = "mem"
  <2> DEFINE a == AddressOf(f.arch, s, o).v
  <2>1. Indexed(o)
    BY <1>6 DEF Operand_, Indexed
  <2>2. a \in Nat
    BY <2>1, AddressKnown, KnownsAre
  <2>3. ASSUME Reachable(f.arch, s, o, w) PROVE Known(w, Cells(s.mem, a, w)) \in Knowns
    <3>1. \A k \in 0 .. w \div 2 - 1 : a + k \in 0 .. MemSize - 1
      BY <2>1, <2>3, AddressKnown
    <3>2. s.mem \in [0 .. MemSize - 1 -> Cell]
      BY DEF Sources
    <3> HIDE DEF a
    <3>3. Cells(s.mem, a, w) \in 0 .. 2^w - 1
      BY <2>2, <3>1, <3>2, CellsHold
    <3> DEFINE m == 2^w
               c == Cells(s.mem, a, w)
    <3>4. c \in Int
      <4> HIDE DEF c, m
      <4>1. c \in 0 .. m - 1
        BY <3>3 DEF c, m
      <4>2. QED
        BY <4>1
    <3> HIDE DEF c
    <3>5. Known(w, c) \in Knowns
      BY <1>1, <3>4, KnownIs
    <3>6. QED
      BY <3>5 DEF c
  <2>4. SrcValue(f.arch, s, o, w) = IF Reachable(f.arch, s, o, w) THEN Known(w, Cells(s.mem, a, w)) ELSE Unknown
    BY <1>6 DEF SrcValue
  <2> HIDE DEF a
  <2>5. QED
    BY <2>3, <2>4, WidthsMeet
<1>7. CASE o.kind = "shift"
  <2> DEFINE e == IF o.index = "" THEN Known(4, o.n) ELSE s.reg[o.index]
  <2>1. e \in Knowns /\ s.reg[o.reg] \in Knowns /\ o.how \in {"<<", ">>", "->", "@>"}
    <3>1. o.n \in Int /\ o.reg \in f.regs /\ o.index \in f.regs \cup {""} /\ o.how \in {"<<", ">>", "->", "@>"}
      BY <1>7 DEF Operand_
    <3>2. \A r \in f.regs : s.reg[r] \in Knowns
      BY DEF Sources
    <3> DEFINE n == o.n
    <3>3. n \in Int
      BY <3>1
    <3> HIDE DEF n
    <3>4. Known(4, n) \in Knowns
      BY <1>1, <3>3, KnownIs
    <3>5. QED
      BY <3>1, <3>2, <3>4 DEF n
  <2>2. SrcValue(f.arch, s, o, w) = Shifted(o.how, s.reg[o.reg], e)
    BY <1>7 DEF SrcValue
  <2> HIDE DEF e
  <2>3. QED
    BY <2>1, <2>2, ShiftedKnown
<1>8. CASE o.kind \notin {"imm", "reg", "fp", "sym", "mem", "shift"}
  BY <1>8, WidthsMeet DEF SrcValue
<1>9. QED
  BY <1>2, <1>3, <1>4, <1>5, <1>6, <1>7, <1>8

\* Steps of the processor keep its state well formed: what is set.
LEMMA SourceSets ==
  ASSUME NEW s \in Sources
  PROVE  /\ \A r : \A k \in Knowns : [s EXCEPT !.reg[r] = k] \in Sources
         /\ \A o : \A k \in Knowns : [s EXCEPT !.slot[o] = k] \in Sources
         /\ \A m \in [0 .. MemSize - 1 -> Cell] : [s EXCEPT !.mem = m] \in Sources
         /\ \A b \in BOOLEAN : [s EXCEPT !.ok = b] \in Sources
         /\ \A q \in Seq(Knowns) : [s EXCEPT !.out = q] \in Sources
<1>1. /\ s = [reg |-> s.reg, slot |-> s.slot, mem |-> s.mem, ok |-> s.ok, out |-> s.out]
      /\ s.reg \in [f.regs -> Knowns] /\ s.slot \in [SlotOffsets -> Knowns] /\ s.mem \in [0 .. MemSize - 1 -> Cell]
      /\ s.ok \in BOOLEAN /\ s.out \in Seq(Knowns)
  BY DEF Sources
<1>2. /\ \A r : \A k \in Knowns : [s.reg EXCEPT ![r] = k] \in [f.regs -> Knowns]
      /\ \A o : \A k \in Knowns : [s.slot EXCEPT ![o] = k] \in [SlotOffsets -> Knowns]
  BY <1>1
<1>3. \A r : \A k \in Knowns : [s EXCEPT !.reg[r] = k] \in Sources
  BY <1>1, <1>2 DEF Sources
<1>4. \A o : \A k \in Knowns : [s EXCEPT !.slot[o] = k] \in Sources
  BY <1>1, <1>2 DEF Sources
<1>5. \A m \in [0 .. MemSize - 1 -> Cell] : [s EXCEPT !.mem = m] \in Sources
  BY <1>1 DEF Sources
<1>6. \A b \in BOOLEAN : [s EXCEPT !.ok = b] \in Sources
  BY <1>1 DEF Sources
<1>7. \A q \in Seq(Knowns) : [s EXCEPT !.out = q] \in Sources
  BY <1>1 DEF Sources
<1>8. QED
  BY <1>3, <1>4, <1>5, <1>6, <1>7

\* Whether an access has a meaning.
LEMMA DefinedIs ==
  ASSUME NEW s, NEW o, NEW w
  PROVE  SrcDefined(f.arch, s, o, w) \in BOOLEAN
  BY DEF SrcDefined, Reachable, Fits

\* A store keeps memory made of cells.
LEMMA StoreCells ==
  ASSUME NEW mem \in [0 .. MemSize - 1 -> Cell], NEW a \in Nat, NEW n \in Nat, NEW v \in Nat
  PROVE  [c \in DOMAIN mem |-> IF c \in a .. a + n - 1 THEN Field(v, CellBits * (c - a), CellBits) ELSE mem[c]]
           \in [0 .. MemSize - 1 -> Cell]
<1>1. ASSUME NEW c \in 0 .. MemSize - 1, c \in a .. a + n - 1
      PROVE  Field(v, CellBits * (c - a), CellBits) \in Cell
  <2> DEFINE l == CellBits * (c - a)
             p == 2^l
  <2>1. l \in Nat
    BY <1>1, MemSizeAssumption DEF CellBits
  <2>2. p \in Nat \ {0}
    <3> HIDE DEF l
    <3>1. QED
      BY <2>1, PowerOfTwo
  <2>3. 2^2 = 4
    BY SMT
  <2>4. Field(v, l, CellBits) = (v \div p) % 4
    BY <2>3 DEF Field, CellBits
  <2> HIDE DEF l, p
  <2>5. (v \div p) % 4 \in 0 .. 3
    <3>1. v \div p \in Int
      BY <2>2
    <3>2. QED
      BY <3>1
  <2>6. QED
    BY <2>4, <2>5 DEF Cell, l
<1>2. QED
  BY <1>1

\* A move of the processor.
LEMMA MoveSource ==
  ASSUME NEW s \in Sources, NEW op \in MoveOps, NEW from, NEW to, Operand_(from), Operand_(to)
  PROVE  SrcMove(f.arch, s, op, from, to) \in Sources
<1> DEFINE w == MoveBits(op)
           k == SrcValue(f.arch, s, from, w)
           x == IF op = "MOVB" THEN SignExt(f.arch, k, w) ELSE ZeroExt(f.arch, k, w)
           a == AddressOf(f.arch, s, to).v
           e == [s EXCEPT !.ok = @ /\ SrcDefined(f.arch, s, from, w) /\ SrcDefined(f.arch, s, to, w)]
           m == [c \in DOMAIN s.mem |->
                   IF c \in a .. a + w \div CellBits - 1
                   THEN Field(k.v, CellBits * (c - a), CellBits) ELSE s.mem[c]]
<1>1. w \in {2, 4, 8}
  BY DEF MoveOps, MoveBits
<1>2. k \in Knowns
  <2> HIDE DEF w
  <2>1. QED
    BY <1>1, OperandKnown
<1>3. x \in Knowns
  <2> HIDE DEF w, k
  <2>1. QED
    BY <1>1, <1>2, PartsKnown
<1>4. e \in Sources
  <2> DEFINE b == s.ok /\ SrcDefined(f.arch, s, from, w) /\ SrcDefined(f.arch, s, to, w)
  <2>1. b \in BOOLEAN
    OBVIOUS
  <2>2. e = [s EXCEPT !.ok = b]
    OBVIOUS
  <2> HIDE DEF b, e
  <2>3. QED
    BY <2>1, <2>2, SourceSets
<1>5. to.kind = "mem" => m \in [0 .. MemSize - 1 -> Cell]
  <2>1. ASSUME to.kind = "mem" PROVE a \in Nat
    <3>1. Indexed(to)
      BY <2>1 DEF Indexed, Operand_
    <3>2. QED
      BY <3>1, AddressKnown, KnownsAre
  <2>2. s.mem \in [0 .. MemSize - 1 -> Cell] /\ k.v \in Nat /\ w \div CellBits \in Nat
    <3> HIDE DEF k, w
    <3>1. k.v \in Nat
      BY <1>2, KnownsAre
    <3>2. QED
      BY <1>1, <3>1 DEF Sources, CellBits
  <2> DEFINE n == w \div CellBits
             v == k.v
  <2>3. n \in Nat /\ v \in Nat
    BY <2>2
  <2>4. m = [c \in DOMAIN s.mem |-> IF c \in a .. a + n - 1 THEN Field(v, CellBits * (c - a), CellBits) ELSE s.mem[c]]
    OBVIOUS
  <2> DEFINE c0 == s.mem
             stored == [c \in DOMAIN c0 |-> IF c \in a .. a + n - 1 THEN Field(v, CellBits * (c - a), CellBits) ELSE c0[c]]
  <2>5. c0 \in [0 .. MemSize - 1 -> Cell] /\ m = stored
    BY <2>2, <2>4
  <2> HIDE DEF a, n, v, m, k, w, c0
  <2>6. a \in Nat => stored \in [0 .. MemSize - 1 -> Cell]
    BY <2>3, <2>5, StoreCells
  <2> HIDE DEF stored
  <2>7. QED
    BY <2>1, <2>5, <2>6
<1>6. Low(x, RegBits(f.arch)) \in Knowns /\ \A old \in Knowns : Overlay(old, k, w) \in Knowns
  <2>1. RegBits(f.arch) \in {2, 4, 8}
    BY DEF RegBits
  <2> HIDE DEF w, k, x
  <2>2. QED
    BY <1>1, <1>2, <1>3, <2>1, PartsKnown
<1>7. \/ SrcMove(f.arch, s, op, from, to) \in {e, s, [s EXCEPT !.ok = FALSE]}
      \/ SrcMove(f.arch, s, op, from, to) = [s EXCEPT !.reg[to.reg] = Low(x, RegBits(f.arch))]
      \/ to.n \in SlotOffsets /\ SrcMove(f.arch, s, op, from, to) = [s EXCEPT !.slot[to.n] = Overlay(@, k, w)]
      \/ to.kind = "mem" /\ SrcMove(f.arch, s, op, from, to) = [s EXCEPT !.mem = m]
  <2>1. DOMAIN s.slot = SlotOffsets
    BY DEF Sources
  <2>2. CASE ~e.ok
    BY <2>2 DEF SrcMove
  <2>3. CASE e.ok /\ to.kind = "reg"
    BY <2>3 DEF SrcMove, SetSrcReg
  <2>4. CASE e.ok /\ to.kind = "fp"
    BY <2>1, <2>4 DEF SrcMove
  <2>5. CASE e.ok /\ to.kind = "mem"
    BY <2>5 DEF SrcMove
  <2>6. CASE e.ok /\ to.kind \notin {"reg", "fp", "mem"}
    BY <2>6 DEF SrcMove
  <2>7. e.ok \in BOOLEAN
    BY <1>4 DEF Sources
  <2>8. QED
    BY <2>2, <2>3, <2>4, <2>5, <2>6
<1> DEFINE y == Low(x, RegBits(f.arch))
           z == Overlay(s.slot[to.n], k, w)
<1>8. y \in Knowns /\ (to.n \in SlotOffsets => z \in Knowns)
  <2>1. to.n \in SlotOffsets => s.slot[to.n] \in Knowns
    BY DEF Sources
  <2> HIDE DEF w, k, x
  <2>2. QED
    BY <1>6, <2>1
<1>9. \/ SrcMove(f.arch, s, op, from, to) \in {e, s, [s EXCEPT !.ok = FALSE]}
      \/ SrcMove(f.arch, s, op, from, to) = [s EXCEPT !.reg[to.reg] = y]
      \/ to.n \in SlotOffsets /\ SrcMove(f.arch, s, op, from, to) = [s EXCEPT !.slot[to.n] = z]
      \/ to.kind = "mem" /\ SrcMove(f.arch, s, op, from, to) = [s EXCEPT !.mem = m]
  <2> HIDE DEF w, k, x, e, m
  <2>1. QED
    BY <1>7
<1> HIDE DEF y, z, w, k, x, e, m
<1>10. [s EXCEPT !.ok = FALSE] \in Sources
  BY SourceSets
<1>11. [s EXCEPT !.reg[to.reg] = y] \in Sources
  BY <1>8, SourceSets
<1>12. to.n \in SlotOffsets => [s EXCEPT !.slot[to.n] = z] \in Sources
  BY <1>8, SourceSets
<1>13. to.kind = "mem" => [s EXCEPT !.mem = m] \in Sources
  BY <1>5, SourceSets
<1>14. QED
  BY <1>4, <1>9, <1>10, <1>11, <1>12, <1>13

\* Arithmetic of the processor.
LEMMA ArithSource ==
  ASSUME NEW s \in Sources, NEW op \in QuadOps \cup ArmOps, NEW lhs, NEW rhs, Operand_(lhs), Operand_(rhs), NEW dst
  PROVE  SrcArith(f.arch, s, op, lhs, rhs, dst) \in Sources
<1> DEFINE w == RegBits(f.arch)
           a == SrcValue(f.arch, s, lhs, w)
           b == SrcValue(f.arch, s, rhs, w)
           k == Low(Arith(op, a, b), w)
           t == SetSrcReg(s, dst, k)
           d == t.ok /\ SrcDefined(f.arch, s, lhs, w) /\ SrcDefined(f.arch, s, rhs, w)
<1>1. w \in {2, 4, 8}
  BY DEF RegBits
<1>2. a \in Knowns /\ b \in Knowns
  <2> HIDE DEF w
  <2>1. QED
    BY <1>1, OperandKnown
<1>3. k \in Knowns
  <2> HIDE DEF w, a, b
  <2>1. Arith(op, a, b) \in Knowns
    BY <1>2, ArithKnown
  <2>2. QED
    BY <1>1, <2>1, PartsKnown
<1>4. t \in Sources
  <2> HIDE DEF k
  <2>1. QED
    BY <1>3, SourceSets DEF SetSrcReg
<1>5. SrcArith(f.arch, s, op, lhs, rhs, dst) = [t EXCEPT !.ok = d]
  BY DEF SrcArith
<1> HIDE DEF t
<1>6. d \in BOOLEAN
  OBVIOUS
<1> HIDE DEF d
<1>7. QED
  BY <1>4, <1>5, <1>6, SourceSets

\* Several registers at once.
LEMMA SetSource ==
  ASSUME NEW s \in Sources, NEW new, \A r \in DOMAIN new : new[r] \in Knowns
  PROVE  SrcSet(s, new) \in Sources
<1> DEFINE q == [r \in DOMAIN s.reg |-> IF r \in DOMAIN new THEN new[r] ELSE s.reg[r]]
<1>1. SrcSet(s, new) = [s EXCEPT !.reg = q]
  BY DEF SrcSet
<1>2. q \in [f.regs -> Knowns]
  BY DEF Sources
<1> HIDE DEF q
<1>3. [s EXCEPT !.reg = q] \in Sources
  BY <1>2 DEF Sources
<1>4. QED
  BY <1>1, <1>3

\* What CPUID and XGETBV answer is of 32 bits.
LEMMA Answers ==
  /\ \A a, c \in Int : \A r \in {"AX", "BX", "CX", "DX"} : Cpuid(a, c)[r] \in 0 .. 15
  /\ \A c \in Int : \A r \in {"AX", "DX"} : Xgetbv(c)[r] \in 0 .. 15
  /\ \A a, c : DOMAIN Cpuid(a, c) = {"AX", "BX", "CX", "DX"} /\ DOMAIN Xgetbv(c) = {"AX", "DX"}
  BY DEF Cpuid, Xgetbv

\* Hence what the processor knows of them.
LEMMA AnswersKnown ==
  ASSUME NEW a \in Knowns, NEW c \in Knowns
  PROVE  /\ \A r \in DOMAIN CpuidKnown(a, c) : CpuidKnown(a, c)[r] \in Knowns
         /\ \A r \in DOMAIN XgetbvKnown(c) : XgetbvKnown(c)[r] \in Knowns
<1> DEFINE x == a.v % 16
           y == c.v % 16
<1>1. a.v \in Nat /\ c.v \in Nat /\ 8 \in Counts
  BY KnownsAre DEF Counts
<1>2. x \in Int /\ y \in Int
  BY <1>1
<1> HIDE DEF x, y
<1>3. ASSUME NEW r \in {"AX", "BX", "CX", "DX"} PROVE CpuidKnown(a, c)[r] \in Knowns
  <2>1. Cpuid(x, y)[r] \in Int
    BY <1>2, Answers
  <2> DEFINE v == Cpuid(x, y)[r]
  <2>2. CpuidKnown(a, c)[r] = IF a.n < 4 \/ c.n < 4 THEN Unknown ELSE Known(8, v)
    BY DEF CpuidKnown, x, y
  <2>3. v \in Int
    BY <2>1
  <2> HIDE DEF v
  <2>4. Known(8, v) \in Knowns
    BY <1>1, <2>3, KnownIs
  <2>5. QED
    BY <2>2, <2>4, WidthsMeet
<1>4. ASSUME NEW r \in {"AX", "DX"} PROVE XgetbvKnown(c)[r] \in Knowns
  <2>1. Xgetbv(y)[r] \in Int
    BY <1>2, Answers
  <2> DEFINE v == Xgetbv(y)[r]
  <2>2. XgetbvKnown(c)[r] = IF c.n < 4 THEN Unknown ELSE Known(8, v)
    BY DEF XgetbvKnown, y
  <2>3. v \in Int
    BY <2>1
  <2> HIDE DEF v
  <2>4. Known(8, v) \in Knowns
    BY <1>1, <2>3, KnownIs
  <2>5. QED
    BY <2>2, <2>4, WidthsMeet
<1>5. DOMAIN CpuidKnown(a, c) = {"AX", "BX", "CX", "DX"} /\ DOMAIN XgetbvKnown(c) = {"AX", "DX"}
  BY DEF CpuidKnown, XgetbvKnown
<1>6. QED
  BY <1>3, <1>4, <1>5

-----------------------------------------------------------------------------
(***************************************************************************)
(* Both passes keep well-formed values.                                    *)
(***************************************************************************)
\* A pointer that is a constant is null.
NullOnly(v) == v.typ = "ptr" => v.ssa \/ v.val = 0
Values == {v \in Vals : NullOnly(v)}
Passes == [st : {"run", "done", "error", "invalid", "unsupported"}, reg : [f.regs -> Values],
           res : [DOMAIN f.results -> Values], out : Seq(Int)]
Instruction_(ins) ==
  /\ DOMAIN ins.args = 1 .. Len(ins.args)
  /\ ins.op \notin {"BYTE", "CPUID", "XGETBV"} => Len(ins.args) \in Arity(ins.op)
  /\ \A i \in DOMAIN ins.args : Operand_(ins.args[i])

\* What holds of the function and of the call throughout.
Called == f \in LinearFunctions /\ args \in f.inputs

\* What the assumption says of the function at hand.
LEMMA FunctionIs ==
  ASSUME Called
  PROVE  /\ f.arch \in {"amd64", "arm", "arm64"}
         /\ f.arch = "amd64" => {"AX", "BX", "CX", "DX"} \subseteq f.regs
         /\ f.arch # "amd64" => "R0" \in f.regs
         /\ f.args \in Seq(SlotTypes \cup {"agg"}) /\ f.max \in Nat
         /\ f.params \in Seq(SlotsOf(Len(f.args))) /\ f.results \in Seq(SlotsOf(Len(f.results)))
         /\ f.mem \in [0 .. MemSize - 1 -> Cell]
         /\ \A i \in DOMAIN f.alphabet : Instruction_(f.alphabet[i])
         /\ InputOf(f, args)
<1>1. /\ f.arch \in {"amd64", "arm", "arm64"}
      /\ (IF f.arch = "amd64" THEN {"AX", "BX", "CX", "DX"} ELSE {"R0"}) \subseteq f.regs
      /\ f.args \in Seq(SlotTypes \cup {"agg"}) /\ f.max \in Nat
      /\ f.params \in Seq(SlotsOf(Len(f.args))) /\ f.results \in Seq(SlotsOf(Len(f.results)))
      /\ f.mem \in [0 .. MemSize - 1 -> 0 .. 2^CellBits - 1]
      /\ \A i \in DOMAIN f.alphabet : InstructionOf(f, f.alphabet[i])
      /\ InputOf(f, args)
  BY LinearAssumption DEF Called
<1>2. 2^CellBits = 4 /\ 2^8 = 256
  <2>1. 2^2 = 4 /\ 2^8 = 256
    BY SMT
  <2>2. QED
    BY <2>1 DEF CellBits
<1>3. 0 .. 2^CellBits - 1 = Cell
  <2> DEFINE p == 2^CellBits
  <2>1. p = 4
    BY <1>2
  <2> HIDE DEF p
  <2>2. 0 .. p - 1 = 0 .. 3
    BY <2>1
  <2>3. QED
    BY <2>2 DEF p, Cell
<1>4. f.mem \in [0 .. MemSize - 1 -> Cell]
  BY <1>1, <1>3
<1>5. 2^8 - 1 = 255
  BY <1>2
<1>6. \A o : OperandOf(f, o) => Operand_(o)
  BY <1>5 DEF OperandOf, Operand_
<1>7. \A i \in DOMAIN f.alphabet : Instruction_(f.alphabet[i])
  BY <1>1, <1>6 DEF InstructionOf, Instruction_
<1>8. f.arch # "amd64" => "R0" \in f.regs
  BY <1>1
<1>9. QED
  BY <1>1, <1>4, <1>7, <1>8

\* A slot that is found is in the list.
LEMMA SlotFound ==
  ASSUME NEW slots, NEW off, SlotAt(slots, off) # NoSlot
  PROVE  \E i \in DOMAIN slots : SlotAt(slots, off) = slots[i] /\ slots[i].off = off
  BY DEF SlotAt

\* An argument is a value of its type.
LEMMA ParamIs ==
  ASSUME Called, NEW off, SlotAt(f.params, off) # NoSlot
  PROVE  ParamValue(SlotAt(f.params, off)) \in Values
<1> DEFINE s == SlotAt(f.params, off)
           n == Len(f.args)
<1>1. PICK i \in DOMAIN f.params : s = f.params[i]
  BY SlotFound
<1>2. f.params \in Seq(SlotsOf(n)) /\ InputOf(f, args)
  BY FunctionIs
<1>3. s \in SlotsOf(n)
  BY <1>1, <1>2
<1>4. s.typ \in SlotTypes /\ s.idx \in 1 .. n
  BY <1>3 DEF SlotsOf
<1> DEFINE x == args[s.idx][IF s.field < 0 THEN 1 ELSE s.field + 1]
<1>5. x \in 0 .. 2^Bits(s.typ) - 1
  BY <1>1, <1>2 DEF InputOf, Bits
<1>6. ParamValue(s) = IF s.idx \notin DOMAIN f.args THEN Zero("i64") ELSE Val(s.typ, x)
  BY DEF ParamValue
<1> HIDE DEF s, x
<1>7. Val(s.typ, x) \in Vals /\ Zero("i64") \in Vals
  <2>1. s.typ \in AllTypes /\ x \in Word_(s.typ) /\ "i64" \in AllTypes
    BY <1>4, <1>5 DEF AllTypes, Word_, SlotTypes, Ints
  <2>2. QED
    BY <2>1, ValIs
<1>8. NullOnly(Val(s.typ, x)) /\ NullOnly(Zero("i64"))
  BY DEF NullOnly, Val, Zero, Const
<1>9. QED
  BY <1>6, <1>7, <1>8 DEF Values, s

\* The type of an operand value: that of an integer from memory.
LEMMA Int64 == "i64" \in AllTypes /\ "i32" \in AllTypes /\ Bits("i64") = 8 /\ Bits("i32") = 4 /\ Bits("i8") = 2
  BY DEF AllTypes, SlotTypes, Ints, Bits, BitsOf

\* A value that is no pointer.
LEMMA Integers_ ==
  ASSUME NEW typ \in AllTypes \ {"ptr"}
  PROVE  /\ \A x \in Word_(typ) : Val(typ, x) \in Values
         /\ \A x \in Int : Val(typ, Fit(typ, x)) \in Values
         /\ Zero(typ) \in Values /\ ErrVal \in Values /\ NoVal \in Values
         /\ \A x \in Word_(typ) : Const(typ, x) \in Values
<1>1. \A x : NullOnly(Val(typ, x)) /\ NullOnly(Const(typ, x)) /\ NullOnly(ErrVal) /\ NullOnly(NoVal)
  BY DEF NullOnly, Val, Const, ErrVal, NoVal
<1>2. \A x \in Word_(typ) : Const(typ, x) \in Vals
  BY Word_Is DEF Vals, Const
<1>3. QED
  BY <1>1, <1>2, ValIs DEF Values, Zero

\* Casts keep null pointers null: a pointer they make is an SSA value.
LEMMA CastValues ==
  ASSUME NEW v \in Values, NEW to
  PROVE  TextCast(v, to) \in Values /\ DirectCast(v, to) \in Values
<1>1. v \in Vals
  BY DEF Values
<1>2. TextCast(v, to) \in Vals /\ DirectCast(v, to) \in Vals
  BY <1>1, TextCastIs, DirectCastIs
<1>3. NullOnly(v) /\ NullOnly(ErrVal) /\ (\A x : NullOnly(Val(to, x))) /\ NullOnly(Zero(to))
  BY DEF Values, NullOnly, ErrVal, Val, Const, Zero
<1>4. NullOnly(TextCast(v, to))
  BY <1>3 DEF TextCast
<1>5. NullOnly(DirectCast(v, to))
  BY <1>3 DEF DirectCast
<1>6. QED
  BY <1>2, <1>4, <1>5 DEF Values

\* Addresses of the text path are words of i64, or refused.
LEMMA TextAddressIs ==
  ASSUME NEW t \in Passes, NEW o, Indexed(o)
  PROVE  TextAddress(t, o) = ErrVal \/ (TextAddress(t, o).typ = "i64" /\ TextAddress(t, o).val \in Word_("i64"))
<1> DEFINE part(r) == IF r = "" \/ t.reg[r].typ = "none" THEN Zero("i64") ELSE TextCast(t.reg[r], "i64")
           b == part(o.reg)
           x == part(o.index)
<1>1. ASSUME NEW r \in f.regs \cup {""} PROVE part(r) \in Values
  <2>1. CASE r = "" \/ t.reg[r].typ = "none"
    BY <2>1, Int64, Integers_
  <2>2. CASE ~(r = "" \/ t.reg[r].typ = "none")
    <3>1. r \in f.regs
      BY <2>2
    <3>2. t.reg[r] \in Values
      BY <3>1 DEF Passes
    <3>3. QED
      BY <2>2, <3>2, CastValues
  <2>3. QED
    BY <2>1, <2>2
<1>2. b \in Values /\ x \in Values
  BY <1>1 DEF Indexed
<1>3. TextAddress(t, o) = IF "error" \in {b.typ, x.typ} THEN ErrVal
                          ELSE IF Poison \in {b.val, x.val} THEN Val("i64", Poison)
                          ELSE Val("i64", Fit("i64", b.val + x.val + o.n))
  BY DEF TextAddress
<1> HIDE DEF b, x
<1>4. b.val \in Int /\ x.val \in Int /\ o.n \in Int
  BY <1>2, ValsAre DEF Values, Indexed
<1> DEFINE s == b.val + x.val + o.n
<1>5. s \in Int
  BY <1>4
<1> HIDE DEF s
<1>6. Fit("i64", s) \in Word_("i64") /\ Poison \in Word_("i64")
  BY <1>5, FitIs, Word_Is
<1>7. QED
  BY <1>3, <1>6 DEF s, Val

\* Loads of the text path are words of i64.
LEMMA TextLoadIs ==
  ASSUME Called, src \in Sources, NEW o, NEW a, a = ErrVal \/ (a.typ = "i64" /\ a.val \in Word_("i64"))
  PROVE  TextLoad(o, a) \in Values /\ TextLoad(o, a).typ = "i64"
<1>1. CASE a = ErrVal
  <2>1. TextLoad(o, a) = Zero("i64")
    BY <1>1 DEF TextLoad, ErrVal, Const
  <2>2. QED
    BY <2>1, Int64, Integers_ DEF Zero, Const
<1>2. CASE a.typ = "i64" /\ a.val \in Word_("i64")
  <2> DEFINE p == Fit("ptr", a.val)
  <2>1. TextLoad(o, a) = IF a.val = Poison \/ ~Fits(p, 8) THEN Val("i64", Poison) ELSE Val("i64", Cells(src.mem, p, 8))
    BY <1>2 DEF TextLoad
  <2>2. a.val \in Int /\ Poison \in Word_("i64")
    BY <1>2, Word_Is
  <2>3. p \in Nat
    BY <2>2, FitIs, Word_Is
  <2> HIDE DEF p
  <2>4. ASSUME Fits(p, 8) PROVE Cells(src.mem, p, 8) \in Word_("i64")
    <3>1. p + 8 \div 2 <= MemSize /\ MemSize \in Nat
      BY <2>4, MemSizeAssumption DEF Fits, CellBits
    <3>2. \A k \in 0 .. 8 \div 2 - 1 : p + k \in 0 .. MemSize - 1
      BY <2>3, <3>1
    <3>3. src.mem \in [0 .. MemSize - 1 -> Cell]
      BY DEF Sources
    <3>4. Cells(src.mem, p, 8) \in 0 .. 2^8 - 1
      BY <2>3, <3>2, <3>3, CellsHold
    <3>5. QED
      BY <3>4, Int64 DEF Word_
  <2>5. Val("i64", Poison) \in Values
    BY <2>2, Int64, Integers_
  <2>6. Fits(p, 8) => Val("i64", Cells(src.mem, p, 8)) \in Values
    BY <2>4, Int64, Integers_
  <2>7. QED
    BY <2>1, <2>5, <2>6 DEF Val
<1>3. QED
  BY <1>1, <1>2

\* Shifts of the text path are words of i32.
LEMMA TextShiftIs ==
  ASSUME NEW how \in {"<<", ">>", "->", "@>"}, NEW x \in Word_("i32"), NEW s \in Word_("i32")
  PROVE  TextShift(how, x, s) \in Word_("i32")
<1>1. 2^4 = 16 /\ 2^(4 - 1) = 8 /\ 2^0 = 1 /\ 2^1 = 2 /\ 2^2 = 4 /\ 2^3 = 8
  BY SMT
<1>2. Word_("i32") = (0 .. 15) \cup {Poison} /\ Poison >= 256 /\ Poison \in Nat
  <2>1. 2^Bits("i32") = 16
    <3> DEFINE b == Bits("i32")
    <3>1. b = 4
      BY Int64
    <3> HIDE DEF b
    <3>2. 2^b = 16
      BY <1>1, <3>1
    <3>3. QED
      BY <3>2 DEF b
  <2>2. 0 .. 2^Bits("i32") - 1 = 0 .. 15
    BY <2>1
  <2>3. QED
    BY <2>2, Widths DEF Word_
<1>3. CASE Poison \in {x, s}
  BY <1>2, <1>3 DEF TextShift
<1>4. CASE Poison \notin {x, s}
  <2>1. x \in 0 .. 15 /\ s \in 0 .. 15
    BY <1>2, <1>4
  <2> DEFINE p == 2^s
             u == s % 4
             r == 2^u
             q == 2^(4 - u)
             sx == Signed(8, x)
  <2>2. p \in Nat \ {0} /\ u \in {0, 1, 2, 3}
    BY <2>1, PowerOfTwo
  <2>3. <<r, q>> \in {<<1, 16>>, <<2, 8>>, <<4, 4>>, <<8, 2>>}
    <3> HIDE DEF u
    <3>1. CASE u = 0
      <4>1. 4 - u = 4
        BY <3>1
      <4>2. r = 2^0 /\ q = 2^4
        BY <3>1, <4>1
      <4>3. QED
        BY <4>2, <1>1
    <3>2. CASE u = 1
      <4>1. 4 - u = 3
        BY <3>2
      <4>2. r = 2^1 /\ q = 2^3
        BY <3>2, <4>1
      <4>3. QED
        BY <4>2, <1>1
    <3>3. CASE u = 2
      <4>1. 4 - u = 2
        BY <3>3
      <4>2. r = 2^2 /\ q = 2^2
        BY <3>3, <4>1
      <4>3. QED
        BY <4>2, <1>1
    <3>4. CASE u = 3
      <4>1. 4 - u = 1
        BY <3>4
      <4>2. r = 2^3 /\ q = 2^1
        BY <3>4, <4>1
      <4>3. QED
        BY <4>2, <1>1
    <3>5. QED
      BY <2>2, <3>1, <3>2, <3>3, <3>4
  <2>4. sx \in Int
    BY <2>1 DEF Signed, Negative
  <2>5. CASE how = "<<"
    <3>1. TextShift(how, x, s) \in {(x * p) % 16, Poison}
      BY <1>1, <1>4, <2>5 DEF TextShift, Shl
    <3> HIDE DEF p
    <3>2. (x * p) % 16 \in 0 .. 15
      <4>1. x * p \in Int
        BY <2>1, <2>2
      <4>2. QED
        BY <4>1
    <3>3. QED
      BY <3>1, <3>2, <1>2
  <2>6. CASE how = ">>"
    <3>1. TextShift(how, x, s) \in {x \div p, Poison}
      BY <1>4, <2>6 DEF TextShift, Lshr
    <3> HIDE DEF p
    <3>2. x \div p \in 0 .. 15
      BY <2>1, <2>2
    <3>3. QED
      BY <3>1, <3>2, <1>2
  <2>7. CASE how = "->"
    <3>1. SignBit(4) = 8
      BY <1>1 DEF SignBit
    <3>2. TextShift(how, x, s) \in {(sx \div p) % 16, Poison}
      BY <1>1, <1>4, <2>7, <3>1 DEF TextShift, Ashr
    <3> HIDE DEF p, sx
    <3>3. (sx \div p) % 16 \in 0 .. 15
      <4>1. sx \div p \in Int
        BY <2>2, <2>4
      <4>2. QED
        BY <4>1
    <3>4. QED
      BY <3>2, <3>3, <1>2
  <2>8. CASE how = "@>"
    <3>1. TextShift(how, x, s) = (x \div r) + (x % r) * q
      BY <1>4, <2>8 DEF TextShift, RotateRight
    <3> HIDE DEF r, q
    <3>2. (r = 1 /\ q = 16) \/ (r = 2 /\ q = 8) \/ (r = 4 /\ q = 4) \/ (r = 8 /\ q = 2)
      BY <2>3
    <3>3. (x \div r) + (x % r) * q \in 0 .. 15
      BY <2>1, <3>2
    <3>4. QED
      BY <3>1, <3>3, <1>2
  <2>9. QED
    BY <2>5, <2>6, <2>7, <2>8
<1>5. QED
  BY <1>3, <1>4

\* What a register reads as.
LEMMA RegValueIs ==
  ASSUME NEW t \in Passes, NEW r \in f.regs
  PROVE  RegValue(t, r) \in Values
<1>1. t.reg[r] \in Values
  BY DEF Passes
<1>2. QED
  BY <1>1, Int64, Integers_ DEF RegValue

\* Every operand has a value on the text path.
LEMMA TextValueIs ==
  ASSUME Called, src \in Sources, NEW t \in Passes, NEW o, Operand_(o)
  PROVE  TextValue(t, o) \in Values
<1>1. Zero("i64") \in Values /\ ErrVal \in Values
  BY Int64, Integers_
<1>2. CASE o.kind = "imm"
  <2> DEFINE n == o.n
  <2>1. n \in 0 .. 255
    BY <1>2 DEF Operand_
  <2>2. 2^Bits("i64") = 256
    <3> DEFINE b == Bits("i64")
    <3>1. b = 8
      BY Int64
    <3> HIDE DEF b
    <3>2. 2^b = 256
      <4>1. 2^8 = 256
        BY SMT
      <4>2. QED
        BY <3>1, <4>1
    <3>3. QED
      BY <3>2 DEF b
  <2>3. 0 .. 2^Bits("i64") - 1 = 0 .. 255
    BY <2>2
  <2> HIDE DEF n
  <2>4. n \in Word_("i64")
    BY <2>1, <2>3 DEF Word_
  <2>5. Const("i64", n) \in Values
    BY <2>4, Int64, Integers_
  <2>6. QED
    BY <1>2, <2>5 DEF TextValue, n
<1>3. CASE o.kind = "raw"
  BY <1>1, <1>3 DEF TextValue
<1>4. CASE o.kind = "reg"
  <2>1. o.reg \in f.regs
    BY <1>4 DEF Operand_
  <2>2. QED
    BY <1>4, <2>1, RegValueIs DEF TextValue
<1>5. CASE o.kind = "shift"
  <2> DEFINE v == TextCast(RegValue(t, o.reg), "i32")
             s == IF o.index = "" THEN Const("i32", o.n) ELSE TextCast(RegValue(t, o.index), "i32")
  <2>1. o.reg \in f.regs /\ o.index \in f.regs \cup {""} /\ o.how \in {"<<", ">>", "->", "@>"}
    BY <1>5 DEF Operand_
  <2>2. v \in Values /\ v.typ \in {"i32", "error"}
    <3>1. RegValue(t, o.reg) \in Values
      BY <2>1, RegValueIs
    <3>2. QED
      BY <3>1, CastValues, TextCastIs DEF Values
  <2>3. o.n \in 0 .. 3
    BY <1>5 DEF Operand_
  <2>4. s \in Values /\ s.typ \in {"i32", "error"}
    <3>1. CASE o.index = ""
      <4> DEFINE n == o.n
      <4>1. n \in 0 .. 3
        BY <2>3
      <4>2. n \in Word_("i32")
        <5> HIDE DEF n
        <5> DEFINE m == 2^Bits("i32")
        <5>1. m = 16
          <6> DEFINE b == Bits("i32")
          <6>1. b = 4
            BY Int64
          <6> HIDE DEF b
          <6>2. 2^4 = 16
            BY SMT
          <6>3. 2^b = 16
            BY <6>1, <6>2
          <6>4. QED
            BY <6>3 DEF b
        <5> HIDE DEF m
        <5>2. n \in 0 .. m - 1
          BY <4>1, <5>1
        <5>3. QED
          BY <5>2 DEF Word_, m
      <4>3. Const("i32", n) \in Values /\ Const("i32", n).typ = "i32"
        <5> HIDE DEF n
        <5>1. QED
          BY <4>2, Int64, Integers_ DEF Const
      <4>4. s = Const("i32", n)
        BY <3>1
      <4> HIDE DEF s, n
      <4>5. QED
        BY <4>3, <4>4
    <3>2. CASE o.index # ""
      <4>1. RegValue(t, o.index) \in Values
        BY <2>1, <3>2, RegValueIs
      <4>2. s = TextCast(RegValue(t, o.index), "i32")
        BY <3>2
      <4> HIDE DEF s
      <4>3. QED
        BY <4>1, <4>2, CastValues, TextCastIs DEF Values
    <3>3. QED
      BY <3>1, <3>2
  <2>5. TextValue(t, o) = ErrVal \/ (v.typ = "i32" /\ s.typ = "i32" /\ TextValue(t, o) = Val("i32", TextShift(o.how, v.val, s.val)))
    <3>1. TextValue(t, o) = IF f.arch # "arm" THEN ErrVal
                            ELSE IF "error" \in {v.typ, s.typ} THEN ErrVal ELSE Val("i32", TextShift(o.how, v.val, s.val))
      BY <1>5 DEF TextValue
    <3> HIDE DEF v, s
    <3>2. QED
      BY <3>1, <2>2, <2>4
  <2> HIDE DEF v, s
  <2>6. CASE TextValue(t, o) = ErrVal
    BY <1>1, <2>6
  <2>7. CASE v.typ = "i32" /\ s.typ = "i32" /\ TextValue(t, o) = Val("i32", TextShift(o.how, v.val, s.val))
    <3>1. v.val \in Word_("i32") /\ s.val \in Word_("i32")
      BY <2>2, <2>4, <2>7 DEF Values, Vals
    <3>2. TextShift(o.how, v.val, s.val) \in Word_("i32")
      BY <2>1, <3>1, TextShiftIs
    <3>3. QED
      BY <2>7, <3>2, Int64, Integers_
  <2>8. QED
    BY <2>5, <2>6, <2>7
<1>6. CASE o.kind = "fp"
  <2>1. TextValue(t, o) = LET slot == SlotAt(f.params, o.n) IN IF slot = NoSlot THEN Zero("i64") ELSE ParamValue(slot)
    BY <1>6 DEF TextValue
  <2>2. QED
    BY <1>1, <2>1, ParamIs
<1>7. CASE o.kind = "mem"
  <2>1. Indexed(o)
    BY <1>7 DEF Operand_, Indexed
  <2>2. QED
    BY <1>7, <2>1, TextAddressIs, TextLoadIs DEF TextValue
<1>8. CASE o.kind \notin {"imm", "raw", "reg", "shift", "fp", "mem"}
  BY <1>1, <1>8 DEF TextValue
<1>9. QED
  BY <1>2, <1>3, <1>4, <1>5, <1>6, <1>7, <1>8

\* The direct path has a value for the operands that it knows, the same one
\* when the registers are.
LEMMA DirectValueIs ==
  ASSUME Called, src \in Sources, NEW t \in Passes, NEW d \in Passes, NEW o, Operand_(o)
  PROVE  /\ DirectValue(d, o) \in Values
         /\ DirectValue(d, o).typ # "error" /\ (\A r \in f.regs : Same(t.reg[r], d.reg[r])) =>
              Same(TextValue(t, o), DirectValue(d, o))
<1>1. Zero("i64") \in Values /\ ErrVal \in Values /\ ErrVal.typ = "error"
  BY Int64, Integers_ DEF ErrVal, Const
<1>2. CASE o.kind = "imm"
  <2>1. DirectValue(d, o) = Const("i64", o.n) /\ TextValue(t, o) = Const("i64", o.n)
    BY <1>2 DEF TextValue, DirectValue
  <2>2. TextValue(t, o) \in Values
    BY TextValueIs
  <2>3. QED
    BY <2>1, <2>2 DEF Same
<1>3. CASE o.kind = "reg"
  <2>1. o.reg \in f.regs
    BY <1>3 DEF Operand_
  <2>2. DirectValue(d, o) = RegValue(d, o.reg) /\ TextValue(t, o) = RegValue(t, o.reg)
    BY <1>3 DEF TextValue, DirectValue
  <2>3. QED
    BY <2>1, <2>2, RegValueIs DEF RegValue, Same
<1>4. CASE o.kind = "fp"
  <2> DEFINE slot == SlotAt(f.params, o.n)
  <2>1. DirectValue(d, o) = (IF slot = NoSlot \/ slot.idx \notin DOMAIN f.args THEN ErrVal ELSE ParamValue(slot))
    BY <1>4 DEF DirectValue
  <2>2. TextValue(t, o) = (IF slot = NoSlot THEN Zero("i64") ELSE ParamValue(slot))
    BY <1>4 DEF TextValue
  <2>3. slot # NoSlot => ParamValue(slot) \in Values
    BY ParamIs
  <2> HIDE DEF slot
  <2>4. QED
    BY <1>1, <2>1, <2>2, <2>3 DEF Same
<1>5. CASE o.kind \notin {"imm", "reg", "fp"}
  BY <1>1, <1>5 DEF DirectValue
<1>6. QED
  BY <1>2, <1>3, <1>4, <1>5

\* A pass is changed one field at a time.
LEMMA PassSets ==
  ASSUME NEW t \in Passes
  PROVE  /\ \A r \in f.regs : \A v \in Values : [t EXCEPT !.reg[r] = v] \in Passes
         /\ \A i : \A v \in Values : [t EXCEPT !.res[i] = v] \in Passes
         /\ \A q \in [f.regs -> Values] : [t EXCEPT !.reg = q] \in Passes
         /\ \A st \in {"run", "done", "error", "invalid", "unsupported"} :
              [t EXCEPT !.st = st] \in Passes /\ Fail(t, st) \in Passes
         /\ \A st : Fail(t, st) = [t EXCEPT !.st = IF t.st = "run" THEN st ELSE t.st]
         /\ \A q \in Seq(Int) : [t EXCEPT !.st = "done", !.out = q] \in Passes
<1>1. /\ t = [st |-> t.st, reg |-> t.reg, res |-> t.res, out |-> t.out]
      /\ t.st \in {"run", "done", "error", "invalid", "unsupported"} /\ t.reg \in [f.regs -> Values]
      /\ t.res \in [DOMAIN f.results -> Values] /\ t.out \in Seq(Int)
  BY DEF Passes
<1>2. /\ \A r \in f.regs : \A v \in Values : [t.reg EXCEPT ![r] = v] \in [f.regs -> Values]
      /\ \A i : \A v \in Values : [t.res EXCEPT ![i] = v] \in [DOMAIN f.results -> Values]
  BY <1>1
<1>3. \A r \in f.regs : \A v \in Values : [t EXCEPT !.reg[r] = v] \in Passes
  BY <1>1, <1>2 DEF Passes
<1>4. \A i : \A v \in Values : [t EXCEPT !.res[i] = v] \in Passes
  BY <1>1, <1>2 DEF Passes
<1>5. \A q \in [f.regs -> Values] : [t EXCEPT !.reg = q] \in Passes
  BY <1>1 DEF Passes
<1>6. \A st : Fail(t, st) = [t EXCEPT !.st = IF t.st = "run" THEN st ELSE t.st]
  BY DEF Fail
<1>7. \A st \in {"run", "done", "error", "invalid", "unsupported"} : [t EXCEPT !.st = st] \in Passes
  BY <1>1 DEF Passes
<1>8. \A st \in {"run", "done", "error", "invalid", "unsupported"} : Fail(t, st) \in Passes
  BY <1>1, <1>6, <1>7
<1>9. \A q \in Seq(Int) : [t EXCEPT !.st = "done", !.out = q] \in Passes
  BY <1>1 DEF Passes
<1>10. QED
  BY <1>3, <1>4, <1>5, <1>6, <1>7, <1>8, <1>9

\* The registers of the text path hold SSA values or zeros.
Plain(v) == v.ssa \/ v.val = 0
TextPasses == {t \in Passes : t.st \in {"run", "done", "error", "invalid"} /\ \A r \in f.regs : Plain(t.reg[r])}
DirectPasses == {d \in Passes : d.st \in {"run", "done", "unsupported"}}

\* Both passes hold the same.
Alike(t, d) ==
  /\ \A r \in f.regs : Same(t.reg[r], d.reg[r])
  /\ \A i \in DOMAIN f.results : Same(t.res[i], d.res[i])

\* One step of each path: it goes on or fails.
TextGoes(t, t2) == t.st = "run" => t2 \in TextPasses /\ t2.st \in {"run", "error"} /\ t2.out = t.out
DirectGoes(d, d2) == d.st = "run" => d2 \in DirectPasses /\ d2.st \in {"run", "unsupported"} /\ d2.out = d.out

\* One step of both: where both go on they still hold the same.
Together(t, d, t2, d2) ==
  /\ TextGoes(t, t2)
  /\ DirectGoes(d, d2)
  /\ t.st = "run" /\ d.st = "run" /\ Alike(t, d) /\ t2.st = "run" /\ d2.st = "run" => Alike(t2, d2)

\* Failing is a step of each.
LEMMA FailIs ==
  /\ \A t \in TextPasses : t.st = "run" =>
       Fail(t, "error") \in TextPasses /\ Fail(t, "error").st = "error" /\ Fail(t, "error").out = t.out
  /\ \A d \in DirectPasses : d.st = "run" =>
       Fail(d, "unsupported") \in DirectPasses /\ Fail(d, "unsupported").st = "unsupported"
         /\ Fail(d, "unsupported").out = d.out
<1>1. ASSUME NEW t \in TextPasses, t.st = "run"
      PROVE  Fail(t, "error") \in TextPasses /\ Fail(t, "error").st = "error" /\ Fail(t, "error").out = t.out
  <2>1. t \in Passes
    BY DEF TextPasses
  <2>2. Fail(t, "error") = [t EXCEPT !.st = "error"] /\ Fail(t, "error") \in Passes
    BY <1>1, <2>1, PassSets DEF Fail
  <2>3. Fail(t, "error").st = "error" /\ Fail(t, "error").out = t.out /\ Fail(t, "error").reg = t.reg
    BY <2>1, <2>2 DEF Passes
  <2>4. QED
    BY <2>2, <2>3 DEF TextPasses
<1>2. ASSUME NEW d \in DirectPasses, d.st = "run"
      PROVE  Fail(d, "unsupported") \in DirectPasses /\ Fail(d, "unsupported").st = "unsupported"
               /\ Fail(d, "unsupported").out = d.out
  <2>1. d \in Passes
    BY DEF DirectPasses
  <2>2. Fail(d, "unsupported") = [d EXCEPT !.st = "unsupported"] /\ Fail(d, "unsupported") \in Passes
    BY <1>2, <2>1, PassSets DEF Fail
  <2>3. Fail(d, "unsupported").st = "unsupported" /\ Fail(d, "unsupported").out = d.out
    BY <2>1, <2>2 DEF Passes
  <2>4. QED
    BY <2>2, <2>3 DEF DirectPasses
<1>3. QED
  BY <1>1, <1>2

\* Setting a register is a step of each.
LEMMA SetsReg ==
  ASSUME NEW t \in Passes, NEW r \in f.regs, NEW v \in Values
  PROVE  /\ t \in TextPasses /\ Plain(v) => [t EXCEPT !.reg[r] = v] \in TextPasses
         /\ t \in DirectPasses => [t EXCEPT !.reg[r] = v] \in DirectPasses
         /\ \A q \in f.regs : [t EXCEPT !.reg[r] = v].reg[q] = IF q = r THEN v ELSE t.reg[q]
         /\ [t EXCEPT !.reg[r] = v].res = t.res /\ [t EXCEPT !.reg[r] = v].out = t.out
         /\ [t EXCEPT !.reg[r] = v].st = t.st
<1> DEFINE u == [t EXCEPT !.reg[r] = v]
<1>1. u \in Passes
  BY PassSets
<1>2. u.reg = [t.reg EXCEPT ![r] = v] /\ u.res = t.res /\ u.out = t.out /\ u.st = t.st /\ DOMAIN t.reg = f.regs
  BY DEF Passes
<1>3. \A q \in f.regs : u.reg[q] = IF q = r THEN v ELSE t.reg[q]
  BY <1>2
<1> HIDE DEF u
<1>4. t \in TextPasses /\ Plain(v) => u \in TextPasses
  BY <1>1, <1>2, <1>3 DEF TextPasses
<1>5. t \in DirectPasses => u \in DirectPasses
  BY <1>1, <1>2 DEF DirectPasses
<1>6. QED
  BY <1>2, <1>3, <1>4, <1>5 DEF u

\* Both set a register.
LEMMA BothSet ==
  ASSUME NEW t \in TextPasses, NEW d \in DirectPasses, NEW r \in f.regs,
         NEW v \in Values, NEW w \in Values, Plain(v), Alike(t, d) => Same(v, w)
  PROVE  Together(t, d, [t EXCEPT !.reg[r] = v], [d EXCEPT !.reg[r] = w])
<1>1. t \in Passes /\ d \in Passes
  BY DEF TextPasses, DirectPasses
<1> DEFINE t2 == [t EXCEPT !.reg[r] = v]
           d2 == [d EXCEPT !.reg[r] = w]
<1>2. t2 \in TextPasses /\ t2.st = t.st /\ t2.out = t.out /\ t2.res = t.res
      /\ \A q \in f.regs : t2.reg[q] = IF q = r THEN v ELSE t.reg[q]
  BY <1>1, SetsReg
<1>3. d2 \in DirectPasses /\ d2.st = d.st /\ d2.out = d.out /\ d2.res = d.res
      /\ \A q \in f.regs : d2.reg[q] = IF q = r THEN w ELSE d.reg[q]
  BY <1>1, SetsReg
<1> HIDE DEF t2, d2
<1>4. Alike(t, d) => Alike(t2, d2)
  BY <1>2, <1>3 DEF Alike
<1>5. Together(t, d, t2, d2)
  BY <1>2, <1>3, <1>4 DEF Together, TextGoes, DirectGoes
<1>6. QED
  BY <1>5 DEF t2, d2

\* What SetReg makes of a value: no constant but a null pointer.
Made(v) == IF v.ssa \/ v.typ = "ptr" THEN v
           ELSE IF v.typ \in Ints THEN Val(v.typ, Fit(v.typ, v.val)) ELSE Val("i64", 0)

\* Making a constant an SSA value changes no word.
LEMMA MadeIs ==
  ASSUME NEW v \in Values
  PROVE  /\ \A t, r : SetReg(t, r, v) = [t EXCEPT !.reg[r] = Made(v)]
         /\ Made(v) \in Values /\ Plain(Made(v)) /\ (v.typ \in Ints => Same(Made(v), v))
<1>1. \A t, r : SetReg(t, r, v) = [t EXCEPT !.reg[r] = Made(v)]
  BY DEF SetReg, Made
<1>2. v.typ \in AllTypes /\ v.val \in Int /\ (v.typ # "agg" => v.val \in Word_(v.typ)) /\ NullOnly(v)
  BY DEF Values, Vals
<1> DEFINE G == Made(v) \in Values /\ Plain(Made(v)) /\ (v.typ \in Ints => Same(Made(v), v))
<1>2a. SUFFICES G
  BY <1>1, Zenon
<1>3. CASE v.ssa \/ v.typ = "ptr"
  <2>1. Made(v) = v
    BY <1>3 DEF Made
  <2>2. Plain(v) /\ Same(v, v)
    BY <1>2, <1>3, Zenon DEF Plain, NullOnly, Same
  <2>3. QED
    BY <2>1, <2>2
<1>4. CASE ~(v.ssa \/ v.typ = "ptr") /\ v.typ \in Ints
  <2>1. v.typ \in AllTypes \ {"ptr"} /\ v.typ # "agg"
    BY <1>2, <1>4 DEF Ints
  <2>2. Made(v) = Val(v.typ, Fit(v.typ, v.val)) /\ Fit(v.typ, v.val) = v.val
    BY <1>2, <1>4, <2>1, FitIs DEF Made
  <2>3. Val(v.typ, Fit(v.typ, v.val)) \in Values
    BY <1>2, <2>1, Integers_
  <2>4. \A x : Plain(Val(v.typ, x)) /\ (x = v.val => Same(Val(v.typ, x), v))
    BY DEF Plain, Same, Val
  <2>5. QED
    BY <2>2, <2>3, <2>4
<1>5. CASE ~(v.ssa \/ v.typ = "ptr") /\ v.typ \notin Ints
  <2>1. Made(v) = Val("i64", 0)
    BY <1>5 DEF Made
  <2>2. Val("i64", 0) \in Values
    BY Int64, Integers_, Word_Is
  <2>3. Plain(Val("i64", 0))
    BY DEF Plain, Val
  <2>4. QED
    BY <1>5, <2>1, <2>2, <2>3
<1>6. QED
  BY <1>1, <1>3, <1>4, <1>5

\* Casts of one value on both paths.
LEMMA CastsBoth ==
  ASSUME NEW v \in Values, NEW w \in Values, NEW to
  PROVE  /\ TextCast(v, to) \in Values /\ TextCast(v, to).typ \in {to, "error"}
         /\ DirectCast(w, to) \in Values /\ DirectCast(w, to).typ \in {to, "error"}
         /\ Same(v, w) /\ TextCast(v, to).typ # "error" /\ DirectCast(w, to).typ # "error" =>
              Same(TextCast(v, to), DirectCast(w, to))
<1>1. v \in Vals /\ w \in Vals /\ (v.typ = "ptr" => v.ssa \/ v.val = 0)
  BY DEF Values, NullOnly
<1>2. TextCast(v, to) \in Values /\ DirectCast(w, to) \in Values
  BY CastValues
<1>3. TextCast(v, to).typ \in {to, "error"} /\ DirectCast(w, to).typ \in {to, "error"}
  BY <1>1, TextCastIs, DirectCastIs
<1>4. Same(v, w) /\ TextCast(v, to).typ # "error" /\ DirectCast(w, to).typ # "error" =>
        Same(TextCast(v, to), DirectCast(w, to))
  BY <1>1, CastsAgree
<1>5. QED
  BY <1>2, <1>3, <1>4

\* A cast of an error is an error.
LEMMA CastErrors ==
  ASSUME NEW v, NEW to
  PROVE  v.typ = "error" => TextCast(v, to).typ = "error" /\ DirectCast(v, to).typ = "error"
  BY DEF TextCast, DirectCast

\* Operands cast on both paths.
LEMMA OperandsBoth ==
  ASSUME Called, src \in Sources, NEW t \in TextPasses, NEW d \in DirectPasses, NEW o, Operand_(o), NEW to
  PROVE  LET v == TextCast(TextValue(t, o), to)
             w == DirectCast(DirectValue(d, o), to)
         IN  /\ v \in Values /\ v.typ \in {to, "error"}
             /\ w \in Values /\ w.typ \in {to, "error"}
             /\ Alike(t, d) /\ v.typ # "error" /\ w.typ # "error" => Same(v, w)
<1> DEFINE x == TextValue(t, o)
           y == DirectValue(d, o)
<1>1. t \in Passes /\ d \in Passes
  BY DEF TextPasses, DirectPasses
<1>2. x \in Values /\ y \in Values
  BY <1>1, TextValueIs, DirectValueIs
<1>3. y.typ # "error" /\ Alike(t, d) => Same(x, y)
  BY <1>1, DirectValueIs DEF Alike
<1> HIDE DEF x, y
<1>4. y.typ = "error" => DirectCast(y, to).typ = "error"
  BY CastErrors
<1>5. /\ TextCast(x, to) \in Values /\ TextCast(x, to).typ \in {to, "error"}
      /\ DirectCast(y, to) \in Values /\ DirectCast(y, to).typ \in {to, "error"}
      /\ Same(x, y) /\ TextCast(x, to).typ # "error" /\ DirectCast(y, to).typ # "error" =>
           Same(TextCast(x, to), DirectCast(y, to))
  BY <1>2, CastsBoth
<1>6. QED
  BY <1>3, <1>4, <1>5 DEF x, y

\* Setting a result.
LEMMA ResultsTogether ==
  ASSUME NEW t \in TextPasses, NEW d \in DirectPasses, NEW off, NEW v \in Values, NEW w \in Values,
         Alike(t, d) => Same(v, w)
  PROVE  Together(t, d, TextSetResult(t, off, v), DirectSetResult(d, off, w))
<1> DEFINE slot == SlotAt(f.results, off)
           c == TextCast(v, slot.typ)
           e == DirectCast(w, slot.typ)
           i == slot.idx
           t1 == TextSetResult(t, off, v)
           d1 == DirectSetResult(d, off, w)
           t2 == [t EXCEPT !.res[i] = c]
           d2 == [d EXCEPT !.res[i] = e]
<1>1. t \in Passes /\ d \in Passes
  BY DEF TextPasses, DirectPasses
<1>2. /\ t1 = IF slot = NoSlot THEN t ELSE IF c.typ = "error" THEN Fail(t, "error") ELSE t2
      /\ d1 = IF slot = NoSlot \/ i \notin DOMAIN d.res \/ e.typ = "error" THEN Fail(d, "unsupported") ELSE d2
  BY DEF TextSetResult, DirectSetResult
<1>3. c \in Values /\ e \in Values /\ (Alike(t, d) /\ c.typ # "error" /\ e.typ # "error" => Same(c, e))
  <2> HIDE DEF slot
  <2>1. QED
    BY CastsBoth
<1>4. DOMAIN d.res = DOMAIN f.results /\ DOMAIN t.res = DOMAIN f.results
  BY <1>1 DEF Passes
<1> HIDE DEF slot, c, e, i, t1, d1
<1>5. t2 \in TextPasses /\ t2.st = t.st /\ t2.out = t.out /\ t2.reg = t.reg
      /\ \A k \in DOMAIN f.results : t2.res[k] = IF k = i THEN c ELSE t.res[k]
  <2>1. t2 \in Passes
    BY <1>1, <1>3, PassSets
  <2>2. t2.st = t.st /\ t2.out = t.out /\ t2.reg = t.reg /\ t2.res = [t.res EXCEPT ![i] = c]
    BY <1>1 DEF Passes
  <2>3. \A k \in DOMAIN f.results : t2.res[k] = IF k = i THEN c ELSE t.res[k]
    BY <1>4, <2>2
  <2> HIDE DEF t2
  <2>4. QED
    BY <2>1, <2>2, <2>3 DEF TextPasses
<1>6. d2 \in DirectPasses /\ d2.st = d.st /\ d2.out = d.out /\ d2.reg = d.reg
      /\ \A k \in DOMAIN f.results : d2.res[k] = IF k = i THEN e ELSE d.res[k]
  <2>1. d2 \in Passes
    BY <1>1, <1>3, PassSets
  <2>2. d2.st = d.st /\ d2.out = d.out /\ d2.reg = d.reg /\ d2.res = [d.res EXCEPT ![i] = e]
    BY <1>1 DEF Passes
  <2>3. \A k \in DOMAIN f.results : d2.res[k] = IF k = i THEN e ELSE d.res[k]
    BY <1>4, <2>2
  <2> HIDE DEF d2
  <2>4. QED
    BY <2>1, <2>2, <2>3 DEF DirectPasses
<1> HIDE DEF t2, d2
<1>7. t.st = "run" => t1 \in TextPasses /\ t1.st \in {"run", "error"} /\ t1.out = t.out
  BY <1>2, <1>5, FailIs
<1>8. d.st = "run" => d1 \in DirectPasses /\ d1.st \in {"run", "unsupported"} /\ d1.out = d.out
  BY <1>2, <1>6, FailIs
<1>9. ASSUME t.st = "run", d.st = "run", Alike(t, d), t1.st = "run", d1.st = "run" PROVE Alike(t1, d1)
  <2>1. Fail(t, "error").st = "error" /\ Fail(d, "unsupported").st = "unsupported"
    BY <1>9, FailIs
  <2>2. d1 = d2 /\ e.typ # "error" /\ slot # NoSlot
    BY <1>2, <1>9, <2>1
  <2>3. t1 = t2 /\ c.typ # "error"
    BY <1>2, <1>9, <2>1, <2>2
  <2>4. Same(c, e)
    BY <1>3, <1>9, <2>2, <2>3
  <2>5. QED
    BY <1>5, <1>6, <1>9, <2>2, <2>3, <2>4 DEF Alike
<1>10. Together(t, d, t1, d1)
  BY <1>7, <1>8, <1>9 DEF Together, TextGoes, DirectGoes
<1>11. QED
  BY <1>10 DEF t1, d1

\* Where one of the paths fails, the other only has to go its way.
LEMMA FailsTogether ==
  ASSUME NEW t \in TextPasses, NEW d \in DirectPasses
  PROVE  /\ TextGoes(t, t) /\ DirectGoes(d, d)
         /\ TextGoes(t, Fail(t, "error")) /\ DirectGoes(d, Fail(d, "unsupported"))
         /\ \A t2 : TextGoes(t, t2) => Together(t, d, t2, Fail(d, "unsupported"))
         /\ \A d2 : DirectGoes(d, d2) => Together(t, d, Fail(t, "error"), d2)
<1>1. t.st = "run" => Fail(t, "error") \in TextPasses /\ Fail(t, "error").st = "error" /\ Fail(t, "error").out = t.out
  BY FailIs
<1>2. d.st = "run" => /\ Fail(d, "unsupported") \in DirectPasses /\ Fail(d, "unsupported").st = "unsupported"
                      /\ Fail(d, "unsupported").out = d.out
  BY FailIs
<1>3. TextGoes(t, Fail(t, "error")) /\ DirectGoes(d, Fail(d, "unsupported")) /\ TextGoes(t, t) /\ DirectGoes(d, d)
  BY <1>1, <1>2 DEF TextGoes, DirectGoes
<1>4. ASSUME NEW t2, TextGoes(t, t2) PROVE Together(t, d, t2, Fail(d, "unsupported"))
  BY <1>2, <1>3, <1>4 DEF Together
<1>5. ASSUME NEW d2, DirectGoes(d, d2) PROVE Together(t, d, Fail(t, "error"), d2)
  BY <1>1, <1>3, <1>5 DEF Together
<1>6. QED
  BY <1>3, <1>4, <1>5

\* A move is a step of both.
LEMMA MovesTogether ==
  ASSUME Called, src \in Sources, NEW t \in TextPasses, NEW d \in DirectPasses, NEW ins, Instruction_(ins), ins.op \in MoveOps
  PROVE  Together(t, d, TextMove(t, ins), DirectMove(d, ins))
<1> DEFINE o == ins.args[1]
           to == ins.args[2]
           typ == MoveType(ins.op)
           v == TextCast(TextValue(t, o), typ)
           w == DirectCast(DirectValue(d, o), typ)
           t1 == TextMove(t, ins)
           d1 == DirectMove(d, ins)
<1>1. Operand_(o) /\ Operand_(to)
  <2>1. Len(ins.args) = 2
    BY DEF Instruction_, Arity, MoveOps
  <2>2. QED
    BY <2>1 DEF Instruction_
<1>2. typ \in {"i64", "i32", "i8"}
  BY DEF MoveType
<1>3. /\ t1 = IF v.typ = "error" THEN Fail(t, "error")
              ELSE CASE to.kind = "reg" -> SetReg(t, to.reg, v)
                     [] to.kind = "fp" -> TextSetResult(t, to.n, v)
                     [] OTHER -> t
      /\ d1 = IF w.typ = "error" \/ ins.op \notin {"MOVD", "MOVQ", "MOVL"} THEN Fail(d, "unsupported")
              ELSE CASE to.kind = "reg" -> [d EXCEPT !.reg[to.reg] = w]
                     [] to.kind = "fp" -> DirectSetResult(d, to.n, w)
                     [] OTHER -> Fail(d, "unsupported")
  BY DEF TextMove, DirectMove
<1> HIDE DEF typ
<1>4. /\ v \in Values /\ v.typ \in {typ, "error"}
      /\ w \in Values /\ w.typ \in {typ, "error"}
      /\ Alike(t, d) /\ v.typ # "error" /\ w.typ # "error" => Same(v, w)
  <2> HIDE DEF o
  <2>1. QED
    BY <1>1, OperandsBoth
<1> HIDE DEF v, w, t1, d1
<1>5. t \in Passes /\ d \in Passes
  BY DEF TextPasses, DirectPasses
<1>6. Made(v) \in Values /\ Plain(Made(v)) /\ (v.typ \in Ints => Same(Made(v), v))
      /\ SetReg(t, to.reg, v) = [t EXCEPT !.reg[to.reg] = Made(v)]
  BY <1>4, MadeIs
<1>7. v.typ # "error" => v.typ \in Ints
  BY <1>2, <1>4 DEF Ints
<1>8. ASSUME v.typ # "error", w.typ # "error", to.kind = "reg"
      PROVE  Together(t, d, SetReg(t, to.reg, v), [d EXCEPT !.reg[to.reg] = w])
  <2>1. to.reg \in f.regs
    BY <1>1, <1>8 DEF Operand_
  <2>2. Alike(t, d) => Same(Made(v), w)
    BY <1>4, <1>6, <1>7, <1>8 DEF Same
  <2> DEFINE r == to.reg
             u == Made(v)
  <2>3. r \in f.regs /\ u \in Values /\ Plain(u) /\ (Alike(t, d) => Same(u, w))
    BY <1>6, <2>1, <2>2
  <2> HIDE DEF r, u
  <2>4. Together(t, d, [t EXCEPT !.reg[r] = u], [d EXCEPT !.reg[r] = w])
    BY <1>4, <2>3, BothSet
  <2>5. QED
    BY <1>6, <2>4 DEF r, u
<1>9. ASSUME v.typ # "error", w.typ # "error", to.kind = "fp"
      PROVE  Together(t, d, TextSetResult(t, to.n, v), DirectSetResult(d, to.n, w))
  <2> DEFINE n == to.n
  <2> HIDE DEF n
  <2>1. Together(t, d, TextSetResult(t, n, v), DirectSetResult(d, n, w))
    BY <1>4, <1>9, ResultsTogether
  <2>2. QED
    BY <2>1 DEF n
<1>10. TextGoes(t, t1)
  <2>1. CASE v.typ = "error"
    BY <1>3, <2>1, FailsTogether
  <2>2. CASE v.typ # "error" /\ to.kind = "reg"
    <3>1. to.reg \in f.regs
      BY <1>1, <2>2 DEF Operand_
    <3> DEFINE r == to.reg
               u == Made(v)
    <3>2. r \in f.regs /\ u \in Values /\ Plain(u)
      BY <1>6, <3>1
    <3> HIDE DEF r, u
    <3>3. TextGoes(t, [t EXCEPT !.reg[r] = u])
      BY <1>5, <3>2, SetsReg DEF TextGoes
    <3>4. t1 = [t EXCEPT !.reg[r] = u]
      BY <1>3, <1>6, <2>2 DEF r, u
    <3>5. QED
      BY <3>3, <3>4
  <2>3. CASE v.typ # "error" /\ to.kind = "fp"
    <3> DEFINE n == to.n
    <3> HIDE DEF n
    <3>1. t1 = TextSetResult(t, n, v)
      BY <1>3, <2>3 DEF n
    <3>2. Same(v, v)
      BY DEF Same
    <3>3. Together(t, d, TextSetResult(t, n, v), DirectSetResult(d, n, v))
      BY <1>4, <3>2, ResultsTogether
    <3>4. QED
      BY <3>1, <3>3 DEF Together
  <2>4. CASE v.typ # "error" /\ to.kind \notin {"reg", "fp"}
    BY <1>3, <2>4, FailsTogether
  <2>5. QED
    BY <2>1, <2>2, <2>3, <2>4
<1> DEFINE bad == w.typ = "error" \/ ins.op \notin {"MOVD", "MOVQ", "MOVL"}
<1>11. DirectGoes(d, d1)
  <2>1. CASE bad
    BY <1>3, <2>1, FailsTogether
  <2>2. CASE ~bad /\ to.kind = "reg"
    <3>1. to.reg \in f.regs
      BY <1>1, <2>2 DEF Operand_
    <3> DEFINE r == to.reg
    <3>2. r \in f.regs
      BY <3>1
    <3>3. d1 = [d EXCEPT !.reg[r] = w]
      BY <1>3, <2>2
    <3> HIDE DEF r
    <3>4. DirectGoes(d, [d EXCEPT !.reg[r] = w])
      BY <1>4, <1>5, <3>2, SetsReg DEF DirectGoes
    <3>5. QED
      BY <3>3, <3>4
  <2>3. CASE ~bad /\ to.kind = "fp"
    <3> DEFINE n == to.n
    <3> HIDE DEF n
    <3>1. d1 = DirectSetResult(d, n, w)
      BY <1>3, <2>3 DEF n
    <3>2. Same(w, w)
      BY DEF Same
    <3>3. Together(t, d, TextSetResult(t, n, w), DirectSetResult(d, n, w))
      BY <1>4, <3>2, ResultsTogether
    <3>4. QED
      BY <3>1, <3>3 DEF Together
  <2>4. CASE ~bad /\ to.kind \notin {"reg", "fp"}
    BY <1>3, <2>4, FailsTogether
  <2>5. QED
    BY <2>1, <2>2, <2>3, <2>4
<1>12. CASE v.typ = "error"
  <2>1. t1 = Fail(t, "error")
    BY <1>3, <1>12
  <2>2. QED
    BY <1>11, <2>1, FailsTogether DEF t1, d1
<1>13. CASE bad \/ to.kind \notin {"reg", "fp"}
  <2>1. d1 = Fail(d, "unsupported")
    BY <1>3, <1>13
  <2>2. QED
    BY <1>10, <2>1, FailsTogether DEF t1, d1
<1>14. CASE v.typ # "error" /\ ~bad /\ to.kind = "reg"
  <2>1. t1 = SetReg(t, to.reg, v) /\ d1 = [d EXCEPT !.reg[to.reg] = w]
    BY <1>3, <1>14
  <2>2. QED
    BY <1>8, <1>14, <2>1 DEF t1, d1
<1>15. CASE v.typ # "error" /\ ~bad /\ to.kind = "fp"
  <2>1. t1 = TextSetResult(t, to.n, v) /\ d1 = DirectSetResult(d, to.n, w)
    BY <1>3, <1>15
  <2>2. QED
    BY <1>9, <1>15, <2>1 DEF t1, d1
<1>16. QED
  BY <1>12, <1>13, <1>14, <1>15

\* Arithmetic on words gives a word.
LEMMA ComputeIs ==
  ASSUME NEW op \in QuadOps \cup ArmOps, NEW typ, NEW x \in Word_(typ), NEW y \in Word_(typ)
  PROVE  Compute(op, typ, x, y) \in Word_(typ)
<1> DEFINE P == 2^MaxBits
           m == 2^Bits(typ)
<1>1. m \in {2, 4, 8, 16, 256} /\ Word_(typ) = (0 .. m - 1) \cup {Poison}
  BY Word_Is DEF Word_
<1>2. P \in Nat /\ P >= 256 /\ Poison = P
  BY Widths DEF Poison
<1>3. AllWords = 0 .. P - 1
  BY DEF AllWords
<1>4. CASE Poison \in {x, y}
  BY <1>1, <1>4 DEF Compute
<1>5. CASE Poison \notin {x, y}
  <2> HIDE DEF P, m
  <2>1. x \in 0 .. m - 1 /\ y \in 0 .. m - 1
    BY <1>1, <1>5
  <2>2. x \in AllWords /\ y \in AllWords /\ x \in Nat /\ y \in Nat
    BY <1>1, <1>2, <1>3, <2>1
  <2>3. XorW(x, y) \in Int /\ AndW(x, y) \in Int /\ OrW(x, y) \in Int
    BY <2>2, BitWords
  <2>4. x + y \in Int /\ x - y + P \in Int /\ y - x + P \in Int
    BY <1>2, <2>2
  <2>5. \A z \in Int : Trunc(Bits(typ), z) \in Word_(typ)
    <3>1. \A z \in Int : z % m \in 0 .. m - 1
      BY <1>1
    <3>2. QED
      BY <1>1, <3>1 DEF Trunc, m
  <2>6. CASE op \in {"ADDQ", "ADD"}
    <3>1. Compute(op, typ, x, y) = Trunc(Bits(typ), x + y)
      BY <1>5, <2>6 DEF Compute
    <3>2. QED
      BY <3>1, <2>4, <2>5
  <2>7. CASE op \in {"SUBQ", "SUB"}
    <3>1. Compute(op, typ, x, y) = Trunc(Bits(typ), x - y + P)
      BY <1>5, <2>7 DEF Compute, P
    <3>2. QED
      BY <3>1, <2>4, <2>5
  <2>8. CASE op = "RSB"
    <3>1. Compute(op, typ, x, y) = Trunc(Bits(typ), y - x + P)
      BY <1>5, <2>8 DEF Compute, P
    <3>2. QED
      BY <3>1, <2>4, <2>5
  <2>9. CASE op \in {"XORQ", "EOR"}
    <3>1. Compute(op, typ, x, y) = Trunc(Bits(typ), XorW(x, y))
      BY <1>5, <2>9 DEF Compute
    <3>2. QED
      BY <3>1, <2>3, <2>5
  <2>10. CASE op = "AND"
    <3>1. Compute(op, typ, x, y) = Trunc(Bits(typ), AndW(x, y))
      BY <1>5, <2>10 DEF Compute
    <3>2. QED
      BY <3>1, <2>3, <2>5
  <2>11. CASE op = "ORR"
    <3>1. Compute(op, typ, x, y) = Trunc(Bits(typ), OrW(x, y))
      BY <1>5, <2>11 DEF Compute
    <3>2. QED
      BY <3>1, <2>3, <2>5
  <2>12. QED
    BY <2>6, <2>7, <2>8, <2>9, <2>10, <2>11 DEF QuadOps, ArmOps
<1>6. QED
  BY <1>4, <1>5

\* The operands of arithmetic are operands of the instruction.
LEMMA ArithOperands ==
  ASSUME NEW ins, Instruction_(ins), ins.op \in QuadOps \cup ArmOps
  PROVE  Operand_(Lhs(ins)) /\ Operand_(ins.args[1]) /\ Operand_(Dst(ins))
<1>1. Len(ins.args) \in {2, 3}
  BY DEF Instruction_, Arity, QuadOps, ArmOps
<1>2. \A i \in 1 .. Len(ins.args) : Operand_(ins.args[i])
  BY DEF Instruction_
<1>3. CASE Len(ins.args) = 2
  <2>1. Lhs(ins) = ins.args[2] /\ Dst(ins) = ins.args[2]
    BY <1>3 DEF Lhs, Dst
  <2>2. QED
    BY <1>2, <1>3, <2>1
<1>4. CASE Len(ins.args) = 3
  <2>1. Lhs(ins) = ins.args[2] /\ Dst(ins) = ins.args[3]
    BY <1>4 DEF Lhs, Dst
  <2>2. QED
    BY <1>2, <1>4, <2>1
<1>5. QED
  BY <1>1, <1>3, <1>4

\* Arithmetic is a step of both.
LEMMA ArithTogether ==
  ASSUME Called, src \in Sources, NEW t \in TextPasses, NEW d \in DirectPasses,
         NEW ins, Instruction_(ins), ins.op \in QuadOps \cup ArmOps
  PROVE  Together(t, d, TextArith(t, ins), DirectArith(d, ins))
<1> DEFINE l == Lhs(ins)
           o == ins.args[1]
           r == Dst(ins).reg
           typ == ArithType(ins.op)
           x == TextCast(TextValue(t, l), typ)
           y == TextCast(TextValue(t, o), typ)
           p == DirectCast(DirectValue(d, l), "i64")
           q == DirectCast(DirectValue(d, o), "i64")
           v == Val(typ, Compute(ins.op, typ, Fit(typ, x.val), Fit(typ, y.val)))
           w == Val("i64", Compute(ins.op, "i64", p.val, q.val))
           t1 == TextArith(t, ins)
           d1 == DirectArith(d, ins)
           tbad == Dst(ins).kind # "reg" \/ "error" \in {x.typ, y.typ}
           dbad == ins.op \notin QuadOps \/ Dst(ins).kind # "reg" \/ "error" \in {p.typ, q.typ}
<1>1. Operand_(l) /\ Operand_(o) /\ (Dst(ins).kind = "reg" => r \in f.regs)
  <2>1. Operand_(Lhs(ins)) /\ Operand_(ins.args[1]) /\ Operand_(Dst(ins))
    BY ArithOperands
  <2>2. Dst(ins).kind = "reg" => Dst(ins).reg \in f.regs
    BY <2>1 DEF Operand_
  <2>3. QED
    BY <2>1, <2>2
<1>2. typ \in {"i64", "i32"} /\ (ins.op \in QuadOps => typ = "i64")
  BY DEF ArithType
<1>3. /\ t1 = IF tbad THEN Fail(t, "error") ELSE [t EXCEPT !.reg[r] = v]
      /\ d1 = IF dbad THEN Fail(d, "unsupported") ELSE [d EXCEPT !.reg[r] = w]
  BY DEF TextArith, DirectArith
<1> HIDE DEF l, o, r, typ
<1>4. /\ x \in Values /\ x.typ \in {typ, "error"} /\ y \in Values /\ y.typ \in {typ, "error"}
  BY <1>1, OperandsBoth
<1>5. /\ p \in Values /\ p.typ \in {"i64", "error"} /\ q \in Values /\ q.typ \in {"i64", "error"}
  BY <1>1, OperandsBoth
<1>6. Alike(t, d) /\ typ = "i64" /\ ~tbad /\ ~dbad => Same(x, p) /\ Same(y, q)
  BY <1>1, OperandsBoth
<1> HIDE DEF x, y, p, q, t1, d1
<1>7. x.typ # "error" => x.val \in Word_(typ) /\ Fit(typ, x.val) = x.val
  <2>1. typ # "agg" /\ x.val \in Int
    BY <1>2, <1>4 DEF Values, Vals
  <2>2. x.typ # "error" => x.val \in Word_(typ)
    BY <1>4, <2>1 DEF Values, Vals
  <2>3. QED
    BY <2>1, <2>2, FitIs
<1>8. y.typ # "error" => y.val \in Word_(typ) /\ Fit(typ, y.val) = y.val
  <2>1. typ # "agg" /\ y.val \in Int
    BY <1>2, <1>4 DEF Values, Vals
  <2>2. y.typ # "error" => y.val \in Word_(typ)
    BY <1>4, <2>1 DEF Values, Vals
  <2>3. QED
    BY <2>1, <2>2, FitIs
<1>9. (p.typ # "error" => p.val \in Word_("i64")) /\ (q.typ # "error" => q.val \in Word_("i64"))
  BY <1>5 DEF Values, Vals
<1>10. ~tbad => v \in Values /\ Plain(v)
  <2>1. typ \in AllTypes \ {"ptr"}
    BY <1>2, Int64
  <2>2. Plain(v)
    BY DEF Plain, Val
  <2>3. ASSUME ~tbad PROVE v \in Values
    <3> DEFINE z == Compute(ins.op, typ, x.val, y.val)
    <3>1. z \in Word_(typ)
      BY <1>7, <1>8, <2>3, ComputeIs
    <3>2. v = Val(typ, z)
      BY <1>7, <1>8, <2>3
    <3> HIDE DEF z, v
    <3>3. QED
      BY <2>1, <3>1, <3>2, Integers_
  <2>4. QED
    BY <2>2, <2>3
<1>11. ~dbad => w \in Values
  <2> DEFINE z == Compute(ins.op, "i64", p.val, q.val)
  <2>1. ~dbad => z \in Word_("i64")
    BY <1>9, ComputeIs
  <2>2. w = Val("i64", z)
    OBVIOUS
  <2> HIDE DEF z, w
  <2>3. QED
    BY <2>1, <2>2, Int64, Integers_
<1>12. ~tbad /\ ~dbad /\ Alike(t, d) => Same(v, w)
  <2>1. ASSUME ~tbad, ~dbad, Alike(t, d) PROVE Same(v, w)
    <3>1. typ = "i64"
      BY <1>2, <2>1
    <3>2. x.val = p.val /\ y.val = q.val
      BY <1>6, <2>1, <3>1 DEF Same
    <3>3. Fit(typ, x.val) = x.val /\ Fit(typ, y.val) = y.val
      BY <1>7, <1>8, <2>1
    <3>4. v = w
      BY <3>1, <3>2, <3>3
    <3> HIDE DEF v, w
    <3>5. QED
      BY <3>4 DEF Same
  <2>2. QED
    BY <2>1
<1>13. ~tbad => r \in f.regs
  BY <1>1
<1>14. ~dbad => r \in f.regs
  BY <1>1
<1> HIDE DEF v, w, tbad, dbad
<1>15. t \in Passes /\ d \in Passes
  BY DEF TextPasses, DirectPasses
<1>16. TextGoes(t, t1)
  <2>1. CASE tbad
    BY <1>3, <2>1, FailsTogether
  <2>2. CASE ~tbad
    <3>1. TextGoes(t, [t EXCEPT !.reg[r] = v])
      BY <1>10, <1>13, <1>15, <2>2, SetsReg DEF TextGoes
    <3>2. QED
      BY <1>3, <2>2, <3>1
  <2>3. QED
    BY <2>1, <2>2
<1>17. DirectGoes(d, d1)
  <2>1. CASE dbad
    BY <1>3, <2>1, FailsTogether
  <2>2. CASE ~dbad
    <3>1. DirectGoes(d, [d EXCEPT !.reg[r] = w])
      BY <1>11, <1>14, <1>15, <2>2, SetsReg DEF DirectGoes
    <3>2. QED
      BY <1>3, <2>2, <3>1
  <2>3. QED
    BY <2>1, <2>2
<1>18. Together(t, d, t1, d1)
  <2>1. CASE tbad
    <3>1. t1 = Fail(t, "error")
      BY <1>3, <2>1
    <3>2. QED
      BY <1>17, <3>1, FailsTogether
  <2>2. CASE dbad
    <3>1. d1 = Fail(d, "unsupported")
      BY <1>3, <2>2
    <3>2. QED
      BY <1>16, <3>1, FailsTogether
  <2>3. CASE ~tbad /\ ~dbad
    <3>1. t1 = [t EXCEPT !.reg[r] = v] /\ d1 = [d EXCEPT !.reg[r] = w]
      BY <1>3, <2>3
    <3>2. QED
      BY <1>10, <1>11, <1>12, <1>13, <2>3, <3>1, BothSet
  <2>4. QED
    BY <2>1, <2>2, <2>3
<1>19. QED
  BY <1>18 DEF t1, d1

\* Words of four bits.
LEMMA Words32 ==
  /\ 0 .. 15 \subseteq Word_("i32")
  /\ \A n \in 0 .. 15 : Val("i32", n) \in Values /\ Val("i64", n) \in Values /\ Plain(Val("i32", n)) /\ Plain(Val("i64", n))
<1> DEFINE b == Bits("i32")
           c == Bits("i64")
<1>1. b = 4 /\ c = 8
  BY Int64
<1>2. 2^4 = 16 /\ 2^8 = 256
  BY SMT
<1> HIDE DEF b, c
<1>3. 2^b = 16 /\ 2^c = 256
  BY <1>1, <1>2
<1>4. 0 .. 15 \subseteq 0 .. 2^b - 1 /\ 0 .. 15 \subseteq 0 .. 2^c - 1
  BY <1>3
<1>5. 0 .. 15 \subseteq Word_("i32") /\ 0 .. 15 \subseteq Word_("i64")
  BY <1>4 DEF Word_, b, c
<1>6. \A n \in 0 .. 15 : Val("i32", n) \in Values /\ Val("i64", n) \in Values
  BY <1>5, Int64, Integers_
<1>7. \A n : Plain(Val("i32", n)) /\ Plain(Val("i64", n))
  BY DEF Plain, Val
<1>8. QED
  BY <1>5, <1>6, <1>7

\* MRS is a step of both.
LEMMA MRSTogether ==
  ASSUME NEW t \in TextPasses, NEW d \in DirectPasses, NEW ins, Instruction_(ins), ins.op = "MRS"
  PROVE  Together(t, d, TextMRS(t, ins), DirectMRS(d, ins))
<1> DEFINE v == MRSValue(ins.args[1].reg)
           r == ins.args[2].reg
<1>1. CASE MRSFits(ins)
  <2>1. Operand_(ins.args[2])
    <3>1. Len(ins.args) = 2
      BY DEF Instruction_, Arity
    <3>2. QED
      BY <3>1 DEF Instruction_
  <2>2. r \in f.regs
    BY <1>1, <2>1 DEF MRSFits, Operand_
  <2>3. v \in Values /\ Plain(v)
    <3>1. Zero("i64") \in Values
      BY Int64, Integers_
    <3>2. Plain(Zero("i64"))
      BY DEF Plain, Zero, Const
    <3>3. Val("i64", 5) \in Values /\ Val("i64", 6) \in Values /\ Plain(Val("i64", 5)) /\ Plain(Val("i64", 6))
      BY Words32
    <3>4. v \in {Zero("i64"), Val("i64", 5), Val("i64", 6)}
      BY DEF MRSValue, SysReg
    <3> HIDE DEF v
    <3>5. QED
      BY <3>1, <3>2, <3>3, <3>4
  <2>4. TextMRS(t, ins) = [t EXCEPT !.reg[r] = v] /\ DirectMRS(d, ins) = [d EXCEPT !.reg[r] = v]
    BY <1>1 DEF TextMRS, DirectMRS
  <2>5. Same(v, v)
    BY DEF Same
  <2> HIDE DEF v, r
  <2>6. Together(t, d, [t EXCEPT !.reg[r] = v], [d EXCEPT !.reg[r] = v])
    BY <2>2, <2>3, <2>5, BothSet
  <2>7. QED
    BY <2>4, <2>6
<1>2. CASE ~MRSFits(ins)
  <2>1. TextMRS(t, ins) = Fail(t, "error") /\ DirectMRS(d, ins) = Fail(d, "unsupported")
    BY <1>2 DEF TextMRS, DirectMRS
  <2>2. QED
    BY <2>1, FailsTogether
<1>3. QED
  BY <1>1, <1>2

\* What the processor answers is a register file again.
LEMMA AnswerIs ==
  ASSUME NEW reg \in [f.regs -> Values], NEW new, \A r \in DOMAIN new : new[r] \in 0 .. 15
  PROVE  /\ Answer(reg, new) \in [f.regs -> Values]
         /\ (\A r \in f.regs : Plain(reg[r])) => \A r \in f.regs : Plain(Answer(reg, new)[r])
<1>1. \A r \in f.regs : Answer(reg, new)[r] = IF r \in DOMAIN new THEN Val("i32", new[r]) ELSE reg[r]
  BY DEF Answer
<1>2. \A r \in DOMAIN new : Val("i32", new[r]) \in Values /\ Plain(Val("i32", new[r]))
  BY Words32
<1>3. \A r \in f.regs : Answer(reg, new)[r] \in Values
  BY <1>1, <1>2
<1>4. Answer(reg, new) = [r \in f.regs |-> Answer(reg, new)[r]]
  BY DEF Answer
<1>5. ASSUME \A r \in f.regs : Plain(reg[r]), NEW r \in f.regs PROVE Plain(Answer(reg, new)[r])
  BY <1>1, <1>2, <1>5
<1>6. QED
  BY <1>3, <1>4, <1>5

\* CPUID and XGETBV are steps of both.
LEMMA CPUTogether ==
  ASSUME Called, f.arch = "amd64", NEW t \in TextPasses, NEW d \in DirectPasses, NEW ins
  PROVE  Together(t, d, TextCPU(t, ins), DirectCPU(d, ins))
<1> DEFINE ta == IF ins.op = "CPUID"
                 THEN (IF t.reg["AX"].typ = "none" THEN Zero("i32") ELSE TextCast(t.reg["AX"], "i32")) ELSE Zero("i32")
           tc == IF t.reg["CX"].typ = "none" THEN Zero("i32") ELSE TextCast(t.reg["CX"], "i32")
           da == IF ins.op = "CPUID"
                 THEN (IF d.reg["AX"].typ = "none" THEN Zero("i32") ELSE DirectCast(d.reg["AX"], "i32")) ELSE Zero("i32")
           dc == IF d.reg["CX"].typ = "none" THEN Zero("i32") ELSE DirectCast(d.reg["CX"], "i32")
           tbad == "error" \in {ta.typ, tc.typ}
           dbad == "error" \in {da.typ, dc.typ}
           tnew == IF ins.op = "CPUID" THEN Cpuid(ta.val, tc.val) ELSE Xgetbv(tc.val)
           dnew == IF ins.op = "CPUID" THEN Cpuid(da.val, dc.val) ELSE Xgetbv(dc.val)
           tq == Answer(t.reg, tnew)
           dq == Answer(d.reg, dnew)
           t1 == TextCPU(t, ins)
           d1 == DirectCPU(d, ins)
<1>1. /\ t1 = IF tbad THEN Fail(t, "error") ELSE [t EXCEPT !.reg = tq]
      /\ d1 = IF dbad THEN Fail(d, "unsupported") ELSE [d EXCEPT !.reg = dq]
  BY DEF TextCPU, DirectCPU, AskCPU, Input
<1>2. t \in Passes /\ d \in Passes /\ "AX" \in f.regs /\ "CX" \in f.regs
  BY FunctionIs DEF TextPasses, DirectPasses
<1>3. t.reg["AX"] \in Values /\ t.reg["CX"] \in Values /\ d.reg["AX"] \in Values /\ d.reg["CX"] \in Values
  BY <1>2 DEF Passes
<1>4. Zero("i32") \in Values /\ Zero("i32").typ = "i32"
  BY Int64, Integers_ DEF Zero, Const
<1>5. ASSUME NEW v \in Values, NEW w \in Values, NEW x, NEW y,
             x = (IF v.typ = "none" THEN Zero("i32") ELSE TextCast(v, "i32")),
             y = (IF w.typ = "none" THEN Zero("i32") ELSE DirectCast(w, "i32"))
      PROVE  x \in Values /\ y \in Values /\ (Same(v, w) /\ x.typ # "error" /\ y.typ # "error" => x.val = y.val)
  <2>1. /\ TextCast(v, "i32") \in Values /\ DirectCast(w, "i32") \in Values
        /\ Same(v, w) /\ TextCast(v, "i32").typ # "error" /\ DirectCast(w, "i32").typ # "error" =>
             Same(TextCast(v, "i32"), DirectCast(w, "i32"))
    BY CastsBoth
  <2>2. QED
    BY <1>4, <1>5, <2>1 DEF Same
<1>6. tc \in Values /\ dc \in Values
      /\ (Same(t.reg["CX"], d.reg["CX"]) /\ tc.typ # "error" /\ dc.typ # "error" => tc.val = dc.val)
  BY <1>3, <1>5
<1>7. ta \in Values /\ da \in Values
      /\ (Same(t.reg["AX"], d.reg["AX"]) /\ ta.typ # "error" /\ da.typ # "error" => ta.val = da.val)
  <2>1. CASE ins.op = "CPUID"
    BY <1>3, <1>5, <2>1
  <2>2. CASE ins.op # "CPUID"
    BY <1>4, <2>2
  <2>3. QED
    BY <2>1, <2>2
<1> HIDE DEF ta, tc, da, dc, t1, d1
<1>8. ta.val \in Int /\ tc.val \in Int /\ da.val \in Int /\ dc.val \in Int
  BY <1>6, <1>7 DEF Values, Vals
<1>9. (\A r \in DOMAIN tnew : tnew[r] \in 0 .. 15) /\ (\A r \in DOMAIN dnew : dnew[r] \in 0 .. 15)
  <2>1. CASE ins.op = "CPUID"
    BY <1>8, <2>1, Answers
  <2>2. CASE ins.op # "CPUID"
    BY <1>8, <2>2, Answers
  <2>3. QED
    BY <2>1, <2>2
<1>10. Alike(t, d) /\ ~tbad /\ ~dbad => tnew = dnew
  BY <1>2, <1>6, <1>7 DEF Alike
<1> HIDE DEF tnew, dnew
<1>11. tq \in [f.regs -> Values] /\ (\A r \in f.regs : Plain(tq[r])) /\ dq \in [f.regs -> Values]
  <2>1. t.reg \in [f.regs -> Values] /\ d.reg \in [f.regs -> Values] /\ \A r \in f.regs : Plain(t.reg[r])
    BY <1>2 DEF Passes, TextPasses
  <2>2. QED
    BY <1>9, <2>1, AnswerIs
<1>12. Alike(t, d) /\ ~tbad /\ ~dbad => \A r \in f.regs : Same(tq[r], dq[r])
  <2>1. DOMAIN t.reg = f.regs /\ DOMAIN d.reg = f.regs
    BY <1>2 DEF Passes
  <2>2. \A v : Same(v, v)
    BY DEF Same
  <2>3. ASSUME Alike(t, d), ~tbad, ~dbad, NEW r \in f.regs PROVE Same(tq[r], dq[r])
    <3>1. tnew = dnew /\ Same(t.reg[r], d.reg[r])
      BY <1>10, <2>3 DEF Alike
    <3>2. /\ tq[r] = IF r \in DOMAIN tnew THEN Val("i32", tnew[r]) ELSE t.reg[r]
          /\ dq[r] = IF r \in DOMAIN dnew THEN Val("i32", dnew[r]) ELSE d.reg[r]
      BY <2>1 DEF Answer
    <3>3. QED
      BY <2>2, <3>1, <3>2
  <2>4. QED
    BY <2>3
<1> DEFINE t2 == [t EXCEPT !.reg = tq]
           d2 == [d EXCEPT !.reg = dq]
<1> HIDE DEF tq, dq, tbad, dbad
<1>13. t2 \in TextPasses /\ t2.st = t.st /\ t2.out = t.out /\ t2.res = t.res /\ t2.reg = tq
  <2>1. t2 \in Passes
    BY <1>2, <1>11, PassSets
  <2>2. t2.st = t.st /\ t2.out = t.out /\ t2.res = t.res /\ t2.reg = tq
    BY <1>2 DEF Passes
  <2> HIDE DEF t2
  <2>3. QED
    BY <1>11, <2>1, <2>2 DEF TextPasses
<1>14. d2 \in DirectPasses /\ d2.st = d.st /\ d2.out = d.out /\ d2.res = d.res /\ d2.reg = dq
  <2>1. d2 \in Passes
    BY <1>2, <1>11, PassSets
  <2>2. d2.st = d.st /\ d2.out = d.out /\ d2.res = d.res /\ d2.reg = dq
    BY <1>2 DEF Passes
  <2> HIDE DEF d2
  <2>3. QED
    BY <2>1, <2>2 DEF DirectPasses
<1> HIDE DEF t2, d2
<1>15. TextGoes(t, t1) /\ DirectGoes(d, d1)
  <2>1. TextGoes(t, t2) /\ DirectGoes(d, d2)
    BY <1>13, <1>14 DEF TextGoes, DirectGoes
  <2>2. t1 \in {Fail(t, "error"), t2} /\ d1 \in {Fail(d, "unsupported"), d2}
    BY <1>1 DEF t2, d2
  <2>3. TextGoes(t, Fail(t, "error")) /\ DirectGoes(d, Fail(d, "unsupported"))
    BY FailsTogether
  <2>4. QED
    BY <2>1, <2>2, <2>3
<1>16. CASE tbad
  <2>1. t1 = Fail(t, "error")
    BY <1>1, <1>16
  <2>2. QED
    BY <1>15, <2>1, FailsTogether DEF t1, d1
<1>17. CASE dbad
  <2>1. d1 = Fail(d, "unsupported")
    BY <1>1, <1>17
  <2>2. QED
    BY <1>15, <2>1, FailsTogether DEF t1, d1
<1>18. CASE ~tbad /\ ~dbad
  <2>1. t1 = t2 /\ d1 = d2
    BY <1>1, <1>18 DEF t2, d2
  <2>2. Alike(t, d) => Alike(t2, d2)
    BY <1>12, <1>13, <1>14, <1>18 DEF Alike
  <2>3. QED
    BY <1>15, <2>1, <2>2 DEF Together, t1, d1
<1>19. QED
  BY <1>16, <1>17, <1>18

\* What both return, cast to the types of the results.
TextValues(t) == Returned(t, TextCast)
DirectValues(d) == Returned(d, DirectCast)
Outs(values) == [i \in DOMAIN values |-> Fit(values[i].typ, values[i].val)]

\* Several results: the slots, those never written zero.
LEMMA SlotsReturned ==
  ASSUME Called, Len(f.results) > 1, NEW t \in TextPasses, NEW d \in DirectPasses, NEW i \in DOMAIN f.results
  PROVE  /\ TextValues(t)[i].val \in Int /\ DirectValues(d)[i].val \in Int
         /\ Alike(t, d) /\ TextValues(t)[i].typ # "error" /\ DirectValues(d)[i].typ # "error" =>
              Same(TextValues(t)[i], DirectValues(d)[i])
<1> DEFINE slot == f.results[i]
           v == ResultValue(t, slot)
           w == ResultValue(d, slot)
           n == Len(f.results)
<1>1. f.results \in Seq(SlotsOf(n))
  BY FunctionIs
<1>2. slot \in SlotsOf(n) /\ DOMAIN f.results = 1 .. n
  BY <1>1
<1>3. slot.typ \in AllTypes /\ slot.idx \in DOMAIN f.results
  BY <1>2 DEF SlotsOf, AllTypes
<1>4. TextValues(t)[i] = TextCast(v, slot.typ) /\ DirectValues(d)[i] = DirectCast(w, slot.typ)
  BY DEF TextValues, DirectValues, Returned
<1> HIDE DEF slot
<1>5. Zero(slot.typ) \in Values
  <2>1. Zero(slot.typ) \in Vals
    BY <1>3, ValIs
  <2>2. NullOnly(Zero(slot.typ))
    BY DEF NullOnly, Zero, Const
  <2>3. QED
    BY <2>1, <2>2 DEF Values
<1>6. t.res[slot.idx] \in Values /\ d.res[slot.idx] \in Values
  BY <1>3 DEF TextPasses, DirectPasses, Passes
<1>7. v \in Values /\ w \in Values
  BY <1>5, <1>6 DEF ResultValue
<1>8. Alike(t, d) => Same(v, w)
  BY <1>3 DEF Alike, ResultValue, Same
<1> HIDE DEF v, w
<1>9. /\ TextCast(v, slot.typ) \in Values /\ DirectCast(w, slot.typ) \in Values
      /\ Same(v, w) /\ TextCast(v, slot.typ).typ # "error" /\ DirectCast(w, slot.typ).typ # "error" =>
           Same(TextCast(v, slot.typ), DirectCast(w, slot.typ))
  BY <1>7, CastsBoth
<1>10. TextCast(v, slot.typ).val \in Int /\ DirectCast(w, slot.typ).val \in Int
  BY <1>9 DEF Values, Vals
<1>11. QED
  BY <1>4, <1>8, <1>9, <1>10

\* One result: its slot, the return register, or zero.
LEMMA ScalarReturned ==
  ASSUME Called, ~(Len(f.results) > 1), NEW t \in TextPasses, NEW d \in DirectPasses
  PROVE  /\ TextValues(t) = <<TextCast(ScalarValue(t), f.ret)>>
         /\ DirectValues(d) = <<DirectCast(ScalarValue(d), f.ret)>>
         /\ TextCast(ScalarValue(t), f.ret).val \in Int /\ DirectCast(ScalarValue(d), f.ret).val \in Int
         /\ Alike(t, d) /\ TextCast(ScalarValue(t), f.ret).typ # "error" /\ DirectCast(ScalarValue(d), f.ret).typ # "error" =>
              Same(TextCast(ScalarValue(t), f.ret), DirectCast(ScalarValue(d), f.ret))
<1> DEFINE v == ScalarValue(t)
           w == ScalarValue(d)
           r == archReturnReg
           n == Len(f.results)
           z == Zero(f.ret)
<1>1. TextValues(t) = <<TextCast(v, f.ret)>> /\ DirectValues(d) = <<DirectCast(w, f.ret)>>
  BY DEF TextValues, DirectValues, Returned
<1>2. r \in f.regs
  BY FunctionIs DEF archReturnReg
<1>3. Len(f.results) = 1 => 1 \in DOMAIN f.results
  <2>1. f.results \in Seq(SlotsOf(n))
    BY FunctionIs
  <2>2. QED
    BY <2>1
<1>4. t \in Passes /\ d \in Passes
  BY DEF TextPasses, DirectPasses
<1>5. \/ v = z /\ (Alike(t, d) => w = z)
      \/ v \in Values /\ (Alike(t, d) => w \in Values /\ Same(v, w))
  <2>1. CASE Len(f.results) = 1 /\ t.res[1].typ # "none"
    <3>1. v = t.res[1] /\ t.res[1] \in Values
      BY <1>3, <1>4, <2>1 DEF ScalarValue, Passes
    <3>2. ASSUME Alike(t, d) PROVE w = d.res[1] /\ d.res[1] \in Values /\ Same(v, w)
      <4>1. Same(t.res[1], d.res[1])
        BY <1>3, <2>1, <3>2 DEF Alike
      <4>2. d.res[1].typ # "none"
        BY <2>1, <4>1 DEF Same
      <4>3. w = d.res[1] /\ d.res[1] \in Values
        BY <1>3, <1>4, <2>1, <4>2 DEF ScalarValue, Passes
      <4>4. QED
        BY <3>1, <4>1, <4>3
    <3>3. QED
      BY <3>1, <3>2
  <2>2. CASE ~(Len(f.results) = 1 /\ t.res[1].typ # "none") /\ t.reg[r].typ # "none"
    <3>1. v = t.reg[r] /\ t.reg[r] \in Values
      BY <1>2, <1>4, <2>2 DEF ScalarValue, Passes
    <3>2. ASSUME Alike(t, d) PROVE w = d.reg[r] /\ d.reg[r] \in Values /\ Same(v, w)
      <4>1. Same(t.reg[r], d.reg[r])
        BY <1>2, <3>2 DEF Alike
      <4>2. d.reg[r].typ # "none" /\ ~(Len(f.results) = 1 /\ d.res[1].typ # "none")
        BY <1>3, <2>2, <3>2, <4>1 DEF Same, Alike
      <4>3. w = d.reg[r] /\ d.reg[r] \in Values
        BY <1>2, <1>4, <4>2 DEF ScalarValue, Passes
      <4>4. QED
        BY <3>1, <4>1, <4>3
    <3>3. QED
      BY <3>1, <3>2
  <2>3. CASE ~(Len(f.results) = 1 /\ t.res[1].typ # "none") /\ ~(t.reg[r].typ # "none")
    <3>1. v = z
      BY <2>3 DEF ScalarValue
    <3>2. ASSUME Alike(t, d) PROVE w = z
      <4>1. ~(d.reg[r].typ # "none") /\ ~(Len(f.results) = 1 /\ d.res[1].typ # "none")
        BY <1>2, <1>3, <2>3, <3>2 DEF Same, Alike
      <4>2. QED
        BY <4>1 DEF ScalarValue
    <3>3. QED
      BY <3>1, <3>2
  <2>4. QED
    BY <2>1, <2>2, <2>3
<1>6. w = z \/ w \in Values
  BY <1>2, <1>3, <1>4 DEF ScalarValue, Passes
<1>7. TextCast(z, f.ret) = z /\ DirectCast(z, f.ret) = z /\ z.val = 0 /\ Same(z, z)
  BY DEF TextCast, DirectCast, Zero, Const, Same
<1> HIDE DEF v, w, z
<1>8. (v \in Values => TextCast(v, f.ret).val \in Int) /\ (w \in Values => DirectCast(w, f.ret).val \in Int)
  BY CastValues DEF Values, Vals
<1>9. v \in Values /\ w \in Values /\ Same(v, w) /\ TextCast(v, f.ret).typ # "error" /\ DirectCast(w, f.ret).typ # "error" =>
        Same(TextCast(v, f.ret), DirectCast(w, f.ret))
  BY CastsBoth
<1>10. TextCast(v, f.ret).val \in Int /\ DirectCast(w, f.ret).val \in Int
  BY <1>5, <1>6, <1>7, <1>8
<1>11. Alike(t, d) /\ TextCast(v, f.ret).typ # "error" /\ DirectCast(w, f.ret).typ # "error" =>
         Same(TextCast(v, f.ret), DirectCast(w, f.ret))
  BY <1>5, <1>7, <1>9
<1>12. QED
  BY <1>1, <1>10, <1>11 DEF v, w

\* So both return as many values, and the same ones.
LEMMA ReturnedIs ==
  ASSUME Called, NEW t \in TextPasses, NEW d \in DirectPasses
  PROVE  /\ \E n \in Nat : DOMAIN TextValues(t) = 1 .. n /\ DOMAIN DirectValues(d) = 1 .. n
         /\ \A i \in DOMAIN TextValues(t) :
              /\ TextValues(t)[i].val \in Int /\ DirectValues(d)[i].val \in Int
              /\ Alike(t, d) /\ TextValues(t)[i].typ # "error" /\ DirectValues(d)[i].typ # "error" =>
                   Same(TextValues(t)[i], DirectValues(d)[i])
<1>1. CASE Len(f.results) > 1
  <2> DEFINE n == Len(f.results)
  <2>1. f.results \in Seq(SlotsOf(n))
    BY FunctionIs
  <2>2. n \in Nat /\ DOMAIN f.results = 1 .. n
    BY <2>1
  <2>3. DOMAIN TextValues(t) = DOMAIN f.results /\ DOMAIN DirectValues(d) = DOMAIN f.results
    BY <1>1 DEF TextValues, DirectValues, Returned
  <2> HIDE DEF n
  <2>4. QED
    BY <1>1, <2>2, <2>3, SlotsReturned
<1>2. CASE ~(Len(f.results) > 1)
  <2> DEFINE v == TextCast(ScalarValue(t), f.ret)
             w == DirectCast(ScalarValue(d), f.ret)
  <2>1. /\ TextValues(t) = <<v>> /\ DirectValues(d) = <<w>> /\ v.val \in Int /\ w.val \in Int
        /\ Alike(t, d) /\ v.typ # "error" /\ w.typ # "error" => Same(v, w)
    BY <1>2, ScalarReturned
  <2> HIDE DEF v, w
  <2>2. DOMAIN TextValues(t) = 1 .. 1 /\ DOMAIN DirectValues(d) = 1 .. 1
    BY <2>1
  <2>3. \A i \in 1 .. 1 : TextValues(t)[i] = v /\ DirectValues(d)[i] = w
    BY <2>1
  <2>4. 1 \in Nat
    OBVIOUS
  <2> DEFINE a == TextValues(t)
             b == DirectValues(d)
  <2> HIDE DEF a, b
  <2>5. QED
    BY <2>1, <2>2, <2>3, <2>4
<1>3. QED
  BY <1>1, <1>2

\* Values without an error become words that are returned.
LEMMA FinishIs ==
  ASSUME NEW t \in Passes, NEW values, NEW n \in Nat, DOMAIN values = 1 .. n, \A i \in 1 .. n : values[i].val \in Int,
         NEW st \in {"error", "unsupported"}, t.st = "run"
  PROVE  /\ Finish(t, values, st) \in Passes /\ Finish(t, values, st).st \in {"done", st}
         /\ Finish(t, values, st).reg = t.reg
         /\ Finish(t, values, st).st = "done" =>
              /\ Finish(t, values, st).out = Outs(values)
              /\ \A i \in 1 .. n : values[i].typ # "error"
<1> DEFINE q == Outs(values)
           t1 == Finish(t, values, st)
           t2 == [t EXCEPT !.st = "done", !.out = q]
           bad == \E i \in 1 .. n : values[i].typ = "error"
<1>1. t1 = IF bad THEN Fail(t, st) ELSE t2
  BY DEF Finish, Running, Outs
<1>2. q \in Seq(Int)
  <2>1. \A i \in 1 .. n : Fit(values[i].typ, values[i].val) \in Int
    BY FitIs, Word_Is
  <2>2. q \in [1 .. n -> Int]
    BY <2>1 DEF Outs
  <2> HIDE DEF q
  <2>3. QED
    BY <2>2
<1> HIDE DEF q, t1
<1>3. t2 \in Passes /\ t2.st = "done" /\ t2.out = q /\ t2.reg = t.reg
  <2>1. t2 \in Passes
    BY <1>2, PassSets
  <2>2. QED
    BY <2>1 DEF Passes
<1>4. Fail(t, st) \in Passes /\ Fail(t, st).st = st /\ Fail(t, st).reg = t.reg
  <2>1. Fail(t, st) = [t EXCEPT !.st = st] /\ Fail(t, st) \in Passes
    BY PassSets DEF Fail
  <2>2. QED
    BY <2>1 DEF Passes
<1> HIDE DEF t2
<1>5. t1 \in Passes /\ t1.st \in {"done", st} /\ t1.reg = t.reg /\ (t1.st = "done" => t1.out = q /\ ~bad)
  BY <1>1, <1>3, <1>4
<1>6. QED
  BY <1>5 DEF t1, q

\* RET ends both, and what both return is the same.
LEMMA RETTogether ==
  ASSUME Called, NEW t \in TextPasses, NEW d \in DirectPasses
  PROVE  /\ t.st = "run" => TextRET(t) \in TextPasses /\ TextRET(t).st \in {"done", "error", "invalid"}
         /\ d.st = "run" => DirectRET(d) \in DirectPasses /\ DirectRET(d).st \in {"done", "unsupported"}
         /\ d.st = "run" /\ f.ret = "void" => DirectRET(d).out = d.out
         /\ t.st = "run" /\ d.st = "run" /\ f.ret # "void" /\ Alike(t, d)
              /\ TextRET(t).st = "done" /\ DirectRET(d).st = "done" => TextRET(t).out = DirectRET(d).out
<1> DEFINE v == TextValues(t)
           w == DirectValues(d)
           t1 == TextRET(t)
           d1 == DirectRET(d)
           odd == Len(f.results) > 1 /\ \E i \in DOMAIN v : ~v[i].ssa /\ v[i].typ \notin Ints \cup {"error"}
           tf == Finish(t, v, "error")
           df == Finish(d, w, "unsupported")
<1>1. t1 = IF odd THEN Fail(t, "invalid") ELSE tf
  BY DEF TextRET, TextValues
<1>2. d1 = IF f.ret = "void" THEN [d EXCEPT !.st = IF d.st = "run" THEN "done" ELSE d.st] ELSE df
  BY DEF DirectRET, DirectValues
<1>3. PICK n \in Nat : DOMAIN v = 1 .. n /\ DOMAIN w = 1 .. n
  BY ReturnedIs
<1>4. \A i \in 1 .. n : /\ v[i].val \in Int /\ w[i].val \in Int
                        /\ Alike(t, d) /\ v[i].typ # "error" /\ w[i].typ # "error" => Same(v[i], w[i])
  BY <1>3, ReturnedIs
<1>5. t \in Passes /\ d \in Passes
  BY DEF TextPasses, DirectPasses
<1> HIDE DEF v, w, t1, d1
<1>6. ASSUME t.st = "run"
      PROVE  tf \in TextPasses /\ tf.st \in {"done", "error"}
             /\ (tf.st = "done" => tf.out = Outs(v) /\ \A i \in 1 .. n : v[i].typ # "error")
  <2>1. /\ tf \in Passes /\ tf.st \in {"done", "error"} /\ tf.reg = t.reg
        /\ tf.st = "done" => tf.out = Outs(v) /\ \A i \in 1 .. n : v[i].typ # "error"
    BY <1>3, <1>4, <1>5, <1>6, FinishIs
  <2> HIDE DEF tf
  <2>2. tf \in TextPasses
    BY <2>1 DEF TextPasses
  <2>3. QED
    BY <2>1, <2>2
<1>7. ASSUME d.st = "run"
      PROVE  df \in DirectPasses /\ df.st \in {"done", "unsupported"}
             /\ (df.st = "done" => df.out = Outs(w) /\ \A i \in 1 .. n : w[i].typ # "error")
  <2>1. /\ df \in Passes /\ df.st \in {"done", "unsupported"} /\ df.reg = d.reg
        /\ df.st = "done" => df.out = Outs(w) /\ \A i \in 1 .. n : w[i].typ # "error"
    BY <1>3, <1>4, <1>5, <1>7, FinishIs
  <2> HIDE DEF df
  <2>2. df \in DirectPasses
    BY <2>1 DEF DirectPasses
  <2>3. QED
    BY <2>1, <2>2
<1> HIDE DEF tf, df
<1>8. ASSUME t.st = "run" PROVE Fail(t, "invalid") \in TextPasses /\ Fail(t, "invalid").st = "invalid"
  <2>1. Fail(t, "invalid") = [t EXCEPT !.st = "invalid"] /\ Fail(t, "invalid") \in Passes
    BY <1>5, <1>8, PassSets DEF Fail
  <2>2. Fail(t, "invalid").st = "invalid" /\ Fail(t, "invalid").reg = t.reg
    BY <1>5, <2>1 DEF Passes
  <2>3. QED
    BY <2>1, <2>2 DEF TextPasses
<1>9. t.st = "run" => t1 \in TextPasses /\ t1.st \in {"done", "error", "invalid"}
  BY <1>1, <1>6, <1>8
<1> DEFINE dv == [d EXCEPT !.st = "done"]
<1>10. dv \in DirectPasses /\ dv.st = "done" /\ dv.out = d.out
  <2>1. dv \in Passes
    BY <1>5, PassSets
  <2>2. dv.st = "done" /\ dv.out = d.out
    BY <1>5 DEF Passes
  <2> HIDE DEF dv
  <2>3. QED
    BY <2>1, <2>2 DEF DirectPasses
<1>11. d.st = "run" /\ f.ret = "void" => d1 = dv
  BY <1>2
<1> HIDE DEF dv
<1>12. d.st = "run" => d1 \in DirectPasses /\ d1.st \in {"done", "unsupported"}
  <2>1. CASE f.ret = "void"
    BY <1>10, <1>11, <2>1
  <2>2. CASE f.ret # "void"
    <3>1. d1 = df
      BY <1>2, <2>2
    <3>2. QED
      BY <1>7, <3>1
  <2>3. QED
    BY <2>1, <2>2
<1>13. d.st = "run" /\ f.ret = "void" => d1.out = d.out
  BY <1>10, <1>11
<1>14. ASSUME t.st = "run", d.st = "run", f.ret # "void", Alike(t, d), t1.st = "done", d1.st = "done"
       PROVE  t1.out = d1.out
  <2>1. t1 = tf
    BY <1>1, <1>8, <1>14
  <2>2. d1 = df
    BY <1>2, <1>14
  <2>3. t1.out = Outs(v) /\ \A i \in 1 .. n : v[i].typ # "error"
    BY <1>6, <1>14, <2>1
  <2>4. d1.out = Outs(w) /\ \A i \in 1 .. n : w[i].typ # "error"
    BY <1>7, <1>14, <2>2
  <2>5. \A i \in 1 .. n : v[i].typ = w[i].typ /\ v[i].val = w[i].val
    BY <1>4, <1>14, <2>3, <2>4 DEF Same
  <2>6. Outs(v) = [i \in 1 .. n |-> Fit(v[i].typ, v[i].val)] /\ Outs(w) = [i \in 1 .. n |-> Fit(w[i].typ, w[i].val)]
    BY <1>3 DEF Outs
  <2>7. Outs(v) = Outs(w)
    BY <2>5, <2>6
  <2>8. QED
    BY <2>3, <2>4, <2>7
<1>15. QED
  BY <1>9, <1>12, <1>13, <1>14 DEF t1, d1

-----------------------------------------------------------------------------
(***************************************************************************)
(* The invariant.                                                          *)
(***************************************************************************)
\* Both paths hold the same as long as both go on; the body of a function
\* ends with its first RET, and only there do they end well.
PathsInv ==
  /\ Called /\ phase \in {"body", "tail", "ended"} /\ count \in 0 .. f.max
  /\ src \in Sources /\ text \in TextPasses /\ direct \in DirectPasses
  /\ phase = "body" => direct.st # "done" /\ (f.ret # "void" => text.st # "done")
  /\ text.st = "run" /\ direct.st = "run" => Alike(text, direct)
  /\ text.st = "done" /\ direct.st = "done" => direct.out = text.out
  /\ f.ret = "void" => text.st = "done" /\ text.out = <<>> /\ direct.out = <<>>

\* The registers at entry: arguments, or nothing.
LEMMA InitialIs ==
  ASSUME Called
  PROVE  InitialRegs(args) \in [f.regs -> Values] /\ \A r \in f.regs : Plain(InitialRegs(args)[r])
<1> DEFINE S(r) == {i \in DOMAIN f.args \cap DOMAIN ArgRegs : ArgRegs[i] = r}
           c(r) == CHOOSE i \in DOMAIN f.args \cap DOMAIN ArgRegs : ArgRegs[i] = r
<1>1. ASSUME NEW r \in f.regs
      PROVE  \/ InitialRegs(args)[r] = NoVal
             \/ \E i \in DOMAIN f.args : InitialRegs(args)[r] = Val(f.args[i], args[i][1])
  <2>1. CASE \E i \in DOMAIN f.args \cap DOMAIN ArgRegs : ArgRegs[i] = r
    <3>1. c(r) \in DOMAIN f.args
      BY <2>1
    <3>2. InitialRegs(args)[r] = Val(f.args[c(r)], args[c(r)][1])
      BY <2>1 DEF InitialRegs
    <3>3. QED
      BY <3>1, <3>2
  <2>2. CASE ~\E i \in DOMAIN f.args \cap DOMAIN ArgRegs : ArgRegs[i] = r
    BY <2>2 DEF InitialRegs
  <2>3. QED
    BY <2>1, <2>2
<1>2. ASSUME NEW i \in DOMAIN f.args PROVE Val(f.args[i], args[i][1]) \in Values
  <2> DEFINE typ == f.args[i]
             x == args[i][1]
  <2>1. typ \in SlotTypes \cup {"agg"}
    BY FunctionIs
  <2>2. x \in IF typ = "agg" THEN Nat ELSE 0 .. 2^Bits(typ) - 1
    BY FunctionIs DEF InputOf, Bits
  <2>3. typ \in AllTypes
    BY <2>1 DEF AllTypes
  <2> HIDE DEF typ, x
  <2>3a. SUFFICES Val(typ, x) \in Values
    BY DEF typ, x
  <2>4. CASE typ = "agg"
    <3>1. x \in Int
      BY <2>2, <2>4
    <3>2. Val(typ, x) \in Vals
      BY <2>3, <2>4, <3>1 DEF Vals, Val
    <3>3. NullOnly(Val(typ, x))
      BY DEF NullOnly, Val
    <3>4. QED
      BY <3>2, <3>3 DEF Values
  <2>5. CASE typ # "agg"
    <3>1. x \in Word_(typ)
      BY <2>2, <2>5 DEF Word_
    <3>2. Val(typ, x) \in Vals
      BY <2>3, <3>1, ValIs
    <3>3. NullOnly(Val(typ, x))
      BY DEF NullOnly, Val
    <3>4. QED
      BY <3>2, <3>3 DEF Values
  <2>6. QED
    BY <2>4, <2>5
<1>3. NoVal \in Values /\ Plain(NoVal) /\ \A typ, x : Plain(Val(typ, x))
  BY Int64, Integers_ DEF Plain, NoVal, Const, Val
<1>4. \A r \in f.regs : InitialRegs(args)[r] \in Values /\ Plain(InitialRegs(args)[r])
  BY <1>1, <1>2, <1>3
<1>5. InitialRegs(args) = [r \in f.regs |-> InitialRegs(args)[r]]
  BY DEF InitialRegs
<1>6. QED
  BY <1>4, <1>5

\* What the processor knows at entry.
LEMMA EntryIs ==
  ASSUME Called
  PROVE  /\ EntryRegs(InitialRegs(args)) \in [f.regs -> Knowns]
         /\ EntrySlots(args) \in [SlotOffsets -> Knowns]
<1>1. \A typ : Bits(typ) \in Counts
  BY Widths DEF Counts
<1>2. EntryRegs(InitialRegs(args)) \in [f.regs -> Knowns]
  <2> DEFINE q == InitialRegs(args)
  <2>1. q \in [f.regs -> Values]
    BY InitialIs
  <2> HIDE DEF q
  <2>2. ASSUME NEW r \in f.regs PROVE EntryRegs(q)[r] \in Knowns
    <3> DEFINE n == Bits(q[r].typ)
               x == q[r].val
    <3>1. n \in Counts
      BY <1>1
    <3>2. x \in Int
      BY <2>1 DEF Values, Vals
    <3>3. EntryRegs(q)[r] \in {Known(n, x), Unknown}
      BY <2>1 DEF EntryRegs
    <3> HIDE DEF n, x
    <3>4. Known(n, x) \in Knowns
      BY <3>1, <3>2, KnownIs
    <3>5. QED
      BY <3>3, <3>4, WidthsMeet
  <2>3. EntryRegs(q) = [r \in f.regs |-> EntryRegs(q)[r]]
    BY <2>1 DEF EntryRegs
  <2>4. QED
    BY <2>2, <2>3 DEF q
<1>3. EntrySlots(args) \in [SlotOffsets -> Knowns]
  <2>1. ASSUME NEW off \in SlotOffsets PROVE EntrySlots(args)[off] \in Knowns
    <3> DEFINE slot == SlotAt(f.params, off)
               n == Bits(slot.typ)
               x == args[slot.idx][IF slot.field < 0 THEN 1 ELSE slot.field + 1]
    <3>1. EntrySlots(args)[off] = IF slot = NoSlot THEN Unknown ELSE Known(n, x)
      BY DEF EntrySlots, SlotOffsets, SlotWord, Bits
    <3>2. n \in Counts
      BY <1>1
    <3>3. slot # NoSlot => x \in Int
      <4>1. slot # NoSlot => \E i \in DOMAIN f.params : slot = f.params[i]
        BY SlotFound
      <4>2. \A i \in DOMAIN f.params : LET s == f.params[i] IN
               args[s.idx][IF s.field < 0 THEN 1 ELSE s.field + 1] \in 0 .. 2^Bits(s.typ) - 1
        BY FunctionIs DEF InputOf, Bits
      <4>3. slot # NoSlot => x \in 0 .. 2^Bits(slot.typ) - 1
        BY <4>1, <4>2
      <4>4. 0 .. 2^Bits(slot.typ) - 1 \subseteq Int
        OBVIOUS
      <4> HIDE DEF slot, x
      <4>5. QED
        BY <4>3, <4>4
    <3> HIDE DEF slot, n, x
    <3>4. slot # NoSlot => Known(n, x) \in Knowns
      BY <3>2, <3>3, KnownIs
    <3>5. QED
      BY <3>1, <3>4, WidthsMeet
  <2>2. EntrySlots(args) = [off \in SlotOffsets |-> EntrySlots(args)[off]]
    BY DEF EntrySlots, SlotOffsets
  <2>3. QED
    BY <2>1, <2>2
<1>4. QED
  BY <1>2, <1>3

\* What the assembly returns.
LEMMA SourceResultIs ==
  ASSUME Called, src \in Sources
  PROVE  SourceResult \in Seq(Knowns)
<1>1. archReturnReg \in f.regs
  BY FunctionIs DEF archReturnReg
<1>2. src.reg \in [f.regs -> Knowns] /\ src.slot \in [SlotOffsets -> Knowns]
  BY DEF Sources
<1>3. \A i \in DOMAIN f.results : f.results[i].off \in SlotOffsets
  BY DEF SlotOffsets
<1>4. CASE f.ret = "void"
  BY <1>4 DEF SourceResult
<1>5. CASE f.ret # "void" /\ Len(f.results) > 0
  <2> DEFINE n == Len(f.results)
             q == [i \in DOMAIN f.results |-> src.slot[f.results[i].off]]
  <2>1. f.results \in Seq(SlotsOf(n))
    BY FunctionIs
  <2>2. n \in Nat /\ DOMAIN f.results = 1 .. n
    BY <2>1
  <2>3. q \in [1 .. n -> Knowns]
    BY <1>2, <1>3, <2>2
  <2>4. SourceResult = q
    BY <1>5 DEF SourceResult
  <2> HIDE DEF q, n
  <2>5. QED
    BY <2>2, <2>3, <2>4
<1>6. CASE f.ret # "void" /\ ~(Len(f.results) > 0)
  <2> DEFINE k == src.reg[archReturnReg]
  <2>1. k \in Knowns /\ SourceResult = <<k>>
    BY <1>1, <1>2, <1>6 DEF SourceResult
  <2> HIDE DEF k
  <2>2. QED
    BY <2>1
<1>7. QED
  BY <1>4, <1>5, <1>6

\* The function at hand, and with it what its values are, stays.
LEMMA FunctionStays ==
  ASSUME f' = f, args' = args
  PROVE  /\ Called' = Called /\ Sources' = Sources /\ TextPasses' = TextPasses /\ DirectPasses' = DirectPasses
         /\ \A t, d : Alike(t, d)' = Alike(t, d)
<1>1. Called' = Called
  BY DEF Called
<1>2. SlotOffsets' = SlotOffsets
  BY DEF SlotOffsets
<1>3. Sources' = Sources
  BY <1>2 DEF Sources
<1>4. \A typ : Word_(typ)' = Word_(typ)
  BY DEF Word_, Bits
<1>5. Vals' = Vals
  BY <1>4 DEF Vals
<1>6. Values' = Values
  BY <1>5 DEF Values
<1>7. Passes' = Passes
  BY <1>6 DEF Passes
<1>8. TextPasses' = TextPasses /\ DirectPasses' = DirectPasses
  BY <1>7 DEF TextPasses, DirectPasses
<1>9. \A t, d : Alike(t, d)' = Alike(t, d)
  BY DEF Alike
<1>10. QED
  BY <1>1, <1>3, <1>8, <1>9

\* An instruction of the body that is a step of both keeps the invariant.
LEMMA BodyKeeps ==
  ASSUME PathsInv, NEW ins, Body(ins), NEW t2, NEW d2, src' \in Sources,
         text' = Pass(text, t2), direct' = Pass(direct, d2), Together(text, direct, t2, d2)
  PROVE  PathsInv'
<1>1. f' = f /\ args' = args /\ phase' = phase /\ phase = "body" /\ count' \in 0 .. f.max
  <2>1. f.max \in Nat /\ count \in 0 .. f.max
    BY FunctionIs DEF PathsInv
  <2>2. QED
    BY <2>1 DEF Body
<1>2. /\ Called /\ text \in TextPasses /\ direct \in DirectPasses
      /\ direct.st # "done" /\ (f.ret # "void" => text.st # "done")
      /\ text.st = "run" /\ direct.st = "run" => Alike(text, direct)
      /\ f.ret = "void" => text.st = "done" /\ text.out = <<>> /\ direct.out = <<>>
  BY <1>1 DEF PathsInv
<1>3. /\ text.st = "run" => text' = t2 /\ t2 \in TextPasses /\ t2.st \in {"run", "error"} /\ t2.out = text.out
      /\ text.st # "run" => text' = text
  BY DEF Pass, Running, Together, TextGoes
<1>4. /\ direct.st = "run" => direct' = d2 /\ d2 \in DirectPasses /\ d2.st \in {"run", "unsupported"} /\ d2.out = direct.out
      /\ direct.st # "run" => direct' = direct
  BY DEF Pass, Running, Together, DirectGoes
<1>5. text' \in TextPasses /\ direct' \in DirectPasses
  BY <1>2, <1>3, <1>4
<1>6. direct'.st # "done" /\ (f.ret # "void" => text'.st # "done")
  BY <1>2, <1>3, <1>4
<1>7. ASSUME text'.st = "run", direct'.st = "run" PROVE Alike(text, direct)'
  <2>1. text.st = "run" /\ direct.st = "run"
    BY <1>3, <1>4, <1>7
  <2>2. text' = t2 /\ direct' = d2
    BY <1>3, <1>4, <2>1
  <2>3. Alike(t2, d2)
    BY <1>2, <1>7, <2>1, <2>2 DEF Together
  <2>4. QED
    BY <1>1, <2>2, <2>3 DEF Alike
<1>8. f.ret = "void" => text'.st = "done" /\ text'.out = <<>> /\ direct'.out = <<>>
  BY <1>2, <1>3, <1>4
<1>9. Called' = Called /\ Sources' = Sources /\ TextPasses' = TextPasses /\ DirectPasses' = DirectPasses
  BY <1>1, FunctionStays
<1>10. Called' /\ src' \in Sources' /\ text' \in TextPasses' /\ direct' \in DirectPasses'
  BY <1>2, <1>5, <1>9
<1>11. phase' \in {"body", "tail", "ended"} /\ count' \in 0 .. f'.max
  BY <1>1
<1>12. phase' = "body" => direct'.st # "done" /\ (f'.ret # "void" => text'.st # "done")
  BY <1>1, <1>6
<1>13. f'.ret = "void" => text'.st = "done" /\ text'.out = <<>> /\ direct'.out = <<>>
  BY <1>1, <1>8
<1>14. text'.st = "done" /\ direct'.st = "done" => direct'.out = text'.out
  BY <1>6
<1>15. text'.st = "run" /\ direct'.st = "run" => Alike(text, direct)'
  BY <1>7
<1>16. QED
  BY <1>10, <1>11, <1>12, <1>13, <1>14, <1>15 DEF PathsInv

\* The instructions of a function.
LEMMA AlphabetIs ==
  ASSUME Called, NEW i \in DOMAIN f.alphabet
  PROVE  Instruction_(f.alphabet[i])
  BY FunctionIs

\* Moves.
LEMMA KeptByMove ==
  ASSUME PathsInv, NEW ins, Instruction_(ins), LowerMove(ins)
  PROVE  PathsInv'
<1>1. Called /\ src \in Sources /\ text \in TextPasses /\ direct \in DirectPasses
  BY DEF PathsInv
<1>2. /\ ins.op \in MoveOps /\ Body(ins) /\ text' = Pass(text, TextMove(text, ins))
      /\ direct' = Pass(direct, DirectMove(direct, ins))
      /\ Processor(SrcMove(f.arch, src, ins.op, ins.args[1], ins.args[2]))
  BY DEF LowerMove
<1>3. Operand_(ins.args[1]) /\ Operand_(ins.args[2])
  <2>1. Len(ins.args) = 2
    BY <1>2 DEF Instruction_, Arity, MoveOps
  <2>2. QED
    BY <2>1 DEF Instruction_
<1>4. SrcMove(f.arch, src, ins.op, ins.args[1], ins.args[2]) \in Sources
  BY <1>1, <1>2, <1>3, MoveSource
<1>5. src' \in Sources
  BY <1>1, <1>2, <1>4 DEF Processor
<1>6. Together(text, direct, TextMove(text, ins), DirectMove(direct, ins))
  BY <1>1, <1>2, MovesTogether
<1>7. QED
  BY <1>2, <1>5, <1>6, BodyKeeps

\* Arithmetic.
LEMMA KeptByArith ==
  ASSUME PathsInv, NEW ins, Instruction_(ins), LowerArith(ins)
  PROVE  PathsInv'
<1>1. Called /\ src \in Sources /\ text \in TextPasses /\ direct \in DirectPasses
  BY DEF PathsInv
<1>2. /\ ins.op \in QuadOps \cup ArmOps /\ Body(ins) /\ text' = Pass(text, TextArith(text, ins))
      /\ direct' = Pass(direct, DirectArith(direct, ins))
      /\ Processor(IF Dst(ins).kind # "reg" THEN [src EXCEPT !.ok = FALSE]
                   ELSE SrcArith(f.arch, src, ins.op, Lhs(ins), ins.args[1], Dst(ins).reg))
  BY DEF LowerArith
<1>3. Operand_(Lhs(ins)) /\ Operand_(ins.args[1])
  BY <1>2, ArithOperands
<1> DEFINE l == Lhs(ins)
           o == ins.args[1]
           r == Dst(ins).reg
           op == ins.op
<1>4. SrcArith(f.arch, src, op, l, o, r) \in Sources
  <2> HIDE DEF l, o, r, op
  <2>1. op \in QuadOps \cup ArmOps /\ Operand_(l) /\ Operand_(o)
    BY <1>2, <1>3 DEF l, o, op
  <2>2. QED
    BY <1>1, <2>1, ArithSource
<1>5. [src EXCEPT !.ok = FALSE] \in Sources
  BY <1>1, SourceSets
<1>6. src' \in Sources
  <2>1. src' \in {src, [src EXCEPT !.ok = FALSE], SrcArith(f.arch, src, op, l, o, r)}
    BY <1>2 DEF Processor
  <2> HIDE DEF l, o, r, op
  <2>2. QED
    BY <1>1, <1>4, <1>5, <2>1
<1>7. Together(text, direct, TextArith(text, ins), DirectArith(direct, ins))
  BY <1>1, <1>2, ArithTogether
<1>8. QED
  BY <1>2, <1>6, <1>7, BodyKeeps

\* MRS.
LEMMA KeptByMRS ==
  ASSUME PathsInv, NEW ins, Instruction_(ins), LowerMRS(ins)
  PROVE  PathsInv'
<1>1. Called /\ src \in Sources /\ text \in TextPasses /\ direct \in DirectPasses
  BY DEF PathsInv
<1>2. /\ ins.op = "MRS" /\ Body(ins) /\ text' = Pass(text, TextMRS(text, ins))
      /\ direct' = Pass(direct, DirectMRS(direct, ins))
      /\ Processor(IF MRSFits(ins) THEN SetSrcReg(src, ins.args[2].reg, Known(8, SysReg(ins.args[1].reg)))
                   ELSE [src EXCEPT !.ok = FALSE])
  BY DEF LowerMRS
<1> DEFINE n == SysReg(ins.args[1].reg)
           k == Known(8, n)
           r == ins.args[2].reg
<1>3. k \in Knowns
  <2>1. n \in Int /\ 8 \in Counts
    BY DEF SysReg, Counts
  <2> HIDE DEF n
  <2>2. QED
    BY <2>1, KnownIs
<1>4. src' \in {src, [src EXCEPT !.ok = FALSE], [src EXCEPT !.reg[r] = k]}
  BY <1>2 DEF Processor, SetSrcReg
<1> HIDE DEF n, k, r
<1>5. src' \in Sources
  <2>1. [src EXCEPT !.ok = FALSE] \in Sources /\ [src EXCEPT !.reg[r] = k] \in Sources
    BY <1>1, <1>3, SourceSets
  <2>2. QED
    BY <1>1, <1>4, <2>1
<1>6. Together(text, direct, TextMRS(text, ins), DirectMRS(direct, ins))
  BY <1>1, <1>2, MRSTogether
<1>7. QED
  BY <1>2, <1>5, <1>6, BodyKeeps

\* CPUID and XGETBV: only functions of amd64 with them stay here.
LEMMA KeptByCPU ==
  ASSUME PathsInv, NEW ins, LowerCPU(ins)
  PROVE  PathsInv'
<1>1. Called /\ src \in Sources /\ text \in TextPasses /\ direct \in DirectPasses
  BY DEF PathsInv
<1>2. /\ ins.op \in {"CPUID", "XGETBV"} /\ Body(ins) /\ text' = Pass(text, TextCPU(text, ins))
      /\ direct' = Pass(direct, DirectCPU(direct, ins))
      /\ Processor(SrcSet(src, IF ins.op = "CPUID" THEN CpuidKnown(src.reg["AX"], src.reg["CX"])
                               ELSE XgetbvKnown(src.reg["CX"])))
  BY DEF LowerCPU
<1>3. f.arch = "amd64"
  <2>1. f.arch \in {"amd64", "arm", "arm64"} /\ ~NeedsCFG(ins)
    BY <1>1, <1>2, FunctionIs DEF Body
  <2>2. CASE f.arch = "arm"
    <3>1. NeedsCFG(ins) = funcNeedsARMCFG(ins)
      BY <2>2 DEF NeedsCFG
    <3>2. funcNeedsARMCFG(ins)
      BY <1>2 DEF funcNeedsARMCFG, ArmOps
    <3>3. QED
      BY <2>1, <3>1, <3>2
  <2>3. CASE f.arch = "arm64"
    <3>1. NeedsCFG(ins) = funcNeedsARM64CFG(ins)
      BY <2>3 DEF NeedsCFG
    <3>2. funcNeedsARM64CFG(ins)
      BY <1>2 DEF funcNeedsARM64CFG
    <3>3. QED
      BY <2>1, <3>1, <3>2
  <2>4. QED
    BY <2>1, <2>2, <2>3
<1> DEFINE new == IF ins.op = "CPUID" THEN CpuidKnown(src.reg["AX"], src.reg["CX"]) ELSE XgetbvKnown(src.reg["CX"])
<1>4. \A r \in DOMAIN new : new[r] \in Knowns
  <2>1. "AX" \in f.regs /\ "CX" \in f.regs
    BY <1>1, <1>3, FunctionIs
  <2> DEFINE a == src.reg["AX"]
             c == src.reg["CX"]
  <2>2. a \in Knowns /\ c \in Knowns
    BY <1>1, <2>1 DEF Sources
  <2> HIDE DEF a, c
  <2>3. /\ \A r \in DOMAIN CpuidKnown(a, c) : CpuidKnown(a, c)[r] \in Knowns
        /\ \A r \in DOMAIN XgetbvKnown(c) : XgetbvKnown(c)[r] \in Knowns
    BY <2>2, AnswersKnown
  <2>4. new \in {CpuidKnown(a, c), XgetbvKnown(c)}
    BY DEF a, c
  <2> HIDE DEF new
  <2>5. QED
    BY <2>3, <2>4
<1>5. Processor(SrcSet(src, new))
  BY <1>2
<1> HIDE DEF new
<1>6. src' \in Sources
  BY <1>1, <1>4, <1>5, SetSource DEF Processor
<1>7. Together(text, direct, TextCPU(text, ins), DirectCPU(direct, ins))
  BY <1>1, <1>3, CPUTogether
<1>8. QED
  BY <1>2, <1>6, <1>7, BodyKeeps

\* Raw bytes.
LEMMA KeptByByte ==
  ASSUME PathsInv, NEW ins, LowerByte(ins)
  PROVE  PathsInv'
<1>1. Called /\ src \in Sources /\ text \in TextPasses /\ direct \in DirectPasses
  BY DEF PathsInv
<1>2. Body(ins) /\ text' = Pass(text, text) /\ direct' = Pass(direct, direct)
      /\ Processor([src EXCEPT !.ok = FALSE])
  BY DEF LowerByte, Pass
<1>3. src' \in Sources
  BY <1>1, <1>2, SourceSets DEF Processor
<1>4. text.st = "run" => text.st \in {"run", "error"}
  OBVIOUS
<1>5. Together(text, direct, text, direct)
  BY <1>1, FailsTogether DEF Together
<1>6. QED
  BY <1>2, <1>3, <1>5, BodyKeeps

\* Steps that are no instruction of the body.
LEMMA PathsKept ==
  ASSUME PathsInv, f' = f, args' = args, phase' \in {"tail", "ended"}, count' \in 0 .. f.max, src' \in Sources,
         text' \in TextPasses, direct' \in DirectPasses,
         text'.st = "run" /\ direct'.st = "run" => text' = text /\ direct' = direct,
         text'.st = "done" /\ direct'.st = "done" => direct'.out = text'.out,
         f.ret = "void" => text' = text /\ direct'.out = direct.out
  PROVE  PathsInv'
<1>1. /\ Called /\ (text.st = "run" /\ direct.st = "run" => Alike(text, direct))
      /\ f.ret = "void" => text.st = "done" /\ text.out = <<>> /\ direct.out = <<>>
  BY DEF PathsInv
<1>2. Called' = Called /\ Sources' = Sources /\ TextPasses' = TextPasses /\ DirectPasses' = DirectPasses
  BY FunctionStays
<1>3. Called' /\ src' \in Sources' /\ text' \in TextPasses' /\ direct' \in DirectPasses'
  BY <1>1, <1>2
<1>4. phase' \in {"body", "tail", "ended"} /\ count' \in 0 .. f'.max /\ phase' # "body"
  OBVIOUS
<1>5. text'.st = "run" /\ direct'.st = "run" => Alike(text, direct)'
  BY <1>1 DEF Alike
<1>6. f'.ret = "void" => text'.st = "done" /\ text'.out = <<>> /\ direct'.out = <<>>
  BY <1>1
<1>7. QED
  BY <1>3, <1>4, <1>5, <1>6 DEF PathsInv

\* RET.
LEMMA KeptByRET ==
  ASSUME PathsInv, LowerRET
  PROVE  PathsInv'
<1>1. /\ Called /\ src \in Sources /\ text \in TextPasses /\ direct \in DirectPasses /\ count \in 0 .. f.max
      /\ direct.st # "done" /\ (f.ret # "void" => text.st # "done")
      /\ text.st = "run" /\ direct.st = "run" => Alike(text, direct)
      /\ f.ret = "void" => text.st = "done" /\ text.out = <<>> /\ direct.out = <<>>
  BY DEF PathsInv, LowerRET
<1>2. /\ f' = f /\ args' = args /\ phase' = "tail" /\ count' = count
      /\ text' = Pass(text, TextRET(text)) /\ direct' = Pass(direct, DirectRET(direct))
      /\ Processor([src EXCEPT !.out = SourceResult])
  BY DEF LowerRET
<1>3. src' \in Sources
  <2> DEFINE q == SourceResult
  <2>1. q \in Seq(Knowns)
    BY <1>1, SourceResultIs
  <2>2. src' \in {src, [src EXCEPT !.out = q]}
    BY <1>2 DEF Processor
  <2> HIDE DEF q
  <2>3. QED
    BY <1>1, <2>1, <2>2, SourceSets
<1> DEFINE t2 == TextRET(text)
           d2 == DirectRET(direct)
<1>4. /\ text.st = "run" => t2 \in TextPasses /\ t2.st \in {"done", "error", "invalid"}
      /\ direct.st = "run" => d2 \in DirectPasses /\ d2.st \in {"done", "unsupported"}
      /\ direct.st = "run" /\ f.ret = "void" => d2.out = direct.out
      /\ text.st = "run" /\ direct.st = "run" /\ f.ret # "void" /\ Alike(text, direct)
           /\ t2.st = "done" /\ d2.st = "done" => t2.out = d2.out
  BY <1>1, RETTogether
<1>5. text' = (IF text.st = "run" THEN t2 ELSE text) /\ direct' = (IF direct.st = "run" THEN d2 ELSE direct)
  BY <1>2 DEF Pass, Running
<1> HIDE DEF t2, d2
<1>6. text' \in TextPasses /\ direct' \in DirectPasses /\ text'.st # "run"
  BY <1>1, <1>4, <1>5
<1>7. f.ret = "void" => text' = text /\ direct'.out = direct.out
  BY <1>1, <1>4, <1>5
<1>8. ASSUME text'.st = "done", direct'.st = "done" PROVE direct'.out = text'.out
  <2>1. CASE f.ret = "void"
    BY <1>1, <1>7, <2>1
  <2>2. CASE f.ret # "void"
    <3>1. text.st = "run" /\ direct.st = "run" /\ text' = t2 /\ direct' = d2
      BY <1>1, <1>5, <1>8, <2>2
    <3>2. QED
      BY <1>1, <1>4, <1>8, <2>2, <3>1
  <2>3. QED
    BY <2>1, <2>2
<1>9. QED
  BY <1>1, <1>2, <1>3, <1>6, <1>7, <1>8, PathsKept

\* A pass is refused after all.
LEMMA RefusedIs ==
  ASSUME NEW d \in DirectPasses
  PROVE  LET e == [d EXCEPT !.st = "unsupported"] IN e \in DirectPasses /\ e.st = "unsupported" /\ e.out = d.out
<1> DEFINE e == [d EXCEPT !.st = "unsupported"]
<1>1. d \in Passes
  BY DEF DirectPasses
<1>2. e \in Passes
  BY <1>1, PassSets
<1>3. e.st = "unsupported" /\ e.out = d.out
  BY <1>1 DEF Passes
<1> HIDE DEF e
<1>4. e \in DirectPasses
  BY <1>2, <1>3 DEF DirectPasses
<1>5. QED
  BY <1>3, <1>4 DEF e

\* What follows the first RET.
LEMMA KeptByTail ==
  ASSUME PathsInv, NEW ins, LowerTail(ins)
  PROVE  PathsInv'
<1>1. /\ Called /\ src \in Sources /\ text \in TextPasses /\ direct \in DirectPasses /\ count \in 0 .. f.max
      /\ text.st = "done" /\ direct.st = "done" => direct.out = text.out
  BY DEF PathsInv
<1> DEFINE e == [direct EXCEPT !.st = "unsupported"]
<1>2. /\ f' = f /\ args' = args /\ phase' = "tail" /\ count' = count + 1 /\ count < f.max
      /\ src' = src /\ text' = text /\ direct' \in {direct, e}
  BY DEF LowerTail
<1>3. e \in DirectPasses /\ e.st = "unsupported" /\ e.out = direct.out
  BY <1>1, RefusedIs
<1> HIDE DEF e
<1>4. count' \in 0 .. f.max
  <2>1. f.max \in Nat
    BY <1>1, FunctionIs
  <2>2. QED
    BY <1>1, <1>2, <2>1
<1>5. direct' \in DirectPasses /\ (direct'.st \in {"run", "done"} => direct' = direct) /\ direct'.out = direct.out
  BY <1>1, <1>2, <1>3
<1>6. QED
  BY <1>1, <1>2, <1>4, <1>5, PathsKept

\* The end of the function.
LEMMA KeptByEnd ==
  ASSUME PathsInv, LowerEnd
  PROVE  PathsInv'
<1>1. /\ Called /\ src \in Sources /\ text \in TextPasses /\ direct \in DirectPasses /\ count \in 0 .. f.max
      /\ text.st = "done" /\ direct.st = "done" => direct.out = text.out
      /\ phase = "body" => direct.st # "done"
      /\ phase \in {"body", "tail", "ended"}
      /\ f.ret = "void" => text.st = "done"
  BY DEF PathsInv
<1>2. f' = f /\ args' = args /\ phase' = "ended" /\ count' = count /\ phase # "ended"
  BY DEF LowerEnd
<1>3. CASE phase = "tail"
  <2>1. src' = src /\ text' = text /\ direct' = direct
    BY <1>3 DEF LowerEnd
  <2>2. QED
    BY <1>1, <1>2, <2>1, PathsKept
<1>4. CASE phase # "tail"
  <2> DEFINE e == [direct EXCEPT !.st = "unsupported"]
             q == <<0>>
             t2 == [text EXCEPT !.st = "done", !.out = q]
  <2>1. /\ Processor([src EXCEPT !.ok = FALSE])
        /\ text' = IF text.st = "run" THEN t2 ELSE text
        /\ direct' = Fail(direct, "unsupported")
    BY <1>4 DEF LowerEnd, Running
  <2>2. src' \in Sources
    BY <1>1, <2>1, SourceSets DEF Processor
  <2>3. direct.st # "done" /\ direct.st \in {"run", "done", "unsupported"}
    BY <1>1, <1>2, <1>4 DEF DirectPasses
  <2>4. e \in DirectPasses /\ e.st = "unsupported" /\ e.out = direct.out
    BY <1>1, RefusedIs
  <2>5. Fail(direct, "unsupported") = [direct EXCEPT !.st = IF direct.st = "run" THEN "unsupported" ELSE direct.st]
    BY DEF Fail
  <2>6. (IF direct.st = "run" THEN "unsupported" ELSE direct.st) = "unsupported"
    BY <2>3
  <2>7. direct' = e
    BY <2>1, <2>5, <2>6
  <2>8. t2 \in TextPasses
    <3>1. text \in Passes
      BY <1>1 DEF TextPasses
    <3>2. q \in Seq(Int)
      OBVIOUS
    <3> HIDE DEF q
    <3>3. t2 \in Passes
      BY <3>1, <3>2, PassSets
    <3>4. t2.st = "done" /\ t2.reg = text.reg
      BY <3>1 DEF Passes
    <3> HIDE DEF t2
    <3>5. QED
      BY <1>1, <3>3, <3>4 DEF TextPasses
  <2> HIDE DEF e, t2
  <2>9. text' \in TextPasses /\ direct' \in DirectPasses /\ direct'.st = "unsupported"
    BY <1>1, <2>1, <2>4, <2>7, <2>8
  <2>10. f.ret = "void" => text' = text /\ direct'.out = direct.out
    BY <1>1, <2>1, <2>4, <2>7
  <2>11. QED
    BY <1>1, <1>2, <2>2, <2>9, <2>10, PathsKept
<1>5. QED
  BY <1>3, <1>4

\* The start.
LEMMA PathsInit ==
  ASSUME LInit
  PROVE  PathsInv
<1>1. Called /\ phase = "body" /\ count = 0
  BY DEF LInit, Called
<1>2. f.max \in Nat /\ f.mem \in [0 .. MemSize - 1 -> Cell]
  BY <1>1, FunctionIs
<1>3. src \in Sources
  <2> DEFINE p == EntryRegs(InitialRegs(args))
             q == EntrySlots(args)
  <2>1. p \in [f.regs -> Knowns] /\ q \in [SlotOffsets -> Knowns]
    BY <1>1, EntryIs
  <2>2. src = [reg |-> p, slot |-> q, mem |-> f.mem, ok |-> TRUE, out |-> <<>>]
    BY DEF LInit
  <2>3. <<>> \in Seq(Knowns)
    OBVIOUS
  <2> HIDE DEF p, q
  <2>4. QED
    BY <1>2, <2>1, <2>2, <2>3 DEF Sources
<1> DEFINE regs == InitialRegs(args)
           res == [i \in DOMAIN f.results |-> NoVal]
           st == IF f.ret = "void" THEN "done" ELSE "run"
<1>4. regs \in [f.regs -> Values] /\ \A r \in f.regs : Plain(regs[r])
  BY <1>1, InitialIs
<1>5. res \in [DOMAIN f.results -> Values]
  BY Int64, Integers_
<1>6. <<>> \in Seq(Int)
  OBVIOUS
<1>7. /\ text = [st |-> st, reg |-> regs, res |-> res, out |-> <<>>]
      /\ direct = [st |-> "run", reg |-> regs, res |-> res, out |-> <<>>]
  BY DEF LInit, Fresh
<1>8. st \in {"run", "done"} /\ (f.ret = "void" <=> st = "done")
  OBVIOUS
<1> HIDE DEF regs, res, st
<1>9. text \in Passes /\ direct \in Passes
  BY <1>4, <1>5, <1>6, <1>7, <1>8 DEF Passes
<1>10. text.st = st /\ direct.st = "run" /\ text.reg = regs /\ direct.reg = regs /\ text.res = res /\ direct.res = res
       /\ text.out = <<>> /\ direct.out = <<>>
  BY <1>7
<1>11. text \in TextPasses /\ direct \in DirectPasses
  BY <1>4, <1>8, <1>9, <1>10 DEF TextPasses, DirectPasses
<1>12. Alike(text, direct)
  BY <1>10 DEF Alike, Same
<1>13. count \in 0 .. f.max
  BY <1>1, <1>2
<1>14. QED
  BY <1>1, <1>3, <1>8, <1>10, <1>11, <1>12, <1>13 DEF PathsInv

\* The invariant holds throughout.
THEOREM PathsInvariant == LSpec => []PathsInv
<1>1. LInit => PathsInv
  BY PathsInit
<1>2. PathsInv /\ [LNext]_lvars => PathsInv'
  <2> SUFFICES ASSUME PathsInv, [LNext]_lvars PROVE PathsInv'
    OBVIOUS
  <2>1. ASSUME NEW i \in DOMAIN f.alphabet, LowerMove(f.alphabet[i]) PROVE PathsInv'
    <3>1. Instruction_(f.alphabet[i])
      BY AlphabetIs DEF PathsInv
    <3>2. QED
      BY <2>1, <3>1, KeptByMove
  <2>2. ASSUME NEW i \in DOMAIN f.alphabet, LowerArith(f.alphabet[i]) PROVE PathsInv'
    <3>1. Instruction_(f.alphabet[i])
      BY AlphabetIs DEF PathsInv
    <3>2. QED
      BY <2>2, <3>1, KeptByArith
  <2>3. ASSUME NEW i \in DOMAIN f.alphabet, LowerMRS(f.alphabet[i]) PROVE PathsInv'
    <3>1. Instruction_(f.alphabet[i])
      BY AlphabetIs DEF PathsInv
    <3>2. QED
      BY <2>3, <3>1, KeptByMRS
  <2>4. ASSUME NEW i \in DOMAIN f.alphabet, LowerCPU(f.alphabet[i]) PROVE PathsInv'
    BY <2>4, KeptByCPU
  <2>5. ASSUME NEW i \in DOMAIN f.alphabet, LowerByte(f.alphabet[i]) PROVE PathsInv'
    BY <2>5, KeptByByte
  <2>6. ASSUME NEW i \in DOMAIN f.alphabet, LowerTail(f.alphabet[i]) PROVE PathsInv'
    BY <2>6, KeptByTail
  <2>7. CASE LowerRET
    BY <2>7, KeptByRET
  <2>8. CASE LowerEnd
    BY <2>8, KeptByEnd
  <2>9. CASE UNCHANGED lvars
    <3>1. /\ f' = f /\ args' = args /\ phase' = phase /\ count' = count /\ src' = src /\ text' = text
          /\ direct' = direct
      BY <2>9 DEF lvars
    <3>2. Called' = Called /\ Sources' = Sources /\ TextPasses' = TextPasses /\ DirectPasses' = DirectPasses
      BY <3>1, FunctionStays
    <3>3. Called' /\ src' \in Sources' /\ text' \in TextPasses' /\ direct' \in DirectPasses'
      BY <3>1, <3>2 DEF PathsInv
    <3>4. text.st = "run" /\ direct.st = "run" => Alike(text, direct)'
      BY <3>1 DEF PathsInv, Alike
    <3>5. QED
      BY <3>1, <3>3, <3>4 DEF PathsInv
  <2>10. QED
    BY <2>1, <2>2, <2>3, <2>4, <2>5, <2>6, <2>7, <2>8, <2>9 DEF LNext
<1>3. QED
  BY <1>1, <1>2, PTL DEF LSpec

\* What registers and result slots hold are words of their types, constant
\* pointers are null, and no register of the text path holds a constant that
\* inline assembly could not take.
THEOREM LinearTyped == LSpec => []LTypeOK
<1>1. PathsInv => LTypeOK
  <2> SUFFICES ASSUME PathsInv PROVE LTypeOK
    OBVIOUS
  <2> DEFINE Held(t) == {t.reg[r] : r \in f.regs} \cup {t.res[i] : i \in DOMAIN f.results}
  <2>1. text \in TextPasses /\ direct \in DirectPasses
    BY DEF PathsInv
  <2>2. text \in Passes /\ direct \in Passes
    BY <2>1 DEF TextPasses, DirectPasses
  <2>3. ASSUME NEW t \in {text, direct}, NEW v \in Held(t)
        PROVE  /\ v.typ = "agg" \/ v.val \in 0 .. 2^Bits(v.typ) - 1 \cup {Poison}
               /\ v.typ = "ptr" => v.ssa \/ v.val = 0
    <3>1. v \in Values
      BY <2>2 DEF Passes
    <3>2. v \in Vals /\ (v.typ = "ptr" => v.ssa \/ v.val = 0)
      BY <3>1 DEF Values, NullOnly
    <3>3. QED
      BY <3>2, ValsAre DEF Word_
  <2>4. \A r \in f.regs : text.reg[r].ssa \/ text.reg[r].val = 0
    BY <2>1 DEF TextPasses, Plain
  <2>5. text.st \in {"run", "done", "error", "invalid"} /\ direct.st \in {"run", "done", "unsupported"}
    BY <2>1 DEF TextPasses, DirectPasses
  <2>6. phase \in {"body", "tail", "ended"} /\ count \in 0 .. f.max /\ (phase = "body" => direct.st # "done")
    BY DEF PathsInv
  <2>7. QED
    BY <2>3, <2>4, <2>5, <2>6 DEF LTypeOK
<1>2. QED
  BY <1>1, PathsInvariant, PTL

\* Both implementations of linear lowering are one function.
THEOREM PathsAgreeAlways == LSpec => []PathsAgree
<1>1. PathsInv => PathsAgree
  BY DEF PathsInv, PathsAgree
<1>2. QED
  BY <1>1, PathsInvariant, PTL
=============================================================================
