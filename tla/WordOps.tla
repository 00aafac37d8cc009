------------------------------- MODULE WordOps -------------------------------
(***************************************************************************)
(* The bit operations of LLVM on words of n bits.  A shift by the width or *)
(* more is poison: here a value that is no word, so that whatever uses it  *)
(* shows.  MaxBits is the width of the widest word; the tables are         *)
(* constants that TLC evaluates once.                                      *)
(***************************************************************************)
EXTENDS Words

CONSTANT MaxBits

ASSUME MaxBitsAssumption == MaxBits \in Nat \ {0}

AllWords == 0 .. 2^MaxBits - 1

\* An operation on words bit by bit, b on one bit, from the lowest bit on.
Bit == {0, 1}
BitTable(b) ==
  LET T[k \in 0 .. MaxBits] ==
        [x \in AllWords |-> [y \in AllWords |->
           IF k = 0 THEN 0 ELSE b[x % 2][y % 2] + 2 * T[k - 1][x \div 2][y \div 2]]]
  IN  T[MaxBits]

AndTable == BitTable([x \in Bit |-> [y \in Bit |-> x * y]])
OrTable  == BitTable([x \in Bit |-> [y \in Bit |-> IF x = 1 THEN 1 ELSE y]])
XorTable == BitTable([x \in Bit |-> [y \in Bit |-> IF x = y THEN 0 ELSE 1]])

AndW(x, y) == AndTable[x][y]
OrW(x, y)  == OrTable[x][y]
XorW(x, y) == XorTable[x][y]

SignBit(n) == 2^(n - 1)

Trunc(n, x) == x % 2^n

NotW(n, x) == 2^n - 1 - x

NegW(n, x) == (2^n - x) % 2^n

MulW(n, x, y) == (x * y) % 2^n

Poison == 2^MaxBits

Shl(n, x, s) == IF s < n THEN (x * 2^s) % 2^n ELSE Poison

Lshr(n, x, s) == IF s < n THEN x \div 2^s ELSE Poison

Ashr(n, x, s) ==
  IF s < n THEN (Signed(SignBit(n), x) \div 2^s) % 2^n ELSE Poison

\* The bits of x from bit lsb on, width of them.
Field(x, lsb, width) == (x \div 2^lsb) % 2^width

\* What the processors call a rotation to the right by s < n.
RotateRight(n, x, s) == (x \div 2^s) + (x % 2^s) * 2^(n - s)

\* bitreverse (k = 1) and bswap (k = the bits of a byte): the groups of k
\* bits in the opposite order.
Swap(n, k, x) ==
  CHOOSE y \in 0 .. 2^n - 1 :
    \A j \in 0 .. n \div k - 1 : Field(y, j * k, k) = Field(x, n - k - j * k, k)

\* ctlz with is_zero_poison = false.
Ctlz(n, x) == CHOOSE k \in 0 .. n :
                x < 2^(n - k) /\ (k = n \/ x >= 2^(n - k - 1))
=============================================================================
