-------------------------------- MODULE Words --------------------------------
(***************************************************************************)
(* Unsigned machine words, given by the weight h of their sign bit: a word *)
(* of n bits has h = 2^(n-1).  Addition and subtraction are those of       *)
(* LLVM's add and sub (wrapping), Signed is the two's complement reading.  *)
(***************************************************************************)
EXTENDS Integers

Word(h) == 0 .. 2 * h - 1

Negative(h, x) == x >= h

Signed(h, x) == IF Negative(h, x) THEN x - 2 * h ELSE x

Complement(h, x) == 2 * h - 1 - x

AddW(h, x, y) == IF x + y >= 2 * h THEN x + y - 2 * h ELSE x + y

SubW(h, x, y) == IF x >= y THEN x - y ELSE x - y + 2 * h

Bool2Int(b) == IF b THEN 1 ELSE 0
=============================================================================
