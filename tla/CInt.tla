-------------------------------- MODULE CInt --------------------------------
(* Signed integers of C, of a width given by the number of their values.   *)
EXTENDS Integers

\* The value x stored in an int of so many values.
AsInt(x, values) == ((x + values \div 2) % values) - values \div 2

\* Division of C, which truncates.
Quotient(x, d) == IF x >= 0 THEN x \div d ELSE -((-x) \div d)
=============================================================================
