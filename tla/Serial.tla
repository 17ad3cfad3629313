-------------------------------- MODULE Serial --------------------------------
(***************************************************************************)
(* The number printing of serial.c.  print_int, print_int32 and set_cursor *)
(* take their digits from giveInt, whose buffer is static: each call       *)
(* leaves its digits behind for the next, and a caller keeps a pointer     *)
(* into it.  giveInt and print_hex put the number into an int first.       *)
(***************************************************************************)
EXTENDS CInt, SequencesExt

CONSTANTS
    INT,         \* 2 to the bits of an int, and of the uint16_t values (2^16)
    PAD,         \* print_hex fills up to this many digits (4)
    Words,       \* the values print_int and print_hex are called with
    Longs,       \* those of print_int32 and print_hex32
    Positions    \* the rows and columns of set_cursor

ASSUME SerialAssumption ==
    /\ INT \in Nat /\ INT > 1 /\ INT % 2 = 0
    /\ PAD \in Nat
    /\ Words \subseteq 0..INT - 1 /\ Longs \subseteq Nat /\ Positions \subseteq 0..255

VARIABLES intBuffer,  \* giveInt's buffer: its digits, the last before the final 0
          call,       \* the function last called and its numbers
          printed     \* what it sent, a sequence of digits for each number

serialVars == <<intBuffer, call, printed>>

-----------------------------------------------------------------------------
\* The digits of n >= 0, none for 0: what a loop "while (n > 0)" leaves.
Digits(n, base) ==
    LET D[m \in 0..n] == IF m = 0 THEN <<>> ELSE Append(D[m \div base], m % base)
    IN D[n]

\* giveInt: the digits it writes, none for an int that is not positive.
Given(v) == Digits(IF AsInt(v, INT) < 0 THEN 0 ELSE AsInt(v, INT), 10)

\* The buffer b after giveInt wrote these digits at its end.
Over(b, digits) == SubSeq(b, 1, Len(b) - Len(digits)) \o digits
\* What a pointer to the n-th digit from the end shows.  giveInt returns one
\* to the first digit it wrote or, if it wrote none, to a 0 byte.
Shown(b, n) == SubSeq(b, Len(b) - n + 1, Len(b))

\* The remainder of C has the sign of the dividend; a negative one takes what
\* is in memory before hexChars, here -1.
Nibble(val) == IF val >= 0 THEN val % 16 ELSE IF (-val) % 16 = 0 THEN 0 ELSE -1
Padding(n) == PAD - n
HexPrint(v) ==
    LET val == AsInt(v, INT)
        digits == IF val <= 0 THEN <<Nibble(val)>> ELSE Digits(val, 16)
    IN [n \in 1..Padding(Len(digits)) |-> 0] \o digits

-----------------------------------------------------------------------------
SerialInit ==
    /\ intBuffer = <<>>
    /\ call = [fn |-> "none", args |-> <<>>]
    /\ printed = <<>>

\* The buffer after print_int(v), and what it prints.
AfterPrintInt(b, v) == IF v = 0 THEN b ELSE Over(b, Given(v))
IntPrint(b, v) == IF v = 0 THEN <<0>> ELSE Shown(AfterPrintInt(b, v), Len(Given(v)))

PrintInt(v) ==
    /\ call' = [fn |-> "print_int", args |-> <<v>>]
    /\ intBuffer' = AfterPrintInt(intBuffer, v)
    /\ printed' = <<IntPrint(intBuffer, v)>>

PrintInt32(v) ==
    /\ call' = [fn |-> "print_int32", args |-> <<v>>]
    /\ intBuffer' = Over(intBuffer, Given(v))
    /\ printed' = <<Shown(intBuffer', Len(Given(v)))>>

PrintHex(v) ==
    /\ call' = [fn |-> "print_hex", args |-> <<v>>]
    /\ printed' = <<HexPrint(v)>>
    /\ UNCHANGED intBuffer

\* val is an int here too.
PrintHex32(v) ==
    /\ call' = [fn |-> "print_hex32", args |-> <<v>>]
    /\ printed' = <<HexPrint(v)>>
    /\ UNCHANGED intBuffer

\* A mutant of CursorPrint: the two pointers giveInt returned are used.
CursorPointers(b, r, c) == <<Shown(b, Len(Given(r))), Shown(b, Len(Given(c)))>>
\* set_cursor calls giveInt for both numbers, which leaves b, and prints each
\* with print_int.
CursorPrint(b, r, c) == <<IntPrint(b, r), IntPrint(AfterPrintInt(b, r), c)>>

SetCursor(r, c) ==
    LET b == Over(Over(intBuffer, Given(r)), Given(c))
    IN /\ call' = [fn |-> "set_cursor", args |-> <<r, c>>]
       /\ intBuffer' = AfterPrintInt(AfterPrintInt(b, r), c)
       /\ printed' = CursorPrint(b, r, c)

SerialNext ==
    \/ \E v \in Words : PrintInt(v) \/ PrintHex(v)
    \/ \E v \in Longs : PrintInt32(v) \/ PrintHex32(v)
    \/ \E r, c \in Positions : SetCursor(r, c)

SerialSpec == SerialInit /\ [][SerialNext]_serialVars

-----------------------------------------------------------------------------
(* Properties *)

\* The number a sequence of digits stands for.
Value(digits, base) ==
    LET V[n \in 0..Len(digits)] == IF n = 0 THEN 0 ELSE V[n - 1] * base + digits[n]
    IN V[Len(digits)]
Numeral(digits, v) ==
    digits # <<>> /\ Value(digits, 10) = v /\ (digits[1] = 0 => Len(digits) = 1)

\* What the digits of a number v should be, with the exception the code makes:
\* print_int32 has no case for 0, and giveInt no digit.
Expected(fn, digits, v) ==
    IF fn \in {"print_hex", "print_hex32"} THEN Len(digits) >= PAD /\ Value(digits, 16) = v
    ELSE IF fn = "print_int32" /\ v = 0 THEN digits = <<>>
    ELSE Numeral(digits, v)

(***************************************************************************)
(* print_int prints "an integer up to 16 bits in size" (serial.c:86),      *)
(* print_int32 "larger numbers" (102), print_hex four hexadecimal digits   *)
(* at least (111-113), and set_cursor its row and its column: they do so   *)
(* for the numbers from 0 on that an int holds, but print_int32 prints     *)
(* nothing for 0, whatever the calls before left in the buffer they share. *)
(***************************************************************************)
PrintsTheNumber ==
    /\ DOMAIN printed = DOMAIN call.args
    /\ \A n \in DOMAIN printed :
          call.args[n] < INT \div 2 => Expected(call.fn, printed[n], call.args[n])

(***************************************************************************)
(* serial.c:101-102 says print_int32 is "Nearly identical to print_int(),  *)
(* but handles larger numbers": it prints the number it is called with.    *)
(* It does not: 0 leaves the loop of giveInt before the first digit.       *)
(***************************************************************************)
Int32Printed == call.fn = "print_int32" => Numeral(printed[1], call.args[1])
=============================================================================
