-------------------------------- MODULE SdSize --------------------------------
(***************************************************************************)
(* sdCardSize of SdReader.c: the size of a card in blocks of 512 bytes,    *)
(* put together from the bit fields of its CSD register.  A shift of an    *)
(* int is one of 16 bits.  Widths are counted in values: a byte has BYTE,  *)
(* an int BYTE^2, a uint32_t BYTE^4; a shift by 8 multiplies by BYTE.      *)
(***************************************************************************)
EXTENDS CInt

CONSTANTS
    BYTE,       \* values of a byte (256)
    LOW1,       \* values of c_size_low of version 1 (4)
    HIGH2,      \* values of C_SIZE[21:16] of a card of version 2 (64)
    UNIT,       \* blocks for each count of a version 2 c_size (1024)
    Csds        \* the registers of the cards tried

INT16 == BYTE * BYTE
UINT32 == INT16 * INT16

Csd1 == [csd_ver : {0}, read_bl_len : 9..11, c_size_high : 0..3, c_size_mid : 0..BYTE - 1,
         c_size_low : 0..LOW1 - 1, c_size_mult_high : 0..3, c_size_mult_low : 0..1]
\* A card of version 2 keeps C_SIZE[21:16] in the low bits of byte 7 and zeros
\* above them.
Csd2 == [csd_ver : {1}, byte7 : 0..HIGH2 - 1, c_size_mid : 0..BYTE - 1,
         c_size_low : 0..BYTE - 1]
CsdReserved == [csd_ver : {2, 3}]

ASSUME SizeAssumption ==
    /\ BYTE \in Nat /\ BYTE >= 2 /\ BYTE % 2 = 0
    /\ LOW1 \in Nat \ {0} /\ HIGH2 \in 2..BYTE /\ UNIT \in Nat \ {0} /\ HIGH2 * UNIT = INT16
    /\ Csds \subseteq Csd1 \cup Csd2 \cup CsdReserved

VARIABLES csd,          \* the register of the card in the slot
          size,         \* what the last call returned
          errorCode     \* "none", "SD_CARD_ERROR_BAD_CSD", or the error of the read

sizeVars == <<csd, size, errorCode>>

-----------------------------------------------------------------------------
\* A value stored in a uint32_t.
AsUnsigned(x) == x % UINT32

\* x | y for a y with no bit above those of a byte, and an x with none below;
\* for a negative y the upper half of the result is all ones.
Or(x, y) == IF y < 0 THEN y ELSE x + y

CSize1(c) == c.c_size_high * LOW1 * BYTE + c.c_size_mid * LOW1 + c.c_size_low
Mult(c) == c.c_size_mult_high * 2 + c.c_size_mult_low
Size1(c) == AsUnsigned((CSize1(c) + 1) * 2 ^ (Mult(c) + c.read_bl_len - 7))

\* reserved3 is declared before c_size_high, so it takes the low two bits of
\* byte 7: bit-fields are allocated from the lowest bit.
CSizeHigh(c) == c.byte7 \div 4
\* A mutant of CSize2: the shift of c_size_mid is not done in an int.
CSize2Wide(c) == AsUnsigned(CSizeHigh(c) * INT16 + c.c_size_mid * BYTE + c.c_size_low)
\* c_size_mid << 8 is done in an int.
CSize2(c) == AsUnsigned(Or(CSizeHigh(c) * INT16, AsInt(c.c_size_mid * BYTE, INT16)) + c.c_size_low)
\* A shift drops the bits that leave a uint32_t.
Size2(c) == ((CSize2(c) + 1) % (UINT32 \div UNIT)) * UNIT

-----------------------------------------------------------------------------
RegisterErrors == {"SD_CARD_ERROR_READ_REG", "SD_CARD_ERROR_READ", "SD_CARD_ERROR_READ_TIMEOUT"}

SizeInit == csd \in Csds /\ size = 0 /\ errorCode = "none"

\* The register could not be read (SdReader says when).
NoRegister ==
    /\ size' = 0
    /\ \E error \in RegisterErrors : errorCode' = error
    /\ UNCHANGED csd

Version1 ==
    /\ csd.csd_ver = 0
    /\ size' = Size1(csd)
    /\ UNCHANGED <<csd, errorCode>>

Version2 ==
    /\ csd.csd_ver = 1
    /\ size' = Size2(csd)
    /\ UNCHANGED <<csd, errorCode>>

OtherVersion ==
    /\ csd.csd_ver \notin {0, 1}
    /\ size' = 0
    /\ errorCode' = "SD_CARD_ERROR_BAD_CSD"
    /\ UNCHANGED csd

SizeNext == NoRegister \/ Version1 \/ Version2 \/ OtherVersion

SizeSpec == SizeInit /\ [][SizeNext]_sizeVars

-----------------------------------------------------------------------------
(* Properties *)

\* The blocks of a card, by the formulas of the card specification.
Capacity(c) ==
    IF c.csd_ver = 0
    THEN (((c.c_size_high * BYTE + c.c_size_mid) * LOW1 + c.c_size_low + 1)
            * 2 ^ (Mult(c) + 2 + c.read_bl_len)) \div 512
    ELSE ((c.byte7 * BYTE + c.c_size_mid) * BYTE + c.c_size_low + 1) * UNIT

\* The version 2 registers whose size comes out right.  Up to half of the range
\* of an int, C_SIZE must have no bit in byte 7, from which sdCardSize takes
\* the wrong ones; from there on, c_size_mid << 8 is negative and sets all bits
\* above it, which is what C_SIZE has there on the largest cards only.  The
\* very largest has one block more than a uint32_t counts.
Readable(c) ==
    \/ c.byte7 = 0 /\ c.c_size_mid < BYTE \div 2
    \/ /\ c.byte7 = HIGH2 - 1 /\ c.c_size_mid >= BYTE \div 2
       /\ ~(c.c_size_mid = BYTE - 1 /\ c.c_size_low = BYTE - 1)

(***************************************************************************)
(* SdReader.c:128: sdCardSize returns "the number of 512 byte data blocks  *)
(* in the card".  It does for every card of version 1, whatever the widths *)
(* of what it computes with; of version 2 it does for the cards of         *)
(* Readable, and returns another number for every other one.               *)
(***************************************************************************)
SizeIsCapacity ==
    [][/\ Version1 => size' = Capacity(csd)
       /\ Version2 => (size' = Capacity(csd) <=> Readable(csd))]_sizeVars
=============================================================================
