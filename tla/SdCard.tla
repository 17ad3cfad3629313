------------------------------- MODULE SdCard -------------------------------
(***************************************************************************)
(* The SD card at the other end of the SPI bus.  It is not part of the     *)
(* repository: this is the behaviour SdReader.c relies on.  A card that    *)
(* is not transferring sends 0xFF; one that accepted a read sends 0xFF     *)
(* until its start token, then the payload, two crc bytes and 0xFF again.  *)
(* A card in the middle of a read ignores commands.                        *)
(***************************************************************************)
EXTENDS Integers

CONSTANTS
  SECTOR,   \* payload bytes of a data block (512)
  REGLEN,   \* payload bytes of the CSD and CID registers (16)
  Blocks,   \* the block numbers present on the card
  REG,      \* the source of a register transfer, not a block
  CardHC    \* TRUE for a high capacity card, addressed by block number

ASSUME CardAssumption ==
  /\ SECTOR \in Nat \ {0}
  /\ REGLEN \in Nat \ {0}
  /\ Blocks \subseteq Nat
  /\ REG \notin Blocks
  /\ CardHC \in BOOLEAN

CRCLEN == 2

Sources == Blocks \cup {REG}

Payload(src) == IF src = REG THEN REGLEN ELSE SECTOR

\* A byte on the wire, by what it means: filler, payload byte idx of src, or
\* a crc byte of src.
Byte == [kind : {"filler", "data", "crc"}, src : Sources, idx : Nat]

Filler == [kind |-> "filler", src |-> REG, idx |-> 0]

StreamByte(src, k) ==
  [kind |-> IF k < Payload(src) THEN "data" ELSE "crc", src |-> src, idx |-> k]

\* mode "ready": no transfer; "token": a read was accepted, the start token
\* has not been sent; "data": byte pos of src goes out next.
CardState == [mode : {"ready", "token", "data"}, src : Sources, pos : Nat]

Ready == [mode |-> "ready", src |-> REG, pos |-> 0]
Preparing(src) == [mode |-> "token", src |-> src, pos |-> 0]
Streaming(src, k) ==
  IF k < Payload(src) + CRCLEN
    THEN [mode |-> "data", src |-> src, pos |-> k]
    ELSE Ready

\* What the card shifts out during one SPI transfer, and where that leaves it.
ByteOut(c) == IF c.mode = "data" THEN StreamByte(c.src, c.pos) ELSE Filler
AfterByte(c) == IF c.mode = "data" THEN Streaming(c.src, c.pos + 1) ELSE c

\* The argument of a read command that addresses block b on this card.
CardAddress(b) == IF CardHC THEN b ELSE b * SECTOR
=============================================================================
