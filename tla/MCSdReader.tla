----------------------------- MODULE MCSdReader -----------------------------
(***************************************************************************)
(* A small SdReader for TLC: sectors of three bytes, 16-bit arithmetic     *)
(* scaled to eight values, every read inside or one byte past a block, and *)
(* the register and mode calls in between.                                 *)
(***************************************************************************)
EXTENDS SdReader

MCBlocks == {1, 2}

Read(b, o, c) == [op |-> "readData", block |-> b, offset |-> o, count |-> c]
Other(name, c) == [op |-> name, block |-> 1, offset |-> 0, count |-> c]

\* Every read inside the block and those that end one byte past it.
MCCalls ==
  {r \in {Read(b, o, c) :
            b \in MCBlocks, o \in 0 .. SECTOR, c \in 1 .. SECTOR + 1} :
     r.offset + r.count <= SECTOR + 1}
    \cup {Read(1, 0, 0), Other("readRegister", REGLEN), Other("readEnd", 0),
          Other("partialOn", 0), Other("partialOff", 0)}

\* One read whose offset + count passes 2^16.
WrapCalls == MCCalls \cup {Read(1, MOD16 - 1, 2)}
=============================================================================
