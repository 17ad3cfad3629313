-------------------------------- MODULE Player --------------------------------
(***************************************************************************)
(* program5.c and the playback interrupt of os.c: main reads the           *)
(* superblock, two inodes, a directory and a block of music, while the     *)
(* interrupt of timer 0 counts isr2 and plays temporaryBuffer[isr2].       *)
(*                                                                         *)
(* get_super_block and getBlock read a whole sector into a variable that   *)
(* is shorter; the rest of the sector falls on what the linker put behind  *)
(* it (program5.elf): isr2 and the driver's own offset_ behind the         *)
(* superblock, offset_ again behind the directory.  A read is a sequence   *)
(* of stores; stores that change none of the variables here are left out.  *)
(***************************************************************************)
EXTENDS Integers, Sequences

CONSTANTS
    BUF,          \* bytes of temporaryBuffer and of a sector (512)
    BYTE,         \* values of a byte (256); an int has BYTE * BYTE
    SuperBlocks,  \* superblock sectors: the bytes over isr2 and over offset_
    Directories   \* directory sectors: the four bytes of the inode of ".."

CRC == 2
INT == BYTE * BYTE
Sector == [isr2 : Seq(0..BYTE - 1), offset_ : Seq(0..BYTE - 1)]

ASSUME PlayerAssumption ==
    /\ BYTE \in Nat /\ BYTE >= 2 /\ BYTE % 2 = 0
    /\ BUF \in 4..INT \div 2 - CRC /\ BUF % 4 = 0
    /\ \A s \in SuperBlocks : s \in Sector /\ Len(s.isr2) = 2 /\ Len(s.offset_) = 2
    /\ \A d \in Directories : d \in Seq(0..BYTE - 1) /\ Len(d) = 4

VARIABLES
    pc,           \* the call main is in, or "boot" and "idle"
    stores,       \* stores of the current read still to come
    isr2,
    offset_,      \* the driver's count of the bytes of the block
    clocked,      \* bytes the last read has taken off the card
    buffer,       \* temporaryBuffer: "zero" or "music"
    out,          \* what OCR2B was last loaded with, and from which index
    image         \* the card: superblock and directory

vars == <<pc, stores, isr2, offset_, clocked, buffer, out, image>>

-----------------------------------------------------------------------------
\* The bytes of an int in memory, low byte first, and an int of two bytes.
Signed(x) == IF x >= INT \div 2 THEN x - INT ELSE x
Low(x) == (x % INT) % BYTE
High(x) == (x % INT) \div BYTE
SetLow(x, b) == Signed(High(x) * BYTE + b)
SetHigh(x, b) == Signed(b * BYTE + Low(x))
Store(v, part, b) == [var |-> v, part |-> part, byte |-> b]
BothBytes(v, bytes) == <<Store(v, "low", bytes[1]), Store(v, "high", bytes[2])>>

\* A mutant of DirectoryStores: the variables lie one byte closer.
DirectoryStoresCloser(d) == BothBytes("offset_", <<d[1], d[2]>>)
\* Byte 12 of the sector falls on the last of block_; 13 and 14 on offset_.
DirectoryStores(d) == BothBytes("offset_", <<d[2], d[3]>>)
SuperStores(s) == BothBytes("isr2", s.isr2) \o BothBytes("offset_", s.offset_)
MusicStores == [k \in 1..BUF |-> Store("buffer", k - 1, 0)]

\* The reads of main in their order, and the stores each makes.
Reads == <<"get_super_block", "get_inode_p5(2)", "getBlock", "get_inode_p5(12)", "readMus">>
StoresOf(read) ==
    CASE read = "get_super_block" -> SuperStores(image.super)
      [] read = "getBlock" -> DirectoryStores(image.dir)
      [] read = "readMus" -> MusicStores
      [] OTHER -> <<>>
After(read) == LET n == CHOOSE m \in DOMAIN Reads : Reads[m] = read
               IN IF n = Len(Reads) THEN "idle" ELSE Reads[n + 1]

\* The place in the sector and the length: inodes 2 and 12 are the second
\* and the last quarter of one.
Skipped(read) == CASE read = "get_inode_p5(2)" -> BUF \div 4
                   [] read = "get_inode_p5(12)" -> 3 * (BUF \div 4)
                   [] OTHER -> 0
Received(read) == IF read \in {"get_inode_p5(2)", "get_inode_p5(12)"} THEN BUF \div 4 ELSE BUF

-----------------------------------------------------------------------------
Init ==
    /\ pc = "boot" /\ stores = <<>>
    /\ isr2 = 0 /\ offset_ = 0 /\ clocked = BUF + CRC
    /\ buffer = [k \in 0..BUF - 1 |-> "zero"]
    /\ out = [at |-> -1, byte |-> "none"]
    /\ image \in [super : SuperBlocks, dir : Directories]

Enter(call) == pc' = call /\ stores' = IF call = "idle" THEN <<>> ELSE StoresOf(call)

\* main up to sei(): sdInit is called and its failure only reported.
Boot ==
    /\ pc = "boot"
    /\ Enter(Reads[1])
    /\ UNCHANGED <<isr2, offset_, clocked, buffer, out, image>>

\* A read the driver refuses before its first byte; nobody looks at the result.
ReadFails ==
    /\ pc \notin {"boot", "idle"} /\ stores = StoresOf(pc)
    /\ Enter(After(pc))
    /\ UNCHANGED <<isr2, offset_, clocked, buffer, out, image>>

\* dst[i] = SPDR; offset_ is 0 when the first byte is stored.
StoreByte ==
    /\ pc \notin {"boot", "idle"} /\ stores # <<>>
    /\ LET s == Head(stores)
           was == IF stores = StoresOf(pc) THEN 0 ELSE offset_
           Put(x) == IF s.part = "low" THEN SetLow(x, s.byte) ELSE SetHigh(x, s.byte)
       IN /\ isr2' = IF s.var = "isr2" THEN Put(isr2) ELSE isr2
          /\ offset_' = IF s.var = "offset_" THEN Put(was) % INT ELSE was
          /\ buffer' = IF s.var = "buffer" THEN [buffer EXCEPT ![s.part] = "music"] ELSE buffer
    /\ stores' = Tail(stores)
    /\ UNCHANGED <<pc, clocked, out, image>>

\* offset_ += count; sdReadEnd takes the rest of the block as offset_ counts
\* it, and at least one byte; and main goes on.
EndRead ==
    /\ pc \notin {"boot", "idle"} /\ stores = <<>>
    /\ LET from == IF StoresOf(pc) = <<>> THEN Skipped(pc) ELSE offset_
           counted == (from + Received(pc)) % INT
           rest == IF counted < BUF + CRC THEN BUF + CRC - counted ELSE 1
       IN /\ offset_' = (counted + rest) % INT
          /\ clocked' = Skipped(pc) + Received(pc) + rest
    /\ Enter(After(pc))
    /\ UNCHANGED <<isr2, buffer, out, image>>

\* A mutant of Counted: the count stops at the largest int.
CountedUp(x) == IF x + 1 = INT \div 2 THEN x ELSE x + 1
\* A mutant of Counted: the count is unsigned.
CountedUnsigned(x) == (x + 1) % INT
Counted(x) == Signed((x + 1) % INT)

\* A mutant of Played: the byte before the one counted.
PlayedBefore(x) == x - 1
Played(x) == x

\* ISR(TIMER0_COMPA_vect).  A negative index is below the buffer.
Timer0 ==
    /\ pc # "boot"
    /\ isr2' = Counted(isr2)
    /\ out' = IF isr2' >= BUF THEN out
              ELSE [at |-> Played(isr2'),
                    byte |-> IF Played(isr2') \in 0..BUF - 1 THEN buffer[Played(isr2')] ELSE "outside"]
    /\ UNCHANGED <<pc, stores, offset_, clocked, buffer, image>>

Main == Boot \/ ReadFails \/ StoreByte \/ EndRead
Next == Main \/ Timer0

\* The timer runs, and main gets the processor between two interrupts.
Spec == Init /\ [][Next]_vars /\ WF_vars(Main) /\ WF_vars(Timer0)

-----------------------------------------------------------------------------
(* Types: isr2 stays an int and offset_ an unsigned one, however the bytes *)
(* of a sector and the interrupt fall on them.                             *)
TypeOK ==
    /\ pc \in {"boot", "idle"} \cup {Reads[n] : n \in DOMAIN Reads}
    /\ isr2 \in -(INT \div 2)..INT \div 2 - 1
    /\ offset_ \in 0..INT - 1
    /\ DOMAIN buffer = 0..BUF - 1 /\ \A k \in DOMAIN buffer : buffer[k] \in {"zero", "music"}
    /\ out.at \in -(INT \div 2)..BUF - 1 /\ out.byte \in {"none", "zero", "music", "outside"}

(* A finished read has taken exactly one block and its crc off the card,   *)
(* although the sector it read has overwritten the count of the bytes:     *)
(* what lies there in a superblock and in a root directory is zero.        *)
BlockTakenWhole == clocked = BUF + CRC

(* Playback reaches every byte of the buffer again and again, whatever the *)
(* superblock leaves in isr2: the count wraps through the negative half,   *)
(* plays what lies below the buffer, and comes back to 0.                  *)
EveryBytePlayed == \A k \in 0..BUF - 1 : []<>(out.at = k)

(* Once the music is in the buffer, the silence played while it was being  *)
(* read disappears from the output for good.                               *)
OldBytesFade == <>[]((\A k \in 0..BUF - 1 : buffer[k] = "music") => out.byte # "zero")
=============================================================================
