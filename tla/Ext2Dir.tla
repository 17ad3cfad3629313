------------------------------- MODULE Ext2Dir -------------------------------
(***************************************************************************)
(* program4.c: the directory branch of main, with entry_amount and         *)
(* read_direct_block_dir.  A step is one pass through one of their loops.  *)
(* Names are numbers ordered like the names; cmpfunc, which the repository *)
(* declares and does not define, is taken to compare them.                 *)
(***************************************************************************)
EXTENDS DirListing, Functions

CONSTANTS
    BLOCK,      \* bytes of a block (1024)
    NDIR,       \* EXT2_NDIR_BLOCKS
    MOD8,       \* 2^8: blksLeft is uint8_t
    MAXENT,     \* elements of dirEntry (256)
    NAMEBUF     \* bytes of nameBuffer (256)

ASSUME DirAssumption ==
    /\ BLOCK \in Nat \ {0} /\ NDIR \in Nat /\ MOD8 \in Nat \ {0}
    /\ MAXENT \in Nat /\ NAMEBUF \in Nat /\ NAMEBUF > 1

\* The entries of a block follow one another from its first byte to its end.
EntriesFill(b) ==
    /\ DOMAIN b \subseteq 0 .. BLOCK - 1 /\ 0 \in DOMAIN b
    /\ \A o \in DOMAIN b :
          /\ b[o] \in Entry /\ b[o].rec_len > 0
          /\ o + b[o].rec_len \in DOMAIN b \cup {BLOCK}
          /\ \A q \in DOMAIN b : o < q => o + b[o].rec_len <= q

\* What ext2 keeps of every directory.
WellFormed(d) ==
    /\ d.size \in Nat /\ d.typed \in BOOLEAN
    /\ DOMAIN d.blocks = 1 .. d.size \div BLOCK
    /\ \A n \in DOMAIN d.blocks : EntriesFill(d.blocks[n])

ASSUME DirsAssumption == \A d \in Dirs : WellFormed(d)

\* The places of the entries: a block and an offset in it.
Places(d) == {p \in (DOMAIN d.blocks) \X (0 .. BLOCK - 1) : p[2] \in DOMAIN d.blocks[p[1]]}
At(d, p) == d.blocks[p[1]][p[2]]

\* A directory that program4.c has room for, with no types and no two files of
\* one name.
Listable(d) ==
    /\ d.size \div BLOCK <= NDIR /\ d.size \div BLOCK < MOD8
    /\ Cardinality(Places(d)) <= MAXENT
    /\ ~d.typed
    /\ \A p, q \in Places(d) :
          (At(d, p).inode # 0 /\ At(d, q).inode # 0 /\ p # q) => At(d, p).name # At(d, q).name

VARIABLES
    pc,         \* "scan", "list", "end", or "undefined" after a bad store
    i,          \* block index in entry_amount, entry index in main
    sizeRead,   \* bytes of the block passed over
    dirEntry,   \* the entries copied so far
    heap        \* of these, the ones not freed

vars == <<dir, lines, pc, i, sizeRead, dirEntry, heap, ended>>

BlksLeft == (dir.size \div BLOCK) % MOD8
MoreBlocks == i < BlksLeft /\ i < NDIR

\* name_len is 16 bits: with file types in the entries its upper byte is the
\* type, at least 1 for an entry in use.
NameLen(e) == IF dir.typed /\ e.inode # 0 THEN NAMEBUF + 1 ELSE 1

Init ==
    /\ ListingInit
    /\ pc = "scan" /\ i = 0 /\ sizeRead = 0
    /\ dirEntry = <<>> /\ heap = 0

\* A mutant of Passed: an entry of a deleted file is not passed over.
PassedLive(e) == IF e.inode = 0 THEN 0 ELSE e.rec_len
Passed(e) == e.rec_len

\* The for loop of read_direct_block_dir: copy the entry at sizeRead.
ReadEntry ==
    /\ pc = "scan" /\ MoreBlocks /\ sizeRead < BLOCK
    /\ LET entry == dir.blocks[i + 1][sizeRead]
       IN IF Len(dirEntry) = MAXENT
          THEN /\ pc' = "undefined" /\ ended' = TRUE
               /\ UNCHANGED <<dirEntry, heap, sizeRead>>
          ELSE /\ dirEntry' = Append(dirEntry, entry)
               /\ heap' = heap + 1
               /\ sizeRead' = sizeRead + Passed(entry)
               /\ UNCHANGED <<pc, ended>>
    /\ UNCHANGED <<dir, lines, i>>

\* The for loop of entry_amount: on to the next block.
NextBlock ==
    /\ pc = "scan" /\ MoreBlocks /\ sizeRead >= BLOCK
    /\ i' = i + 1 /\ sizeRead' = 0
    /\ UNCHANGED <<dir, lines, pc, dirEntry, heap, ended>>

Sorted(s) == \A m, n \in DOMAIN s : m < n => s[m].name <= s[n].name

\* Back in main: qsort, which may leave entries of one name in either order.
Sort ==
    /\ pc = "scan" /\ ~MoreBlocks
    /\ \E p \in Bijection(DOMAIN dirEntry, DOMAIN dirEntry) :
          dirEntry' = [n \in DOMAIN dirEntry |-> dirEntry[p[n]]]
    /\ Sorted(dirEntry')
    /\ pc' = "list" /\ i' = 0
    /\ UNCHANGED <<dir, lines, sizeRead, heap, ended>>

\* A mutant of Shown: entries of deleted files are listed too.
ShownAny(e) == e.inode \in DOMAIN Inodes
Shown(e) == e.inode # 0

\* Mutants of Freed: an entry is freed twice; those passed over are kept.
FreedTwice(e) == 2
FreedShown(e) == IF Shown(e) THEN 1 ELSE 0
Freed(e) == 1

\* The for loop of main: print a line for an entry in use, free the entry.
ListEntry ==
    /\ pc = "list" /\ i < Len(dirEntry)
    /\ LET entry == dirEntry[i + 1]
       IN IF Shown(entry) /\ NameLen(entry) >= NAMEBUF
          THEN pc' = "undefined" /\ ended' = TRUE /\ UNCHANGED <<lines, i, heap>>
          ELSE /\ lines' = IF Shown(entry) THEN Append(lines, Line(entry)) ELSE lines
               /\ heap' = heap - Freed(entry)
               /\ i' = i + 1
               /\ UNCHANGED <<pc, ended>>
    /\ UNCHANGED <<dir, sizeRead, dirEntry>>

EndList ==
    /\ pc = "list" /\ i = Len(dirEntry)
    /\ pc' = "end" /\ ended' = TRUE
    /\ UNCHANGED <<dir, lines, i, sizeRead, dirEntry, heap>>

Next == ReadEntry \/ NextBlock \/ Sort \/ ListEntry \/ EndList

Spec == Init /\ [][Next]_vars /\ WF_vars(Next)

-----------------------------------------------------------------------------
(* Properties *)

TypeOK ==
    /\ dir \in Dirs
    /\ pc \in {"scan", "list", "end", "undefined"}
    /\ i \in Nat /\ sizeRead \in Nat /\ ended \in BOOLEAN
    /\ dirEntry \in Seq(Entry) /\ Len(dirEntry) <= MAXENT
    /\ heap \in 0..Len(dirEntry)

(***************************************************************************)
(* The scan and the sort lose, repeat and misplace no entry: the program   *)
(* prints what a listing of the directory is (program4.c:73-111, 293-333). *)
(***************************************************************************)
Lists == ListingSpec

(***************************************************************************)
(* Every entry copied by the scan is freed by the listing, deleted ones    *)
(* too (program4.c:304, 109).                                              *)
(***************************************************************************)
NothingLeaks == pc = "end" => heap = 0

(***************************************************************************)
(* A directory whose entries fill their blocks is read to its end, however *)
(* the entries cut the blocks (program4.c:301-307, 326-331).               *)
(***************************************************************************)
Terminates == <>(pc = "end")
=============================================================================
