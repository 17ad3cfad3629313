------------------------------ MODULE Ext2File ------------------------------
(***************************************************************************)
(* The file branch of main and read_blk in program4.c: the walk over the   *)
(* direct, indirect and double indirect blocks of an inode that prints a   *)
(* file.  blksLeft and sizeLeft are kept apart: one bounds the loops, the  *)
(* other says how many bytes are still to print.                           *)
(*                                                                         *)
(* One step is one read_data with its fwrite, or the end of a loop.        *)
(***************************************************************************)
EXTENDS FilePrinter

CONSTANTS
  NoPointers,   \* the pointer buffers before the first read into them
  WritesFail    \* fwrite may write less than it was asked to

ASSUME WalkAssumption ==
  /\ NoPointers \in [0 .. PTRS - 1 -> Blocks \cup {0}]
  /\ WritesFail \in BOOLEAN

VARIABLES
  pc,             \* the loop that executes: "direct", "indirect", "double" and
                  \* "row", its inner loop; "done" after the last one
  half,           \* read_blk has printed the first half of its block
  i, j, sizeLeft, blksLeft,
  indirect, doubleIndirect    \* the pointer buffers of main

vars == <<size, out, ended, pc, half, i, j, sizeLeft, blksLeft,
          indirect, doubleIndirect>>

Loops == {"direct", "indirect", "row"}

-----------------------------------------------------------------------------
(* read_blk *)

\* How much read_blk asks fwrite for; the mutant always asks for a full half.
AskedFull == HALF

Asked == IF sizeLeft > HALF THEN HALF ELSE sizeLeft

\* fwrite of half h of block blk, and sizeLeft less what it wrote.
Write(blk, h, n) ==
  /\ out' = Append(out, Half(blk, h, n))
  /\ sizeLeft' = sizeLeft - n

\* The block pointer that the loop passes to read_blk.
Current == IF pc = "direct" THEN IBlock[i] ELSE indirect[i]

\* The bound of i in each loop.
Width == IF pc = "direct" THEN NDIR ELSE PTRS

\* The condition of the three loops that call read_blk.
More == sizeLeft > 0 /\ i < blksLeft /\ i < Width

\* What fwrite may return.
Written == IF WritesFail THEN 0 .. Asked ELSE {Asked}

\* *sizeLeft > 0 between the halves; the mutant reads >= 0.
SecondAlways == sizeLeft' >= 0

HasSecond == sizeLeft' > 0

ReadFirstHalf ==
  /\ pc \in Loops /\ ~half
  /\ More
  /\ \E n \in Written :
       Write(Current, 0, n)
  /\ IF HasSecond
       THEN half' = TRUE /\ UNCHANGED i
       ELSE i' = i + 1 /\ UNCHANGED half
  /\ UNCHANGED <<size, ended, pc, j, blksLeft, indirect, doubleIndirect>>

ReadSecondHalf ==
  /\ pc \in Loops /\ half
  /\ \E n \in Written :
       Write(Current, 1, n)
  /\ half' = FALSE
  /\ i' = i + 1
  /\ UNCHANGED <<size, ended, pc, j, blksLeft, indirect, doubleIndirect>>

-----------------------------------------------------------------------------
(* The loops of main *)

\* blksLeft -= i at the end of a loop; the mutant forgets it.
BlocksKept == blksLeft

BlocksAfterLoop == blksLeft - i

EndDirect ==
  /\ pc = "direct" /\ ~half
  /\ ~More
  /\ blksLeft' = BlocksAfterLoop
  /\ IF blksLeft' # 0
       THEN /\ pc' = "indirect"
            /\ indirect' = Table[IBlock[NDIR]]
            /\ i' = 0
       ELSE /\ pc' = "done"
            /\ UNCHANGED <<i, indirect>>
  /\ UNCHANGED <<size, out, ended, half, j, sizeLeft, doubleIndirect>>

EndIndirect ==
  /\ pc = "indirect" /\ ~half
  /\ ~More
  /\ blksLeft' = BlocksAfterLoop
  /\ IF blksLeft' # 0
       THEN /\ pc' = "double"
            /\ doubleIndirect' = Table[IBlock[NDIR + 1]]
            /\ j' = 0
       ELSE /\ pc' = "done"
            /\ UNCHANGED <<j, doubleIndirect>>
  /\ UNCHANGED <<size, out, ended, half, i, sizeLeft, indirect>>

EnterRow ==
  /\ pc = "double"
  /\ sizeLeft > 0 /\ j < PTRS
  /\ indirect' = Table[doubleIndirect[j]]
  /\ i' = 0
  /\ pc' = "row"
  /\ UNCHANGED <<size, out, ended, half, j, sizeLeft, blksLeft,
                 doubleIndirect>>

\* j++ of the double indirect loop; the mutant forgets it.
SameRow == j

NextRow == j + 1

EndRow ==
  /\ pc = "row" /\ ~half
  /\ ~More
  /\ blksLeft' = BlocksAfterLoop
  /\ j' = NextRow
  /\ pc' = "double"
  /\ UNCHANGED <<size, out, ended, half, i, sizeLeft, indirect,
                 doubleIndirect>>

EndDouble ==
  /\ pc = "double"
  /\ ~(sizeLeft > 0 /\ j < PTRS)
  /\ pc' = "done"
  /\ UNCHANGED <<size, out, ended, half, i, j, sizeLeft, blksLeft, indirect,
                 doubleIndirect>>

\* fclose and return.
Exit ==
  /\ pc = "done" /\ ~ended
  /\ ended' = TRUE
  /\ UNCHANGED <<size, out, pc, half, i, j, sizeLeft, blksLeft, indirect,
                 doubleIndirect>>

-----------------------------------------------------------------------------
(* Specification *)

\* uint32_t blksLeft = inode.i_size / 1024 + 1; the mutant forgets the last,
\* partial block.
FullBlocks == size \div BLOCK

BlockCount == size \div BLOCK + 1

Init ==
  /\ PrinterInit
  /\ pc = "direct" /\ half = FALSE
  /\ i = 0 /\ j = 0
  /\ sizeLeft = size
  /\ blksLeft = BlockCount
  /\ indirect = NoPointers /\ doubleIndirect = NoPointers

Next == \/ ReadFirstHalf \/ ReadSecondHalf
        \/ EndDirect \/ EndIndirect \/ EnterRow \/ EndRow \/ EndDouble \/ Exit

Safety == Init /\ [][Next]_vars

\* A sequential program keeps running.
Spec == Safety /\ WF_vars(Next)
-----------------------------------------------------------------------------
(* Properties *)

PointerBuffer == [0 .. PTRS - 1 -> Blocks \cup {0}]

\* Every variable keeps its type; in particular the unsigned sizeLeft and
\* blksLeft never go below zero.
TypeOK ==
  /\ size \in Sizes
  /\ out \in Seq([block : Blocks \cup {0}, half : {0, 1}, len : 0 .. HALF])
  /\ ended \in BOOLEAN
  /\ pc \in Loops \cup {"double", "done"}
  /\ half \in BOOLEAN
  /\ i \in Nat /\ j \in Nat
  /\ sizeLeft \in Nat /\ blksLeft \in Nat
  /\ indirect \in PointerBuffer /\ doubleIndirect \in PointerBuffer

\* The two counts of main agree: as long as bytes are missing, the loops that
\* are still to come are long enough for them.  (The condition i < blksLeft
\* never ends a loop too early.)
CountsAgree ==
  pc \in Loops /\ ~half /\ sizeLeft > 0 => sizeLeft <= (blksLeft - i) * BLOCK

\* A short or failed fwrite leaves sizeLeft too large.  blksLeft alone then
\* keeps the three levels of loops from printing more blocks than it counted.
WithinBlocks == Len(out) <= 2 * BlockCount

\* Files with a block behind every pointer.
NoHoles == \A lb \in 0 .. Reach - 1 : BlockOf(lb) # 0

\* Files small enough for two levels of indirection.
WithinReach == \A n \in Sizes : n <= Reach * BLOCK

\* "Program is able to list the files/directories and display the contents of
\* files" (program4.c, head comment): main implements the file printer.
PrintsFile == PrinterSpec

\* The walk ends, whatever fwrite returns: blksLeft may be used up with
\* sizeLeft still above zero, and the double indirect loop runs on empty rows.
Terminates == <>ended
=============================================================================
