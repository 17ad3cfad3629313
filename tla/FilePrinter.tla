----------------------------- MODULE FilePrinter -----------------------------
(***************************************************************************)
(* What "display the contents of files" promises: every half block of the  *)
(* file is printed once, in order and at its full length, and the program  *)
(* does not end before the last one.                                       *)
(***************************************************************************)
EXTENDS Sequences, Integers

CONSTANTS
  Sizes,    \* sizes of files
  NDIR,     \* block pointers in an inode (EXT2_NDIR_BLOCKS, 12)
  PTRS,     \* block pointers in a block (256)
  HALF,     \* bytes of a sector, half a block (512)
  Blocks,   \* block numbers; 0 in a pointer means that there is no block
  ZEROS,    \* what a reader sees where there is no block
  IBlock,   \* the pointers of the inode
  Table     \* the pointers in each block that holds pointers

ASSUME FileAssumption ==
  /\ Sizes \subseteq Nat
  /\ NDIR \in Nat /\ PTRS \in Nat \ {0} /\ HALF \in Nat \ {0}
  /\ Blocks \subseteq Nat \ {0}
  /\ ZEROS \notin Nat
  /\ IBlock \in [0 .. NDIR + 1 -> Blocks \cup {0}]
  /\ Table \in [Blocks \cup {0} -> [0 .. PTRS - 1 -> Blocks \cup {0}]]

VARIABLES
  size,     \* i_size of the inode
  out,      \* what was printed: a sequence of half blocks
  ended     \* the program has printed all it will

printerVars == <<size, out, ended>>

BLOCK == 2 * HALF

\* Pointer i of block b; no block holds no pointers.
Pointer(b, i) == IF b = 0 THEN 0 ELSE Table[b][i]

\* The block that holds block number lb of the file, as ext2 lays it out.
BlockOf(lb) ==
  LET ind == lb - NDIR
      dind == ind - PTRS
  IN CASE lb < NDIR -> IBlock[lb]
       [] lb >= NDIR /\ ind < PTRS -> Pointer(IBlock[NDIR], ind)
       [] OTHER -> Pointer(Pointer(IBlock[NDIR + 1], dind \div PTRS),
                           dind % PTRS)

\* The blocks an inode reaches without a triple indirect block.
Reach == NDIR + PTRS + PTRS * PTRS

Shown(b) == IF b = 0 THEN ZEROS ELSE b

\* The first n bytes of half h of a block, printed.
Half(b, h, n) == [block |-> b, half |-> h, len |-> n]

HalfBlock(lb, h) ==
  LET left == size - lb * BLOCK - h * HALF
  IN Half(Shown(BlockOf(lb)), h, IF left > HALF THEN HALF ELSE left)

\* Half h of block lb of the file is the next to print.
NextIs(lb, h) == Len(out) = 2 * lb + h

PrinterInit ==
  /\ size \in Sizes
  /\ out = <<>>
  /\ ended = FALSE

ShowNext ==
  /\ ~ended
  /\ \E lb \in 0 .. Len(out), h \in {0, 1} :
       /\ NextIs(lb, h)
       /\ lb * BLOCK + h * HALF < size
       /\ lb < Reach
       /\ out' = Append(out, HalfBlock(lb, h))
  /\ UNCHANGED <<size, ended>>

\* Everything was printed.
Finish ==
  /\ ~ended
  /\ Len(out) * HALF >= size
  /\ ended' = TRUE
  /\ UNCHANGED <<size, out>>

PrinterNext == ShowNext \/ Finish

PrinterSpec == PrinterInit /\ [][PrinterNext]_printerVars
=============================================================================
