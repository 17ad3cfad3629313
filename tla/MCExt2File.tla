----------------------------- MODULE MCExt2File -----------------------------
(***************************************************************************)
(* A small Ext2File for TLC: two direct blocks and two pointers per block, *)
(* so 8 blocks of 4 bytes; every pointer leads to a block of its own.      *)
(***************************************************************************)
EXTENDS Ext2File, TLC

\* Blocks 1 to 8 hold the file, 10 to 13 the pointers.
MCBlocks == 1 .. 13
MCIBlock == (0 :> 1) @@ (1 :> 2) @@ (2 :> 10) @@ (3 :> 11)
Row(a, b) == (0 :> a) @@ (1 :> b)
MCTable ==
  [b \in MCBlocks \cup {0} |->
     CASE b = 10 -> Row(3, 4)
       [] b = 11 -> Row(12, 13)
       [] b = 12 -> Row(5, 6)
       [] b = 13 -> Row(7, 8)
       [] OTHER -> Row(9, 9)]
MCNoPointers == Row(9, 9)

MCSizes == 0 .. 8 * 4

\* With short writes: the sizes about the ends of the loops, with halves of one
\* byte.
ShortWriteSizes == {0, 1, 3, 4, 7, 8, 9, 12}
=============================================================================
