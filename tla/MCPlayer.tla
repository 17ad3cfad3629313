------------------------------- MODULE MCPlayer -------------------------------
(* Buffers of four bytes and two-bit bytes, so an int runs from -8 to 7.   *)
(* The superblocks are zero behind their fields, as mke2fs writes them, or *)
(* hold something over isr2; the root directory's parent is inode 2.       *)
EXTENDS Player

Padding(lo, hi) == [isr2 |-> <<lo, hi>>, offset_ |-> <<0, 0>>]
MCSuperBlocks == {Padding(0, 0), Padding(3, 1), Padding(0, 2)}
MCDirectories == {<<2, 0, 0, 0>>}
=============================================================================
