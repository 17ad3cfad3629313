------------------------------ MODULE MCSdInit ------------------------------
(***************************************************************************)
(* A small SdInit for TLC: one block of three bytes, one retry of CMD0 and *)
(* an ACMD41 loop of a few passes.                                         *)
(***************************************************************************)
EXTENDS SdInit

MCBlocks == {1}
=============================================================================
