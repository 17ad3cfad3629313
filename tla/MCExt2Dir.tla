------------------------------ MODULE MCExt2Dir ------------------------------
(***************************************************************************)
(* Directories of up to two blocks of 4 bytes, an entry taking 1 byte or   *)
(* more; room for 4 entries of 2 blocks.                                   *)
(***************************************************************************)
EXTENDS Ext2Dir, TLC

MCInodes == (1 :> [kind |-> "F", size |-> 5]) @@ (2 :> [kind |-> "D", size |-> 8])
              @@ (3 :> [kind |-> "Unsupported type", size |-> 2])
              @@ (0 :> [kind |-> "F", size |-> 7])

\* The ways to cut a block into entries of these lengths.
Cuts == {<<4>>, <<2, 2>>, <<3, 1>>, <<1, 3>>, <<1, 1, 2>>}
Offset(c, n) == IF n = 1 THEN 0 ELSE IF n = 2 THEN c[1] ELSE c[1] + c[2]

\* The blocks cut like c, whose n-th entry is named by names[n].
BlockOf(c, names, inodes) ==
    [o \in {Offset(c, n) : n \in DOMAIN c} |->
        LET n == CHOOSE m \in DOMAIN c : Offset(c, m) = o
        IN [inode |-> inodes[n], rec_len |-> c[n], name |-> names[n]]]
BlocksNamed(names) ==
    {BlockOf(c, names, f) : c \in Cuts, f \in [1..3 -> {0, 1, 2, 3}]}

Dir(blocks) == [size |-> BLOCK * Len(blocks), blocks |-> blocks, typed |-> FALSE]
OneBlock == {Dir(<<b>>) : b \in BlocksNamed(<<3, 1, 5>>)}
TwoBlocks == {Dir(<<b, c>>) : b \in BlocksNamed(<<3, 6, 5>>),
                              c \in {BlockOf(<<4>>, <<2>>, <<1>>), BlockOf(<<2, 2>>, <<3, 2>>, <<0, 2>>)}}
MCDirs == {Dir(<<>>)} \cup OneBlock \cup TwoBlocks

\* The directories are of the kind that the theorems are about.
ASSUME DirsListable == \A d \in Dirs : Listable(d)
=============================================================================
