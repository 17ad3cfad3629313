------------------------------- MODULE MCParts -------------------------------
(***************************************************************************)
(* The parts that share no state: what the thread library keeps and shows, *)
(* and the three computations that depend on the widths of C's integers.   *)
(* A behaviour runs one of them; the others keep a fixed state.            *)
(***************************************************************************)
EXTENDS MCThreadData, Serial, SdSize, Ext2Inode

VARIABLE running      \* "threads", "print", "size" or "inode"

partsVars == <<running, vars, serialVars, sizeVars, inodeVars>>

\* Registers with bytes of six bits, so an int has 12 and a uint32_t 24, and
\* the largest card of version 2 has as many blocks as a uint32_t has values.
Edges == {0, 1, 31, 63}
Cards1 == [csd_ver : {0}, read_bl_len : {9, 11}, c_size_high : {0, 3}, c_size_mid : Edges,
           c_size_low : 0..3, c_size_mult_high : {0, 3}, c_size_mult_low : {0, 1}]
Cards2 == [csd_ver : {1}, byte7 : {0, 1, 4, 15}, c_size_mid : {0, 1, 31, 32, 62, 63},
           c_size_low : Edges \cup {62}]
MCCsds == Cards1 \cup Cards2 \cup [csd_ver : {2, 3}]

\* File systems of 1024-byte blocks with 8192 blocks to a group, each of which
\* begins with copies of the superblock and the descriptors, so that its inode
\* table is its sixth block.  program4 reads the ends of four groups of one with
\* an int of 28 bits, program5 the first 256 inodes of another with one of 16.
Ends == {256 * g + k : g \in 0..3, k \in (1..32) \cup (241..256)}
AllCopies == [g \in 0..3 |-> 8192 * g + 5]
MCSystems ==
    {[int |-> 268435456, ipg |-> 256, bpg |-> 8192, table |-> AllCopies, requests |-> Ends],
     [int |-> 65536, ipg |-> 2048, bpg |-> 8192, table |-> AllCopies, requests |-> 1..256]}

PartsInit ==
    /\ running \in {"threads", "print", "size", "inode"}
    /\ Init /\ SerialInit /\ SizeInit /\ InodeInit
    /\ running # "threads" => part = "table"
    /\ running # "size" => csd = CHOOSE c \in Csds : TRUE
    /\ running # "inode" => system = CHOOSE s \in Systems : TRUE

RunThreads == running = "threads" /\ Next /\ UNCHANGED <<serialVars, sizeVars, inodeVars>>
PrintNumbers == running = "print" /\ SerialNext /\ UNCHANGED <<vars, sizeVars, inodeVars>>
AskSize == running = "size" /\ SizeNext /\ UNCHANGED <<vars, serialVars, inodeVars>>
AskInode == running = "inode" /\ InodeNext /\ UNCHANGED <<vars, serialVars, sizeVars>>

PartsNext == (RunThreads \/ PrintNumbers \/ AskSize \/ AskInode) /\ UNCHANGED running

\* The loop of the search goes on.
PartsSpec ==
    /\ PartsInit /\ [][PartsNext]_partsVars
    /\ WF_searchVars(RunThreads /\ Search)
=============================================================================
