------------------------------ MODULE Ext2Inode ------------------------------
(***************************************************************************)
(* get_inode of program4.c and get_inode_p5 of program5.c: the same        *)
(* arithmetic from an inode number to a sector and an offset, on a host    *)
(* and on a processor whose int has 16 bits.                               *)
(***************************************************************************)
EXTENDS CInt

CONSTANTS
    Systems     \* file systems and the programs that read them, see InodeAssumption

SECTOR == 512
INODE == 128      \* EXT2_GOOD_OLD_INODE_SIZE and sizeof(struct ext2_inode)

Group(s, n) == (n - 1) \div s.ipg
Index(s, n) == (n - 1) % s.ipg

\* int: the values of an int; ipg, bpg: s_inodes_per_group, s_blocks_per_group;
\* table[g]: the block where the inode table of group g begins; requests: the
\* inode numbers asked for.
ASSUME InodeAssumption ==
    \A s \in Systems :
        /\ s.int \in Nat /\ s.int >= 4 /\ s.int % 2 = 0
        /\ s.ipg \in Nat \ {0} /\ s.bpg \in Nat
        /\ s.requests \subseteq Nat \ {0} /\ 2 \in s.requests
        /\ \A n \in s.requests : s.table[Group(s, n)] \in Nat

VARIABLES system,      \* the file system and the program
          request,     \* inodeRequest of the last call
          blk, off     \* what it read: a sector and the offset in it

inodeVars == <<system, request, blk, off>>

\* A mutant of GrpOffset: inode numbers that start at 0.
GrpOffsetFromZero(s, n) == AsInt(n % s.ipg, s.int)
InodeGroup(s, n) == AsInt(Group(s, n), s.int)
GrpOffset(s, n) == AsInt(Index(s, n), s.int)
SubBlkOffset(s, n) == Quotient(AsInt(GrpOffset(s, n) * INODE, s.int), SECTOR)
InodeSubBlkOffset(s, n) == GrpOffset(s, n) % (SECTOR \div INODE)

\* A group takes 2 * bpg sectors; its inode table is taken to begin at its
\* sixth block, whatever the group descriptor says.
Blk(s, n) == AsInt(AsInt(InodeGroup(s, n) * 2, s.int) * s.bpg + 2 * 5 + SubBlkOffset(s, n), s.int)
Off(s, n) == InodeSubBlkOffset(s, n) * INODE

\* The root inode is looked up first.
InodeInit == system \in Systems /\ request = 2 /\ blk = Blk(system, 2) /\ off = Off(system, 2)

Lookup(n) ==
    /\ request' = n /\ blk' = Blk(system, n) /\ off' = Off(system, n)
    /\ UNCHANGED system

InodeNext == \E n \in system.requests : Lookup(n)

InodeSpec == InodeInit /\ [][InodeNext]_inodeVars

-----------------------------------------------------------------------------
(* Properties *)

(***************************************************************************)
(* program4.c:170: get_inode "retrieves the specified inode": what it reads *)
(* is the record of that inode in the table of its group.                  *)
(***************************************************************************)
RightInode ==
    blk * SECTOR + off = system.table[Group(system, request)] * 2 * SECTOR
                           + Index(system, request) * INODE
=============================================================================
