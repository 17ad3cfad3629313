----------------------------- MODULE DirListing -----------------------------
(***************************************************************************)
(* What "list the files/directories" promises: one line for every live     *)
(* entry of the directory, in the order of their names, with the size of   *)
(* a file and the kind of the entry, and no end before the last line.      *)
(***************************************************************************)
EXTENDS Sequences, Integers, FiniteSets

CONSTANTS
    Dirs,     \* directories: [size, blocks, typed], see Entry
    Inodes    \* Inodes[n]: kind and size of inode n

VARIABLES dir,      \* the directory listed
          lines,    \* what was printed
          ended     \* the program has printed all it will

listingVars == <<dir, lines, ended>>

\* Each block maps the offsets where its entries begin to the entries.
Entry == [inode : Nat, rec_len : Nat, name : Nat]
Live == {e \in UNION {{b[o] : o \in DOMAIN b} : b \in {dir.blocks[n] : n \in DOMAIN dir.blocks}} :
            e.inode # 0}

Line(e) == [name |-> e.name, kind |-> Inodes[e.inode].kind,
            size |-> IF Inodes[e.inode].kind = "F" THEN Inodes[e.inode].size ELSE 0]

ListingInit == dir \in Dirs /\ lines = <<>> /\ ended = FALSE

\* The entry whose name has as many smaller ones as there are lines.
ListNext ==
    /\ ~ended
    /\ \E e \in Live :
          /\ Cardinality({d \in Live : d.name < e.name}) = Len(lines)
          /\ lines' = Append(lines, Line(e))
    /\ UNCHANGED <<dir, ended>>

Finish ==
    /\ ~ended
    /\ Len(lines) = Cardinality(Live)
    /\ ended' = TRUE
    /\ UNCHANGED <<dir, lines>>

ListingSpec == ListingInit /\ [][ListNext \/ Finish]_listingVars
=============================================================================
