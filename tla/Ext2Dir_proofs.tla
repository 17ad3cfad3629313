--------------------------- MODULE Ext2Dir_proofs ---------------------------
(***************************************************************************)
(* Proofs about the directory branch of program4.c.                        *)
(***************************************************************************)
EXTENDS Ext2Dir, FiniteSetTheorems, TLAPS

\* Every directory fits the program's arrays and counters.
AllListable == \A d \in Dirs : Listable(d)

Blocks == dir.size \div BLOCK

\* The places of the first n blocks, and those below an offset in the next one.
Before(d, n, offset) ==
  {p \in Places(d) : p[1] <= n \/ (p[1] = n + 1 /\ p[2] < offset)}

\* s holds the entries of d at the places P, each once, in some order.
Copies(d, s, P) ==
  \E f \in Bijection(DOMAIN s, P) : \A k \in DOMAIN s : s[k] = At(d, f[k])

\* The files whose lines have been printed.
Printed == {e \in Live : \E k \in 1 .. i : dirEntry[k] = e}

-----------------------------------------------------------------------------
(* The inductive invariant *)

\* The scan stands at the beginning of an entry or at the end of a block.
CursorInv ==
  pc = "scan" =>
    /\ i \in 0 .. Blocks
    /\ i < Blocks => sizeRead \in (DOMAIN dir.blocks[i + 1]) \cup {BLOCK}
    /\ i = Blocks => sizeRead = 0

\* One block of memory for every entry copied and not yet passed by the listing.
HeapInv ==
  /\ pc = "scan" => heap = Len(dirEntry)
  /\ pc = "list" => i <= Len(dirEntry) /\ heap = Len(dirEntry) - i
  /\ pc = "end" => heap = 0

BaseInv == TypeOK /\ CursorInv /\ HeapInv

\* What was copied so far, and that nothing is printed.
ScanInv ==
  pc = "scan" => Copies(dir, dirEntry, Before(dir, i, sizeRead)) /\ lines = <<>> /\ ~ended

\* The sorted copy of the directory, and as many lines as files passed.
ListInv ==
  pc = "list" =>
    /\ Copies(dir, dirEntry, Places(dir)) /\ Sorted(dirEntry)
    /\ lines \in Seq({Line(e) : e \in Entry})
    /\ Len(lines) = Cardinality(Printed)
    /\ ~ended

EndInv == pc # "undefined" /\ (pc = "end" => ended)

IInv == BaseInv /\ ScanInv /\ ListInv /\ EndInv

-----------------------------------------------------------------------------
(* The directory and its places *)

LEMMA Remainder ==
  ASSUME NEW a \in Nat, NEW m \in Nat \ {0}
  PROVE  a \div m \in Nat /\ a % m \in Nat /\ a % m <= a /\ (a < m => a % m = a)
  OBVIOUS

LEMMA DirectoryShape ==
  ASSUME dir \in Dirs
  PROVE  /\ Blocks \in Nat /\ BlksLeft \in Nat /\ BlksLeft <= Blocks
         /\ DOMAIN dir.blocks = 1 .. Blocks
         /\ \A n \in 1 .. Blocks : EntriesFill(dir.blocks[n])
         /\ dir.typed \in BOOLEAN
<1>1. WellFormed(dir)
  BY DirsAssumption
<1>2. Blocks \in Nat /\ BLOCK \in Nat \ {0} /\ MOD8 \in Nat \ {0}
  BY <1>1, Remainder, DirAssumption DEF WellFormed, Blocks
<1>3. Blocks % MOD8 \in Nat /\ Blocks % MOD8 <= Blocks
  BY <1>2, Remainder
<1> QED
  BY <1>1, <1>2, <1>3 DEF WellFormed, Blocks, BlksLeft

\* The entry at a place has its type.
LEMMA EntryAt ==
  ASSUME dir \in Dirs, NEW p \in Places(dir)
  PROVE  At(dir, p) \in Entry
  BY DirectoryShape DEF Places, At, EntriesFill

LEMMA PlacesFinite ==
  ASSUME dir \in Dirs
  PROVE  IsFiniteSet(Places(dir))
<1>1. BLOCK \in Nat /\ Blocks \in Nat /\ DOMAIN dir.blocks = 1 .. Blocks
  BY DirectoryShape, DirAssumption
<1>2. IsFiniteSet(1 .. Blocks) /\ IsFiniteSet(0 .. BLOCK - 1)
  BY <1>1, FS_Interval
<1>3. IsFiniteSet((1 .. Blocks) \X (0 .. BLOCK - 1))
  BY <1>2, FS_Product
<1>4. Places(dir) \subseteq (1 .. Blocks) \X (0 .. BLOCK - 1)
  BY <1>1 DEF Places
<1> QED
  BY <1>3, <1>4, FS_Subset

\* A file of the directory is an entry in use at one of its places.
LEMMA LiveAtPlaces ==
  ASSUME dir \in Dirs
  PROVE  \A e : e \in Live <=> \E p \in Places(dir) : e = At(dir, p) /\ e.inode # 0
<1>1. ASSUME NEW e, e \in Live
      PROVE  \E p \in Places(dir) : e = At(dir, p) /\ e.inode # 0
  <2>1. PICK n \in DOMAIN dir.blocks : \E q \in DOMAIN dir.blocks[n] : e = dir.blocks[n][q]
    BY <1>1 DEF Live
  <2>2. PICK q \in DOMAIN dir.blocks[n] : e = dir.blocks[n][q]
    BY <2>1
  <2>3. q \in 0 .. BLOCK - 1
    BY DirectoryShape DEF EntriesFill
  <2>4. <<n, q>> \in Places(dir) /\ e = At(dir, <<n, q>>)
    BY <2>2, <2>3 DEF Places, At
  <2> QED
    BY <1>1, <2>4 DEF Live
<1>2. ASSUME NEW p \in Places(dir), At(dir, p).inode # 0
      PROVE  At(dir, p) \in Live
  BY <1>2 DEF Places, At, Live
<1> QED
  BY <1>1, <1>2

-----------------------------------------------------------------------------
(* Types, the cursor and the heap *)

LEMMA BaseInitial == Init => BaseInv
<1> SUFFICES ASSUME Init PROVE BaseInv
  OBVIOUS
<1>1. dir \in Dirs
  BY DEF Init, ListingInit
<1>2. Blocks \in Nat /\ DOMAIN dir.blocks = 1 .. Blocks
      /\ \A n \in 1 .. Blocks : EntriesFill(dir.blocks[n])
  BY <1>1, DirectoryShape
<1>3. TypeOK
  <2>1. dirEntry \in Seq(Entry) /\ Len(dirEntry) = 0
    BY DEF Init
  <2>2. i = 0 /\ sizeRead = 0 /\ heap = 0 /\ pc = "scan"
    BY DEF Init
  <2>3. ended \in BOOLEAN
    BY Zenon DEF Init, ListingInit
  <2>4. MAXENT >= 0
    BY DirAssumption
  <2> QED
    BY <1>1, <2>1, <2>2, <2>3, <2>4 DEF TypeOK
<1>4. CursorInv
  BY <1>2 DEF Init, CursorInv, EntriesFill
<1>5. HeapInv
  BY DEF Init, HeapInv
<1> QED
  BY <1>3, <1>4, <1>5 DEF BaseInv

\* The entry the scan copies, and where it leaves the cursor.
LEMMA EntryRead ==
  ASSUME BaseInv, ReadEntry
  PROVE  /\ i \in 0 .. Blocks - 1 /\ i < Blocks
         /\ sizeRead \in DOMAIN dir.blocks[i + 1]
         /\ <<i + 1, sizeRead>> \in Places(dir)
         /\ dir.blocks[i + 1][sizeRead] \in Entry
         /\ dir.blocks[i + 1][sizeRead].rec_len > 0
         /\ sizeRead + dir.blocks[i + 1][sizeRead].rec_len
              \in (DOMAIN dir.blocks[i + 1]) \cup {BLOCK}
         /\ \A q \in DOMAIN dir.blocks[i + 1] :
              sizeRead < q => sizeRead + dir.blocks[i + 1][sizeRead].rec_len <= q
<1>1. dir \in Dirs /\ pc = "scan" /\ i < BlksLeft /\ sizeRead < BLOCK
  BY DEF BaseInv, TypeOK, ReadEntry, MoreBlocks
<1>2. i \in 0 .. Blocks /\ i < Blocks
  BY <1>1, DirectoryShape DEF BaseInv, CursorInv
<1>3. sizeRead \in DOMAIN dir.blocks[i + 1]
  BY <1>1, <1>2, DirAssumption DEF BaseInv, CursorInv
<1>4. Blocks \in Nat /\ i + 1 \in 1 .. Blocks /\ i + 1 \in DOMAIN dir.blocks
  BY <1>1, <1>2, DirectoryShape
<1>5. EntriesFill(dir.blocks[i + 1])
  BY <1>1, <1>4, DirectoryShape
<1>6. sizeRead \in 0 .. BLOCK - 1
  BY <1>3, <1>5 DEF EntriesFill
<1>7. <<i + 1, sizeRead>> \in Places(dir)
  BY <1>3, <1>4, <1>6 DEF Places
<1> QED
  BY <1>2, <1>3, <1>4, <1>5, <1>7 DEF EntriesFill

LEMMA BaseStep == BaseInv /\ [Next]_vars => BaseInv'
<1> SUFFICES ASSUME BaseInv, [Next]_vars PROVE BaseInv'
  OBVIOUS
<1>0. /\ TypeOK /\ CursorInv /\ HeapInv
      /\ dir \in Dirs /\ i \in Nat /\ sizeRead \in Nat /\ ended \in BOOLEAN
      /\ dirEntry \in Seq(Entry) /\ Len(dirEntry) \in Nat /\ Len(dirEntry) <= MAXENT
      /\ heap \in 0 .. Len(dirEntry) /\ MAXENT \in Nat
      /\ BLOCK \in Nat \ {0}
  BY DirAssumption DEF BaseInv, TypeOK
<1>d. DOMAIN dir.blocks = 1 .. Blocks /\ Blocks \in Nat /\ BlksLeft \in Nat /\ BlksLeft <= Blocks
      /\ \A n \in 1 .. Blocks : EntriesFill(dir.blocks[n])
  BY <1>0, DirectoryShape
<1>1. CASE ReadEntry
  <2> DEFINE entry == dir.blocks[i + 1][sizeRead]
  <2>1. /\ i \in 0 .. Blocks - 1 /\ i < Blocks
        /\ entry \in Entry
        /\ sizeRead + entry.rec_len \in (DOMAIN dir.blocks[i + 1]) \cup {BLOCK}
    BY <1>1, EntryRead
  <2>2. pc = "scan" /\ dir' = dir /\ i' = i
    BY <1>1 DEF ReadEntry
  <2>3. CASE Len(dirEntry) = MAXENT
    <3>1. /\ pc' = "undefined" /\ ended' = TRUE
          /\ dirEntry' = dirEntry /\ heap' = heap /\ sizeRead' = sizeRead
      BY <1>1, <2>3 DEF ReadEntry
    <3> QED
      BY <1>0, <2>2, <3>1 DEF BaseInv, TypeOK, CursorInv, HeapInv
  <2>4. CASE Len(dirEntry) # MAXENT
    <3>1. /\ dirEntry' = Append(dirEntry, entry) /\ heap' = heap + 1
          /\ sizeRead' = sizeRead + entry.rec_len /\ pc' = pc /\ ended' = ended
      BY <1>1, <2>4 DEF ReadEntry, Passed
    <3>2. sizeRead' \in Nat
      <4>1. entry.rec_len \in Nat
        BY <2>1 DEF Entry
      <4> HIDE DEF entry
      <4> QED
        BY <1>0, <3>1, <4>1
    <3>3. dirEntry' \in Seq(Entry) /\ Len(dirEntry') = Len(dirEntry) + 1
      BY <1>0, <2>1, <3>1
    <3>4. TypeOK'
      <4> HIDE DEF entry
      <4>1. Len(dirEntry') <= MAXENT /\ heap' \in 0 .. Len(dirEntry')
        BY <1>0, <2>4, <3>1, <3>3
      <4> QED
        BY <1>0, <2>2, <3>1, <3>2, <3>3, <4>1 DEF TypeOK
    <3>5. CursorInv'
      <4>1. Blocks' = Blocks /\ i' \in 0 .. Blocks /\ i' # Blocks
        BY <1>d, <2>1, <2>2 DEF Blocks
      <4>2. sizeRead' \in (DOMAIN dir'.blocks[i' + 1]) \cup {BLOCK}
        BY <2>1, <2>2, <3>1
      <4> QED
        BY <4>1, <4>2 DEF CursorInv
    <3>6. HeapInv'
      BY <1>0, <2>2, <3>1, <3>3 DEF HeapInv
    <3> QED
      BY <3>4, <3>5, <3>6 DEF BaseInv
  <2> QED
    BY <2>3, <2>4
<1>2. CASE NextBlock
  <2>1. /\ pc = "scan" /\ pc' = pc /\ i < BlksLeft /\ i' = i + 1 /\ sizeRead' = 0
        /\ UNCHANGED <<dir, lines, dirEntry, heap, ended>>
    BY <1>2 DEF NextBlock, MoreBlocks
  <2>2. TypeOK'
    BY <1>0, <2>1 DEF TypeOK
  <2>3. CursorInv'
    <3>1. i' \in 0 .. Blocks
      BY <1>0, <1>d, <2>1
    <3>2. i' < Blocks => 0 \in DOMAIN dir.blocks[i' + 1]
      <4>1. \A n \in 1 .. Blocks : 0 \in DOMAIN dir.blocks[n]
        BY <1>d DEF EntriesFill
      <4>2. i' < Blocks => i' + 1 \in 1 .. Blocks
        BY <1>0, <1>d, <2>1
      <4> QED
        BY <4>1, <4>2
    <3>3. Blocks' = Blocks
      BY <2>1 DEF Blocks
    <3> QED
      BY <2>1, <3>1, <3>2, <3>3 DEF CursorInv
  <2>4. HeapInv'
    BY <1>0, <2>1 DEF HeapInv
  <2> QED
    BY <2>2, <2>3, <2>4 DEF BaseInv
<1>3. CASE Sort
  <2>1. PICK f \in Bijection(DOMAIN dirEntry, DOMAIN dirEntry) :
          dirEntry' = [n \in DOMAIN dirEntry |-> dirEntry[f[n]]]
    BY <1>3 DEF Sort
  <2>2. /\ pc = "scan" /\ pc' = "list" /\ i' = 0
        /\ UNCHANGED <<dir, lines, sizeRead, heap, ended>>
    BY <1>3 DEF Sort
  <2>3. dirEntry' \in Seq(Entry) /\ Len(dirEntry') = Len(dirEntry)
    <3>1. DOMAIN dirEntry = 1 .. Len(dirEntry)
      BY <1>0
    <3>2. \A n \in DOMAIN dirEntry : f[n] \in DOMAIN dirEntry
      BY DEF Bijection, Surjection
    <3>3. \A n \in DOMAIN dirEntry : dirEntry[f[n]] \in Entry
      BY <1>0, <3>2
    <3>4. dirEntry' \in [1 .. Len(dirEntry) -> Entry]
      BY <2>1, <3>1, <3>3
    <3> QED
      BY <1>0, <3>4
  <2>4. TypeOK' /\ CursorInv'
    <3>1. CursorInv'
      BY <2>2 DEF CursorInv
    <3>2. 0 \in Nat /\ "list" \in {"scan", "list", "end", "undefined"}
      OBVIOUS
    <3> QED
      BY <1>0, <2>2, <2>3, <3>1, <3>2 DEF TypeOK
  <2>5. HeapInv'
    BY <1>0, <2>2, <2>3 DEF HeapInv
  <2> QED
    BY <2>4, <2>5 DEF BaseInv
<1>4. CASE ListEntry
  <2>1. pc = "list" /\ i < Len(dirEntry) /\ UNCHANGED <<dir, sizeRead, dirEntry>>
    BY <1>4 DEF ListEntry
  <2>2. \/ pc' = "undefined" /\ ended' = TRUE /\ UNCHANGED <<i, heap>>
        \/ heap' = heap - 1 /\ i' = i + 1 /\ UNCHANGED <<pc, ended>>
    BY <1>4 DEF ListEntry, Freed
  <2>3. heap = Len(dirEntry) - i
    BY <1>0, <2>1 DEF HeapInv
  <2>4. TypeOK' /\ CursorInv'
    <3>1. i' \in Nat /\ heap' \in 0 .. Len(dirEntry)
      <4>1. (i' = i /\ heap' = heap) \/ (heap' = heap - 1 /\ i' = i + 1)
        BY <2>2
      <4> QED
        BY <1>0, <2>1, <2>3, <4>1
    <3>3. ended' \in BOOLEAN
      BY Zenon, <1>0, <2>2
    <3>2. pc' \in {"list", "undefined"}
      BY <2>1, <2>2
    <3> QED
      BY <1>0, <2>1, <3>1, <3>2, <3>3 DEF TypeOK, CursorInv
  <2>5. HeapInv'
    BY <1>0, <2>1, <2>2, <2>3 DEF HeapInv
  <2> QED
    BY <2>4, <2>5 DEF BaseInv
<1>5. CASE EndList
  <2>1. /\ pc = "list" /\ i = Len(dirEntry) /\ pc' = "end" /\ ended' = TRUE
        /\ UNCHANGED <<dir, i, sizeRead, dirEntry, heap>>
    BY <1>5 DEF EndList
  <2>2. heap' = 0
    BY <1>0, <2>1 DEF HeapInv
  <2> QED
    BY <1>0, <2>1, <2>2 DEF BaseInv, TypeOK, CursorInv, HeapInv
<1>6. CASE UNCHANGED vars
  BY <1>0, <1>6 DEF vars, BaseInv, TypeOK, CursorInv, HeapInv, Blocks
<1> QED
  BY <1>1, <1>2, <1>3, <1>4, <1>5, <1>6 DEF Next

LEMMA BaseAlways == Spec => []BaseInv
  BY BaseInitial, BaseStep, PTL DEF Spec

(***************************************************************************)
(* The scan reads entries only, where they begin, and stores no more of    *)
(* them than dirEntry holds, for every directory of ext2                   *)
(* (program4.c:301-307).                                                   *)
(***************************************************************************)
THEOREM ListingTypeCorrect == Spec => []TypeOK
<1>1. BaseInv => TypeOK
  BY DEF BaseInv
<1> QED
  BY <1>1, BaseAlways, PTL

(***************************************************************************)
(* Whenever the listing ends, every entry the scan copied has been freed   *)
(* once (program4.c:304, 109).                                             *)
(***************************************************************************)
THEOREM ListingFreesAll == Spec => []NothingLeaks
<1>1. BaseInv => NothingLeaks
  BY DEF BaseInv, HeapInv, NothingLeaks
<1> QED
  BY <1>1, BaseAlways, PTL

-----------------------------------------------------------------------------
(* Copies *)

\* An entry more, from a place that was not among those copied.
LEMMA CopyAppend ==
  ASSUME NEW d, NEW s \in Seq(Entry), NEW P, NEW p, p \notin P, Copies(d, s, P),
         At(d, p) \in Entry
  PROVE  Copies(d, Append(s, At(d, p)), P \cup {p})
<1> DEFINE t == Append(s, At(d, p))
           n == Len(s) + 1
<1>1. PICK f \in Bijection(DOMAIN s, P) : \A k \in DOMAIN s : s[k] = At(d, f[k])
  BY DEF Copies
<1>2. /\ Len(s) \in Nat /\ DOMAIN s = 1 .. Len(s) /\ DOMAIN t = 1 .. n
      /\ t[n] = At(d, p) /\ \A k \in 1 .. Len(s) : t[k] = s[k]
  OBVIOUS
<1>3. /\ f \in [1 .. Len(s) -> P]
      /\ \A a, b \in 1 .. Len(s) : f[a] = f[b] => a = b
      /\ \A q \in P : \E a \in 1 .. Len(s) : f[a] = q
  BY <1>2 DEF Bijection, Injection, Surjection, IsInjective
<1> DEFINE g == [k \in 1 .. n |-> IF k = n THEN p ELSE f[k]]
<1> HIDE DEF t
<1>4. \A k \in 1 .. n : k = n \/ k \in 1 .. Len(s)
  BY <1>2
<1>5. /\ n \in 1 .. n /\ n \notin 1 .. Len(s)
      /\ \A k \in 1 .. Len(s) : k \in 1 .. n /\ k # n
  BY <1>2
<1> HIDE DEF n
<1>6. /\ g[n] = p
      /\ \A k \in 1 .. Len(s) : g[k] = f[k] /\ g[k] \in P
  BY <1>3, <1>5
<1>7. g \in [1 .. n -> P \cup {p}]
  BY <1>3, <1>4
<1> HIDE DEF g
<1>8. \A a, b \in 1 .. n : g[a] = g[b] => a = b
  BY <1>3, <1>4, <1>6
<1>9. \A q \in P \cup {p} : \E a \in 1 .. n : g[a] = q
  BY <1>3, <1>5, <1>6
<1>10. g \in Bijection(DOMAIN t, P \cup {p})
  BY <1>2, <1>7, <1>8, <1>9 DEF Bijection, Injection, Surjection, IsInjective
<1>11. \A k \in DOMAIN t : t[k] = At(d, g[k])
  BY <1>1, <1>2, <1>4, <1>6
<1> QED
  BY <1>10, <1>11 DEF Copies, t

\* Another order of the same entries.
LEMMA CopyReorder ==
  ASSUME NEW d, NEW s \in Seq(Entry), NEW P, Copies(d, s, P),
         NEW r \in Bijection(DOMAIN s, DOMAIN s)
  PROVE  Copies(d, [k \in DOMAIN s |-> s[r[k]]], P)
<1> DEFINE t == [k \in DOMAIN s |-> s[r[k]]]
           D == DOMAIN s
<1>1. PICK f \in Bijection(D, P) : \A k \in D : s[k] = At(d, f[k])
  BY DEF Copies
<1>2. /\ f \in [D -> P] /\ r \in [D -> D]
      /\ \A a, b \in D : f[a] = f[b] => a = b
      /\ \A a, b \in D : r[a] = r[b] => a = b
      /\ \A q \in P : \E a \in D : f[a] = q
      /\ \A q \in D : \E a \in D : r[a] = q
  BY DEF Bijection, Injection, Surjection, IsInjective
<1>3. DOMAIN t = D /\ \A k \in D : t[k] = s[r[k]]
  OBVIOUS
<1> DEFINE g == [k \in D |-> f[r[k]]]
<1>4. /\ \A k \in D : g[k] = f[r[k]]
      /\ g \in [D -> P]
  BY <1>2
<1> HIDE DEF t, g, D
<1>5. \A a, b \in D : g[a] = g[b] => a = b
  BY <1>2, <1>4
<1>6. \A q \in P : \E a \in D : g[a] = q
  BY <1>2, <1>4
<1>7. g \in Bijection(D, P)
  BY <1>4, <1>5, <1>6 DEF Bijection, Injection, Surjection, IsInjective
<1>8. \A k \in D : t[k] = At(d, g[k])
  BY <1>1, <1>2, <1>3, <1>4
<1>9. Copies(d, t, P)
  BY <1>3, <1>7, <1>8 DEF Copies
<1> QED
  BY <1>9 DEF t, D

\* A copy is as long as there are places.
LEMMA CopyLength ==
  ASSUME NEW d, NEW s \in Seq(Entry), NEW P, IsFiniteSet(P), Copies(d, s, P)
  PROVE  Len(s) = Cardinality(P)
<1>1. PICK f \in Bijection(1 .. Len(s), P) : TRUE
  BY DEF Copies
<1>2. ExistsBijection(1 .. Len(s), P)
  BY <1>1 DEF ExistsBijection
<1>3. IsFiniteSet(1 .. Len(s)) /\ Cardinality(1 .. Len(s)) = Len(s)
  BY FS_Interval
<1> QED
  BY <1>2, <1>3, FS_Bijection

-----------------------------------------------------------------------------
(* The scan *)

LEMMA BeforeFinite ==
  ASSUME dir \in Dirs, NEW n, NEW offset
  PROVE  IsFiniteSet(Before(dir, n, offset))
  BY PlacesFinite, FS_Subset DEF Before

LEMMA PlaceParts ==
  ASSUME dir \in Dirs, NEW p \in Places(dir)
  PROVE  /\ p = <<p[1], p[2]>> /\ p[1] \in 1 .. Blocks /\ p[2] \in 0 .. BLOCK - 1
         /\ p[2] \in DOMAIN dir.blocks[p[1]]
  BY DirectoryShape DEF Places

\* An entry copied adds its place to those before the cursor.
LEMMA CursorPassesEntry ==
  ASSUME BaseInv, ReadEntry
  PROVE  LET place == <<i + 1, sizeRead>>
             after == sizeRead + dir.blocks[i + 1][sizeRead].rec_len
         IN  /\ place \notin Before(dir, i, sizeRead)
             /\ Before(dir, i, after) = Before(dir, i, sizeRead) \cup {place}
<1> DEFINE place == <<i + 1, sizeRead>>
           after == sizeRead + dir.blocks[i + 1][sizeRead].rec_len
<1>1. /\ dir \in Dirs /\ i \in Nat /\ sizeRead \in Nat /\ BLOCK \in Nat /\ Blocks \in Nat
  BY DirAssumption, DirectoryShape DEF BaseInv, TypeOK
<1>2. /\ place \in Places(dir)
      /\ \A q \in DOMAIN dir.blocks[i + 1] : sizeRead < q => after <= q
  BY EntryRead
<1>3. after \in Nat /\ after > sizeRead
  <2>1. dir.blocks[i + 1][sizeRead].rec_len \in Nat /\ dir.blocks[i + 1][sizeRead].rec_len > 0
    BY EntryRead DEF Entry
  <2> QED
    BY <1>1, <2>1
<1>4. place[1] = i + 1 /\ place[2] = sizeRead
  OBVIOUS
<1> HIDE DEF after
<1>5. place \notin Before(dir, i, sizeRead)
  BY <1>1, <1>4 DEF Before
<1>6. place \in Before(dir, i, after)
  BY <1>2, <1>3, <1>4 DEF Before
<1>7. ASSUME NEW p \in Before(dir, i, sizeRead)
      PROVE  p \in Before(dir, i, after)
  <2>1. p \in Places(dir)
    BY DEF Before
  <2>2. p[1] \in Nat /\ p[2] \in Nat
    BY <1>1, <2>1, PlaceParts
  <2> QED
    BY <1>1, <1>3, <2>1, <2>2 DEF Before
<1>8. ASSUME NEW p \in Before(dir, i, after), p \notin Before(dir, i, sizeRead)
      PROVE  p = place
  <2>1. p \in Places(dir)
    BY DEF Before
  <2>2. /\ p = <<p[1], p[2]>> /\ p[1] \in Nat /\ p[2] \in Nat
        /\ p[2] \in DOMAIN dir.blocks[p[1]]
    BY <1>1, <2>1, PlaceParts
  <2>3. p[1] = i + 1 /\ p[2] < after /\ ~(p[2] < sizeRead)
    BY <1>8, <2>1, <2>2, <1>1 DEF Before
  <2>4. ~(sizeRead < p[2])
    BY <1>2, <1>1, <1>3, <2>2, <2>3
  <2>5. p[2] = sizeRead
    BY <1>1, <2>2, <2>3, <2>4
  <2> QED
    BY <2>2, <2>3, <2>5
<1>9. Before(dir, i, after) = Before(dir, i, sizeRead) \cup {place}
  BY <1>6, <1>7, <1>8
<1> QED
  BY <1>5, <1>9 DEF after

\* The end of a block is the beginning of the next one.
LEMMA CursorPassesBlock ==
  ASSUME BaseInv, NextBlock
  PROVE  Before(dir, i + 1, 0) = Before(dir, i, sizeRead)
<1>1. dir \in Dirs /\ i \in Nat /\ sizeRead \in Nat /\ BLOCK \in Nat /\ sizeRead >= BLOCK
  BY DirAssumption DEF BaseInv, TypeOK, NextBlock
<1>2. ASSUME NEW p \in Places(dir)
      PROVE  p[1] <= i + 1 \/ (p[1] = i + 1 + 1 /\ p[2] < 0)
               <=> p[1] <= i \/ (p[1] = i + 1 /\ p[2] < sizeRead)
  <2>1. p[1] \in Nat /\ p[2] \in Nat /\ p[2] < BLOCK
    BY <1>1, PlaceParts, DirectoryShape
  <2> QED
    BY <1>1, <2>1
<1> QED
  BY <1>2 DEF Before

\* When the loop over the blocks ends, every place is before the cursor.
LEMMA ScanComplete ==
  ASSUME BaseInv, Listable(dir), pc = "scan", ~MoreBlocks
  PROVE  Before(dir, i, sizeRead) = Places(dir)
<1>1. /\ dir \in Dirs /\ i \in 0 .. Blocks /\ Blocks \in Nat /\ NDIR \in Nat
      /\ MOD8 \in Nat \ {0}
  BY DirectoryShape, DirAssumption DEF BaseInv, TypeOK, CursorInv
<1>2. BlksLeft = Blocks /\ Blocks <= NDIR
  <2>1. Blocks < MOD8 /\ Blocks <= NDIR
    BY DEF Listable, Blocks
  <2> QED
    BY <1>1, <2>1, Remainder DEF BlksLeft, Blocks
<1>3. i = Blocks
  BY <1>1, <1>2 DEF MoreBlocks
<1>4. \A p \in Places(dir) : p[1] <= i
  BY <1>1, <1>3, PlaceParts
<1> QED
  BY <1>4 DEF Before

\* A directory that fits dirEntry leaves room for each of its entries.
LEMMA RoomForEntry ==
  ASSUME BaseInv, ScanInv, Listable(dir), ReadEntry
  PROVE  Len(dirEntry) # MAXENT
<1> DEFINE place == <<i + 1, sizeRead>>
           passed == Before(dir, i, sizeRead)
<1>1. dir \in Dirs /\ pc = "scan" /\ dirEntry \in Seq(Entry) /\ MAXENT \in Nat
  BY DirAssumption DEF BaseInv, TypeOK, ReadEntry
<1>2. IsFiniteSet(passed) /\ IsFiniteSet(Places(dir))
  BY <1>1, BeforeFinite, PlacesFinite
<1>3. Len(dirEntry) = Cardinality(passed)
  BY <1>1, <1>2, CopyLength DEF ScanInv
<1>4. place \notin passed /\ place \in Places(dir) /\ passed \subseteq Places(dir)
  BY CursorPassesEntry, EntryRead DEF Before
<1> HIDE DEF place, passed
<1>5. Cardinality(passed \cup {place}) = Cardinality(passed) + 1
  BY <1>2, <1>4, FS_AddElement
<1>6. Cardinality(passed \cup {place}) <= Cardinality(Places(dir))
  <2>1. passed \cup {place} \in SUBSET Places(dir)
    BY <1>4
  <2> QED
    BY <1>2, <2>1, FS_Subset
<1>7. Cardinality(Places(dir)) <= MAXENT
  BY DEF Listable
<1>8. Cardinality(passed) \in Nat /\ Cardinality(Places(dir)) \in Nat
  BY <1>2, FS_CardinalityType
<1> QED
  BY <1>1, <1>3, <1>5, <1>6, <1>7, <1>8

-----------------------------------------------------------------------------
(* The listing *)

LEMMA LiveFinite ==
  ASSUME dir \in Dirs
  PROVE  IsFiniteSet(Live)
<1> DEFINE used == {p \in Places(dir) : At(dir, p).inode # 0}
           g == [p \in used |-> At(dir, p)]
<1>1. IsFiniteSet(used)
  BY PlacesFinite, FS_Subset
<1>2. \A p \in used : p \in Places(dir) /\ g[p] = At(dir, p) /\ g[p] \in Live
  BY LiveAtPlaces
<1>3. \A e \in Live : \E p \in used : g[p] = e
  BY LiveAtPlaces
<1>4. g \in Surjection(used, Live)
  BY <1>2, <1>3 DEF Surjection
<1> QED
  BY <1>1, <1>4, FS_Surjection

\* The copy of a directory has each file once, under a name of its own.
LEMMA CopyOfFiles ==
  ASSUME dir \in Dirs, Listable(dir), NEW s \in Seq(Entry), Copies(dir, s, Places(dir))
  PROVE  /\ \A k \in 1 .. Len(s) : s[k].inode # 0 => s[k] \in Live
         /\ \A e \in Live : \E k \in 1 .. Len(s) : s[k] = e
         /\ \A k, l \in 1 .. Len(s) :
              (s[k].inode # 0 /\ s[l].inode # 0 /\ k # l) => s[k].name # s[l].name
<1>0. DOMAIN s = 1 .. Len(s)
  OBVIOUS
<1> DEFINE D == 1 .. Len(s)
<1>1. PICK f \in Bijection(D, Places(dir)) : \A k \in D : s[k] = At(dir, f[k])
  BY <1>0 DEF Copies
<1>2. /\ \A k \in D : f[k] \in Places(dir)
      /\ \A k, l \in D : f[k] = f[l] => k = l
      /\ \A p \in Places(dir) : \E k \in D : f[k] = p
  BY DEF Bijection, Injection, Surjection, IsInjective
<1> HIDE DEF D
<1>3. \A k \in D : s[k].inode # 0 => s[k] \in Live
  BY <1>1, <1>2, LiveAtPlaces
<1>4. \A e \in Live : \E k \in D : s[k] = e
  BY <1>1, <1>2, LiveAtPlaces
<1>5. \A k, l \in D :
        (s[k].inode # 0 /\ s[l].inode # 0 /\ k # l) => s[k].name # s[l].name
  <2>1. \A p, q \in Places(dir) :
          (At(dir, p).inode # 0 /\ At(dir, q).inode # 0 /\ p # q) => At(dir, p).name # At(dir, q).name
    BY DEF Listable
  <2> QED
    BY <1>1, <1>2, <2>1
<1> QED
  BY <1>3, <1>4, <1>5 DEF D

\* Of a sorted copy, the files listed so far are those of smaller names than
\* the next.
LEMMA PrintedAreSmaller ==
  ASSUME BaseInv, ListInv, Listable(dir), pc = "list", i < Len(dirEntry),
         dirEntry[i + 1].inode # 0
  PROVE  /\ dirEntry[i + 1] \in Live /\ dirEntry[i + 1] \notin Printed
         /\ {d \in Live : d.name < dirEntry[i + 1].name} = Printed
<1> DEFINE e == dirEntry[i + 1]
           D == 1 .. Len(dirEntry)
<1>1. dir \in Dirs /\ i \in Nat /\ dirEntry \in Seq(Entry) /\ Len(dirEntry) \in Nat
  BY DEF BaseInv, TypeOK
<1>2. /\ i + 1 \in D /\ i + 1 \notin 1 .. i
      /\ \A k \in 1 .. i : k \in D /\ k < i + 1
      /\ \A k \in D : k \in 1 .. i \/ k = i + 1 \/ i + 1 < k
  BY <1>1
<1>3. \A k \in D : dirEntry[k] \in Entry /\ dirEntry[k].name \in Nat
  <2>1. \A k \in D : dirEntry[k] \in Entry
    BY <1>1
  <2>2. \A d \in Entry : d.name \in Nat
    BY DEF Entry
  <2> QED
    BY <2>1, <2>2
<1>4. \A k, l \in D : k < l => dirEntry[k].name <= dirEntry[l].name
  <2>1. DOMAIN dirEntry = D
    BY <1>1
  <2> QED
    BY <2>1 DEF ListInv, Sorted
<1>5. /\ \A k \in D : dirEntry[k].inode # 0 => dirEntry[k] \in Live
      /\ \A d \in Live : \E k \in D : dirEntry[k] = d
      /\ \A k, l \in D :
           (dirEntry[k].inode # 0 /\ dirEntry[l].inode # 0 /\ k # l) => dirEntry[k].name # dirEntry[l].name
  BY <1>1, CopyOfFiles DEF ListInv
<1>6. \A d \in Live : d.inode # 0
  BY <1>1, LiveAtPlaces
<1>7. e \in Live
  BY <1>2, <1>5
<1> HIDE DEF D
<1>8. \A k \in 1 .. i : dirEntry[k].inode # 0 => dirEntry[k].name # e.name
  BY <1>2, <1>5
<1>9. e \notin Printed
  BY <1>8 DEF Printed
<1>10. ASSUME NEW d \in Printed
       PROVE  d \in Live /\ d.name < e.name
  <2>1. PICK k \in 1 .. i : dirEntry[k] = d
    BY DEF Printed
  <2>2. d \in Live
    BY DEF Printed
  <2>3. d.name \in Nat /\ e.name \in Nat /\ d.name <= e.name /\ d.name # e.name
    BY <1>2, <1>3, <1>4, <1>6, <1>8, <2>1, <2>2
  <2> QED
    BY <2>2, <2>3
<1>11. ASSUME NEW d \in Live, d.name < e.name
       PROVE  d \in Printed
  <2>1. PICK k \in D : dirEntry[k] = d
    BY <1>5
  <2>2. d.name \in Nat /\ e.name \in Nat
    BY <1>2, <1>3, <2>1
  <2>3. ~(i + 1 < k) /\ k # i + 1
    BY <1>2, <1>4, <1>11, <2>1, <2>2
  <2> QED
    BY <1>2, <2>1, <2>3 DEF Printed
<1> QED
  BY <1>7, <1>9, <1>10, <1>11

LEMMA PrintedFinite ==
  ASSUME dir \in Dirs
  PROVE  IsFiniteSet(Printed) /\ Cardinality(Printed) \in Nat
<1>1. Printed \in SUBSET Live
  BY DEF Printed
<1> QED
  BY <1>1, LiveFinite, FS_Subset, FS_CardinalityType

\* One more entry passed, one more file printed if it is in use.
LEMMA PrintedGrows ==
  ASSUME BaseInv, ListInv, Listable(dir), pc = "list", i < Len(dirEntry),
         i' = i + 1, UNCHANGED <<dir, dirEntry>>
  PROVE  /\ dirEntry[i + 1].inode = 0 => Printed' = Printed
         /\ dirEntry[i + 1].inode # 0 =>
              Cardinality(Printed') = Cardinality(Printed) + 1
<1> DEFINE e == dirEntry[i + 1]
<1>1. dir \in Dirs /\ i \in Nat /\ Live' = Live
  BY DEF BaseInv, TypeOK, Live
<1>2. \A k : k \in 1 .. i + 1 <=> k \in 1 .. i \/ k = i + 1
  BY <1>1
<1>3. Printed' = {d \in Live : d \in Printed \/ d = e}
  BY <1>1, <1>2 DEF Printed
<1>4. \A d \in Live : d.inode # 0
  BY <1>1, LiveAtPlaces
<1>5. Printed \subseteq Live
  BY DEF Printed
<1>6. CASE e.inode = 0
  BY <1>3, <1>4, <1>5, <1>6
<1>7. CASE e.inode # 0
  <2>1. e \in Live /\ e \notin Printed
    BY <1>7, PrintedAreSmaller
  <2>2. Printed' = Printed \cup {e}
    BY <1>3, <1>5, <2>1
  <2> HIDE DEF e
  <2>3. Cardinality(Printed \cup {e}) = Cardinality(Printed) + 1
    BY <1>1, <2>1, PrintedFinite, FS_AddElement
  <2> QED
    BY <1>7, <2>2, <2>3 DEF e
<1> QED
  BY <1>6, <1>7

-----------------------------------------------------------------------------
(* The listing invariant *)

LEMMA ListingInitial == Init => IInv
<1> SUFFICES ASSUME Init PROVE IInv
  OBVIOUS
<1>1. dir \in Dirs /\ i = 0 /\ sizeRead = 0 /\ dirEntry = <<>> /\ pc = "scan"
      /\ lines = <<>> /\ ~ended
  BY Zenon DEF Init, ListingInit
<1>2. Before(dir, 0, 0) = {}
  <2>1. \A p \in Places(dir) : ~(p[1] <= 0) /\ ~(p[2] < 0)
    BY <1>1, PlaceParts, DirectoryShape, DirAssumption
  <2> QED
    BY <2>1 DEF Before
<1>3. Copies(dir, <<>>, {})
  <2>1. <<>> \in Bijection({}, {})
    BY DEF Bijection, Injection, Surjection, IsInjective
  <2>2. DOMAIN <<>> = {}
    OBVIOUS
  <2> QED
    BY <2>1, <2>2 DEF Copies
<1>4. ScanInv
  BY <1>1, <1>2, <1>3 DEF ScanInv
<1> QED
  BY <1>1, <1>4, BaseInitial DEF IInv, ListInv, EndInv

LEMMA ReadEntryStep ==
  ASSUME IInv, Listable(dir), ReadEntry
  PROVE  ScanInv' /\ ListInv' /\ EndInv' /\ UNCHANGED listingVars
<1> DEFINE entry == dir.blocks[i + 1][sizeRead]
           place == <<i + 1, sizeRead>>
<1>1. BaseInv /\ ScanInv /\ pc = "scan" /\ dir \in Dirs /\ dirEntry \in Seq(Entry)
  BY DEF IInv, BaseInv, TypeOK, ReadEntry
<1>2. Len(dirEntry) # MAXENT
  BY <1>1, RoomForEntry
<1>3. /\ dirEntry' = Append(dirEntry, entry) /\ sizeRead' = sizeRead + entry.rec_len
      /\ UNCHANGED <<dir, lines, pc, i, ended>>
  BY <1>2 DEF ReadEntry, Passed
<1>4. /\ place \notin Before(dir, i, sizeRead) /\ place \in Places(dir)
      /\ Before(dir, i, sizeRead + entry.rec_len) = Before(dir, i, sizeRead) \cup {place}
  BY <1>1, CursorPassesEntry, EntryRead
<1>5. entry = At(dir, place) /\ At(dir, place) \in Entry
  BY <1>1, <1>4, EntryAt DEF At
<1>6. Copies(dir, dirEntry, Before(dir, i, sizeRead))
  BY <1>1 DEF ScanInv
<1> HIDE DEF entry, place
<1>7. Copies(dir, Append(dirEntry, At(dir, place)), Before(dir, i, sizeRead) \cup {place})
  BY <1>1, <1>4, <1>5, <1>6, CopyAppend
<1>8. Copies(dir', dirEntry', Before(dir', i', sizeRead'))
  BY <1>3, <1>4, <1>5, <1>7
<1> QED
  BY <1>1, <1>3, <1>8 DEF ScanInv, ListInv, EndInv, listingVars

LEMMA NextBlockStep ==
  ASSUME IInv, NextBlock
  PROVE  ScanInv' /\ ListInv' /\ EndInv' /\ UNCHANGED listingVars
<1>1. BaseInv /\ ScanInv /\ pc = "scan"
  BY DEF IInv, NextBlock
<1>2. i' = i + 1 /\ sizeRead' = 0 /\ UNCHANGED <<dir, lines, pc, dirEntry, ended>>
  BY DEF NextBlock
<1>3. Copies(dir', dirEntry', Before(dir', i', sizeRead'))
  BY <1>1, <1>2, CursorPassesBlock DEF ScanInv
<1> QED
  BY <1>1, <1>2, <1>3 DEF ScanInv, ListInv, EndInv, listingVars

LEMMA SortStep ==
  ASSUME IInv, Listable(dir), Sort
  PROVE  ScanInv' /\ ListInv' /\ EndInv' /\ UNCHANGED listingVars
<1>1. /\ BaseInv /\ ScanInv /\ pc = "scan" /\ ~MoreBlocks /\ dir \in Dirs
      /\ dirEntry \in Seq(Entry)
  BY DEF IInv, BaseInv, TypeOK, Sort
<1>2. PICK r \in Bijection(DOMAIN dirEntry, DOMAIN dirEntry) :
        dirEntry' = [n \in DOMAIN dirEntry |-> dirEntry[r[n]]]
  BY DEF Sort
<1>3. pc' = "list" /\ i' = 0 /\ Sorted(dirEntry') /\ UNCHANGED <<dir, lines, ended>>
  BY DEF Sort
<1>4. Copies(dir, dirEntry, Places(dir)) /\ lines = <<>> /\ ~ended
  BY <1>1, ScanComplete DEF ScanInv
<1>5. Copies(dir', dirEntry', Places(dir'))
  BY <1>1, <1>2, <1>3, <1>4, CopyReorder
<1>6. Printed' = {}
  BY <1>3 DEF Printed
<1>7. lines' \in Seq({Line(e) : e \in Entry}) /\ Len(lines') = Cardinality(Printed')
  BY <1>3, <1>4, <1>6, FS_EmptySet
<1>8. ListInv'
  <2>1. ({Line(e) : e \in Entry})' = {Line(e) : e \in Entry}
    BY DEF Line
  <2> QED
    BY <1>3, <1>4, <1>5, <1>7, <2>1 DEF ListInv
<1> QED
  BY <1>3, <1>8 DEF ScanInv, EndInv, listingVars

\* A line is printed for an entry in use: the listing's next one.
LEMMA ListEntryStep ==
  ASSUME IInv, Listable(dir), ListEntry
  PROVE  ScanInv' /\ ListInv' /\ EndInv' /\ [ListNext]_listingVars
<1> DEFINE e == dirEntry[i + 1]
           Lines == {Line(d) : d \in Entry}
<1>1. /\ BaseInv /\ ListInv /\ pc = "list" /\ i < Len(dirEntry) /\ dir \in Dirs
      /\ i \in Nat /\ dirEntry \in Seq(Entry)
  BY DEF IInv, BaseInv, TypeOK, ListEntry
<1>2. ~(NameLen(e) >= NAMEBUF)
  BY DirAssumption DEF Listable, NameLen
<1>3. /\ lines' = (IF Shown(e) THEN Append(lines, Line(e)) ELSE lines)
      /\ i' = i + 1 /\ UNCHANGED <<dir, pc, dirEntry, ended>>
  BY <1>2 DEF ListEntry
<1>4. /\ lines \in Seq(Lines) /\ Len(lines) = Cardinality(Printed) /\ ~ended
      /\ Copies(dir, dirEntry, Places(dir)) /\ Sorted(dirEntry)
  BY <1>1 DEF ListInv
<1>5. e \in Entry /\ Line(e) \in Lines
  BY <1>1
<1>6. /\ e.inode = 0 => Printed' = Printed
      /\ e.inode # 0 => Cardinality(Printed') = Cardinality(Printed) + 1
  BY <1>1, <1>3, PrintedGrows
<1>7. e.inode # 0 =>
        e \in Live /\ Cardinality({d \in Live : d.name < e.name}) = Len(lines)
  BY <1>1, <1>4, PrintedAreSmaller
<1> HIDE DEF e
<1>8. lines' \in Seq(Lines) /\ Len(lines') = Cardinality(Printed')
  <2> HIDE DEF Lines
  <2>1. CASE e.inode = 0
    BY <1>3, <1>4, <1>6, <2>1 DEF Shown
  <2>2. CASE e.inode # 0
    <3>1. lines' = Append(lines, Line(e))
      BY <1>3, <2>2 DEF Shown
    <3>2. lines' \in Seq(Lines) /\ Len(lines') = Len(lines) + 1
      BY <1>4, <1>5, <3>1
    <3> QED
      BY <1>4, <1>6, <2>2, <3>2
  <2> QED
    BY <2>1, <2>2
<1>9. ListInv'
  <2>1. Lines' = Lines
    BY DEF Line
  <2>2. Copies(dir', dirEntry', Places(dir')) /\ Sorted(dirEntry') /\ ~ended'
    BY <1>3, <1>4
  <2> QED
    BY <1>8, <2>1, <2>2 DEF ListInv
<1>10. [ListNext]_listingVars
  <2>1. CASE e.inode = 0
    BY <1>3, <2>1 DEF Shown, listingVars
  <2>2. CASE e.inode # 0
    BY <1>3, <1>4, <1>7, <2>2 DEF Shown, ListNext
  <2> QED
    BY <2>1, <2>2
<1> QED
  BY <1>1, <1>3, <1>9, <1>10 DEF ScanInv, EndInv

LEMMA EndListStep ==
  ASSUME IInv, Listable(dir), EndList
  PROVE  ScanInv' /\ ListInv' /\ EndInv' /\ Finish
<1>1. /\ ListInv /\ pc = "list" /\ i = Len(dirEntry) /\ dir \in Dirs
      /\ dirEntry \in Seq(Entry)
  BY DEF IInv, BaseInv, TypeOK, EndList
<1>2. pc' = "end" /\ ended' = TRUE /\ UNCHANGED <<dir, lines>>
  BY DEF EndList
<1>3. Copies(dir, dirEntry, Places(dir)) /\ ~ended /\ Len(lines) = Cardinality(Printed)
  BY <1>1 DEF ListInv
<1>4. Printed = Live
  BY <1>1, <1>3, CopyOfFiles DEF Printed
<1> QED
  BY <1>2, <1>3, <1>4 DEF ScanInv, ListInv, EndInv, Finish

LEMMA ListingStep ==
  ASSUME AllListable, IInv, [Next]_vars
  PROVE  IInv' /\ [ListNext \/ Finish]_listingVars
<1>1. BaseInv' /\ Listable(dir)
  BY BaseStep DEF IInv, AllListable, BaseInv, TypeOK
<1>2. CASE ReadEntry
  BY <1>1, <1>2, ReadEntryStep DEF IInv
<1>3. CASE NextBlock
  BY <1>1, <1>3, NextBlockStep DEF IInv
<1>4. CASE Sort
  BY <1>1, <1>4, SortStep DEF IInv
<1>5. CASE ListEntry
  BY <1>1, <1>5, ListEntryStep DEF IInv
<1>6. CASE EndList
  BY <1>1, <1>6, EndListStep DEF IInv
<1>7. CASE UNCHANGED vars
  <2>1. UNCHANGED listingVars /\ UNCHANGED <<pc, i, sizeRead, dirEntry, heap>>
    BY <1>7 DEF vars, listingVars
  <2>2. ScanInv' /\ EndInv'
    BY <2>1 DEF IInv, ScanInv, EndInv, listingVars
  <2>3. Live' = Live /\ ({Line(e) : e \in Entry})' = {Line(e) : e \in Entry}
    BY <2>1 DEF Live, Line, listingVars
  <2>4. Printed' = Printed
    BY <2>1, <2>3 DEF Printed
  <2>5. ListInv'
    BY <2>1, <2>3, <2>4 DEF IInv, ListInv, listingVars
  <2> QED
    BY <1>1, <2>1, <2>2, <2>5 DEF IInv
<1> QED
  BY <1>2, <1>3, <1>4, <1>5, <1>6, <1>7 DEF Next

(***************************************************************************)
(* The directory branch prints a listing: a line for each file and no      *)
(* other, in the order of the names, and it ends after the last one, for   *)
(* every directory that fits its arrays and counters, however its entries  *)
(* cut the blocks, whichever are deleted, and wherever qsort leaves those  *)
(* of one name (program4.c:73-111, 293-333).                               *)
(***************************************************************************)
THEOREM ListingImplemented ==
  ASSUME AllListable
  PROVE  Spec => Lists
<1>1. Init => ListingInit
  BY DEF Init
<1>2. IInv /\ [Next]_vars => IInv' /\ [ListNext \/ Finish]_listingVars
  BY ListingStep
<1> QED
  BY <1>1, <1>2, ListingInitial, PTL DEF Spec, Lists, ListingSpec

=============================================================================
