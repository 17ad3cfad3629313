--------------------------- MODULE Ext2File_proofs ---------------------------
(***************************************************************************)
(* Proofs about the block walk of program4.c.                              *)
(***************************************************************************)
EXTENDS Ext2File, TLAPS

\* The byte at which block n of a file starts.
At(n) == n * BLOCK

\* The first block of the file in row n of the double indirect level.
RowStart(n) == NDIR + PTRS + n * PTRS

\* The first block of the file that the executing loop prints.
Base == CASE pc = "direct" -> 0
          [] pc = "indirect" -> NDIR
          [] OTHER -> RowStart(j)

\* The next block of the file.
Index == IF pc \in Loops THEN Base + i ELSE Base

-----------------------------------------------------------------------------
(* Arithmetic of blocks, halves and rows *)

LEMMA ConstantsTyped ==
  /\ NDIR \in Nat
  /\ PTRS \in Nat /\ PTRS > 0
  /\ HALF \in Nat /\ HALF > 0
  /\ BLOCK \in Nat /\ BLOCK = HALF + HALF
  /\ Reach \in Nat
<1>1. NDIR \in Nat /\ PTRS \in Nat /\ PTRS > 0 /\ HALF \in Nat /\ HALF > 0
  BY FileAssumption
<1>2. BLOCK \in Nat /\ BLOCK = HALF + HALF
  BY <1>1 DEF BLOCK
<1>3. PTRS * PTRS \in Nat
  BY <1>1
<1> QED
  BY <1>1, <1>2, <1>3 DEF Reach

LEMMA TimesMonotone ==
  ASSUME NEW a \in Nat, NEW b \in Nat, NEW c \in Nat, a <= b
  PROVE  a * c <= b * c
<1>1. PICK d \in Nat : b = a + d
  <2>1. b - a \in Nat /\ b = a + (b - a)
    OBVIOUS
  <2> QED
    BY <2>1
<1>2. b * c = a * c + d * c
  BY <1>1
<1>3. a * c \in Nat /\ d * c \in Nat
  OBVIOUS
<1> QED
  BY <1>2, <1>3

LEMMA AtSum ==
  ASSUME NEW a \in Nat, NEW b \in Nat
  PROVE  b * BLOCK \in Nat /\ At(a + b) = At(a) + b * BLOCK
<1>1. ASSUME NEW c \in Nat
      PROVE  (a + b) * c = a * c + b * c /\ b * c \in Nat
  OBVIOUS
<1> QED
  BY <1>1, ConstantsTyped DEF At

LEMMA AtStep ==
  ASSUME NEW n \in Nat
  PROVE  At(n) \in Nat /\ At(n + 1) = At(n) + BLOCK
BY ConstantsTyped DEF At

LEMMA AtZero == At(0) = 0
BY ConstantsTyped DEF At

LEMMA AtMonotone ==
  ASSUME NEW a \in Nat, NEW b \in Nat, a <= b
  PROVE  At(a) <= At(b)
BY ConstantsTyped, TimesMonotone DEF At

\* A block that starts before the end of the file is one of those counted.
LEMMA AtReflects ==
  ASSUME NEW a \in Nat, NEW b \in Nat, At(a) < At(b)
  PROVE  a < b
<1>1. CASE a >= b
  BY <1>1, AtMonotone, AtStep
<1> QED
  BY <1>1

LEMMA Halves ==
  ASSUME NEW n \in Nat
  PROVE  /\ (2 * n) * HALF = At(n)
         /\ (2 * n + 1) * HALF = At(n) + HALF
BY ConstantsTyped DEF At, BLOCK

LEMMA RowSteps ==
  /\ RowStart(0) = NDIR + PTRS
  /\ RowStart(PTRS) = Reach
  /\ \A n \in Nat : /\ RowStart(n) \in Nat
                    /\ RowStart(n + 1) = RowStart(n) + PTRS
                    /\ RowStart(n) >= NDIR + PTRS
                    /\ n < PTRS => RowStart(n) + PTRS <= Reach
<1>1. RowStart(0) = NDIR + PTRS /\ RowStart(PTRS) = Reach
  BY ConstantsTyped DEF RowStart, Reach
<1>2. ASSUME NEW n \in Nat
      PROVE  /\ RowStart(n) \in Nat
             /\ RowStart(n + 1) = RowStart(n) + PTRS
             /\ RowStart(n) >= NDIR + PTRS
             /\ n < PTRS => RowStart(n) + PTRS <= Reach
  <2>1. n * PTRS \in Nat /\ (n + 1) * PTRS = n * PTRS + PTRS
    BY ConstantsTyped
  <2>2. n < PTRS => (n + 1) * PTRS <= PTRS * PTRS
    BY ConstantsTyped, TimesMonotone
  <2>3. PTRS * PTRS \in Nat
    BY ConstantsTyped
  <2> QED
    BY <2>1, <2>2, <2>3, ConstantsTyped DEF RowStart, Reach
<1> QED
  BY <1>1, <1>2

LEMMA DivMod ==
  ASSUME NEW n \in Nat, NEW k \in Nat, k < PTRS
  PROVE  /\ (n * PTRS + k) \div PTRS = n
         /\ (n * PTRS + k) % PTRS = k
<1> DEFINE x == n * PTRS + k
           q == x \div PTRS
           r == x % PTRS
<1>1. x \in Nat
  BY ConstantsTyped
<1>2. q \in Nat /\ r \in Nat /\ r < PTRS /\ x = q * PTRS + r
  BY <1>1, ConstantsTyped
<1> HIDE DEF q, r
<1>3. CASE q < n
  <2>1. (q + 1) * PTRS <= n * PTRS
    BY <1>2, <1>3, ConstantsTyped, TimesMonotone
  <2>2. (q + 1) * PTRS = q * PTRS + PTRS /\ q * PTRS \in Nat /\ n * PTRS \in Nat
    BY <1>2, ConstantsTyped
  <2> QED
    BY <1>2, <2>1, <2>2, ConstantsTyped
<1>4. CASE q > n
  <2>1. (n + 1) * PTRS <= q * PTRS
    BY <1>2, <1>4, ConstantsTyped, TimesMonotone
  <2>2. (n + 1) * PTRS = n * PTRS + PTRS /\ q * PTRS \in Nat /\ n * PTRS \in Nat
    BY <1>2, ConstantsTyped
  <2> QED
    BY <1>2, <2>1, <2>2, ConstantsTyped
<1>5. CASE q = n
  <2>1. r = k
    BY <1>2, <1>5, ConstantsTyped
  <2> QED
    BY <1>5, <2>1 DEF q, r
<1> QED
  BY <1>2, <1>3, <1>4, <1>5

\* blksLeft starts high enough for every byte.
LEMMA CountCovers ==
  ASSUME size \in Nat
  PROVE  BlockCount \in Nat /\ size < At(BlockCount)
<1> DEFINE q == size \div BLOCK
<1>1. q \in Nat /\ size < q * BLOCK + BLOCK
  BY ConstantsTyped
<1>2. (q + 1) * BLOCK = q * BLOCK + BLOCK
  BY <1>1, ConstantsTyped
<1> QED
  BY <1>1, <1>2 DEF BlockCount, At
-----------------------------------------------------------------------------
(* Types *)

\* What the loops know of their counters.
LoopInv ==
  /\ pc \in Loops => i <= blksLeft /\ i <= Width
  /\ half => pc \in Loops /\ i < blksLeft /\ i < Width /\ sizeLeft > 0
  /\ pc = "row" => j < PTRS
  /\ pc = "double" => j <= PTRS
  /\ ended => pc = "done"

TypeInv == TypeOK /\ LoopInv

LEMMA WidthTyped == Width \in Nat
BY ConstantsTyped DEF Width

LEMMA TypeInit == Init => TypeInv
<1> SUFFICES ASSUME Init
             PROVE  TypeInv
  OBVIOUS
<1>1. size \in Nat /\ size \in Sizes
  BY FileAssumption DEF Init, PrinterInit
<1>2. BlockCount \in Nat
  BY <1>1, CountCovers
<1>3. out \in Seq([block : Blocks \cup {0}, half : {0, 1}, len : 0 .. HALF])
  BY DEF Init, PrinterInit
<1>4. indirect \in PointerBuffer /\ doubleIndirect \in PointerBuffer
  BY WalkAssumption DEF Init, PointerBuffer
<1>5. TypeOK
  BY <1>1, <1>2, <1>3, <1>4 DEF Init, PrinterInit, TypeOK, Loops
<1>6. LoopInv
  BY <1>2, WidthTyped DEF Init, PrinterInit, LoopInv, Loops
<1> QED
  BY <1>5, <1>6 DEF TypeInv

\* A block pointer of the inode or of a loop in progress is a block or 0.
LEMMA CurrentTyped ==
  ASSUME TypeInv, pc \in Loops, i < Width
  PROVE  Current \in Blocks \cup {0}
<1>1. CASE pc = "direct"
  <2>1. i \in 0 .. NDIR + 1
    BY <1>1, ConstantsTyped DEF TypeInv, TypeOK, Width
  <2> QED
    BY <1>1, <2>1, FileAssumption DEF Current
<1>2. CASE pc # "direct"
  <2>1. i \in 0 .. PTRS - 1
    BY <1>2, ConstantsTyped DEF TypeInv, TypeOK, Width
  <2> QED
    BY <1>2, <2>1 DEF Current, TypeInv, TypeOK, PointerBuffer
<1> QED
  BY <1>1, <1>2

\* A table of block pointers is a pointer buffer.
LEMMA TableTyped ==
  /\ Table[IBlock[NDIR]] \in PointerBuffer
  /\ Table[IBlock[NDIR + 1]] \in PointerBuffer
  /\ \A buffer \in PointerBuffer, n \in 0 .. PTRS - 1 :
       Table[buffer[n]] \in PointerBuffer
<1>1. NDIR \in 0 .. NDIR + 1 /\ NDIR + 1 \in 0 .. NDIR + 1
  BY ConstantsTyped
<1> QED
  BY <1>1, FileAssumption DEF PointerBuffer

\* What fwrite returns is at most a half and at most what is left.
LEMMA WrittenTyped ==
  ASSUME TypeInv, NEW n \in Written
  PROVE  n \in 0 .. HALF /\ n <= sizeLeft /\ sizeLeft - n \in Nat
<1>1. sizeLeft \in Nat
  BY DEF TypeInv, TypeOK
<1>2. Asked \in Nat /\ Asked <= HALF /\ Asked <= sizeLeft
  BY <1>1, ConstantsTyped DEF Asked
<1>3. n \in Nat /\ n <= Asked
  BY <1>2 DEF Written
<1> QED
  BY <1>1, <1>2, <1>3, ConstantsTyped

LEMMA WriteTyped ==
  ASSUME TypeInv, pc \in Loops, i < Width,
         NEW h \in {0, 1}, NEW n \in Written, Write(Current, h, n)
  PROVE  /\ out' \in Seq([block : Blocks \cup {0}, half : {0, 1},
                          len : 0 .. HALF])
         /\ sizeLeft' \in Nat
<1>1. Half(Current, h, n) \in [block : Blocks \cup {0}, half : {0, 1},
                               len : 0 .. HALF]
  BY CurrentTyped, WrittenTyped DEF Half
<1>2. out \in Seq([block : Blocks \cup {0}, half : {0, 1}, len : 0 .. HALF])
  BY DEF TypeInv, TypeOK
<1> QED
  BY <1>1, <1>2, WrittenTyped DEF Write

LEMMA TypeStep == TypeInv /\ [Next]_vars => TypeInv'
<1> SUFFICES ASSUME TypeInv, [Next]_vars
             PROVE  TypeInv'
  OBVIOUS
<1> USE DEF Loops
<1>0. Width \in Nat /\ Width' \in Nat
  BY ConstantsTyped DEF Width
<1>1. CASE ReadFirstHalf
  <2>1. pc \in Loops /\ i < Width /\ i < blksLeft /\ sizeLeft > 0 /\ ~half
    BY <1>1 DEF ReadFirstHalf, More
  <2>2. /\ out' \in Seq([block : Blocks \cup {0}, half : {0, 1},
                         len : 0 .. HALF])
        /\ sizeLeft' \in Nat
    BY <1>1, <2>1, WriteTyped DEF ReadFirstHalf
  <2>3. Width' = Width
    BY <1>1 DEF ReadFirstHalf, Width
  <2>4. CASE HasSecond
    BY <1>0, <1>1, <2>1, <2>2, <2>3, <2>4
    DEF ReadFirstHalf, TypeInv, TypeOK, LoopInv, HasSecond, PointerBuffer
  <2>5. CASE ~HasSecond
    BY <1>0, <1>1, <2>1, <2>2, <2>3, <2>5
    DEF ReadFirstHalf, TypeInv, TypeOK, LoopInv, PointerBuffer
  <2> QED
    BY <2>4, <2>5
<1>2. CASE ReadSecondHalf
  <2>1. pc \in Loops /\ i < Width /\ i < blksLeft
    BY <1>2 DEF ReadSecondHalf, TypeInv, LoopInv
  <2>2. /\ out' \in Seq([block : Blocks \cup {0}, half : {0, 1},
                         len : 0 .. HALF])
        /\ sizeLeft' \in Nat
    BY <1>2, <2>1, WriteTyped DEF ReadSecondHalf
  <2>3. TypeOK'
    <3>1. /\ half' = FALSE /\ i' = i + 1
          /\ UNCHANGED <<size, ended, pc, j, blksLeft, indirect,
                         doubleIndirect>>
      BY <1>2 DEF ReadSecondHalf
    <3>2. half' \in BOOLEAN /\ ended' \in BOOLEAN
      BY <3>1 DEF TypeInv, TypeOK
    <3> QED
      BY <2>2, <3>1, <3>2 DEF TypeInv, TypeOK, PointerBuffer
  <2>4. LoopInv'
    <3>1. Width' = Width
      BY <1>2 DEF ReadSecondHalf, Width
    <3> QED
      BY <1>0, <1>2, <2>1, <3>1 DEF ReadSecondHalf, TypeInv, TypeOK, LoopInv
  <2> QED
    BY <2>3, <2>4 DEF TypeInv
<1>3. CASE EndDirect
  BY <1>0, <1>3, TableTyped
  DEF EndDirect, BlocksAfterLoop, TypeInv, TypeOK, LoopInv, PointerBuffer
<1>4. CASE EndIndirect
  BY <1>0, <1>4, TableTyped, ConstantsTyped
  DEF EndIndirect, BlocksAfterLoop, TypeInv, TypeOK, LoopInv, PointerBuffer
<1>5. CASE EnterRow
  <2>1. j \in 0 .. PTRS - 1
    BY <1>5, ConstantsTyped DEF EnterRow, TypeInv, TypeOK
  <2>2. indirect' \in PointerBuffer
    BY <1>5, <2>1, TableTyped DEF EnterRow, TypeInv, TypeOK
  <2> QED
    BY <1>0, <1>5, <2>1, <2>2 DEF EnterRow, TypeInv, TypeOK, LoopInv, PointerBuffer
<1>6. CASE EndRow
  BY <1>6, ConstantsTyped
  DEF EndRow, NextRow, BlocksAfterLoop, TypeInv, TypeOK, LoopInv, PointerBuffer
<1>7. CASE EndDouble
  BY <1>7 DEF EndDouble, TypeInv, TypeOK, LoopInv, PointerBuffer
<1>8. CASE Exit
  BY <1>8 DEF Exit, TypeInv, TypeOK, LoopInv, PointerBuffer
<1>9. CASE UNCHANGED vars
  BY <1>9 DEF vars, TypeInv, TypeOK, LoopInv, PointerBuffer, Width
<1> QED
  BY <1>1, <1>2, <1>3, <1>4, <1>5, <1>6, <1>7, <1>8, <1>9 DEF Next

LEMMA TypeInvariance == Spec => []TypeInv
BY TypeInit, TypeStep, PTL DEF Spec, Safety

\* sizeLeft and blksLeft, unsigned in program4.c, never go below zero, and no
\* pointer is read past the end of its array, whatever fwrite returns.
THEOREM WalkTypeCorrect == Spec => []TypeOK
<1>1. TypeInv => TypeOK
  BY DEF TypeInv
<1> QED
  BY <1>1, TypeInvariance, PTL

-----------------------------------------------------------------------------
(* The blocks counted bound the blocks printed *)

\* Blocks that the loops up to now have consumed from blksLeft.
Consumed == BlockCount - blksLeft + (IF pc \in Loops THEN i ELSE 0)

BlocksInv ==
  /\ blksLeft <= BlockCount
  /\ Len(out) <= 2 * Consumed + (IF half THEN 1 ELSE 0)

LEMMA BlocksInit == Init => BlocksInv
<1> SUFFICES ASSUME Init
             PROVE  BlocksInv
  OBVIOUS
<1>1. BlockCount \in Nat
  BY CountCovers, FileAssumption DEF Init, PrinterInit
<1> QED
  BY <1>1 DEF Init, PrinterInit, BlocksInv, Consumed, Loops

LEMMA BlocksStep == TypeInv /\ BlocksInv /\ [Next]_vars => BlocksInv'
<1> SUFFICES ASSUME TypeInv, BlocksInv, [Next]_vars
             PROVE  BlocksInv'
  OBVIOUS
<1>1. BlockCount \in Nat /\ BlockCount' = BlockCount
  <2>1. size' = size
    BY DEF Next, vars, ReadFirstHalf, ReadSecondHalf, EndDirect, EndIndirect,
           EnterRow, EndRow, EndDouble, Exit
  <2> QED
    BY <2>1, CountCovers, FileAssumption DEF TypeInv, TypeOK, BlockCount
<1>2. ASSUME NEW r, out' = Append(out, r)
      PROVE  Len(out') = Len(out) + 1
  BY <1>2 DEF TypeInv, TypeOK
<1>3. Len(out) \in Nat /\ i \in Nat /\ blksLeft \in Nat /\ half \in BOOLEAN
  BY DEF TypeInv, TypeOK
<1>4. pc \in Loops => i <= blksLeft
  BY DEF TypeInv, LoopInv
<1> USE DEF Loops
<1>5. CASE ReadFirstHalf
  <2>1. Len(out') = Len(out) + 1
    BY <1>2, <1>5 DEF ReadFirstHalf, Write
  <2> QED
    BY <1>1, <1>3, <1>5, <2>1 DEF ReadFirstHalf, BlocksInv, Consumed
<1>6. CASE ReadSecondHalf
  <2>1. Len(out') = Len(out) + 1
    BY <1>2, <1>6 DEF ReadSecondHalf, Write
  <2> QED
    BY <1>1, <1>3, <1>6, <2>1 DEF ReadSecondHalf, BlocksInv, Consumed
<1>7. CASE EndDirect
  BY <1>1, <1>3, <1>4, <1>7 DEF EndDirect, BlocksAfterLoop, BlocksInv, Consumed
<1>8. CASE EndIndirect
  BY <1>1, <1>3, <1>4, <1>8
  DEF EndIndirect, BlocksAfterLoop, BlocksInv, Consumed
<1>9. CASE EnterRow
  BY <1>1, <1>3, <1>9 DEF EnterRow, BlocksInv, Consumed, TypeInv, LoopInv
<1>10. CASE EndRow
  BY <1>1, <1>3, <1>4, <1>10 DEF EndRow, BlocksAfterLoop, BlocksInv, Consumed
<1>11. CASE EndDouble
  BY <1>1, <1>3, <1>11 DEF EndDouble, BlocksInv, Consumed
<1>12. CASE Exit
  BY <1>1, <1>3, <1>12 DEF Exit, BlocksInv, Consumed
<1>13. CASE UNCHANGED vars
  BY <1>1, <1>3, <1>13 DEF vars, BlocksInv, Consumed
<1> QED
  BY <1>5, <1>6, <1>7, <1>8, <1>9, <1>10, <1>11, <1>12, <1>13 DEF Next

\* However short the writes, the walk prints no more blocks than main counted
\* in blksLeft.
THEOREM WalkWithinBlocks == Spec => []WithinBlocks
<1>1. TypeInv /\ BlocksInv => WithinBlocks
  <2> SUFFICES ASSUME TypeInv, BlocksInv
               PROVE  WithinBlocks
    OBVIOUS
  <2>1. BlockCount \in Nat
    BY CountCovers, FileAssumption DEF TypeInv, TypeOK
  <2>2. /\ Len(out) \in Nat /\ i \in Nat /\ blksLeft \in Nat
        /\ pc \in Loops => i <= blksLeft
        /\ half => pc \in Loops /\ i < blksLeft
    BY DEF TypeInv, TypeOK, LoopInv
  <2> QED
    BY <2>1, <2>2 DEF BlocksInv, Consumed, WithinBlocks
<1>2. Init => BlocksInv
  BY BlocksInit
<1>3. TypeInv /\ BlocksInv /\ [Next]_vars => BlocksInv'
  BY BlocksStep
<1> QED
  BY <1>1, <1>2, <1>3, TypeInvariance, PTL DEF Spec, Safety
-----------------------------------------------------------------------------
(* The pointer buffers *)

\* The buffers hold the tables that the loop in progress walks through.
PointerInv ==
  /\ pc = "indirect" => indirect = Table[IBlock[NDIR]]
  /\ pc \in {"double", "row"} => doubleIndirect = Table[IBlock[NDIR + 1]]
  /\ pc = "row" => indirect = Table[doubleIndirect[j]]

LEMMA PointerInit == Init => PointerInv
BY DEF Init, PointerInv

LEMMA PointerStep == PointerInv /\ [Next]_vars => PointerInv'
<1> SUFFICES ASSUME PointerInv, [Next]_vars
             PROVE  PointerInv'
  OBVIOUS
<1> USE DEF PointerInv, Loops
<1>1. CASE ReadFirstHalf
  BY <1>1 DEF ReadFirstHalf
<1>2. CASE ReadSecondHalf
  BY <1>2 DEF ReadSecondHalf
<1>3. CASE EndDirect
  BY <1>3 DEF EndDirect
<1>4. CASE EndIndirect
  BY <1>4 DEF EndIndirect
<1>5. CASE EnterRow
  BY <1>5 DEF EnterRow
<1>6. CASE EndRow
  BY <1>6 DEF EndRow
<1>7. CASE EndDouble
  BY <1>7 DEF EndDouble
<1>8. CASE Exit
  BY <1>8 DEF Exit
<1>9. CASE UNCHANGED vars
  BY <1>9 DEF vars
<1> QED
  BY <1>1, <1>2, <1>3, <1>4, <1>5, <1>6, <1>7, <1>8, <1>9 DEF Next

\* A pointer that exists is found in the table of its block.
LEMMA PointerFound ==
  ASSUME NEW b, NEW n, Pointer(b, n) # 0
  PROVE  b # 0 /\ Pointer(b, n) = Table[b][n]
BY DEF Pointer

\* The pointer that a loop passes to read_blk is that of the file's next block.
LEMMA CurrentIsNext ==
  ASSUME NoHoles, TypeInv, PointerInv, pc \in Loops, i < Width
  PROVE  /\ Index \in Nat /\ Index < Reach
         /\ Shown(BlockOf(Index)) = Current
<1>1. i \in Nat /\ j \in Nat /\ (pc = "row" => j < PTRS)
  BY DEF TypeInv, TypeOK, LoopInv
<1>2. \A n \in Nat : n < Reach => BlockOf(n) # 0
  BY ConstantsTyped DEF NoHoles
<1>3. CASE pc = "direct"
  <2>1. Index = i /\ i < NDIR
    BY <1>1, <1>3 DEF Index, Base, Loops, Width
  <2>2. i < Reach
    BY <1>1, <2>1, RowSteps, ConstantsTyped
  <2>3. BlockOf(i) = IBlock[i]
    BY <1>1, <2>1, ConstantsTyped DEF BlockOf
  <2> QED
    BY <1>1, <1>2, <1>3, <2>1, <2>2, <2>3 DEF Shown, Current
<1>4. CASE pc = "indirect"
  <2>1. Index = NDIR + i /\ i < PTRS
    BY <1>1, <1>4 DEF Index, Base, Loops, Width
  <2>2. Index \in Nat /\ Index < Reach
    BY <1>1, <2>1, RowSteps, ConstantsTyped
  <2>3. BlockOf(Index) = Pointer(IBlock[NDIR], i)
    <3>1. Index >= NDIR /\ Index - NDIR = i /\ ~(Index < NDIR)
      BY <1>1, <2>1, ConstantsTyped
    <3> QED
      BY <2>1, <3>1 DEF BlockOf
  <2>4. BlockOf(Index) = indirect[i]
    BY <1>2, <1>4, <2>2, <2>3, PointerFound DEF PointerInv
  <2> QED
    BY <1>2, <1>4, <2>2, <2>4 DEF Shown, Current
<1>5. CASE pc = "row"
  <2>1. Index = RowStart(j) + i /\ i < PTRS
    BY <1>1, <1>5 DEF Index, Base, Loops, Width
  <2>2. Index \in Nat /\ Index < Reach
    BY <1>1, <1>5, <2>1, RowSteps, ConstantsTyped
  <2>3. BlockOf(Index) = Pointer(Pointer(IBlock[NDIR + 1], j), i)
    <3>1. j * PTRS \in Nat
      BY <1>1, ConstantsTyped
    <3>2. /\ ~(Index < NDIR)
          /\ ~(Index - NDIR < PTRS)
          /\ (Index - NDIR) - PTRS = j * PTRS + i
      BY <1>1, <2>1, <3>1, ConstantsTyped DEF RowStart
    <3>3. BlockOf(Index) =
            Pointer(Pointer(IBlock[NDIR + 1],
                            (j * PTRS + i) \div PTRS),
                    (j * PTRS + i) % PTRS)
      BY <3>2 DEF BlockOf
    <3> QED
      BY <1>1, <2>1, <3>3, DivMod
  <2>4. BlockOf(Index) = indirect[i]
    <3>1. Pointer(Pointer(IBlock[NDIR + 1], j), i) # 0
      BY <1>2, <2>2, <2>3
    <3>2. /\ Pointer(IBlock[NDIR + 1], j) # 0
          /\ BlockOf(Index) = Table[Pointer(IBlock[NDIR + 1], j)][i]
      BY <2>3, <3>1, PointerFound
    <3>3. Pointer(IBlock[NDIR + 1], j) = doubleIndirect[j]
      BY <1>5, <3>2, PointerFound DEF PointerInv
    <3> QED
      BY <1>5, <3>2, <3>3 DEF PointerInv
  <2> QED
    BY <1>2, <1>5, <2>2, <2>4 DEF Shown, Current
<1> QED
  BY <1>3, <1>4, <1>5 DEF Loops
-----------------------------------------------------------------------------
(* The counts, when every fwrite is complete *)

\* As long as bytes are missing, sizeLeft, blksLeft and what was printed all
\* tell the same position in the file; when none is, everything was printed.
CountInv ==
  /\ sizeLeft > 0 =>
       /\ pc # "done"
       /\ blksLeft + Base = BlockCount
       /\ At(Index) + (IF half THEN HALF ELSE 0) + sizeLeft = size
       /\ NextIs(Index, IF half THEN 1 ELSE 0)
  /\ sizeLeft = 0 => Len(out) * HALF >= size

\* The numbers behind CountInv.
LEMMA Numbers ==
  ASSUME TypeInv
  PROVE  /\ size \in Nat /\ i \in Nat /\ j \in Nat
         /\ sizeLeft \in Nat /\ blksLeft \in Nat
         /\ Len(out) \in Nat
         /\ Base \in Nat /\ Index \in Nat /\ At(Index) \in Nat
         /\ BlockCount \in Nat /\ size < At(BlockCount)
<1>1. /\ size \in Nat /\ i \in Nat /\ j \in Nat
      /\ sizeLeft \in Nat /\ blksLeft \in Nat /\ Len(out) \in Nat
  BY FileAssumption DEF TypeInv, TypeOK
<1>2. Base \in Nat
  BY <1>1, ConstantsTyped, RowSteps DEF Base
<1>3. Index \in Nat
  BY <1>1, <1>2 DEF Index
<1> QED
  BY <1>1, <1>2, <1>3, AtStep, CountCovers

\* The condition i < blksLeft never ends a loop while bytes are missing.
LEMMA BlocksRemain ==
  ASSUME TypeInv, CountInv, pc \in Loops, sizeLeft > 0
  PROVE  i < blksLeft /\ Index = Base + i /\ Index < BlockCount
<1>1. At(Index) < At(BlockCount)
  <2>1. (IF half THEN HALF ELSE 0) \in Nat
    BY ConstantsTyped
  <2>2. At(Index) + (IF half THEN HALF ELSE 0) + sizeLeft = size
    BY DEF CountInv
  <2>3. At(BlockCount) \in Nat
    BY Numbers, AtStep
  <2> QED
    BY <2>1, <2>2, <2>3, Numbers
<1>2. Index < BlockCount
  BY <1>1, Numbers, AtReflects
<1>3. Index = Base + i /\ blksLeft + Base = BlockCount
  BY DEF CountInv, Index
<1> QED
  BY <1>2, <1>3, Numbers

LEMMA CountInit == Init => CountInv
<1> SUFFICES ASSUME Init
             PROVE  CountInv
  OBVIOUS
<1>1. Base = 0 /\ Index = 0 /\ ~half /\ pc = "direct"
  BY DEF Init, Base, Index, Loops
<1>2. Len(out) = 0 /\ sizeLeft = size /\ size \in Nat /\ blksLeft = BlockCount
  BY FileAssumption DEF Init, PrinterInit
<1>3. BlockCount \in Nat
  BY <1>2, CountCovers
<1> QED
  BY <1>1, <1>2, <1>3, AtZero, ConstantsTyped DEF CountInv, NextIs

\* The halves of a block, with everything asked of fwrite written.
LEMMA FirstHalfCounts ==
  ASSUME ~WritesFail, TypeInv, CountInv, ReadFirstHalf
  PROVE  CountInv'
<1>1. pc \in Loops /\ sizeLeft > 0 /\ ~half
  BY DEF ReadFirstHalf, More
<1>2. /\ out' = Append(out, Half(Current, 0, Asked))
      /\ sizeLeft' = sizeLeft - Asked
  BY DEF ReadFirstHalf, Written, Write
<1>3. Len(out') = Len(out) + 1
  BY <1>2 DEF TypeInv, TypeOK
<1>4. /\ At(Index) + sizeLeft = size
      /\ Len(out) = 2 * Index
      /\ blksLeft + Base = BlockCount
  BY <1>1, Numbers DEF CountInv, NextIs
<1>5. size' = size /\ pc' = pc /\ j' = j /\ blksLeft' = blksLeft
      /\ BlockCount' = BlockCount
  BY DEF ReadFirstHalf, BlockCount
<1>6. Base' = Base
  BY <1>5 DEF Base
<1>7. CASE HasSecond
  <2>1. half' = TRUE /\ Index' = Index
    BY <1>5, <1>6, <1>7 DEF ReadFirstHalf, Index
  <2>2. sizeLeft' = sizeLeft - HALF /\ sizeLeft' > 0
    BY <1>2, <1>7, Numbers, ConstantsTyped DEF HasSecond, Asked
  <2>3. At(Index)' = At(Index)
    BY <2>1 DEF At, BLOCK
  <2>4. pc' # "done"
    BY <1>1, <1>5 DEF Loops
  <2>5. At(Index)' + HALF + sizeLeft' = size'
    BY <1>4, <1>5, <2>2, <2>3, Numbers, ConstantsTyped
  <2>6. Len(out') = 2 * Index' + 1
    BY <1>3, <1>4, <2>1
  <2>7. (blksLeft + Base = BlockCount)'
    BY <1>4, <1>5, <1>6
  <2> QED
    BY <2>1, <2>2, <2>4, <2>5, <2>6, <2>7 DEF CountInv, NextIs
<1>8. CASE ~HasSecond
  <2>1. sizeLeft' = 0 /\ sizeLeft <= HALF
    BY <1>2, <1>8, Numbers, ConstantsTyped DEF HasSecond, Asked
  <2>2. Len(out') * HALF = At(Index) + HALF
    BY <1>3, <1>4, Numbers, Halves
  <2>3. Len(out') * HALF >= size
    <3>1. At(Index) + sizeLeft = size /\ At(Index) \in Nat
      BY <1>4, Numbers
    <3>2. sizeLeft \in Nat /\ HALF \in Nat
      BY Numbers, ConstantsTyped
    <3> QED
      BY <2>1, <2>2, <3>1, <3>2
  <2> QED
    BY <1>5, <2>1, <2>3 DEF CountInv
<1> QED
  BY <1>7, <1>8

LEMMA SecondHalfCounts ==
  ASSUME ~WritesFail, TypeInv, CountInv, ReadSecondHalf
  PROVE  CountInv'
<1>1. pc \in Loops /\ sizeLeft > 0 /\ half
  BY DEF ReadSecondHalf, TypeInv, LoopInv
<1>2. /\ out' = Append(out, Half(Current, 1, Asked))
      /\ sizeLeft' = sizeLeft - Asked
  BY DEF ReadSecondHalf, Written, Write
<1>3. Len(out') = Len(out) + 1
  BY <1>2 DEF TypeInv, TypeOK
<1>4. /\ At(Index) + HALF + sizeLeft = size
      /\ Len(out) = 2 * Index + 1
      /\ blksLeft + Base = BlockCount
  BY <1>1, Numbers DEF CountInv, NextIs
<1>5. size' = size /\ pc' = pc /\ j' = j /\ blksLeft' = blksLeft
      /\ BlockCount' = BlockCount /\ half' = FALSE
  BY DEF ReadSecondHalf, BlockCount
<1>6. Base' = Base
  BY <1>5 DEF Base
<1>7. Index' = Index + 1
  BY <1>1, <1>5, <1>6, Numbers DEF ReadSecondHalf, Index
<1>8. At(Index)' = At(Index) + BLOCK
  <2>1. At(Index)' = At(Index + 1)
    BY <1>7 DEF At, BLOCK
  <2> QED
    BY <2>1, Numbers, AtStep
<1>9. CASE sizeLeft > HALF
  <2>1. sizeLeft' = sizeLeft - HALF /\ sizeLeft' > 0
    BY <1>2, <1>9, Numbers, ConstantsTyped DEF Asked
  <2>2. pc' # "done"
    BY <1>1, <1>5 DEF Loops
  <2>3. At(Index)' + 0 + sizeLeft' = size'
    <3>1. At(Index)' = At(Index) + HALF + HALF
      BY <1>8, Numbers, ConstantsTyped
    <3>2. size' = size
      BY <1>5
    <3>3. At(Index) + HALF + sizeLeft = size
      BY <1>4
    <3>4. At(Index) \in Nat /\ sizeLeft \in Nat /\ HALF \in Nat
      BY Numbers, ConstantsTyped
    <3>5. sizeLeft' = sizeLeft - HALF
      BY <2>1
    <3> QED
      BY <3>1, <3>2, <3>3, <3>4, <3>5
  <2>4. Len(out') = 2 * Index' + 0
    <3>1. Len(out) = 2 * Index + 1 /\ Index \in Nat
      BY <1>4, Numbers
    <3> QED
      BY <1>3, <1>7, <3>1
  <2>5. (blksLeft + Base = BlockCount)'
    BY <1>4, <1>5, <1>6
  <2> QED
    BY <1>5, <2>1, <2>2, <2>3, <2>4, <2>5 DEF CountInv, NextIs
<1>10. CASE sizeLeft <= HALF
  <2>1. sizeLeft' = 0
    BY <1>2, <1>10, Numbers, ConstantsTyped DEF Asked
  <2>2. Len(out') = 2 * (Index + 1)
    <3>1. Len(out) = 2 * Index + 1 /\ Index \in Nat
      BY <1>4, Numbers
    <3> QED
      BY <1>3, <3>1
  <2>3. Len(out') * HALF = At(Index + 1)
    <3>1. Index + 1 \in Nat
      BY Numbers
    <3> QED
      BY <2>2, <3>1, Halves
  <2>4. Len(out') * HALF >= size
    <3>1. At(Index + 1) = At(Index) + HALF + HALF
      <4>1. At(Index) \in Nat /\ At(Index + 1) = At(Index) + BLOCK
        BY Numbers, AtStep
      <4> QED
        BY <4>1, ConstantsTyped
    <3>2. At(Index + 1) >= size
      <4>1. At(Index) + HALF + sizeLeft = size /\ At(Index) \in Nat
        BY <1>4, Numbers
      <4>2. sizeLeft \in Nat /\ HALF \in Nat
        BY Numbers, ConstantsTyped
      <4> QED
        BY <1>10, <3>1, <4>1, <4>2
    <3> QED
      BY <2>3, <3>2
  <2> QED
    BY <1>5, <2>1, <2>4 DEF CountInv
<1> QED
  BY <1>9, <1>10, Numbers, ConstantsTyped

\* A step that prints nothing and moves on in the file keeps the counts, if
\* the position stays the same.
LEMMA LoopCounts ==
  ASSUME TypeInv, CountInv, ~half, half' = half,
         UNCHANGED <<size, out, sizeLeft>>,
         sizeLeft > 0 => /\ pc' # "done"
                         /\ Index' = Index
                         /\ blksLeft' + Base' = blksLeft + Base
  PROVE  CountInv'
<1>1. BlockCount' = BlockCount
  BY DEF BlockCount
<1>2. CASE sizeLeft > 0
  <2>1. At(Index)' = At(Index)
    BY <1>2 DEF At, BLOCK
  <2> QED
    BY <1>1, <1>2, <2>1 DEF CountInv, NextIs
<1>3. CASE ~(sizeLeft > 0)
  BY <1>3 DEF CountInv
<1> QED
  BY <1>2, <1>3

LEMMA CountStep ==
  ASSUME ~WritesFail, WithinReach, TypeInv, CountInv, [Next]_vars
  PROVE  CountInv'
<1>1. pc \in Loops /\ ~More /\ sizeLeft > 0 => i = Width /\ i < blksLeft
  BY BlocksRemain, Numbers, WidthTyped DEF More, TypeInv, LoopInv
<1>2. CASE ReadFirstHalf
  BY <1>2, FirstHalfCounts
<1>3. CASE ReadSecondHalf
  BY <1>3, SecondHalfCounts
<1>4. CASE EndDirect
  <2>1. CASE sizeLeft > 0
    <3>1. i = NDIR /\ i < blksLeft
      BY <1>1, <1>4, <2>1 DEF EndDirect, Width, Loops
    <3>2. blksLeft' = blksLeft - NDIR /\ pc' = "indirect" /\ i' = 0
      BY <1>4, <3>1, Numbers, ConstantsTyped DEF EndDirect, BlocksAfterLoop
    <3>3. Base = 0 /\ Index = NDIR /\ Base' = NDIR /\ Index' = NDIR
      BY <1>4, <3>1, <3>2, ConstantsTyped DEF EndDirect, Base, Index, Loops
    <3>4. blksLeft' + Base' = blksLeft + Base /\ pc' # "done"
      BY <3>2, <3>3, Numbers, ConstantsTyped
    <3> QED
      BY <1>4, <3>3, <3>4, LoopCounts DEF EndDirect
  <2> QED
    BY <1>4, <2>1, LoopCounts DEF EndDirect
<1>5. CASE EndIndirect
  <2>1. CASE sizeLeft > 0
    <3>1. i = PTRS /\ i < blksLeft
      BY <1>1, <1>5, <2>1 DEF EndIndirect, Width, Loops
    <3>2. blksLeft' = blksLeft - PTRS /\ pc' = "double" /\ j' = 0
      BY <1>5, <3>1, Numbers, ConstantsTyped DEF EndIndirect, BlocksAfterLoop
    <3>3. /\ Base = NDIR /\ Index = NDIR + PTRS
          /\ Base' = RowStart(0) /\ Index' = RowStart(0)
      BY <1>5, <3>1, <3>2 DEF EndIndirect, Base, Index, Loops, RowStart
    <3>4. Index' = Index /\ blksLeft' + Base' = blksLeft + Base
      <4>1. RowStart(0) = NDIR + PTRS
        BY RowSteps
      <4> QED
        BY <3>2, <3>3, <4>1, Numbers, ConstantsTyped
    <3>5. pc' # "done"
      BY <3>2
    <3> QED
      BY <1>5, <3>4, <3>5, LoopCounts DEF EndIndirect
  <2> QED
    BY <1>5, <2>1, LoopCounts DEF EndIndirect
<1>6. CASE EnterRow
  <2>1. ~half
    BY <1>6 DEF EnterRow, TypeInv, LoopInv, Loops
  <2>2. /\ Base = RowStart(j) /\ Index = RowStart(j)
        /\ Base' = RowStart(j) /\ Index' = RowStart(j) + 0
    BY <1>6 DEF EnterRow, Base, Index, Loops, RowStart
  <2>3. Index' = Index /\ pc' # "done" /\ blksLeft' + Base' = blksLeft + Base
    BY <1>6, <2>2, RowSteps, Numbers DEF EnterRow
  <2> QED
    BY <1>6, <2>1, <2>3, LoopCounts DEF EnterRow
<1>7. CASE EndRow
  <2>1. CASE sizeLeft > 0
    <3>1. i = PTRS /\ i < blksLeft
      BY <1>1, <1>7, <2>1 DEF EndRow, Width, Loops
    <3>2. blksLeft' = blksLeft - PTRS /\ pc' = "double" /\ j' = j + 1
      BY <1>7, <3>1 DEF EndRow, BlocksAfterLoop, NextRow
    <3>3. /\ Base = RowStart(j) /\ Index = RowStart(j) + PTRS
          /\ Base' = RowStart(j + 1) /\ Index' = RowStart(j + 1)
      BY <1>7, <3>1, <3>2 DEF EndRow, Base, Index, Loops, RowStart
    <3>4. Index' = Index /\ blksLeft' + Base' = blksLeft + Base
      <4>1. RowStart(j) \in Nat /\ RowStart(j + 1) = RowStart(j) + PTRS
        BY RowSteps, Numbers
      <4>2. blksLeft' = blksLeft - PTRS
        BY <3>2
      <4>3. blksLeft \in Nat /\ PTRS \in Nat
        BY Numbers, ConstantsTyped
      <4> QED
        BY <3>3, <4>1, <4>2, <4>3
    <3>5. pc' # "done"
      BY <3>2
    <3> QED
      BY <1>7, <3>4, <3>5, LoopCounts DEF EndRow
  <2> QED
    BY <1>7, <2>1, LoopCounts DEF EndRow
<1>8. CASE EndDouble
  <2>1. ~half
    BY <1>8 DEF EndDouble, TypeInv, LoopInv, Loops
  <2>2. ASSUME sizeLeft > 0 PROVE FALSE
    <3>1. j = PTRS
      BY <1>8, <2>2, Numbers, ConstantsTyped DEF EndDouble, TypeInv, LoopInv
    <3>2. Index = Reach
      BY <1>8, <3>1, RowSteps DEF EndDouble, Index, Base, Loops
    <3>3. At(Reach) + sizeLeft = size
      BY <2>1, <2>2, <3>2, Numbers DEF CountInv
    <3>4. size <= At(Reach)
      BY DEF WithinReach, TypeInv, TypeOK, At
    <3> QED
      BY <2>2, <3>2, <3>3, <3>4, Numbers
  <2> QED
    BY <1>8, <2>1, <2>2, LoopCounts DEF EndDouble
<1>9. CASE Exit
  <2>1. ~half /\ ~(sizeLeft > 0)
    BY <1>9 DEF Exit, TypeInv, LoopInv, CountInv, Loops
  <2> QED
    BY <1>9, <2>1, LoopCounts DEF Exit
<1>10. CASE UNCHANGED vars
  BY <1>10
  DEF vars, CountInv, NextIs, Index, Base, RowStart, At, BLOCK, BlockCount
<1> QED
  BY <1>2, <1>3, <1>4, <1>5, <1>6, <1>7, <1>8, <1>9, <1>10 DEF Next

LEMMA CountInvariance ==
  ASSUME ~WritesFail, WithinReach
  PROVE  Spec => []CountInv
<1>1. Init => CountInv
  BY CountInit
<1>2. TypeInv /\ CountInv /\ [Next]_vars => CountInv'
  BY CountStep
<1> QED
  BY <1>1, <1>2, TypeInvariance, PTL DEF Spec, Safety

\* blksLeft and sizeLeft agree for every file of at most two levels: while
\* bytes are missing, the loops still to come are long enough for them.
THEOREM WalkCountsAgree ==
  ASSUME ~WritesFail, WithinReach
  PROVE  Spec => []CountsAgree
<1>1. TypeInv /\ CountInv => CountsAgree
  <2> SUFFICES ASSUME TypeInv, CountInv, pc \in Loops, ~half, sizeLeft > 0
               PROVE  sizeLeft <= (blksLeft - i) * BLOCK
    BY DEF CountsAgree
  <2>1. /\ i < blksLeft /\ Index = Base + i
        /\ blksLeft + Base = BlockCount
        /\ At(Index) + sizeLeft = size
    BY BlocksRemain, Numbers DEF CountInv
  <2> DEFINE more == blksLeft - i
  <2>2. more \in Nat /\ BlockCount = Index + more
    BY <2>1, Numbers
  <2>3. At(BlockCount) = At(Index) + more * BLOCK /\ more * BLOCK \in Nat
    <3> HIDE DEF more
    <3> QED
      BY <2>2, Numbers, AtSum
  <2> HIDE DEF more
  <2>4. sizeLeft <= more * BLOCK
    BY <2>1, <2>3, Numbers
  <2> QED
    BY <2>4 DEF more
<1> QED
  BY <1>1, TypeInvariance, CountInvariance, PTL

-----------------------------------------------------------------------------
(* The walk implements the file printer *)

\* What read_blk prints is the next half block of the file.
LEMMA HalfIsNext ==
  ASSUME ~WritesFail, NoHoles, TypeInv, PointerInv, CountInv,
         pc \in Loops, i < Width, sizeLeft > 0,
         NEW h \in {0, 1}, h = (IF half THEN 1 ELSE 0),
         \E n \in Written : Write(Current, h, n),
         UNCHANGED <<size, ended>>
  PROVE  ShowNext
<1>1. out' = Append(out, Half(Current, h, Asked))
  BY DEF Written, Write
<1>2. Index \in Nat /\ Index < Reach /\ Shown(BlockOf(Index)) = Current
  BY CurrentIsNext
<1>3. ~ended
  BY DEF TypeInv, LoopInv, Loops
<1>4. NextIs(Index, h)
  BY DEF CountInv
<1>5. h * HALF = (IF half THEN HALF ELSE 0) /\ h * HALF \in Nat
  BY ConstantsTyped
<1>6. At(Index) + h * HALF + sizeLeft = size
  BY <1>5 DEF CountInv
<1>7. /\ At(Index) + h * HALF < size
      /\ size - At(Index) - h * HALF = sizeLeft
  <2>1. At(Index) \in Nat /\ sizeLeft \in Nat
    BY Numbers
  <2> QED
    BY <1>5, <1>6, <2>1
<1>8. HalfBlock(Index, h) = Half(Current, h, Asked)
  BY <1>2, <1>7 DEF HalfBlock, At, Asked
<1>9. Index \in 0 .. Len(out)
  BY <1>2, <1>4, Numbers DEF NextIs
<1> QED
  BY <1>1, <1>2, <1>3, <1>4, <1>7, <1>8, <1>9 DEF ShowNext, At

LEMMA PrinterStep ==
  ASSUME ~WritesFail, NoHoles, TypeInv, PointerInv, CountInv, [Next]_vars
  PROVE  [PrinterNext]_printerVars
<1>1. CASE ReadFirstHalf
  <2>1. pc \in Loops /\ i < Width /\ sizeLeft > 0 /\ ~half
    BY <1>1 DEF ReadFirstHalf, More
  <2>2. \E n \in Written : Write(Current, 0, n)
    BY <1>1 DEF ReadFirstHalf
  <2>3. ShowNext
    BY <1>1, <2>1, <2>2, HalfIsNext DEF ReadFirstHalf
  <2> QED
    BY <2>3 DEF PrinterNext
<1>2. CASE ReadSecondHalf
  <2>1. pc \in Loops /\ i < Width /\ sizeLeft > 0 /\ half
    BY <1>2 DEF ReadSecondHalf, TypeInv, LoopInv
  <2>2. \E n \in Written : Write(Current, 1, n)
    BY <1>2 DEF ReadSecondHalf
  <2>3. ShowNext
    BY <1>2, <2>1, <2>2, HalfIsNext DEF ReadSecondHalf
  <2> QED
    BY <2>3 DEF PrinterNext
<1>3. CASE Exit
  <2>1. sizeLeft = 0
    BY <1>3, Numbers DEF Exit, CountInv
  <2>2. Len(out) * HALF >= size
    BY <2>1 DEF CountInv
  <2> QED
    BY <1>3, <2>2 DEF Exit, Finish, PrinterNext
<1>4. CASE EndDirect \/ EndIndirect \/ EnterRow \/ EndRow \/ EndDouble
  BY <1>4 DEF EndDirect, EndIndirect, EnterRow, EndRow, EndDouble, printerVars
<1>5. CASE UNCHANGED vars
  BY <1>5 DEF vars, printerVars
<1> QED
  BY <1>1, <1>2, <1>3, <1>4, <1>5 DEF Next

\* The walk implements the file printer: it prints every byte of a file once
\* and in order, for every number of pointers in an inode and in a block and
\* every size that two levels of indirection reach, if the file has no holes.
THEOREM WalkPrintsFile ==
  ASSUME ~WritesFail, WithinReach, NoHoles
  PROVE  Spec => PrintsFile
<1>1. Init => PrinterInit
  BY DEF Init
<1>2. TypeInv /\ PointerInv /\ CountInv /\ [Next]_vars
        => [PrinterNext]_printerVars
  BY PrinterStep
<1>3. Spec => []PointerInv
  BY PointerInit, PointerStep, PTL DEF Spec, Safety
<1> QED
  BY <1>1, <1>2, <1>3, TypeInvariance, CountInvariance, PTL
  DEF Spec, Safety, PrintsFile, PrinterSpec
=============================================================================
