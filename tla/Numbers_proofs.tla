---------------------------- MODULE Numbers_proofs ----------------------------
(***************************************************************************)
(* Where the arithmetic of the programs is right, for every width of int.  *)
(***************************************************************************)
EXTENDS Ext2Inode, SdSize, Serial, FiniteSetTheorems, SequenceTheorems, TLAPS

-----------------------------------------------------------------------------
(* Integers of C that do not overflow *)

LEMMA SmallModulo ==
    ASSUME NEW y \in Nat, NEW n \in Nat, y < n
    PROVE  y % n = y
OBVIOUS

LEMMA WrappedModulo ==
    ASSUME NEW y \in Int, NEW n \in Nat \ {0}, -n <= y, y < 0
    PROVE  y % n = y + n
OBVIOUS

LEMMA ReducedModulo ==
    ASSUME NEW y \in Nat, NEW n \in Nat, n <= y, y < 2 * n
    PROVE  y % n = y - n
OBVIOUS

LEMMA MultipleModulo ==
    ASSUME NEW n \in Nat \ {0}, NEW k \in Nat, NEW r \in 0..n - 1
    PROVE  (k * n + r) % n = r
<1> DEFINE m == k * n + r
           q == m \div n
           rest == m % n
<1>1. m \in Nat /\ q \in Nat /\ rest \in 0..n - 1 /\ m = n * q + rest
  OBVIOUS
<1>2. k * n + r = q * n + rest
  BY <1>1
<1> HIDE DEF m, q, rest
<1>3. CASE k < q
  <2>1. PICK d \in Nat : q = k + 1 + d
    <3>1. q - k - 1 \in Nat /\ q = k + 1 + (q - k - 1)
      BY <1>1, <1>3
    <3> QED
      BY <3>1
  <2>2. q * n = k * n + n + d * n /\ d * n \in Nat /\ k * n \in Nat
    BY <2>1
  <2> QED
    BY <1>1, <1>2, <2>2
<1>4. CASE q < k
  <2>1. PICK d \in Nat : k = q + 1 + d
    <3>1. k - q - 1 \in Nat /\ k = q + 1 + (k - q - 1)
      BY <1>1, <1>4
    <3> QED
      BY <3>1
  <2>2. k * n = q * n + n + d * n /\ d * n \in Nat /\ q * n \in Nat
    BY <1>1, <2>1
  <2> QED
    BY <1>1, <1>2, <2>2
<1>5. CASE k = q
  BY <1>1, <1>2, <1>5 DEF m, rest
<1> QED
  BY <1>1, <1>3, <1>4, <1>5

LEMMA SmallInt ==
    ASSUME NEW values \in Nat, values % 2 = 0, NEW x \in Nat, x < values \div 2
    PROVE  AsInt(x, values) = x
<1>1. values \div 2 \in Nat /\ values = 2 * (values \div 2)
  OBVIOUS
<1> DEFINE half == values \div 2
<1> HIDE DEF half
<1>2. x + half \in Nat /\ x + half < values
  BY <1>1 DEF half
<1>3. (x + half) % values = x + half
  BY <1>2, SmallModulo
<1> QED
  BY <1>1, <1>3 DEF AsInt, half

LEMMA LargeInt ==
    ASSUME NEW values \in Nat, values % 2 = 0, NEW x \in Nat, values \div 2 <= x, x < values
    PROVE  AsInt(x, values) = x - values
<1>1. values \div 2 \in Nat /\ values = 2 * (values \div 2)
  OBVIOUS
<1> DEFINE half == values \div 2
<1> HIDE DEF half
<1>2. x + half \in Nat /\ values <= x + half /\ x + half < 2 * values
  BY <1>1 DEF half
<1>3. (x + half) % values = (x + half) - values
  BY <1>2, ReducedModulo
<1>4. AsInt(x, values) = ((x + half) % values) - half
  BY DEF AsInt, half
<1>5. half \in Nat
  BY <1>1 DEF half
<1> QED
  BY <1>3, <1>4, <1>5

-----------------------------------------------------------------------------
(***************************************************************************)
(* The inode arithmetic is right in every file system and for every        *)
(* request where each group has its inode table at its sixth block and no  *)
(* intermediate value leaves the int.                                      *)
(***************************************************************************)

\* The inode table of every group asked for begins at its sixth block.
SixthBlock ==
    \A s \in Systems : \A n \in s.requests :
        s.table[Group(s, n)] = Group(s, n) * s.bpg + 5

\* What blk is when nothing overflows.
Sector(s, n) == (Group(s, n) * 2) * s.bpg + 2 * 5 + (Index(s, n) * INODE) \div SECTOR

\* The values the programs store in an int stay below half of its range.
FitsInt ==
    \A s \in Systems : \A n \in s.requests :
        \A x \in {Group(s, n) * 2, Index(s, n) * INODE, Sector(s, n)} : x < s.int \div 2

LEMMA SmallQuotient == ASSUME NEW x \in Nat PROVE Quotient(x, SECTOR) = x \div SECTOR
BY DEF Quotient

LEMMA GroupAndIndex ==
    ASSUME NEW s \in Systems, NEW n \in s.requests
    PROVE  /\ Group(s, n) \in Nat /\ Index(s, n) \in Nat
           /\ s.int \in Nat /\ s.int % 2 = 0 /\ s.bpg \in Nat
<1>1. s.ipg \in Nat \ {0} /\ n - 1 \in Nat
  BY InodeAssumption
<1> DEFINE ipg == s.ipg
           m == n - 1
<1> HIDE DEF ipg, m
<1>2. ipg \in Nat \ {0} /\ m \in Nat
  BY <1>1 DEF ipg, m
<1>3. m \div ipg \in Nat /\ m % ipg \in Nat
  BY <1>2
<1> QED
  BY <1>3, InodeAssumption DEF Group, Index, ipg, m

\* Four records of 128 bytes make a sector.
LEMMA RecordsInSector ==
    ASSUME NEW x \in Nat
    PROVE  ((x * INODE) \div SECTOR) * SECTOR + (x % (SECTOR \div INODE)) * INODE = x * INODE
BY DEF INODE, SECTOR

-----------------------------------------------------------------------------
(* The place read *)

LEMMA PlaceRead ==
    ASSUME FitsInt, NEW s \in Systems, NEW n \in s.requests
    PROVE  /\ Blk(s, n) = Sector(s, n)
           /\ Off(s, n) = (Index(s, n) % (SECTOR \div INODE)) * INODE
<1> DEFINE G == Group(s, n)
           I == Index(s, n)
           int == s.int
           bpg == s.bpg
<1>1. G \in Nat /\ I \in Nat /\ int \in Nat /\ int % 2 = 0 /\ bpg \in Nat
  BY GroupAndIndex
<1>2. G * 2 < int \div 2 /\ I * INODE < int \div 2 /\ Sector(s, n) < int \div 2
  BY DEF FitsInt
<1>3. InodeGroup(s, n) = AsInt(G, int) /\ GrpOffset(s, n) = AsInt(I, int)
  BY DEF InodeGroup, GrpOffset
<1>4. Sector(s, n) = (G * 2) * bpg + 2 * 5 + (I * INODE) \div SECTOR
  BY DEF Sector
<1>5. SubBlkOffset(s, n) = Quotient(AsInt(GrpOffset(s, n) * INODE, int), SECTOR)
  BY DEF SubBlkOffset
<1>6. Blk(s, n) = AsInt(AsInt(InodeGroup(s, n) * 2, int) * bpg + 2 * 5 + SubBlkOffset(s, n), int)
  BY DEF Blk
<1>7. Off(s, n) = (GrpOffset(s, n) % (SECTOR \div INODE)) * INODE
  BY DEF Off, InodeSubBlkOffset
<1> HIDE DEF G, I, int, bpg
<1>8. G < int \div 2 /\ I < int \div 2 /\ G * 2 \in Nat /\ I * INODE \in Nat
  BY <1>1, <1>2 DEF INODE
<1>9. InodeGroup(s, n) = G /\ GrpOffset(s, n) = I
  BY <1>1, <1>3, <1>8, SmallInt
<1>10. AsInt(G * 2, int) = G * 2 /\ AsInt(I * INODE, int) = I * INODE
  BY <1>1, <1>2, <1>8, SmallInt
<1>11. SubBlkOffset(s, n) = (I * INODE) \div SECTOR
  BY <1>5, <1>8, <1>9, <1>10, SmallQuotient
<1>12. Sector(s, n) \in Nat
  <2>1. (G * 2) * bpg \in Nat
    BY <1>1
  <2>2. (I * INODE) \div SECTOR \in Nat
    BY <1>8 DEF SECTOR
  <2> QED
    BY <1>4, <2>1, <2>2
<1>13. Blk(s, n) = AsInt(Sector(s, n), int)
  BY <1>4, <1>6, <1>9, <1>10, <1>11
<1>14. Blk(s, n) = Sector(s, n)
  BY <1>1, <1>2, <1>12, <1>13, SmallInt
<1> QED
  BY <1>7, <1>9, <1>14 DEF I

PlaceInv ==
    /\ system \in Systems /\ request \in system.requests
    /\ blk = Blk(system, request) /\ off = Off(system, request)

LEMMA PlaceIsRight ==
    ASSUME SixthBlock, FitsInt, PlaceInv
    PROVE  RightInode
<1> DEFINE G == Group(system, request)
           I == Index(system, request)
           bpg == system.bpg
           q == (I * INODE) \div SECTOR
           r == I % (SECTOR \div INODE)
           start == G * bpg
<1>1. G \in Nat /\ I \in Nat /\ bpg \in Nat
  BY GroupAndIndex DEF PlaceInv
<1>2. blk = (G * 2) * bpg + 2 * 5 + q /\ off = r * INODE
  BY PlaceRead DEF PlaceInv, Sector
<1>3. system.table[G] = start + 5
  BY DEF SixthBlock, PlaceInv
<1> HIDE DEF G, I, bpg
<1>4. q \in Nat /\ r \in Nat /\ q * SECTOR + r * INODE = I * INODE
  BY <1>1, RecordsInSector DEF INODE, SECTOR
<1>5. start \in Nat /\ (G * 2) * bpg = 2 * start
  BY <1>1
<1> HIDE DEF q, r, start
<1>6. blk * SECTOR + off = (start + 5) * 2 * SECTOR + I * INODE
  <2>1. blk = 2 * start + 10 + q
    BY <1>1, <1>2, <1>4, <1>5
  <2> QED
    BY <1>1, <1>2, <1>4, <1>5, <2>1 DEF SECTOR, INODE
<1> QED
  BY <1>3, <1>6 DEF RightInode, G, I

\* What get_inode reads is the record of the inode asked for.
THEOREM InodeIsRight ==
    ASSUME SixthBlock, FitsInt PROVE InodeSpec => []RightInode
<1>1. InodeInit => PlaceInv
  BY InodeAssumption DEF InodeInit, PlaceInv
<1>2. PlaceInv /\ [InodeNext]_inodeVars => PlaceInv'
  BY DEF PlaceInv, InodeNext, Lookup, inodeVars, Blk, Off, InodeGroup, GrpOffset,
         SubBlkOffset, InodeSubBlkOffset, Group, Index
<1>3. PlaceInv => RightInode
  BY PlaceIsRight
<1> QED
  BY <1>1, <1>2, <1>3, PTL DEF InodeSpec

-----------------------------------------------------------------------------
(***************************************************************************)
(* The size of a card is right for every register of version 1, and for    *)
(* those of version 2 that Readable names and no others.                   *)
(***************************************************************************)

\* The largest size of version 1 fits a uint32_t: a c_size of 12 bits shifted by
\* at most 11.
SizeFits == 4 * BYTE * LOW1 * 2048 < UINT32

\* The power of two by which a c_size is shifted, and the one nine bits further.
ShiftFits(e) == 2 ^ e \in 1..2048 /\ 2 ^ (e + 9) = 2 ^ e * 512

LEMMA Shifts == \A e \in 2..11 : ShiftFits(e)
<1>1. /\ ShiftFits(2) /\ ShiftFits(3) /\ ShiftFits(4) /\ ShiftFits(5) /\ ShiftFits(6)
      /\ ShiftFits(7) /\ ShiftFits(8) /\ ShiftFits(9) /\ ShiftFits(10) /\ ShiftFits(11)
  BY DEF ShiftFits
<1>2. 2..11 = {2, 3, 4, 5, 6, 7, 8, 9, 10, 11}
  OBVIOUS
<1> QED
  BY <1>1, <1>2

\* Sums of bit fields that do not meet stay below the values of both.
LEMMA FieldsBelow ==
    ASSUME NEW h \in Nat, NEW H \in Nat, h < H, NEW B \in Nat, NEW l \in 0..B - 1
    PROVE  h * B + l \in Nat /\ h * B + l < H * B
<1>1. h + 1 <= H /\ (h + 1) * B = h * B + B
  OBVIOUS
<1>2. (h + 1) * B <= H * B
  BY <1>1
<1>3. h * B \in Nat /\ H * B \in Nat
  OBVIOUS
<1> QED
  BY <1>1, <1>2, <1>3

LEMMA Widths ==
    /\ BYTE \in Nat \ {0} /\ INT16 \in Nat \ {0} /\ UINT32 \in Nat \ {0}
    /\ LOW1 \in Nat \ {0} /\ HIGH2 \in Nat \ {0} /\ UNIT \in Nat \ {0}
    /\ INT16 = BYTE * BYTE /\ INT16 % 2 = 0 /\ UINT32 = INT16 * INT16
<1>1. BYTE \in Nat \ {0} /\ BYTE % 2 = 0
  BY SizeAssumption
<1>2. LOW1 \in Nat \ {0} /\ HIGH2 \in Nat \ {0} /\ UNIT \in Nat \ {0}
  BY SizeAssumption
<1>3. INT16 = BYTE * BYTE /\ UINT32 = INT16 * INT16
  BY DEF INT16, UINT32
<1>4. INT16 \in Nat \ {0}
  BY <1>1, <1>3
<1>5. UINT32 \in Nat \ {0}
  BY <1>3, <1>4
<1>6. INT16 % 2 = 0
  <2>1. PICK half \in Nat : BYTE = 2 * half
    BY <1>1
  <2>2. INT16 = 2 * (half * BYTE) /\ half * BYTE \in Nat
    BY <1>1, <1>3, <2>1
  <2> QED
    BY <2>2
<1> QED
  BY <1>1, <1>2, <1>3, <1>4, <1>5, <1>6

LEMMA SizeOfVersion1 ==
    ASSUME SizeFits, NEW c \in Csds, c.csd_ver = 0
    PROVE  Size1(c) = Capacity(c)
<1> DEFINE high == c.c_size_high
           mid == c.c_size_mid
           low == c.c_size_low
           mult == Mult(c)
           blen == c.read_bl_len
<1>1. /\ high \in 0..3 /\ mid \in 0..BYTE - 1 /\ low \in 0..LOW1 - 1
      /\ blen \in 9..11 /\ mult \in 0..7
  BY SizeAssumption DEF Csd1, Csd2, CsdReserved, Mult
<1>2. Size1(c) = AsUnsigned((high * LOW1 * BYTE + mid * LOW1 + low + 1) * 2 ^ (mult + blen - 7))
  BY DEF Size1, CSize1
<1>3. Capacity(c) = (((high * BYTE + mid) * LOW1 + low + 1) * 2 ^ (mult + 2 + blen)) \div 512
  BY DEF Capacity
<1> HIDE DEF high, mid, low, mult, blen
<1>4. PICK e \in 2..11 : mult + blen - 7 = e /\ mult + 2 + blen = e + 9
  BY <1>1
<1> DEFINE P == 2 ^ e
           X == (high * BYTE + mid) * LOW1 + low + 1
<1>5. P \in 1..2048 /\ 2 ^ (e + 9) = P * 512
  <2>1. ShiftFits(e)
    BY <1>4, Shifts
  <2> QED
    BY <2>1 DEF ShiftFits
<1>6. X \in Nat /\ X > 0 /\ X <= 4 * BYTE * LOW1
  <2> DEFINE top == high * BYTE + mid
  <2>1. top \in Nat /\ top < 4 * BYTE
    BY <1>1, Widths, FieldsBelow
  <2>2. 4 * BYTE \in Nat /\ LOW1 \in Nat
    BY Widths
  <2> HIDE DEF top
  <2>3. top * LOW1 + low \in Nat /\ top * LOW1 + low < (4 * BYTE) * LOW1
    BY <1>1, <2>1, <2>2, FieldsBelow
  <2> DEFINE sum == top * LOW1 + low
             most == (4 * BYTE) * LOW1
  <2>4. most \in Nat /\ most = 4 * BYTE * LOW1
    BY <2>2
  <2>5. X = sum + 1
    BY DEF top
  <2> HIDE DEF sum, most, X
  <2>6. sum \in Nat /\ sum < most
    BY <2>3 DEF sum, most
  <2> QED
    BY <2>4, <2>5, <2>6
<1>7. high * LOW1 * BYTE + mid * LOW1 + low + 1 = X
  BY <1>1, Widths
<1> HIDE DEF P, X
<1>8. X * P \in Nat /\ X * P > 0 /\ X * P < UINT32
  <2> DEFINE most == 4 * BYTE * LOW1
  <2>1. most \in Nat /\ most * 2048 < UINT32
    BY Widths DEF SizeFits
  <2> HIDE DEF most
  <2>2. X <= most
    BY <1>6 DEF most
  <2>3. X * P <= most * 2048
    BY <1>5, <1>6, <2>1, <2>2
  <2>4. X * P \in Nat /\ X * P > 0
    BY <1>5, <1>6
  <2> QED
    BY <2>1, <2>3, <2>4, Widths
<1>9. (X * (P * 512)) \div 512 = X * P
  BY <1>5, <1>6
<1>10. AsUnsigned(X * P) = X * P
  BY <1>8, Widths, SmallModulo DEF AsUnsigned
<1>11. Size1(c) = X * P
  BY <1>2, <1>4, <1>7, <1>10 DEF P
<1>12. Capacity(c) = X * P
  <2>1. 2 ^ (mult + 2 + blen) = P * 512
    BY <1>4, <1>5
  <2>2. Capacity(c) = (X * 2 ^ (mult + 2 + blen)) \div 512
    BY <1>3, Zenon DEF X
  <2> QED
    BY <1>9, <2>1, <2>2
<1> QED
  BY <1>8, <1>11, <1>12

\* The blocks a c_size of version 2 can count, and the bits below byte 7 of it.
Counts2 == HIGH2 * INT16
Below(c) == c.c_size_mid * BYTE + c.c_size_low

LEMMA Widths2 ==
    /\ Counts2 \in Nat \ {0} /\ INT16 <= Counts2 /\ Counts2 <= UINT32
    /\ UINT32 = Counts2 * UNIT /\ UINT32 \div UNIT = Counts2
<1> DEFINE I == INT16
           H == HIGH2
           U == UNIT
<1>1. I \in Nat \ {0} /\ H \in Nat \ {0} /\ U \in Nat \ {0} /\ H * U = I
  BY Widths, SizeAssumption
<1>2. Counts2 = H * I /\ UINT32 = I * I
  BY Widths DEF Counts2
<1> HIDE DEF I, H, U
<1>3. H * I \in Nat \ {0} /\ I <= H * I
  BY <1>1
<1>4. I * I = (H * I) * U
  <2>1. I * I = (H * U) * I
    BY <1>1
  <2>2. (H * U) * I = (H * I) * U
    BY <1>1
  <2> QED
    BY <2>1, <2>2
<1> DEFINE all == H * I
<1> HIDE DEF all
<1>5. all \in Nat /\ all <= all * U /\ (all * U) \div U = all
  BY <1>1, <1>3 DEF all
<1> QED
  BY <1>2, <1>3, <1>4, <1>5 DEF all, I, U

\* Where the bits below byte 7 lie.
LEMMA BelowBounds ==
    ASSUME NEW c \in Csds, c.csd_ver = 1
    PROVE  /\ c.c_size_mid * BYTE \in Nat /\ c.c_size_low \in Nat
           /\ Below(c) \in 0..INT16 - 1
           /\ IF c.c_size_mid < BYTE \div 2
              THEN c.c_size_mid * BYTE < INT16 \div 2 /\ Below(c) < INT16 \div 2
              ELSE INT16 \div 2 <= c.c_size_mid * BYTE /\ c.c_size_mid * BYTE < INT16
           /\ Below(c) = INT16 - 1 <=> c.c_size_mid = BYTE - 1 /\ c.c_size_low = BYTE - 1
<1> DEFINE mid == c.c_size_mid
           low == c.c_size_low
<1>1. mid \in 0..BYTE - 1 /\ low \in 0..BYTE - 1
  BY SizeAssumption DEF Csd1, Csd2, CsdReserved
<1>2. Below(c) = mid * BYTE + low
  BY DEF Below
<1> HIDE DEF mid, low
<1>3. BYTE \in Nat \ {0} /\ INT16 = BYTE * BYTE
  BY Widths
<1>4. PICK half \in Nat : BYTE = 2 * half
  BY <1>3, SizeAssumption
<1>5. BYTE \div 2 = half /\ INT16 \div 2 = half * BYTE /\ half * BYTE \in Nat
  <2>1. INT16 = 2 * (half * BYTE) /\ half * BYTE \in Nat
    BY <1>3, <1>4
  <2> QED
    BY <1>3, <1>4, <2>1
<1>6. mid * BYTE \in Nat /\ mid * BYTE + low \in Nat /\ mid * BYTE + low < BYTE * BYTE
  BY <1>1, <1>3, FieldsBelow
<1>7. mid < half => mid * BYTE + low < half * BYTE
  BY <1>1, <1>3, <1>4, FieldsBelow
<1>8. ~(mid < half) => half * BYTE <= mid * BYTE
  BY <1>1, <1>3, <1>4
<1>9. mid * BYTE + low = INT16 - 1 <=> mid = BYTE - 1 /\ low = BYTE - 1
  <2>1. CASE mid = BYTE - 1
    <3>1. mid * BYTE = INT16 - BYTE
      BY <1>3, <2>1
    <3> QED
      BY <1>1, <1>3, <2>1, <3>1
  <2>2. CASE mid # BYTE - 1
    <3>1. mid < BYTE - 1
      BY <1>1, <1>3, <2>2
    <3>2. mid * BYTE + low < (BYTE - 1) * BYTE
      BY <1>1, <1>3, <3>1, FieldsBelow
    <3>3. (BYTE - 1) * BYTE = INT16 - BYTE
      BY <1>3
    <3> QED
      BY <1>3, <1>6, <2>2, <3>2, <3>3
  <2> QED
    BY <2>1, <2>2
<1> DEFINE first == mid * BYTE
           all == first + low
<1>10. first \in Nat /\ low \in Nat /\ all \in Nat /\ first <= all /\ all < INT16 /\ INT16 \in Nat
  BY <1>1, <1>3, <1>6
<1>11. Below(c) = all /\ (mid < half => first < half * BYTE /\ all < half * BYTE)
  BY <1>1, <1>2, <1>5, <1>6, <1>7
<1> QED
  BY <1>5, <1>8, <1>9, <1>10, <1>11 DEF mid, low

\* Up to half of the range of an int the shift is exact.
LEMMA SizeBelowHalf ==
    ASSUME NEW c \in Csds, c.csd_ver = 1, c.c_size_mid < BYTE \div 2
    PROVE  Size2(c) = (CSizeHigh(c) * INT16 + Below(c) + 1) * UNIT
<1> DEFINE high == CSizeHigh(c)
           X == high * INT16 + Below(c)
<1>1. high \in Nat /\ high + 1 <= HIGH2
  <2>1. c.byte7 \in Nat /\ c.byte7 <= HIGH2 - 1
    BY SizeAssumption DEF Csd1, Csd2, CsdReserved
  <2> QED
    BY <2>1, Widths DEF CSizeHigh
<1>2. Below(c) \in Nat /\ Below(c) + 1 < INT16
  BY BelowBounds, Widths
<1> DEFINE first == c.c_size_mid * BYTE
<1>3. AsInt(first, INT16) = first /\ first \in Nat
  BY BelowBounds, SmallInt, Widths
<1>4. CSize2(c) = AsUnsigned(Or(high * INT16, AsInt(first, INT16)) + c.c_size_low)
  BY DEF CSize2
<1>5. Below(c) = first + c.c_size_low
  BY DEF Below
<1> HIDE DEF high, first
<1>6. high * INT16 \in Nat /\ c.c_size_low \in Nat
  BY <1>1, Widths, BelowBounds
<1>7. CSize2(c) = AsUnsigned(X)
  BY <1>3, <1>4, <1>5, <1>6 DEF Or
<1>8. X \in Nat /\ X + 1 < Counts2
  <2>1. high * INT16 + INT16 <= Counts2
    <3>1. (high + 1) * INT16 <= HIGH2 * INT16 /\ (high + 1) * INT16 = high * INT16 + INT16
      BY <1>1, Widths
    <3> QED
      BY <3>1 DEF Counts2
  <2> DEFINE most == high * INT16
  <2>2. most \in Nat /\ most + INT16 <= Counts2 /\ X = most + Below(c)
    BY <1>6, <2>1
  <2> HIDE DEF most, X
  <2> QED
    BY <1>2, <2>2, Widths, Widths2
<1> HIDE DEF X
<1>9. AsUnsigned(X) = X
  BY <1>8, Widths, Widths2, SmallModulo DEF AsUnsigned
<1>10. (X + 1) % Counts2 = X + 1
  BY <1>8, Widths2, SmallModulo
<1>11. Size2(c) = (X + 1) * UNIT
  BY <1>7, <1>9, <1>10, Widths2 DEF Size2
<1> QED
  BY <1>11 DEF X, high

\* From half of the range on, the sign fills what lies above.
LEMMA SizeFromHalf ==
    ASSUME NEW c \in Csds, c.csd_ver = 1, ~(c.c_size_mid < BYTE \div 2)
    PROVE  Size2(c) = IF Below(c) = INT16 - 1 THEN 0
                      ELSE ((HIGH2 - 1) * INT16 + Below(c) + 1) * UNIT
<1> DEFINE first == c.c_size_mid * BYTE
           T == Below(c)
<1>1. first \in Nat /\ c.c_size_low \in Nat /\ INT16 \div 2 <= first /\ first < INT16
  BY BelowBounds
<1>2. AsInt(first, INT16) = first - INT16 /\ first - INT16 < 0
  BY <1>1, LargeInt, Widths
<1>3. CSize2(c) = AsUnsigned(Or(CSizeHigh(c) * INT16, AsInt(first, INT16)) + c.c_size_low)
  BY DEF CSize2
<1>4. T = first + c.c_size_low /\ T \in 0..INT16 - 1
  BY BelowBounds DEF Below
<1> HIDE DEF first, T
<1>5. CSize2(c) = AsUnsigned(T - INT16)
  <2>1. Or(CSizeHigh(c) * INT16, first - INT16) = first - INT16
    BY <1>2 DEF Or
  <2>2. (first - INT16) + c.c_size_low = T - INT16
    BY <1>1, <1>4, Widths
  <2> QED
    BY <1>2, <1>3, <2>1, <2>2
<1>6. AsUnsigned(T - INT16) = (T - INT16) + UINT32
  <2>1. T - INT16 \in Int /\ -UINT32 <= T - INT16 /\ T - INT16 < 0
    BY <1>4, Widths, Widths2
  <2> QED
    BY <2>1, Widths, WrappedModulo DEF AsUnsigned
<1>7. UINT32 = (UNIT - 1) * Counts2 + Counts2 /\ UNIT - 1 \in Nat
  BY Widths, Widths2
<1> DEFINE rest == Counts2 - INT16 + T + 1
<1>8. rest \in Nat /\ rest <= Counts2 /\ (rest = Counts2 <=> T = INT16 - 1)
  BY <1>4, Widths, Widths2
<1>9. CSize2(c) + 1 = (UNIT - 1) * Counts2 + rest
  <2> DEFINE most == (UNIT - 1) * Counts2
  <2>1. most \in Nat /\ UINT32 = most + Counts2
    BY <1>7, Widths2
  <2> HIDE DEF most
  <2>2. CSize2(c) + 1 = most + rest
    BY <1>4, <1>5, <1>6, <2>1, Widths, Widths2
  <2> QED
    BY <2>2 DEF most
<1> HIDE DEF rest
<1>10. Size2(c) = ((CSize2(c) + 1) % Counts2) * UNIT
  BY Widths2 DEF Size2
<1>11. CASE T = INT16 - 1
  <2>1. CSize2(c) + 1 = UNIT * Counts2 + 0
    BY <1>7, <1>8, <1>9, <1>11, Widths, Widths2
  <2>2. 0 \in 0..Counts2 - 1
    BY Widths2
  <2>3. (CSize2(c) + 1) % Counts2 = 0
    <3>1. (UNIT * Counts2 + 0) % Counts2 = 0
      BY <2>2, Widths, Widths2, MultipleModulo
    <3> QED
      BY <2>1, <3>1, Zenon
  <2>4. 0 * UNIT = 0
    BY Widths
  <2> QED
    BY <1>10, <1>11, <2>3, <2>4 DEF T
<1>12. CASE T # INT16 - 1
  <2>1. rest \in 0..Counts2 - 1
    BY <1>8, <1>12, Widths2
  <2>2. (CSize2(c) + 1) % Counts2 = rest
    BY <1>7, <1>9, <2>1, Widths2, MultipleModulo
  <2>3. rest = (HIGH2 - 1) * INT16 + T + 1
    <3>1. Counts2 - INT16 = (HIGH2 - 1) * INT16
      BY Widths DEF Counts2
    <3> QED
      BY <3>1 DEF rest
  <2> QED
    BY <1>10, <1>12, <2>2, <2>3 DEF T
<1> QED
  BY <1>11, <1>12

LEMMA SizeOfVersion2 ==
    ASSUME NEW c \in Csds, c.csd_ver = 1
    PROVE  Size2(c) = Capacity(c) <=> Readable(c)
<1> DEFINE b == c.byte7
           T == Below(c)
           high == CSizeHigh(c)
<1>1. b \in 0..HIGH2 - 1 /\ high = b \div 4
  BY SizeAssumption DEF Csd1, Csd2, CsdReserved, CSizeHigh
<1>2. T \in 0..INT16 - 1
  BY BelowBounds
<1>3. Capacity(c) = (b * INT16 + T + 1) * UNIT
  <2>1. Capacity(c) = ((b * BYTE + c.c_size_mid) * BYTE + c.c_size_low + 1) * UNIT
    BY DEF Capacity
  <2>2. c.c_size_mid \in Nat /\ c.c_size_low \in Nat
    BY SizeAssumption DEF Csd1, Csd2, CsdReserved
  <2>3. (b * BYTE + c.c_size_mid) * BYTE + c.c_size_low + 1 = b * INT16 + T + 1
    <3> DEFINE B == BYTE
               m == c.c_size_mid
               l == c.c_size_low
    <3>1. B \in Nat /\ b \in Nat /\ m \in Nat /\ l \in Nat /\ INT16 = B * B
      BY <1>1, <2>2, Widths
    <3>2. T = m * B + l
      BY DEF Below
    <3> HIDE DEF B, m, l, b, T
    <3>3. (b * B + m) * B = b * (B * B) + m * B
      BY <3>1
    <3>4. b * (B * B) \in Nat /\ m * B \in Nat
      BY <3>1
    <3>5. (b * B + m) * B + l + 1 = b * INT16 + T + 1
      BY <3>1, <3>2, <3>3, <3>4
    <3> QED
      BY <3>5 DEF B, m, l
  <2> QED
    BY <2>1, <2>3
\* Sizes are equal when their counts are, and counts when the bits of byte 7 are.
<1>4. \A m, n \in Nat : (m * INT16 + T + 1) * UNIT = (n * INT16 + T + 1) * UNIT <=> m = n
  <2> SUFFICES ASSUME NEW m \in Nat, NEW n \in Nat
               PROVE  (m * INT16 + T + 1) * UNIT = (n * INT16 + T + 1) * UNIT => m = n
    OBVIOUS
  <2> DEFINE X == m * INT16
             Y == n * INT16
  <2>1. X \in Nat /\ Y \in Nat /\ (X = Y => m = n)
    BY Widths
  <2> HIDE DEF X, Y, T
  <2>2. (X + T + 1) * UNIT = (Y + T + 1) * UNIT => X = Y
    <3>1. X + T + 1 \in Nat /\ Y + T + 1 \in Nat /\ UNIT \in Nat \ {0}
      BY <1>2, <2>1, Widths
    <3>2. \A x, y \in Nat : x * UNIT = y * UNIT => x = y
      BY Widths
    <3>3. (X + T + 1) * UNIT = (Y + T + 1) * UNIT => X + T + 1 = Y + T + 1
      BY <3>1, <3>2
    <3> QED
      BY <1>2, <2>1, <3>3, Widths
  <2> QED
    BY <2>1, <2>2 DEF X, Y
<1>5. CASE c.c_size_mid < BYTE \div 2
  <2>1. Size2(c) = (high * INT16 + T + 1) * UNIT
    BY <1>5, SizeBelowHalf
  <2>2. high \in Nat /\ b \in Nat /\ (high = b <=> b = 0)
    BY <1>1, Widths
  <2>3. Readable(c) <=> b = 0
    <3>1. c.c_size_mid \in Nat /\ BYTE \div 2 \in Nat
      BY SizeAssumption DEF Csd1, Csd2, CsdReserved
    <3>2. ~(c.c_size_mid >= BYTE \div 2)
      BY <1>5, <3>1
    <3> QED
      BY <1>5, <3>2 DEF Readable
  <2> HIDE DEF b, T, high
  <2> QED
    BY <1>3, <1>4, <2>1, <2>2, <2>3
<1>6. CASE ~(c.c_size_mid < BYTE \div 2)
  <2>1. c.c_size_mid >= BYTE \div 2
    <3>1. c.c_size_mid \in Nat /\ BYTE \div 2 \in Nat
      BY SizeAssumption DEF Csd1, Csd2, CsdReserved
    <3> QED
      BY <1>6, <3>1
  <2>2. Readable(c) <=> b = HIGH2 - 1 /\ T # INT16 - 1
    BY <1>6, <2>1, BelowBounds DEF Readable
  <2>3. CASE T = INT16 - 1
    <3>1. Size2(c) = 0
      BY <1>6, <2>3, SizeFromHalf
    <3>2. Capacity(c) # 0
      <4>1. b * INT16 \in Nat
        BY <1>1, Widths
      <4> HIDE DEF b, T
      <4> DEFINE X == b * INT16
      <4>2. X + T + 1 \in Nat \ {0}
        BY <1>2, <4>1, Widths
      <4>3. \A x \in Nat \ {0} : x * UNIT # 0
        BY Widths
      <4> QED
        BY <1>3, <4>2, <4>3
    <3> QED
      BY <2>2, <2>3, <3>1, <3>2
  <2>4. CASE T # INT16 - 1
    <3>1. Size2(c) = ((HIGH2 - 1) * INT16 + T + 1) * UNIT
      BY <1>6, <2>4, SizeFromHalf
    <3>2. HIGH2 - 1 \in Nat /\ b \in Nat
      BY <1>1, Widths
    <3> HIDE DEF b, T, high
    <3> QED
      BY <1>3, <1>4, <2>2, <2>4, <3>1, <3>2
  <2> QED
    BY <2>3, <2>4
<1> QED
  BY <1>5, <1>6

\* sdCardSize returns the number of blocks of the card for every card of version
\* 1, and of version 2 for the readable ones and no others.
THEOREM SizeIsRight ==
    ASSUME SizeFits PROVE SizeSpec => SizeIsCapacity
<1> DEFINE Inv == csd \in Csds
<1>1. SizeInit => Inv
  BY DEF SizeInit
<1>2. Inv /\ [SizeNext]_sizeVars => Inv'
  BY DEF SizeNext, NoRegister, Version1, Version2, OtherVersion, sizeVars
<1>3. Inv /\ [SizeNext]_sizeVars
        => [/\ Version1 => size' = Capacity(csd)
            /\ Version2 => (size' = Capacity(csd) <=> Readable(csd))]_sizeVars
  <2>1. ASSUME Inv, Version1 PROVE size' = Capacity(csd)
    BY <2>1, SizeOfVersion1 DEF Version1
  <2>2. ASSUME Inv, Version2 PROVE size' = Capacity(csd) <=> Readable(csd)
    BY <2>2, SizeOfVersion2 DEF Version2
  <2> QED
    BY <2>1, <2>2
<1> QED
  BY <1>1, <1>2, <1>3, PTL DEF SizeSpec, SizeIsCapacity

-----------------------------------------------------------------------------
(***************************************************************************)
(* The digits of a number.  Digits and Value are recursive functions; what *)
(* they compute is shown by induction over a set of numbers.               *)
(***************************************************************************)

\* A set of numbers with 0, and with the successor of each of its members, has
\* them all: otherwise the successor takes the members below some m one to one
\* to those but 0, which are fewer.
LEMMA SetInduction ==
  ASSUME NEW S, 0 \in S, \A n \in Nat : n \in S => n + 1 \in S
  PROVE  \A n \in Nat : n \in S
<1> SUFFICES ASSUME NEW m \in Nat, m \notin S PROVE FALSE
  OBVIOUS
<1> DEFINE A == S \cap (0 .. m)
           f == [n \in A |-> n + 1]
<1>1. A \subseteq 0 .. m /\ IsFiniteSet(A)
  <2>1. IsFiniteSet(0 .. m)
    BY FS_Interval
  <2>2. A \in SUBSET (0 .. m)
    OBVIOUS
  <2> QED
    BY <2>1, <2>2, FS_Subset, Zenon
<1>2. 0 \in A
  OBVIOUS
<1>3. IsFiniteSet(A \ {0}) /\ Cardinality(A \ {0}) = Cardinality(A) - 1
  BY <1>1, <1>2, FS_RemoveElement
<1>4. Cardinality(A) \in Nat
  BY <1>1, FS_CardinalityType
<1>5. f \in [A -> A \ {0}]
  <2>1. \A n \in A : n + 1 \in A \ {0}
    OBVIOUS
  <2> QED
    BY <2>1
<1>6. \A x, y \in A : f[x] = f[y] => x = y
  OBVIOUS
<1>7. Cardinality(A \ {0}) < Cardinality(A)
  BY <1>3, <1>4
<1> HIDE DEF A, f
<1>8. \E x, y \in A : x # y /\ f[x] = f[y]
  BY <1>1, <1>3, <1>5, <1>7, FS_PigeonHole, Zenon
<1> QED
  BY <1>6, <1>8

\* The same from what holds of all smaller numbers.
LEMMA SetInductionBelow ==
  ASSUME NEW S, \A n \in Nat : (\A k \in 0 .. n - 1 : k \in S) => n \in S
  PROVE  \A n \in Nat : n \in S
<1> DEFINE B == {n \in Nat : \A k \in 0 .. n - 1 : k \in S}
<1>1. 0 \in B
  OBVIOUS
<1>2. ASSUME NEW n \in Nat, n \in B PROVE n + 1 \in B
  <2>1. n \in S
    BY <1>2
  <2>2. ASSUME NEW k \in 0 .. n + 1 - 1 PROVE k \in S
    BY <1>2, <2>1
  <2> QED
    BY <2>2
<1>3. \A n \in Nat : n \in B
  <2> HIDE DEF B
  <2> QED
    BY <1>1, <1>2, SetInduction
<1>4. ASSUME NEW n \in Nat PROVE n \in S
  BY <1>3
<1> QED
  BY <1>4

\* f takes each number up to n to its digits.
DigitsUpTo(f, n, base) ==
  f = [m \in 0 .. n |-> IF m = 0 THEN <<>> ELSE Append(f[m \div base], m % base)]

\* s begins with the value 0 and ends with that of the digits.
ValuesOf(f, digits, base) ==
  f = [n \in 0 .. Len(digits) |-> IF n = 0 THEN 0 ELSE f[n - 1] * base + digits[n]]

DigitsTo(n, base) == CHOOSE f : DigitsUpTo(f, n, base)
ValuesTo(digits, base) == CHOOSE f : ValuesOf(f, digits, base)

LEMMA DigitsChosen ==
  ASSUME NEW n, NEW base
  PROVE  Digits(n, base) = DigitsTo(n, base)[n]
BY DEF Digits, DigitsUpTo, DigitsTo

LEMMA ValueChosen ==
  ASSUME NEW digits, NEW base
  PROVE  Value(digits, base) = ValuesTo(digits, base)[Len(digits)]
BY DEF Value, ValuesOf, ValuesTo

LEMMA Division ==
  ASSUME NEW base \in Nat, base > 1, NEW m \in Nat, m > 0
  PROVE  /\ m \div base \in 0 .. m - 1 /\ m % base \in 0 .. base - 1
         /\ m = (m \div base) * base + (m % base)
<1> DEFINE q == m \div base
           r == m % base
<1>1. q \in Nat /\ r \in 0 .. base - 1 /\ m = base * q + r
  OBVIOUS
<1> HIDE DEF q, r
<1>2. q < m
  <2>1. SUFFICES ASSUME q >= m PROVE FALSE
    BY <1>1
  <2>2. PICK d \in Nat : base = 2 + d
    <3>1. base - 2 \in Nat /\ base = 2 + (base - 2)
      OBVIOUS
    <3> QED
      BY <3>1
  <2>3. base * q = 2 * q + d * q /\ d * q \in Nat
    BY <1>1, <2>2
  <2> QED
    BY <1>1, <2>1, <2>3
<1>3. q \in 0 .. m - 1 /\ m = q * base + r
  BY <1>1, <1>2
<1> QED
  BY <1>1, <1>3 DEF q, r

LEMMA DigitsExist ==
  ASSUME NEW base \in Nat, base > 1
  PROVE  \A n \in Nat : \E f : DigitsUpTo(f, n, base)
<1> DEFINE S == {n \in Nat : \E f : DigitsUpTo(f, n, base)}
           quot(m) == m \div base
           rest(m) == m % base
<1>0. /\ \A m \in Nat : m > 0 => quot(m) \in 0 .. m - 1
      /\ \A f, n : DigitsUpTo(f, n, base) <=>
            f = [m \in 0 .. n |-> IF m = 0 THEN <<>> ELSE Append(f[quot(m)], rest(m))]
  BY Division DEF DigitsUpTo
<1> HIDE DEF quot, rest
<1>1. 0 \in S
  <2> DEFINE g == [m \in 0 .. 0 |-> <<>>]
  <2>1. g = [m \in 0 .. 0 |-> IF m = 0 THEN <<>> ELSE Append(g[quot(m)], rest(m))]
    <3>1. \A m \in 0 .. 0 : m = 0
      OBVIOUS
    <3> QED
      BY <3>1
  <2> QED
    BY <1>0, <2>1
<1>2. ASSUME NEW n \in Nat, n \in S PROVE n + 1 \in S
  <2>1. PICK f : f = [m \in 0 .. n |-> IF m = 0 THEN <<>> ELSE Append(f[quot(m)], rest(m))]
    <3>1. PICK f : DigitsUpTo(f, n, base)
      BY <1>2
    <3>2. f = [m \in 0 .. n |-> IF m = 0 THEN <<>> ELSE Append(f[quot(m)], rest(m))]
      BY <1>0, <3>1, Zenon
    <3> QED
      BY <3>2
  <2> DEFINE last == Append(f[quot(n + 1)], rest(n + 1))
             g == [m \in 0 .. n + 1 |-> IF m = n + 1 THEN last ELSE f[m]]
  <2>2. ASSUME NEW m \in 0 .. n + 1
        PROVE  g[m] = IF m = 0 THEN <<>> ELSE Append(g[quot(m)], rest(m))
    <3>1. CASE m = 0
      BY <3>1, <2>1
    <3>2. CASE m = n + 1
      <4>1. quot(m) \in 0 .. n
        BY <1>0, <3>2
      <4>2. g[quot(m)] = f[quot(m)] /\ g[m] = last /\ m # 0
        BY <3>2, <4>1
      <4> QED
        BY <3>2, <4>2
    <3>3. CASE m \in 1 .. n
      <4>1. quot(m) \in 0 .. n /\ m \in 0 .. n /\ m # 0 /\ m # n + 1
        BY <1>0, <3>3
      <4>2. g[quot(m)] = f[quot(m)] /\ g[m] = f[m]
        BY <4>1
      <4>3. f[m] = Append(f[quot(m)], rest(m))
        BY <2>1, <4>1
      <4> QED
        BY <4>1, <4>2, <4>3
    <3> QED
      BY <3>1, <3>2, <3>3
  <2>3. DOMAIN g = 0 .. n + 1 /\ g = [m \in DOMAIN g |-> g[m]]
    OBVIOUS
  <2> HIDE DEF g
  <2>4. g = [m \in 0 .. n + 1 |-> IF m = 0 THEN <<>> ELSE Append(g[quot(m)], rest(m))]
    BY <2>2, <2>3
  <2>5. DigitsUpTo(g, n + 1, base)
    BY <1>0, <2>4
  <2> QED
    BY <2>5
<1>3. \A n \in Nat : n \in S
  <2> HIDE DEF S
  <2> QED
    BY <1>1, <1>2, SetInduction
<1> QED
  BY <1>3

LEMMA ValuesExist ==
  ASSUME NEW base \in Nat, NEW digits, Len(digits) \in Nat
  PROVE  \E f : ValuesOf(f, digits, base)
<1> DEFINE Up(f, k) == f = [n \in 0 .. k |-> IF n = 0 THEN 0 ELSE f[n - 1] * base + digits[n]]
           S == {k \in Nat : \E f : Up(f, k)}
<1>1. 0 \in S
  <2> DEFINE g == [m \in 0 .. 0 |-> 0]
  <2>1. Up(g, 0)
    <3>1. \A m \in 0 .. 0 : m = 0
      OBVIOUS
    <3> QED
      BY <3>1
  <2> QED
    BY <2>1
<1>2. ASSUME NEW n \in Nat, n \in S PROVE n + 1 \in S
  <2>1. PICK f : Up(f, n)
    BY <1>2
  <2> DEFINE last == f[n] * base + digits[n + 1]
             g == [m \in 0 .. n + 1 |-> IF m = n + 1 THEN last ELSE f[m]]
  <2>2. ASSUME NEW m \in 0 .. n + 1
        PROVE  g[m] = IF m = 0 THEN 0 ELSE g[m - 1] * base + digits[m]
    <3>1. CASE m = 0
      BY <3>1, <2>1
    <3>2. CASE m = n + 1
      BY <3>2
    <3>3. CASE m \in 1 .. n
      <4>1. m - 1 \in 0 .. n /\ m \in 0 .. n /\ m # 0 /\ m # n + 1 /\ m - 1 # n + 1
        BY <3>3
      <4>2. g[m - 1] = f[m - 1] /\ g[m] = f[m]
        BY <4>1
      <4>3. f[m] = f[m - 1] * base + digits[m]
        BY <4>1, <2>1
      <4> QED
        BY <4>1, <4>2, <4>3
    <3> QED
      BY <3>1, <3>2, <3>3
  <2>3. DOMAIN g = 0 .. n + 1 /\ g = [m \in DOMAIN g |-> g[m]]
    OBVIOUS
  <2> HIDE DEF g
  <2>4. Up(g, n + 1)
    BY <2>2, <2>3
  <2> QED
    BY <2>4
<1>3. \A n \in Nat : n \in S
  <2> HIDE DEF S
  <2> QED
    BY <1>1, <1>2, SetInduction
<1> QED
  BY <1>3 DEF ValuesOf
LEMMA ValueSteps ==
  ASSUME NEW base \in Nat, NEW s \in Seq(Nat)
  PROVE  /\ ValuesTo(s, base)[0] = 0
         /\ \A n \in 0 .. Len(s) - 1 :
               ValuesTo(s, base)[n + 1] = ValuesTo(s, base)[n] * base + s[n + 1]
         /\ \A n \in 0 .. Len(s) : ValuesTo(s, base)[n] \in Nat
<1> DEFINE f == ValuesTo(s, base)
<1>1. Len(s) \in Nat /\ \A n \in 1 .. Len(s) : s[n] \in Nat
  OBVIOUS
<1>2. f = [n \in 0 .. Len(s) |-> IF n = 0 THEN 0 ELSE f[n - 1] * base + s[n]]
  BY <1>1, ValuesExist DEF ValuesTo, ValuesOf
<1> HIDE DEF f
<1>3. f[0] = 0
  BY <1>1, <1>2
<1>4. ASSUME NEW n \in 0 .. Len(s) - 1 PROVE f[n + 1] = f[n] * base + s[n + 1]
  <2>1. n + 1 \in 0 .. Len(s) /\ n + 1 # 0 /\ n + 1 - 1 = n
    BY <1>1
  <2>2. f[n + 1] = f[n + 1 - 1] * base + s[n + 1]
    BY <1>2, <2>1
  <2> QED
    BY <2>1, <2>2
<1> DEFINE S == {n \in Nat : n <= Len(s) => f[n] \in Nat}
<1>5. 0 \in S
  BY <1>3
<1>6. ASSUME NEW n \in Nat, n \in S PROVE n + 1 \in S
  <2> SUFFICES ASSUME n + 1 <= Len(s) PROVE f[n + 1] \in Nat
    OBVIOUS
  <2>1. n \in 0 .. Len(s) - 1 /\ f[n] \in Nat /\ s[n + 1] \in Nat
    BY <1>1, <1>6
  <2>2. f[n] * base \in Nat
    BY <2>1
  <2> QED
    BY <1>4, <2>1, <2>2
<1>7. \A n \in Nat : n \in S
  <2> HIDE DEF S
  <2> QED
    BY <1>5, <1>6, SetInduction
<1>8. \A n \in 0 .. Len(s) : f[n] \in Nat
  BY <1>1, <1>7
<1> QED
  BY <1>3, <1>4, <1>8 DEF f

\* A sequence that continues s with no other digits has the values of s.
LEMMA ValuesShared ==
  ASSUME NEW base \in Nat, NEW s \in Seq(Nat), NEW t \in Seq(Nat), Len(s) <= Len(t),
         \A n \in 1 .. Len(s) : t[n] = s[n]
  PROVE  ValuesTo(t, base)[Len(s)] = ValuesTo(s, base)[Len(s)]
<1> DEFINE f == ValuesTo(s, base)
           g == ValuesTo(t, base)
           S == {n \in Nat : n <= Len(s) => f[n] = g[n]}
<1>1. /\ f[0] = 0 /\ \A n \in 0 .. Len(s) - 1 : f[n + 1] = f[n] * base + s[n + 1]
      /\ g[0] = 0 /\ \A n \in 0 .. Len(t) - 1 : g[n + 1] = g[n] * base + t[n + 1]
      /\ Len(s) \in Nat /\ Len(t) \in Nat
  BY ValueSteps
<1> HIDE DEF f, g
<1>2. 0 \in S
  BY <1>1
<1>3. ASSUME NEW n \in Nat, n \in S PROVE n + 1 \in S
  <2> SUFFICES ASSUME n + 1 <= Len(s) PROVE f[n + 1] = g[n + 1]
    OBVIOUS
  <2>1. n \in 0 .. Len(s) - 1 /\ n \in 0 .. Len(t) - 1 /\ f[n] = g[n]
    BY <1>1, <1>3
  <2>2. n + 1 \in 1 .. Len(s) /\ t[n + 1] = s[n + 1]
    BY <1>1, <2>1
  <2> QED
    BY <1>1, <2>1, <2>2
<1>4. \A n \in Nat : n \in S
  <2> HIDE DEF S
  <2> QED
    BY <1>2, <1>3, SetInduction
<1> QED
  BY <1>1, <1>4 DEF f, g

LEMMA ValueOfNothing ==
  ASSUME NEW base \in Nat PROVE Value(<<>>, base) = 0
<1>1. <<>> \in Seq(Nat) /\ Len(<<>>) = 0
  OBVIOUS
<1>2. ValuesTo(<<>>, base)[0] = 0
  BY <1>1, ValueSteps
<1>3. Value(<<>>, base) = ValuesTo(<<>>, base)[Len(<<>>)]
  BY ValueChosen, Zenon
<1> QED
  BY <1>1, <1>2, <1>3

LEMMA ValueAppended ==
  ASSUME NEW base \in Nat, NEW s \in Seq(Nat), NEW d \in Nat
  PROVE  Value(Append(s, d), base) = Value(s, base) * base + d /\ Value(s, base) \in Nat
<1> DEFINE t == Append(s, d)
<1>1. /\ t \in Seq(Nat) /\ Len(t) = Len(s) + 1 /\ Len(s) \in Nat /\ t[Len(s) + 1] = d
      /\ \A n \in 1 .. Len(s) : t[n] = s[n]
  OBVIOUS
<1> HIDE DEF t
<1>2. ValuesTo(t, base)[Len(s)] = ValuesTo(s, base)[Len(s)]
  BY <1>1, ValuesShared
<1>3. Len(s) \in 0 .. Len(t) - 1 /\ Len(s) \in 0 .. Len(s)
  BY <1>1
<1>4. ValuesTo(t, base)[Len(s) + 1] = ValuesTo(t, base)[Len(s)] * base + t[Len(s) + 1]
  BY <1>1, <1>3, ValueSteps
<1>5. ValuesTo(s, base)[Len(s)] \in Nat
  BY <1>3, ValueSteps
<1>6. Value(t, base) = ValuesTo(t, base)[Len(s) + 1] /\ Value(s, base) = ValuesTo(s, base)[Len(s)]
  BY <1>1, ValueChosen
<1> QED
  BY <1>1, <1>2, <1>4, <1>5, <1>6 DEF t
\* k zeros, or none if k is negative.
Zeros(k) == [n \in 1 .. k |-> 0]

LEMMA ZerosInFront ==
  ASSUME NEW k \in Int
  PROVE  /\ Zeros(k) \in Seq(Nat) /\ Len(Zeros(k)) >= k
         /\ \A n \in 1 .. Len(Zeros(k)) : Zeros(k)[n] = 0
<1> DEFINE zeros == Zeros(k)
<1>1. PICK l \in Nat : 1 .. k = 1 .. l /\ l >= k
  <2>1. CASE k \in Nat
    BY <2>1
  <2>2. CASE k < 0
    <3>1. 1 .. k = 1 .. 0 /\ 0 >= k
      BY <2>2
    <3> QED
      BY <3>1
  <2> QED
    BY <2>1, <2>2
<1>2. /\ zeros \in [1 .. l -> Nat] /\ DOMAIN zeros = 1 .. l
      /\ \A n \in 1 .. l : zeros[n] = 0
  BY <1>1 DEF Zeros
<1> HIDE DEF zeros
<1>3. zeros \in Seq(Nat) /\ Len(zeros) = l
  <2>1. zeros \in Seq(Nat)
    BY <1>1, <1>2, SeqDef
  <2> QED
    BY <1>1, <1>2, <2>1
<1> QED
  BY <1>1, <1>2, <1>3 DEF zeros

LEMMA ValueBehindZeros ==
  ASSUME NEW base \in Nat, NEW s \in Seq(Nat), NEW k \in Int
  PROVE  Value(Zeros(k) \o s, base) = Value(s, base)
<1>1. SUFFICES ASSUME NEW z \in Seq(Nat), \A n \in 1 .. Len(z) : z[n] = 0
               PROVE  Value(z \o s, base) = Value(s, base)
  BY ZerosInFront DEF Zeros
<1> DEFINE t == z \o s
           K == Len(z)
           f == ValuesTo(s, base)
           g == ValuesTo(t, base)
<1>2. /\ t \in Seq(Nat) /\ Len(t) = K + Len(s) /\ K \in Nat /\ Len(s) \in Nat
      /\ \A n \in 1 .. K : t[n] = 0
      /\ \A n \in 1 .. Len(s) : t[K + n] = s[n]
  BY <1>1
<1> HIDE DEF t, K
<1>3. /\ f[0] = 0 /\ \A n \in 0 .. Len(s) - 1 : f[n + 1] = f[n] * base + s[n + 1]
      /\ g[0] = 0 /\ \A n \in 0 .. Len(t) - 1 : g[n + 1] = g[n] * base + t[n + 1]
  BY <1>2, ValueSteps
<1>4. Value(t, base) = g[K + Len(s)] /\ Value(s, base) = f[Len(s)]
  BY <1>2, ValueChosen
<1> HIDE DEF f, g
<1>5. g[K] = 0
  <2> DEFINE S == {n \in Nat : n <= K => g[n] = 0}
  <2>1. 0 \in S
    BY <1>3
  <2>2. ASSUME NEW n \in Nat, n \in S PROVE n + 1 \in S
    <3> SUFFICES ASSUME n + 1 <= K PROVE g[n + 1] = 0
      OBVIOUS
    <3>1. n \in 0 .. Len(t) - 1 /\ n + 1 \in 1 .. K /\ g[n] = 0
      BY <1>2, <2>2
    <3>2. g[n + 1] = 0 * base + 0
      BY <1>2, <1>3, <3>1
    <3> QED
      BY <3>2
  <2>3. \A n \in Nat : n \in S
    <3> HIDE DEF S
    <3> QED
      BY <2>1, <2>2, SetInduction
  <2> QED
    BY <1>2, <2>3
<1>6. g[K + Len(s)] = f[Len(s)]
  <2> DEFINE S == {n \in Nat : n <= Len(s) => g[K + n] = f[n]}
  <2>1. 0 \in S
    BY <1>2, <1>3, <1>5
  <2>2. ASSUME NEW n \in Nat, n \in S PROVE n + 1 \in S
    <3> SUFFICES ASSUME n + 1 <= Len(s) PROVE g[K + (n + 1)] = f[n + 1]
      OBVIOUS
    <3>1. /\ n \in 0 .. Len(s) - 1 /\ n + 1 \in 1 .. Len(s)
          /\ K + n \in 0 .. Len(t) - 1 /\ K + (n + 1) = (K + n) + 1
      BY <1>2, <2>2
    <3>2. g[K + n] = f[n]
      BY <1>2, <2>2, <3>1
    <3>3. t[K + (n + 1)] = s[n + 1]
      BY <1>2, <3>1
    <3>4. g[(K + n) + 1] = g[K + n] * base + t[(K + n) + 1]
      BY <1>3, <3>1
    <3>5. f[n + 1] = f[n] * base + s[n + 1]
      BY <1>3, <3>1
    <3> QED
      BY <3>1, <3>2, <3>3, <3>4, <3>5
  <2>3. \A n \in Nat : n \in S
    <3> HIDE DEF S
    <3> QED
      BY <2>1, <2>2, SetInduction
  <2> QED
    BY <1>2, <2>3
<1> QED
  BY <1>4, <1>6 DEF t

\* s is the numeral of m, with no zero in front.
NumeralOf(s, m, base) ==
  /\ s \in Seq(Nat) /\ Value(s, base) = m
  /\ IF m = 0 THEN s = <<>> ELSE s # <<>> /\ s[1] # 0

LEMMA DigitAppended ==
  ASSUME NEW base \in Nat, base > 1, NEW m \in Nat, m > 0, NEW s,
         NumeralOf(s, m \div base, base)
  PROVE  NumeralOf(Append(s, m % base), m, base)
<1> DEFINE q == m \div base
           r == m % base
<1>1. q \in Nat /\ r \in Nat /\ m = q * base + r
  <2>1. q \in 0 .. m - 1 /\ r \in 0 .. base - 1 /\ m = q * base + r
    BY Division, Zenon
  <2> HIDE DEF q, r
  <2> QED
    BY <2>1
<1>2. NumeralOf(s, q, base)
  OBVIOUS
<1>3. SUFFICES NumeralOf(Append(s, r), m, base)
  OBVIOUS
<1> HIDE DEF q, r
<1>4. s \in Seq(Nat) /\ Value(s, base) = q /\ Append(s, r) \in Seq(Nat) /\ Append(s, r) # <<>>
  BY <1>1, <1>2 DEF NumeralOf
<1>5. Value(Append(s, r), base) = m
  BY <1>1, <1>4, ValueAppended
<1>6. Append(s, r)[1] # 0
  <2>1. CASE q = 0
    <3>1. s = <<>> /\ 0 * base = 0
      BY <1>2, <2>1 DEF NumeralOf
    <3>2. r = m
      BY <1>1, <2>1, <3>1
    <3> QED
      BY <3>1, <3>2
  <2>2. CASE q # 0
    <3>1. s # <<>> /\ s[1] # 0
      BY <1>2, <2>2 DEF NumeralOf
    <3>2. Append(s, r)[1] = s[1]
      BY <1>1, <1>4, <3>1
    <3> QED
      BY <3>1, <3>2
  <2> QED
    BY <2>1, <2>2
<1> QED
  BY <1>4, <1>5, <1>6 DEF NumeralOf

\* The loops that take a number apart digit by digit find its numeral.
LEMMA DigitsAreNumeral ==
  ASSUME NEW base \in Nat, base > 1, NEW n \in Nat
  PROVE  NumeralOf(Digits(n, base), n, base)
<1> DEFINE D == DigitsTo(n, base)
           quot(m) == m \div base
           rest(m) == m % base
           S == {m \in Nat : m <= n => NumeralOf(D[m], m, base)}
<1>1. D = [m \in 0 .. n |-> IF m = 0 THEN <<>> ELSE Append(D[quot(m)], rest(m))]
  BY DigitsExist DEF DigitsTo, DigitsUpTo
<1>2. \A m \in Nat : m > 0 => quot(m) \in 0 .. m - 1
  BY Division
<1>3. \A m \in Nat : m > 0 =>
         \A s : NumeralOf(s, quot(m), base) => NumeralOf(Append(s, rest(m)), m, base)
  BY DigitAppended
<1>4. Digits(n, base) = D[n]
  BY DigitsChosen
<1> HIDE DEF D, quot, rest
<1>5. ASSUME NEW m \in Nat, \A k \in 0 .. m - 1 : k \in S PROVE m \in S
  <2> SUFFICES ASSUME m <= n PROVE NumeralOf(D[m], m, base)
    OBVIOUS
  <2>1. CASE m = 0
    <3>1. D[m] = <<>> /\ <<>> \in Seq(Nat)
      BY <1>1, <2>1
    <3> QED
      BY <2>1, <3>1, ValueOfNothing DEF NumeralOf
  <2>2. CASE m > 0
    <3>1. quot(m) \in S /\ quot(m) <= n
      BY <1>2, <1>5, <2>2
    <3>2. D[m] = Append(D[quot(m)], rest(m))
      BY <1>1, <2>2
    <3> QED
      BY <1>3, <2>2, <3>1, <3>2
  <2> QED
    BY <2>1, <2>2
<1>6. \A m \in Nat : m \in S
  <2> HIDE DEF S
  <2> QED
    BY <1>5, SetInductionBelow
<1> QED
  BY <1>4, <1>6

-----------------------------------------------------------------------------
(* What print_int, print_int32, print_hex and set_cursor print.             *)

\* The int giveInt takes a number for, and what it writes: nothing for one below 1.
Taken(v) == IF AsInt(v, INT) < 0 THEN 0 ELSE AsInt(v, INT)

LEMMA GivenIsNumeral ==
  ASSUME NEW v \in Words \cup Longs \cup Positions
  PROVE  /\ v \in Nat /\ NumeralOf(Given(v), Taken(v), 10) /\ Given(v) \in Seq(Nat)
         /\ v < INT \div 2 => AsInt(v, INT) = v /\ Taken(v) = v
<1>1. v \in Nat
  BY SerialAssumption
<1>2. AsInt(v, INT) \in Int
  <2>1. v + INT \div 2 \in Int /\ INT \in Nat \ {0}
    BY <1>1, SerialAssumption
  <2>2. (v + INT \div 2) % INT \in Int
    BY <2>1
  <2> QED
    BY <2>1, <2>2, SerialAssumption DEF AsInt
<1>3. Taken(v) \in Nat /\ Given(v) = Digits(Taken(v), 10)
  BY <1>2 DEF Taken, Given
<1>4. NumeralOf(Given(v), Taken(v), 10)
  BY <1>3, DigitsAreNumeral
<1>5. v < INT \div 2 => AsInt(v, INT) = v /\ Taken(v) = v
  BY <1>1, SerialAssumption, SmallInt DEF Taken
<1> QED
  BY <1>1, <1>4, <1>5 DEF NumeralOf

LEMMA ShownIsWritten ==
  ASSUME NEW b \in Seq(Nat), NEW digits \in Seq(Nat)
  PROVE  /\ Over(b, digits) \in Seq(Nat)
         /\ Shown(Over(b, digits), Len(digits)) = digits
<1> DEFINE kept == SubSeq(b, 1, Len(b) - Len(digits))
           all == kept \o digits
           shown == SubSeq(all, Len(all) - Len(digits) + 1, Len(all))
<1>1. kept \in Seq(Nat)
  <2>1. Len(b) \in Nat /\ Len(digits) \in Nat /\ \A i \in 1 .. Len(b) : b[i] \in Nat
    OBVIOUS
  <2>2. \A i \in 1 .. Len(b) - Len(digits) : b[i] \in Nat
    BY <2>1
  <2> QED
    BY <2>1, <2>2, SubSeqProperties
<1> HIDE DEF kept
<1>2. /\ all \in Seq(Nat) /\ Len(all) = Len(kept) + Len(digits)
      /\ Len(kept) \in Nat /\ Len(digits) \in Nat
      /\ \A i \in 1 .. Len(digits) : all[Len(kept) + i] = digits[i]
  BY <1>1
<1>3. Len(all) - Len(digits) + 1 = Len(kept) + 1
  BY <1>2
<1>4. shown = SubSeq(all, Len(kept) + 1, Len(kept) + Len(digits))
  BY <1>2, <1>3
<1> HIDE DEF all
<1>5. SubSeq(all, Len(kept) + 1, Len(kept) + Len(digits)) = digits
  <2> DEFINE m == Len(kept) + 1
             n == Len(kept) + Len(digits)
  <2>1. m \in Int /\ n \in Int /\ \A i \in m .. n : all[i] \in Nat
    BY <1>2
  <2>2. /\ SubSeq(all, m, n) \in Seq(Nat)
        /\ Len(SubSeq(all, m, n)) = IF m <= n THEN n - m + 1 ELSE 0
        /\ \A i \in 1 .. n - m + 1 : SubSeq(all, m, n)[i] = all[m + i - 1]
    <3> HIDE DEF m, n
    <3> QED
      BY <2>1, SubSeqProperties
  <2>3. n - m + 1 = Len(digits) /\ (m <= n <=> Len(digits) > 0)
    BY <1>2
  <2>4. \A i \in 1 .. Len(digits) : m + i - 1 = Len(kept) + i
    BY <1>2
  <2> HIDE DEF m, n
  <2>5. Len(SubSeq(all, m, n)) = Len(digits)
    <3>1. CASE m <= n
      BY <2>2, <2>3, <3>1
    <3>2. CASE ~(m <= n)
      <4>1. Len(SubSeq(all, m, n)) = 0
        BY <2>2, <3>2
      <4>2. Len(digits) = 0
        BY <1>2, <2>3, <3>2
      <4> QED
        BY <4>1, <4>2
    <3> QED
      BY <3>1, <3>2
  <2>6. ASSUME NEW i \in 1 .. Len(digits) PROVE SubSeq(all, m, n)[i] = digits[i]
    <3>1. SubSeq(all, m, n)[i] = all[m + i - 1]
      BY <2>2, <2>3
    <3>2. all[Len(kept) + i] = digits[i]
      BY <1>2
    <3> QED
      BY <2>4, <3>1, <3>2
  <2>7. SubSeq(all, m, n) = digits
    BY <2>2, <2>5, <2>6, SeqEqual
  <2> QED
    BY <2>7 DEF m, n
<1> QED
  BY <1>2, <1>4, <1>5 DEF Over, Shown, all, kept

\* What print_int prints, and leaves in the buffer.
LEMMA IntPrinted ==
  ASSUME NEW b \in Seq(Nat), NEW v \in Words \cup Longs \cup Positions
  PROVE  /\ AfterPrintInt(b, v) \in Seq(Nat)
         /\ v < INT \div 2 => Numeral(IntPrint(b, v), v)
<1>1. v \in Nat /\ NumeralOf(Given(v), Taken(v), 10) /\ (v < INT \div 2 => Taken(v) = v)
  BY GivenIsNumeral
<1>2. Given(v) \in Seq(Nat)
  BY <1>1 DEF NumeralOf
<1>3. CASE v = 0
  <2>1. IntPrint(b, v) = <<0>> /\ AfterPrintInt(b, v) = b
    BY <1>3 DEF IntPrint, AfterPrintInt
  <2>2. <<0>> = Append(<<>>, 0) /\ <<>> \in Seq(Nat)
    OBVIOUS
  <2>3. Value(<<0>>, 10) = 0
    <3>1. Value(Append(<<>>, 0), 10) = Value(<<>>, 10) * 10 + 0
      BY <2>2, ValueAppended
    <3>2. Value(<<>>, 10) = 0
      BY ValueOfNothing
    <3> QED
      BY <2>2, <3>1, <3>2
  <2>4. Numeral(<<0>>, 0)
    <3>1. <<0>> # <<>> /\ Len(<<0>>) = 1
      OBVIOUS
    <3> QED
      BY <2>3, <3>1 DEF Numeral
  <2> QED
    BY <1>3, <2>1, <2>4
<1>4. CASE v # 0
  <2>1. IntPrint(b, v) = Given(v) /\ AfterPrintInt(b, v) \in Seq(Nat)
    BY <1>2, <1>4, ShownIsWritten DEF IntPrint, AfterPrintInt
  <2>2. ASSUME v < INT \div 2
        PROVE  Given(v) # <<>> /\ Value(Given(v), 10) = v /\ Given(v)[1] # 0
    BY <1>1, <1>4, <2>2 DEF NumeralOf
  <2>3. v < INT \div 2 => Numeral(Given(v), v)
    BY <2>2 DEF Numeral
  <2> QED
    BY <2>1, <2>3
<1> QED
  BY <1>3, <1>4

LEMMA HexPrinted ==
  ASSUME NEW v \in Words \cup Longs, v < INT \div 2
  PROVE  Len(HexPrint(v)) >= PAD /\ Value(HexPrint(v), 16) = v
<1>1. v \in Nat /\ AsInt(v, INT) = v
  BY GivenIsNumeral
<1> DEFINE digits == IF v <= 0 THEN <<Nibble(v)>> ELSE Digits(v, 16)
           zeros == Zeros(Padding(Len(digits)))
<1>2. HexPrint(v) = zeros \o digits
  BY <1>1 DEF HexPrint, Zeros
<1>3. digits \in Seq(Nat) /\ Value(digits, 16) = v
  <2>1. CASE v = 0
    <3>1. digits = <<0>>
      BY <2>1 DEF Nibble
    <3>2. <<0>> = Append(<<>>, 0) /\ <<>> \in Seq(Nat) /\ <<0>> \in Seq(Nat)
      OBVIOUS
    <3>3. Value(Append(<<>>, 0), 16) = Value(<<>>, 16) * 16 + 0
      BY <3>2, ValueAppended
    <3>4. Value(<<>>, 16) = 0
      BY ValueOfNothing
    <3> QED
      BY <2>1, <3>1, <3>2, <3>3, <3>4
  <2>2. CASE v > 0
    <3>1. digits = Digits(v, 16)
      BY <1>1, <2>2
    <3>2. NumeralOf(Digits(v, 16), v, 16)
      BY <1>1, DigitsAreNumeral
    <3> QED
      BY <3>1, <3>2 DEF NumeralOf
  <2> QED
    BY <1>1, <2>1, <2>2
<1> HIDE DEF digits
<1>4. Len(digits) \in Nat /\ PAD \in Nat /\ Padding(Len(digits)) = PAD - Len(digits)
  BY <1>3, SerialAssumption DEF Padding
<1>5. Value(zeros \o digits, 16) = v
  BY <1>3, <1>4, ValueBehindZeros
<1>6. Len(zeros \o digits) >= PAD
  <2>1. zeros \in Seq(Nat) /\ Len(zeros) >= PAD - Len(digits)
    <3> DEFINE k == Padding(Len(digits))
    <3>1. k \in Int
      BY <1>4
    <3> HIDE DEF k
    <3>2. Zeros(k) \in Seq(Nat) /\ Len(Zeros(k)) >= k
      BY <3>1, ZerosInFront
    <3> QED
      BY <1>4, <3>2 DEF k
  <2> HIDE DEF zeros
  <2>2. Len(zeros \o digits) = Len(zeros) + Len(digits) /\ Len(zeros) \in Nat
    BY <1>3, <2>1
  <2> QED
    BY <1>4, <2>1, <2>2
<1> QED
  BY <1>2, <1>5, <1>6

\* giveInt's buffer may hold any digits.
SerialInv == intBuffer \in Seq(Nat) /\ PrintsTheNumber

\* A number alone: what is printed for it decides the invariant.
LEMMA OneNumber ==
  ASSUME NEW fn, NEW v, NEW digits, intBuffer' \in Seq(Nat),
         call' = [fn |-> fn, args |-> <<v>>], printed' = <<digits>>,
         v < INT \div 2 => Expected(fn, digits, v)
  PROVE  SerialInv'
BY DEF SerialInv, PrintsTheNumber

LEMMA SerialStep ==
  ASSUME SerialInv, [SerialNext]_serialVars
  PROVE  SerialInv'
<1>1. intBuffer \in Seq(Nat)
  BY DEF SerialInv
<1>2. ASSUME NEW v \in Words, PrintInt(v) PROVE SerialInv'
  <2>1. /\ intBuffer' = AfterPrintInt(intBuffer, v) /\ printed' = <<IntPrint(intBuffer, v)>>
        /\ call' = [fn |-> "print_int", args |-> <<v>>]
    BY <1>2 DEF PrintInt
  <2>2. v < INT \div 2 => Expected("print_int", IntPrint(intBuffer, v), v)
    BY <1>1, IntPrinted DEF Expected
  <2>3. intBuffer' \in Seq(Nat)
    BY <1>1, <2>1, IntPrinted
  <2> QED
    BY <2>1, <2>2, <2>3, OneNumber
<1>3. ASSUME NEW v \in Words \cup Longs, PrintHex(v) \/ PrintHex32(v) PROVE SerialInv'
  <2>1. PICK fn \in {"print_hex", "print_hex32"} :
           /\ intBuffer' = intBuffer /\ printed' = <<HexPrint(v)>>
           /\ call' = [fn |-> fn, args |-> <<v>>]
    BY <1>3 DEF PrintHex, PrintHex32
  <2>2. v < INT \div 2 => Expected(fn, HexPrint(v), v)
    BY <2>1, HexPrinted DEF Expected
  <2> QED
    BY <1>1, <2>1, <2>2, OneNumber
<1>4. ASSUME NEW v \in Longs, PrintInt32(v) PROVE SerialInv'
  <2>1. v \in Nat /\ NumeralOf(Given(v), Taken(v), 10) /\ (v < INT \div 2 => Taken(v) = v)
    BY GivenIsNumeral
  <2>2. Given(v) \in Seq(Nat)
    BY <2>1 DEF NumeralOf
  <2>3. /\ intBuffer' \in Seq(Nat) /\ printed' = <<Given(v)>>
        /\ call' = [fn |-> "print_int32", args |-> <<v>>]
    BY <1>1, <1>4, <2>2, ShownIsWritten DEF PrintInt32
  <2>4. v < INT \div 2 => Expected("print_int32", Given(v), v)
    <3> SUFFICES ASSUME v < INT \div 2 PROVE Expected("print_int32", Given(v), v)
      OBVIOUS
    <3>1. NumeralOf(Given(v), v, 10)
      BY <2>1
    <3>2. CASE v = 0
      BY <3>1, <3>2 DEF NumeralOf, Expected
    <3>3. CASE v # 0
      BY <3>1, <3>3 DEF NumeralOf, Expected, Numeral
    <3> QED
      BY <3>2, <3>3
  <2> QED
    BY <2>3, <2>4, OneNumber
<1>5. ASSUME NEW r \in Positions, NEW c \in Positions, SetCursor(r, c) PROVE SerialInv'
  <2> DEFINE b == Over(Over(intBuffer, Given(r)), Given(c))
             first == IntPrint(b, r)
             second == IntPrint(AfterPrintInt(b, r), c)
  <2>1. /\ intBuffer' = AfterPrintInt(AfterPrintInt(b, r), c)
        /\ printed' = <<first, second>>
        /\ call' = [fn |-> "set_cursor", args |-> <<r, c>>]
    BY <1>5 DEF SetCursor, CursorPrint
  <2>2. Given(r) \in Seq(Nat) /\ Given(c) \in Seq(Nat)
    BY GivenIsNumeral
  <2>3. b \in Seq(Nat)
    BY <1>1, <2>2, ShownIsWritten
  <2> HIDE DEF b
  <2>4. AfterPrintInt(b, r) \in Seq(Nat) /\ (r < INT \div 2 => Numeral(first, r))
    BY <2>3, IntPrinted
  <2>5. /\ AfterPrintInt(AfterPrintInt(b, r), c) \in Seq(Nat)
        /\ c < INT \div 2 => Numeral(second, c)
    BY <2>4, IntPrinted
  <2> HIDE DEF first, second
  <2>6. /\ r < INT \div 2 => Expected("set_cursor", first, r)
        /\ c < INT \div 2 => Expected("set_cursor", second, c)
    BY <2>4, <2>5 DEF Expected
  <2> QED
    BY <2>1, <2>5, <2>6 DEF SerialInv, PrintsTheNumber
<1>6. CASE UNCHANGED serialVars
  BY <1>6 DEF serialVars, SerialInv, PrintsTheNumber
<1> QED
  BY <1>2, <1>3, <1>4, <1>5, <1>6 DEF SerialNext

\* A number that an int holds is printed digit by digit, without a zero in front
\* but in print_hex's padding, and nothing is printed for print_int32's 0,
\* whatever was printed before, larger numbers included (serial.c:74-177).
THEOREM NumbersArePrinted == SerialSpec => []PrintsTheNumber
<1>1. SerialInit => SerialInv
  BY DEF SerialInit, SerialInv, PrintsTheNumber
<1>2. SerialInv /\ [SerialNext]_serialVars => SerialInv'
  BY SerialStep
<1>3. SerialInv => PrintsTheNumber
  BY DEF SerialInv
<1> QED
  BY <1>1, <1>2, <1>3, PTL DEF SerialSpec
=============================================================================
