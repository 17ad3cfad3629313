---------------------------- MODULE Player_proofs ----------------------------
(***************************************************************************)
(* Proofs about main of program5.c and the playback interrupt.             *)
(***************************************************************************)
EXTENDS Player, SequenceTheorems, TLAPS

\* What mke2fs leaves behind the superblock's fields, and a parent inode below
\* 256: the bytes that fall on offset_ are zero.
ZeroOverCount ==
  /\ \A s \in SuperBlocks : s.offset_[1] = 0 /\ s.offset_[2] = 0
  /\ \A d \in Directories : d[2] = 0 /\ d[3] = 0

Calls == {Reads[n] : n \in DOMAIN Reads}

VariableStore == [var : {"isr2", "offset_"}, part : {"low", "high"}, byte : 0 .. BYTE - 1]
BufferStore == [var : {"buffer"}, part : 0 .. BUF - 1, byte : {0}]

-----------------------------------------------------------------------------
(* The inductive invariants *)

\* The stores to come are of the kinds a sector makes.
StoresTyped ==
  /\ image \in [super : SuperBlocks, dir : Directories]
  /\ stores \in Seq(VariableStore \cup BufferStore)

TypeInv == TypeOK /\ StoresTyped

\* From its first store on, a read has counted no byte yet: what it stores over
\* the count is zero.
UncountedInv ==
  /\ \A k \in 1 .. Len(stores) : stores[k].var = "offset_" => stores[k].byte = 0
  /\ pc \in Calls /\ stores # StoresOf(pc) => offset_ = 0

CountInv == TypeInv /\ UncountedInv /\ BlockTakenWhole

-----------------------------------------------------------------------------
(* Bytes and ints *)

LEMMA Quotient ==
  ASSUME NEW a \in Nat, NEW b \in Nat \ {0}
  PROVE  /\ a \div b \in Nat /\ a % b \in 0 .. b - 1
         /\ a = b * (a \div b) + (a % b)
  OBVIOUS

LEMMA IntSize ==
  /\ BYTE \in Nat /\ BYTE >= 2
  /\ INT \in Nat /\ INT >= 4
  /\ INT \div 2 \in Nat /\ INT = 2 * (INT \div 2)
  /\ BUF \in Nat /\ BUF >= 4 /\ BUF <= INT \div 2 - CRC
<1>1. BYTE \in Nat /\ BYTE >= 2 /\ BYTE % 2 = 0
  BY PlayerAssumption
<1>2. PICK h \in Nat : BYTE = 2 * h
  BY <1>1
<1>3. INT = 2 * (h * BYTE) /\ h * BYTE \in Nat /\ h >= 1
  BY <1>1, <1>2 DEF INT
<1>4. h * BYTE >= BYTE
  BY <1>1, <1>3
<1>5. INT \in Nat /\ INT >= 4 /\ INT \div 2 \in Nat /\ INT = 2 * (INT \div 2)
  BY <1>1, <1>3, <1>4
<1>6. BUF \in 4 .. INT \div 2 - CRC
  BY PlayerAssumption
<1> QED
  BY <1>1, <1>5, <1>6 DEF CRC

\* A number of two bytes stored in an int is one.
LEMMA SignedIsInt ==
  ASSUME NEW x \in 0 .. INT - 1
  PROVE  Signed(x) \in -(INT \div 2) .. INT \div 2 - 1
  BY IntSize DEF Signed

LEMMA HalvesAreBytes ==
  ASSUME NEW x \in Int
  PROVE  Low(x) \in 0 .. BYTE - 1 /\ High(x) \in 0 .. BYTE - 1
<1>1. x % INT \in 0 .. INT - 1
  BY IntSize
<1> DEFINE y == x % INT
<1>2. y \in Nat /\ y < BYTE * BYTE
  BY <1>1, IntSize DEF INT
<1> HIDE DEF y
<1>3. /\ y \div BYTE \in Nat /\ y % BYTE \in 0 .. BYTE - 1
      /\ y = BYTE * (y \div BYTE) + (y % BYTE)
  <2>1. BYTE \in Nat \ {0}
    BY IntSize
  <2> QED
    BY <1>2, <2>1, Quotient, Zenon
<1>4. y \div BYTE < BYTE
  <2>1. SUFFICES ASSUME y \div BYTE >= BYTE PROVE FALSE
    BY <1>3, IntSize
  <2>2. ASSUME NEW q \in Nat, NEW b \in Nat, q >= b PROVE b * q >= b * b
    <3>1. PICK d \in Nat : q = b + d
      <4>1. q - b \in Nat /\ q = b + (q - b)
        BY <2>2
      <4> QED
        BY <4>1
    <3>2. b * q = b * b + b * d /\ b * d \in Nat /\ b * b \in Nat
      BY <3>1
    <3> QED
      BY <3>2
  <2>3. BYTE * (y \div BYTE) >= BYTE * BYTE
    BY <1>3, <2>1, <2>2, IntSize
  <2> QED
    BY <1>2, <1>3, <2>3, IntSize
<1> QED
  BY <1>3, <1>4, IntSize DEF Low, High, y

LEMMA PairIsWord ==
  ASSUME NEW a \in 0 .. BYTE - 1, NEW b \in 0 .. BYTE - 1
  PROVE  a * BYTE + b \in 0 .. INT - 1
<1>1. ASSUME NEW c \in Nat, NEW m \in Nat, c <= m - 1
      PROVE  c * m \in Nat /\ c * m <= m * m - m
  <2>1. PICK d \in Nat : m = c + 1 + d
    <3>1. m - 1 - c \in Nat /\ m = c + 1 + (m - 1 - c)
      BY <1>1
    <3> QED
      BY <3>1
  <2>2. m * m = c * m + m + d * m /\ d * m \in Nat /\ c * m \in Nat
    BY <2>1
  <2> QED
    BY <2>2
<1>2. a * BYTE \in Nat /\ a * BYTE <= BYTE * BYTE - BYTE
  BY <1>1, IntSize
<1> QED
  BY <1>2, IntSize DEF INT

\* A byte stored over half of an int leaves an int.
LEMMA SetIsInt ==
  ASSUME NEW x \in Int, NEW b \in 0 .. BYTE - 1
  PROVE  /\ SetLow(x, b) \in -(INT \div 2) .. INT \div 2 - 1
         /\ SetHigh(x, b) \in -(INT \div 2) .. INT \div 2 - 1
  BY HalvesAreBytes, PairIsWord, SignedIsInt DEF SetLow, SetHigh

\* A zero stored over half of a zero leaves a zero.
LEMMA ZeroStaysZero == SetLow(0, 0) = 0 /\ SetHigh(0, 0) = 0 /\ 0 % INT = 0
<1>1. INT \in Nat /\ INT >= 4 /\ INT \div 2 \in Nat /\ INT = 2 * (INT \div 2)
      /\ BYTE \in Nat /\ BYTE >= 2
  BY IntSize
<1>2. 0 % INT = 0 /\ 0 % BYTE = 0 /\ 0 \div BYTE = 0
  BY <1>1
<1>3. Low(0) = 0 /\ High(0) = 0
  BY <1>2 DEF Low, High
<1>4. 0 * BYTE + 0 = 0 /\ Signed(0) = 0
  BY <1>1 DEF Signed
<1> QED
  BY <1>2, <1>3, <1>4 DEF SetLow, SetHigh

-----------------------------------------------------------------------------
(* Reads and their stores *)

LEMMA CallNames ==
  /\ Calls = {"get_super_block", "get_inode_p5(2)", "getBlock", "get_inode_p5(12)", "readMus"}
  /\ "boot" \notin Calls /\ "idle" \notin Calls
  BY DEF Calls, Reads

\* After a read comes a read or the endless loop.
LEMMA AfterIsLabel ==
  ASSUME NEW read \in Calls
  PROVE  After(read) \in Calls \cup {"idle"}
<1> DEFINE n == CHOOSE m \in DOMAIN Reads : Reads[m] = read
<1>1. \E m \in DOMAIN Reads : Reads[m] = read
  BY DEF Calls
<1>2. n \in DOMAIN Reads
  BY <1>1
<1>3. DOMAIN Reads = 1 .. 5 /\ Len(Reads) = 5
  BY DEF Reads
<1> HIDE DEF n
<1>4. n # Len(Reads) => n + 1 \in DOMAIN Reads
  BY <1>2, <1>3
<1>5. (IF n = Len(Reads) THEN "idle" ELSE Reads[n + 1]) \in Calls \cup {"idle"}
  BY <1>4 DEF Calls
<1> QED
  BY <1>5 DEF After, n

LEMMA WiderSeq ==
  ASSUME NEW S, NEW T, NEW s \in Seq(S)
  PROVE  s \in Seq(S \cup T) /\ s \in Seq(T \cup S)
<1>1. Len(s) \in Nat /\ s = [k \in 1 .. Len(s) |-> s[k]] /\ \A k \in 1 .. Len(s) : s[k] \in S
  OBVIOUS
<1>2. s \in [1 .. Len(s) -> S \cup T] /\ s \in [1 .. Len(s) -> T \cup S]
  BY <1>1
<1> QED
  BY <1>1, <1>2

LEMMA JoinPairs ==
  ASSUME NEW S, NEW a \in Seq(S), NEW b \in Seq(S), Len(a) = 2, Len(b) = 2
  PROVE  /\ a \o b \in Seq(S) /\ Len(a \o b) = 4
         /\ (a \o b)[1] = a[1] /\ (a \o b)[2] = a[2]
         /\ (a \o b)[3] = b[1] /\ (a \o b)[4] = b[2]
<1>1. /\ a \o b \in Seq(S) /\ Len(a \o b) = Len(a) + Len(b)
      /\ \A k \in 1 .. Len(a) + Len(b) : (a \o b)[k] =
            IF k <= Len(a) THEN a[k] ELSE b[k - Len(a)]
  BY ConcatProperties, Zenon
<1> DEFINE c == a \o b
<1> HIDE DEF c
<1>2. /\ c \in Seq(S) /\ Len(c) = 4
      /\ \A k \in 1 .. 4 : c[k] = IF k <= 2 THEN a[k] ELSE b[k - 2]
  BY <1>1 DEF c
<1>3. c[1] = a[1] /\ c[2] = a[2] /\ c[3] = b[1] /\ c[4] = b[2]
  BY <1>2
<1> QED
  BY <1>2, <1>3 DEF c

LEMMA BothBytesTyped ==
  ASSUME NEW v \in {"isr2", "offset_"}, NEW bytes,
         bytes[1] \in 0 .. BYTE - 1, bytes[2] \in 0 .. BYTE - 1
  PROVE  /\ BothBytes(v, bytes) \in Seq(VariableStore)
         /\ Len(BothBytes(v, bytes)) = 2
         /\ BothBytes(v, bytes)[1] = Store(v, "low", bytes[1])
         /\ BothBytes(v, bytes)[2] = Store(v, "high", bytes[2])
  BY DEF BothBytes, Store, VariableStore

\* What every read stores, and that nothing but zeros falls on offset_.
LEMMA StoresOfTyped ==
  ASSUME NEW call \in Calls, image \in [super : SuperBlocks, dir : Directories]
  PROVE  /\ StoresOf(call) \in Seq(VariableStore \cup BufferStore)
         /\ ZeroOverCount =>
              \A k \in 1 .. Len(StoresOf(call)) :
                 StoresOf(call)[k].var = "offset_" => StoresOf(call)[k].byte = 0
<1> DEFINE Zeros(s) == \A k \in 1 .. Len(s) : s[k].var = "offset_" => s[k].byte = 0
           s0 == image.super
           d == image.dir
<1>1. s0 \in SuperBlocks /\ d \in Directories
  OBVIOUS
<1>2. /\ s0.isr2[1] \in 0 .. BYTE - 1 /\ s0.isr2[2] \in 0 .. BYTE - 1
      /\ s0.offset_[1] \in 0 .. BYTE - 1 /\ s0.offset_[2] \in 0 .. BYTE - 1
      /\ d[2] \in 0 .. BYTE - 1 /\ d[3] \in 0 .. BYTE - 1
  <2>1. s0 \in Sector /\ Len(s0.isr2) = 2 /\ Len(s0.offset_) = 2
    BY <1>1, PlayerAssumption
  <2>2. s0.isr2 \in Seq(0 .. BYTE - 1) /\ s0.offset_ \in Seq(0 .. BYTE - 1)
    BY <2>1 DEF Sector
  <2>3. d \in Seq(0 .. BYTE - 1) /\ Len(d) = 4
    BY <1>1, PlayerAssumption
  <2>4. ASSUME NEW S, NEW s \in Seq(S), NEW k \in 1 .. Len(s)
        PROVE  s[k] \in S
    OBVIOUS
  <2>5. 1 \in 1 .. 2 /\ 2 \in 1 .. 2 /\ 2 \in 1 .. 4 /\ 3 \in 1 .. 4
    OBVIOUS
  <2> QED
    BY <2>1, <2>2, <2>3, <2>4, <2>5, Zenon
<1> HIDE DEF s0, d
<1>3. CASE call = "get_super_block"
  <2> DEFINE a == BothBytes("isr2", s0.isr2)
             b == BothBytes("offset_", s0.offset_)
  <2>1. /\ a \in Seq(VariableStore) /\ Len(a) = 2
        /\ a[1] = Store("isr2", "low", s0.isr2[1]) /\ a[2] = Store("isr2", "high", s0.isr2[2])
    BY <1>2, BothBytesTyped
  <2>2. /\ b \in Seq(VariableStore) /\ Len(b) = 2
        /\ b[1] = Store("offset_", "low", s0.offset_[1])
        /\ b[2] = Store("offset_", "high", s0.offset_[2])
    BY <1>2, BothBytesTyped
  <2>3. StoresOf(call) = a \o b
    BY <1>3 DEF StoresOf, SuperStores, s0
  <2> HIDE DEF a, b
  <2>4. a \o b \in Seq(VariableStore \cup BufferStore)
    <3>1. a \o b \in Seq(VariableStore)
      BY <2>1, <2>2, JoinPairs
    <3> QED
      BY <3>1, WiderSeq
  <2>5. /\ Len(a \o b) = 4
        /\ (a \o b)[1] = a[1] /\ (a \o b)[2] = a[2]
        /\ (a \o b)[3] = b[1] /\ (a \o b)[4] = b[2]
    BY <2>1, <2>2, JoinPairs
  <2>6. ASSUME ZeroOverCount PROVE Zeros(a \o b)
    <3>1. s0.offset_[1] = 0 /\ s0.offset_[2] = 0
      BY <1>1, <2>6 DEF ZeroOverCount, s0
    <3> QED
      <4>1. \A k \in 1 .. 4 : k = 1 \/ k = 2 \/ k = 3 \/ k = 4
        OBVIOUS
      <4> QED
        BY <2>1, <2>2, <2>5, <3>1, <4>1 DEF Store
  <2> QED
    BY <2>3, <2>4, <2>6
<1>4. CASE call = "getBlock"
  <2> DEFINE b == BothBytes("offset_", <<d[2], d[3]>>)
  <2>1. /\ b \in Seq(VariableStore) /\ Len(b) = 2
        /\ b[1] = Store("offset_", "low", d[2]) /\ b[2] = Store("offset_", "high", d[3])
    BY <1>2, BothBytesTyped
  <2>2. StoresOf(call) = b
    BY <1>4 DEF StoresOf, DirectoryStores, d
  <2> HIDE DEF b
  <2>3. ASSUME ZeroOverCount PROVE Zeros(b)
    <3>1. d[2] = 0 /\ d[3] = 0
      BY <1>1, <2>3 DEF ZeroOverCount, d
    <3> QED
      BY <2>1, <3>1 DEF Store
  <2>4. b \in Seq(VariableStore \cup BufferStore)
    BY <2>1, WiderSeq
  <2> QED
    BY <2>2, <2>3, <2>4
<1>5. CASE call = "readMus"
  <2>1. StoresOf(call) = [k \in 1 .. BUF |-> Store("buffer", k - 1, 0)]
    BY <1>5 DEF StoresOf, MusicStores
  <2>2. \A k \in 1 .. BUF : Store("buffer", k - 1, 0) \in BufferStore
    BY IntSize DEF Store, BufferStore
  <2>3. StoresOf(call) \in Seq(BufferStore) /\ Len(StoresOf(call)) = BUF
    BY <2>1, <2>2, IntSize
  <2>4. \A k \in 1 .. BUF : StoresOf(call)[k].var = "buffer"
    BY <2>1 DEF Store
  <2>5. StoresOf(call) \in Seq(VariableStore \cup BufferStore)
    BY <2>3, WiderSeq
  <2> QED
    BY <2>3, <2>4, <2>5
<1>6. CASE call \in {"get_inode_p5(2)", "get_inode_p5(12)"}
  BY <1>6 DEF StoresOf
<1> QED
  BY <1>3, <1>4, <1>5, <1>6, CallNames

LEMMA StoresOfPrimed ==
  ASSUME image' = image
  PROVE  StoresOf(pc)' = StoresOf(pc')
  BY DEF StoresOf, SuperStores, DirectoryStores

\* A call is entered with all of its stores to come.
LEMMA EnterTyped ==
  ASSUME TypeInv, NEW call \in Calls \cup {"idle"}, Enter(call), image' = image
  PROVE  /\ StoresTyped' /\ pc' = call
         /\ pc' \in Calls => stores' = StoresOf(pc)'
         /\ ZeroOverCount => UncountedInv'
<1>1. pc' = call /\ stores' = IF call = "idle" THEN <<>> ELSE StoresOf(call)
  BY DEF Enter
<1>2. image \in [super : SuperBlocks, dir : Directories]
  BY DEF TypeInv, StoresTyped
<1>3. CASE call = "idle"
  <2>1. <<>> \in Seq(VariableStore \cup BufferStore) /\ Len(<<>>) = 0
    OBVIOUS
  <2>2. pc' \notin Calls /\ stores' = <<>>
    BY <1>1, <1>3, CallNames
  <2> QED
    BY <1>1, <1>2, <1>3, <2>1, <2>2 DEF StoresTyped, UncountedInv
<1>4. CASE call \in Calls
  <2>1. stores' = StoresOf(call) /\ stores' = StoresOf(pc)'
    BY <1>1, <1>4, CallNames, StoresOfPrimed
  <2>2. /\ StoresOf(call) \in Seq(VariableStore \cup BufferStore)
        /\ ZeroOverCount =>
             \A k \in 1 .. Len(StoresOf(call)) :
                StoresOf(call)[k].var = "offset_" => StoresOf(call)[k].byte = 0
    BY <1>2, <1>4, StoresOfTyped
  <2> QED
    BY <1>1, <1>2, <2>1, <2>2 DEF StoresTyped, UncountedInv
<1> QED
  BY <1>3, <1>4

\* What a read skips and takes lies in the block.
LEMMA ReadFits ==
  ASSUME NEW call \in Calls
  PROVE  /\ Skipped(call) \in Nat /\ Received(call) \in Nat
         /\ Skipped(call) + Received(call) <= BUF
<1>1. BUF \div 4 \in Nat /\ 4 * (BUF \div 4) <= BUF /\ BUF \in Nat
  BY IntSize
<1> QED
  BY <1>1, CallNames DEF Skipped, Received

\* The byte stored next.
LEMMA NextStore ==
  ASSUME TypeInv, stores # <<>>
  PROVE  /\ Head(stores) = stores[1] /\ 1 \in 1 .. Len(stores)
         /\ Head(stores).var \in {"isr2", "offset_"} => Head(stores) \in VariableStore
         /\ Head(stores).var = "buffer" => Head(stores) \in BufferStore
         /\ Tail(stores) \in Seq(VariableStore \cup BufferStore)
         /\ \A k \in 1 .. Len(Tail(stores)) :
               k + 1 \in 1 .. Len(stores) /\ Tail(stores)[k] = stores[k + 1]
<1> DEFINE S == VariableStore \cup BufferStore
<1>1. stores \in Seq(S)
  BY DEF TypeInv, StoresTyped
<1>2. /\ \A r \in VariableStore : r.var \in {"isr2", "offset_"}
      /\ \A r \in BufferStore : r.var = "buffer"
  BY DEF VariableStore, BufferStore
<1> HIDE DEF S
<1>3. /\ Head(stores) = stores[1] /\ 1 \in 1 .. Len(stores) /\ Head(stores) \in S
      /\ Tail(stores) \in Seq(S)
      /\ \A k \in 1 .. Len(Tail(stores)) :
            k + 1 \in 1 .. Len(stores) /\ Tail(stores)[k] = stores[k + 1]
  BY <1>1
<1> QED
  BY <1>2, <1>3 DEF S

-----------------------------------------------------------------------------
(* Types *)

LEMMA TypeInitial == Init => TypeInv
<1> SUFFICES ASSUME Init PROVE TypeInv
  OBVIOUS
<1>1. /\ pc = "boot" /\ stores = <<>> /\ isr2 = 0 /\ offset_ = 0
      /\ buffer = [k \in 0 .. BUF - 1 |-> "zero"] /\ out = [at |-> -1, byte |-> "none"]
      /\ image \in [super : SuperBlocks, dir : Directories]
  BY DEF Init
<1>2. isr2 \in -(INT \div 2) .. INT \div 2 - 1 /\ offset_ \in 0 .. INT - 1
      /\ out.at \in -(INT \div 2) .. BUF - 1
  BY <1>1, IntSize
<1>3. TypeOK
  BY <1>1, <1>2 DEF TypeOK
<1>4. StoresTyped
  BY <1>1 DEF StoresTyped
<1> QED
  BY <1>3, <1>4 DEF TypeInv

LEMMA StoreByteTypes ==
  ASSUME TypeInv, StoreByte
  PROVE  TypeInv'
<1> DEFINE s == Head(stores)
           was == IF stores = StoresOf(pc) THEN 0 ELSE offset_
           Put(x) == IF s.part = "low" THEN SetLow(x, s.byte) ELSE SetHigh(x, s.byte)
<1>0. TypeOK /\ StoresTyped /\ INT \in Nat /\ INT >= 4 /\ BUF \in Nat
  BY IntSize DEF TypeInv
<1>1. /\ isr2' = (IF s.var = "isr2" THEN Put(isr2) ELSE isr2)
      /\ offset_' = (IF s.var = "offset_" THEN Put(was) % INT ELSE was)
      /\ buffer' = (IF s.var = "buffer" THEN [buffer EXCEPT ![s.part] = "music"] ELSE buffer)
      /\ stores' = Tail(stores) /\ stores # <<>>
      /\ UNCHANGED <<pc, clocked, out, image>>
  BY DEF StoreByte
<1>2. /\ s.var \in {"isr2", "offset_"} => s \in VariableStore
      /\ s.var = "buffer" => s \in BufferStore
      /\ Tail(stores) \in Seq(VariableStore \cup BufferStore)
  BY <1>1, NextStore
<1> HIDE DEF s
<1>3. s.var \in {"isr2", "offset_"} => s.byte \in 0 .. BYTE - 1
  BY <1>2 DEF VariableStore
<1>4. isr2 \in Int /\ offset_ \in 0 .. INT - 1
  BY <1>0, IntSize DEF TypeOK
<1>5. was \in 0 .. INT - 1 /\ was \in Int
  BY <1>0, <1>4
<1> HIDE DEF was
<1>6. isr2' \in -(INT \div 2) .. INT \div 2 - 1
  BY <1>0, <1>1, <1>3, <1>4, SetIsInt DEF TypeOK
<1>7. offset_' \in 0 .. INT - 1
  <2>1. CASE s.var = "offset_"
    <3>1. Put(was) \in Int
      <4>1. s.byte \in 0 .. BYTE - 1
        BY <1>3, <2>1
      <4>2. \A x \in -(INT \div 2) .. INT \div 2 - 1 : x \in Int
        BY IntSize
      <4>3. SetLow(was, s.byte) \in Int /\ SetHigh(was, s.byte) \in Int
        BY <1>5, <4>1, <4>2, SetIsInt
      <4> QED
        BY <4>3
    <3> HIDE DEF Put
    <3>2. Put(was) % INT \in 0 .. INT - 1
      BY <1>0, <3>1
    <3> QED
      BY <1>1, <2>1, <3>2
  <2> QED
    BY <1>1, <1>5, <2>1
<1>8. DOMAIN buffer' = 0 .. BUF - 1 /\ \A k \in 0 .. BUF - 1 : buffer'[k] \in {"zero", "music"}
  BY <1>0, <1>1 DEF TypeOK
<1>9. StoresTyped'
  BY <1>0, <1>1, <1>2 DEF StoresTyped
<1> QED
  BY <1>0, <1>1, <1>6, <1>7, <1>8, <1>9 DEF TypeInv, TypeOK

LEMMA Timer0Types ==
  ASSUME TypeInv, Timer0
  PROVE  TypeInv'
<1>0. TypeOK /\ StoresTyped /\ INT \in Nat /\ INT >= 4 /\ BUF \in Nat
  BY IntSize DEF TypeInv
<1>1. /\ isr2' = Signed((isr2 + 1) % INT)
      /\ out' = IF isr2' >= BUF THEN out
                ELSE [at |-> isr2',
                      byte |-> IF isr2' \in 0 .. BUF - 1 THEN buffer[isr2'] ELSE "outside"]
      /\ UNCHANGED <<pc, stores, offset_, clocked, buffer, image>>
  BY DEF Timer0, Counted, Played
<1>2. isr2' \in -(INT \div 2) .. INT \div 2 - 1
  <2>1. isr2 \in Int
    BY <1>0, IntSize DEF TypeOK
  <2>2. (isr2 + 1) % INT \in 0 .. INT - 1
    BY <1>0, <2>1
  <2> QED
    BY <1>1, <2>2, SignedIsInt
<1>3. out'.at \in -(INT \div 2) .. BUF - 1 /\ out'.byte \in {"none", "zero", "music", "outside"}
  <2>1. CASE isr2' >= BUF
    BY <1>0, <1>1, <2>1 DEF TypeOK
  <2>2. CASE ~(isr2' >= BUF)
    <3>1. out'.at = isr2' /\ isr2' \in -(INT \div 2) .. BUF - 1
      BY <1>0, <1>1, <1>2, <2>2, IntSize
    <3>2. out'.byte \in {"zero", "music", "outside"}
      BY <1>0, <1>1, <2>2 DEF TypeOK
    <3> QED
      BY <3>1, <3>2
  <2> QED
    BY <2>1, <2>2
<1> QED
  BY <1>0, <1>1, <1>2, <1>3 DEF TypeInv, TypeOK, StoresTyped

LEMMA EndReadTypes ==
  ASSUME TypeInv, EndRead
  PROVE  TypeInv'
<1>0. TypeOK /\ INT \in Nat /\ INT >= 4 /\ BUF \in Nat /\ CRC = 2
  BY IntSize DEF TypeInv, CRC
<1>1. pc \in Calls
  BY <1>0 DEF TypeOK, Calls, EndRead
<1>2. Enter(After(pc)) /\ After(pc) \in Calls \cup {"idle"}
      /\ UNCHANGED <<isr2, buffer, out, image>>
  BY <1>1, AfterIsLabel DEF EndRead
<1>3. StoresTyped' /\ pc' \in Calls \cup {"idle"}
  BY <1>2, EnterTyped
<1> DEFINE from == IF StoresOf(pc) = <<>> THEN Skipped(pc) ELSE offset_
           counted == (from + Received(pc)) % INT
           rest == IF counted < BUF + CRC THEN BUF + CRC - counted ELSE 1
<1>4. offset_' = (counted + rest) % INT
  BY DEF EndRead
<1>5. from \in Nat /\ Received(pc) \in Nat
  BY <1>0, <1>1, ReadFits DEF TypeOK
<1> HIDE DEF from
<1>6. counted \in Nat
  BY <1>0, <1>5
<1> HIDE DEF counted
<1>7. counted + rest \in Nat
  BY <1>0, <1>6
<1> HIDE DEF rest
<1>8. offset_' \in 0 .. INT - 1
  BY <1>0, <1>4, <1>7
<1> QED
  BY <1>0, <1>2, <1>3, <1>8 DEF TypeInv, TypeOK, Calls

LEMMA TypeStep == TypeInv /\ [Next]_vars => TypeInv'
<1> SUFFICES ASSUME TypeInv, [Next]_vars PROVE TypeInv'
  OBVIOUS
<1>0. TypeOK /\ StoresTyped
  BY DEF TypeInv
<1>1. CASE Boot
  <2>1. Reads[1] \in Calls \cup {"idle"}
    BY DEF Calls, Reads
  <2>2. StoresTyped' /\ pc' \in Calls \cup {"idle"}
    BY <1>1, <2>1, EnterTyped DEF Boot
  <2> QED
    BY <1>0, <1>1, <2>2 DEF Boot, TypeInv, TypeOK, Calls
<1>2. CASE ReadFails
  <2>1. After(pc) \in Calls \cup {"idle"}
    BY <1>0, <1>2, AfterIsLabel DEF ReadFails, TypeOK, Calls
  <2>2. StoresTyped' /\ pc' \in Calls \cup {"idle"}
    BY <1>2, <2>1, EnterTyped DEF ReadFails
  <2> QED
    BY <1>0, <1>2, <2>2 DEF ReadFails, TypeInv, TypeOK, Calls
<1>3. CASE StoreByte
  BY <1>3, StoreByteTypes
<1>4. CASE EndRead
  BY <1>4, EndReadTypes
<1>5. CASE Timer0
  BY <1>5, Timer0Types
<1>6. CASE UNCHANGED vars
  BY <1>0, <1>6 DEF vars, TypeInv, TypeOK, StoresTyped
<1> QED
  BY <1>1, <1>2, <1>3, <1>4, <1>5, <1>6 DEF Next, Main

(***************************************************************************)
(* isr2 stays a signed and offset_ an unsigned int of the processor, and   *)
(* only bytes in the buffer are read as music, wherever the interrupt      *)
(* comes between the stores of a sector over them, for every width of an   *)
(* int (program5.c:44-75, os.c ISR of timer 0).                            *)
(***************************************************************************)
THEOREM PlayerTypeCorrect == Spec => []TypeOK
<1>1. TypeInv => TypeOK
  BY DEF TypeInv
<1> QED
  BY <1>1, TypeInitial, TypeStep, PTL DEF Spec

-----------------------------------------------------------------------------
(* The count of the bytes of a block *)

LEMMA StoreByteUncounted ==
  ASSUME TypeInv, UncountedInv, StoreByte
  PROVE  UncountedInv'
<1> DEFINE s == Head(stores)
           was == IF stores = StoresOf(pc) THEN 0 ELSE offset_
           Put(x) == IF s.part = "low" THEN SetLow(x, s.byte) ELSE SetHigh(x, s.byte)
<1>1. /\ offset_' = (IF s.var = "offset_" THEN Put(was) % INT ELSE was)
      /\ stores' = Tail(stores) /\ stores # <<>> /\ pc \notin {"boot", "idle"}
      /\ UNCHANGED <<pc, image>>
  BY DEF StoreByte
<1>2. pc \in Calls
  BY <1>1 DEF TypeInv, TypeOK, Calls
<1>3. was = 0
  BY <1>2 DEF UncountedInv
<1>4. s.var = "offset_" => s.byte = 0
  BY <1>1, NextStore DEF UncountedInv
<1> HIDE DEF s, was
<1>5. offset_' = 0
  BY <1>1, <1>3, <1>4, ZeroStaysZero
<1>6. \A k \in 1 .. Len(stores') : stores'[k].var = "offset_" => stores'[k].byte = 0
  BY <1>1, NextStore DEF UncountedInv
<1> QED
  BY <1>5, <1>6 DEF UncountedInv

LEMMA EndReadCounts ==
  ASSUME TypeInv, UncountedInv, EndRead
  PROVE  BlockTakenWhole'
<1>0. INT \in Nat /\ BUF \in Nat /\ CRC = 2 /\ BUF + CRC < INT
  BY IntSize DEF CRC
<1>1. pc \in Calls
  BY DEF TypeInv, TypeOK, Calls, EndRead
<1> DEFINE n == Skipped(pc) + Received(pc)
           from == IF StoresOf(pc) = <<>> THEN Skipped(pc) ELSE offset_
           counted == (from + Received(pc)) % INT
           rest == IF counted < BUF + CRC THEN BUF + CRC - counted ELSE 1
<1>2. stores = <<>> /\ clocked' = Skipped(pc) + Received(pc) + rest
  BY DEF EndRead
<1>3. Skipped(pc) \in Nat /\ Received(pc) \in Nat /\ n <= BUF
  BY <1>1, ReadFits
<1>4. from = Skipped(pc)
  <2>1. CASE StoresOf(pc) = <<>>
    BY <2>1
  <2>2. CASE StoresOf(pc) # <<>>
    <3>1. offset_ = 0
      BY <1>1, <1>2, <2>2 DEF UncountedInv
    <3>2. pc \notin {"get_inode_p5(2)", "get_inode_p5(12)"}
      BY <2>2 DEF StoresOf
    <3>3. Skipped(pc) = 0
      BY <3>2 DEF Skipped
    <3> QED
      BY <2>2, <3>1, <3>3
  <2> QED
    BY <2>1, <2>2
<1> HIDE DEF from
<1>5. counted = n
  BY <1>0, <1>3, <1>4
<1> HIDE DEF counted
<1>6. n + rest = BUF + CRC
  BY <1>0, <1>3, <1>5
<1> QED
  BY <1>0, <1>2, <1>3, <1>6 DEF BlockTakenWhole, CRC

LEMMA CountInitial == Init => CountInv
<1> SUFFICES ASSUME Init PROVE CountInv
  OBVIOUS
<1>1. pc \notin Calls /\ stores = <<>> /\ clocked = BUF + CRC
  BY CallNames DEF Init
<1> QED
  BY <1>1, TypeInitial DEF CountInv, UncountedInv, BlockTakenWhole

LEMMA CountStep ==
  ASSUME ZeroOverCount, CountInv, [Next]_vars
  PROVE  CountInv'
<1>0. TypeInv /\ UncountedInv /\ BlockTakenWhole /\ TypeInv'
  BY TypeStep DEF CountInv
<1>1. CASE Boot
  <2>1. Reads[1] \in Calls \cup {"idle"}
    BY DEF Calls, Reads
  <2>2. UncountedInv'
    BY <1>0, <1>1, <2>1, EnterTyped DEF Boot
  <2> QED
    BY <1>0, <1>1, <2>2 DEF Boot, CountInv, BlockTakenWhole, CRC
<1>2. CASE ReadFails
  <2>1. After(pc) \in Calls \cup {"idle"}
    BY <1>0, <1>2, AfterIsLabel DEF ReadFails, TypeInv, TypeOK, Calls
  <2>2. UncountedInv'
    BY <1>0, <1>2, <2>1, EnterTyped DEF ReadFails
  <2> QED
    BY <1>0, <1>2, <2>2 DEF ReadFails, CountInv, BlockTakenWhole, CRC
<1>3. CASE StoreByte
  <2>1. UncountedInv' /\ clocked' = clocked
    BY <1>0, <1>3, StoreByteUncounted DEF StoreByte
  <2> QED
    BY <1>0, <2>1 DEF CountInv, BlockTakenWhole, CRC
<1>4. CASE EndRead
  <2>1. After(pc) \in Calls \cup {"idle"}
    BY <1>0, <1>4, AfterIsLabel DEF EndRead, TypeInv, TypeOK, Calls
  <2>2. UncountedInv'
    BY <1>0, <1>4, <2>1, EnterTyped DEF EndRead
  <2> QED
    BY <1>0, <1>4, <2>2, EndReadCounts DEF CountInv
<1>5. CASE Timer0
  <2>1. UNCHANGED <<pc, stores, offset_, clocked, image>>
    BY <1>5 DEF Timer0
  <2>2. UncountedInv'
    BY <1>0, <2>1, StoresOfPrimed DEF UncountedInv
  <2> QED
    BY <1>0, <2>1, <2>2 DEF CountInv, BlockTakenWhole, CRC
<1>6. CASE UNCHANGED vars
  <2>1. UNCHANGED <<pc, stores, offset_, clocked, image>>
    BY <1>6 DEF vars
  <2>2. UncountedInv'
    BY <1>0, <2>1, StoresOfPrimed DEF UncountedInv
  <2> QED
    BY <1>0, <2>1, <2>2 DEF CountInv, BlockTakenWhole, CRC
<1> QED
  BY <1>1, <1>2, <1>3, <1>4, <1>5, <1>6 DEF Next, Main

(***************************************************************************)
(* Each finished read has taken one block and its crc off the card and no  *)
(* byte more, although the sector it stored went over the driver's count,  *)
(* as long as what falls there is zero: for every size of the buffer and   *)
(* of an int, and whatever falls on isr2 (program5.c:44-75,                *)
(* SdReader.c:316-327).                                                    *)
(***************************************************************************)
THEOREM ReadsTakeWholeBlocks ==
  ASSUME ZeroOverCount
  PROVE  Spec => []BlockTakenWhole
<1>1. CountInv => BlockTakenWhole
  BY DEF CountInv
<1>2. CountInv /\ [Next]_vars => CountInv'
  BY CountStep
<1> QED
  BY <1>1, <1>2, CountInitial, PTL DEF Spec

=============================================================================
