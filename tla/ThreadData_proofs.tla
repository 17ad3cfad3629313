--------------------------- MODULE ThreadData_proofs ---------------------------
(***************************************************************************)
(* Proofs about what the thread library keeps and what its threads show:   *)
(* the table while it is filled, the searches in it, the statistics drawn  *)
(* from it, the animations, and the types of all four.                     *)
(***************************************************************************)
EXTENDS MCThreadData, SequenceTheorems, TLAPS

(***************************************************************************)
(* The table: what create_thread keeps for any number of threads the table *)
(* can hold, any stack sizes the heap can hold and any names that stop     *)
(* short of the address of the thread.                                     *)
(***************************************************************************)

\* Main and the threads created fit the table.
FewThreads == MAXCALLS < CAP
\* A name and its final 0 fit tName and the fields before PC.
ShortNames == \A length \in Names : length < NAME + 2
\* malloc never runs out.
LargeHeap == \E most \in Nat : /\ \A size \in Sizes : size <= most
                               /\ FirstStack + MAXCALLS * (most + 2) <= HEAP

-----------------------------------------------------------------------------
(* Every thread has its row *)

StoredInv ==
    /\ asked \in 0..MAXCALLS /\ numThreads = asked + 1
    /\ DOMAIN threads = 0..CAP - 1
    /\ \A i \in 1..asked : threads[i].id = i /\ threads[i].PC = Address(i)

\* The block a call asks for, and the row it leaves when the table has room.
NewRow(size) ==
    [id |-> numThreads, curState |-> "READY", stackSize |-> size,
     PC |-> Address(asked + 1),
     stackBase |-> Malloc(size).addr, stackEnd |-> Malloc(size).addr + size,
     stackTop |-> Malloc(size).addr + size - FRAME,
     stackPointer |-> Malloc(size).addr + size - FRAME]

LEMMA NothingSpills ==
    ASSUME ShortNames, NEW length \in Names, NEW n \in {3, 5, 7, 9}
    PROVE  ~Spills(length, n)
BY TableAssumption DEF ShortNames, Spills

LEMMA CreateFillsRow ==
    ASSUME FewThreads, ShortNames, StoredInv,
           NEW size \in Sizes, NEW length \in Names, CreateThread(size, length)
    PROVE  /\ asked < MAXCALLS /\ asked' = asked + 1 /\ numThreads' = numThreads + 1
           /\ brk' = Malloc(size).brk
           /\ numThreads \in 1..CAP - 1
           /\ threads' = [threads EXCEPT ![numThreads] = NewRow(size)]
<1>1. RowOf(numThreads) = numThreads /\ numThreads \in 1..CAP - 1
  BY TableAssumption DEF FewThreads, StoredInv, RowOf, CreateThread
<1>2. \A n \in {3, 5, 7, 9} : \A value : Kept(length, n, value) = value
  BY NothingSpills DEF Kept
<1>3. asked < MAXCALLS /\ asked' = asked + 1 /\ numThreads' = numThreads + 1
      /\ brk' = Malloc(size).brk
  BY <1>1 DEF CreateThread, CountUp
<1>4. threads' = [threads EXCEPT ![numThreads] = NewRow(size)]
  <2>1. threads' = [threads EXCEPT ![numThreads] = Filled(numThreads, Malloc(size).addr, size, length)]
    BY <1>1 DEF CreateThread
  <2>2. Filled(numThreads, Malloc(size).addr, size, length) = NewRow(size)
    BY <1>2 DEF Filled, Early, NewRow
  <2> QED
    BY <2>1, <2>2
<1> QED
  BY <1>1, <1>3, <1>4

LEMMA StoredFirst == TableInit => StoredInv
BY TableAssumption DEF TableInit, StoredInv

LEMMA StoredStep ==
    FewThreads /\ ShortNames /\ StoredInv /\ [TableNext]_tableVars => StoredInv'
<1> SUFFICES ASSUME FewThreads, ShortNames, StoredInv, [TableNext]_tableVars
             PROVE  StoredInv'
  OBVIOUS
<1>1. ASSUME NEW size \in Sizes, NEW length \in Names, CreateThread(size, length)
      PROVE  StoredInv'
  <2>1. /\ asked < MAXCALLS /\ asked' = asked + 1 /\ numThreads' = numThreads + 1
        /\ numThreads \in 1..CAP - 1
        /\ threads' = [threads EXCEPT ![numThreads] = NewRow(size)]
    BY <1>1, CreateFillsRow
  <2>2. NewRow(size).id = numThreads /\ NewRow(size).PC = Address(asked + 1)
    BY DEF NewRow
  <2>3. ASSUME NEW i \in 1..asked + 1
        PROVE  threads'[i].id = i /\ threads'[i].PC = Address(i)
    <3>1. CASE i = asked + 1
      BY <2>1, <2>2, <3>1 DEF StoredInv
    <3>2. CASE i \in 1..asked
      BY <2>1, <3>2 DEF StoredInv
    <3> QED
      BY <2>3, <3>1, <3>2 DEF StoredInv
  <2> QED
    BY <2>1, <2>3, TableAssumption DEF StoredInv
<1>2. CASE OsStart
  <2>1. UNCHANGED <<numThreads, asked>> /\ DOMAIN threads' = DOMAIN threads
    BY <1>2 DEF OsStart
  <2>2. \A i \in 1..asked : threads'[i] = threads[i]
    BY <1>2, TableAssumption DEF OsStart, StoredInv, FewThreads
  <2> QED
    BY <2>1, <2>2 DEF StoredInv
<1>3. CASE UNCHANGED tableVars
  BY <1>3 DEF tableVars, StoredInv
<1> QED
  BY <1>1, <1>2, <1>3 DEF TableNext

\* A table with room has a row for every thread created, with its address.
THEOREM EveryThreadKept ==
    ASSUME FewThreads, ShortNames PROVE TableSpec => []EveryThreadStored
<1>1. StoredInv => EveryThreadStored
  BY DEF StoredInv, EveryThreadStored
<1> QED
  BY <1>1, StoredFirst, StoredStep, PTL DEF TableSpec

-----------------------------------------------------------------------------
(* Every first frame in its own stack *)

\* Stacks follow one another up to brk, and brk leaves room for the calls to
\* come.
StacksInv(most) ==
    /\ brk \in Nat /\ brk + (MAXCALLS - asked) * (most + 2) <= HEAP
    /\ \A i \in 1..asked :
          /\ threads[i].stackBase \in Nat /\ threads[i].stackEnd \in Nat
          /\ threads[i].stackBase + FRAME <= threads[i].stackEnd
          /\ threads[i].stackPointer = threads[i].stackEnd - FRAME
          /\ threads[i].stackEnd <= brk
    /\ \A i, j \in 1..asked : i < j => threads[i].stackEnd <= threads[j].stackBase

LEMMA StacksStep ==
    ASSUME FewThreads, ShortNames, StoredInv, NEW most \in Nat,
           \A size \in Sizes : size <= most, StacksInv(most), [TableNext]_tableVars
    PROVE  StacksInv(most)'
<1>0. StoredInv'
  BY StoredStep
<1>1. ASSUME NEW size \in Sizes, NEW length \in Names, CreateThread(size, length)
      PROVE  StacksInv(most)'
  <2>1. /\ asked < MAXCALLS /\ asked' = asked + 1 /\ numThreads = asked + 1
        /\ asked \in Nat /\ MAXCALLS \in Nat /\ brk' = Malloc(size).brk
        /\ DOMAIN threads = 0..CAP - 1 /\ numThreads \in 1..CAP - 1
        /\ threads' = [threads EXCEPT ![numThreads] = NewRow(size)]
    BY <1>1, CreateFillsRow, TableAssumption DEF StoredInv
  <2>2. brk \in Nat /\ size \in Nat /\ size >= FRAME /\ size <= most /\ FRAME \in Nat /\ HEAP \in Nat
    BY TableAssumption DEF StacksInv
  <2>3. (MAXCALLS - asked) * (most + 2) = (MAXCALLS - (asked + 1)) * (most + 2) + (most + 2)
    <3>1. \A a, b \in Int : a * b = (a - 1) * b + b
      OBVIOUS
    <3>2. MAXCALLS - asked \in Int /\ most + 2 \in Int /\ (MAXCALLS - asked) - 1 = MAXCALLS - (asked + 1)
      BY <2>1
    <3> QED
      BY <3>1, <3>2
  <2>4. (MAXCALLS - (asked + 1)) * (most + 2) \in Nat
    <3>1. \A a, b \in Nat : a * b \in Nat
      OBVIOUS
    <3>2. MAXCALLS - (asked + 1) \in Nat /\ most + 2 \in Nat
      BY <2>1
    <3> QED
      BY <3>1, <3>2
  <2> DEFINE later == (MAXCALLS - (asked + 1)) * (most + 2)
  <2>5. later \in Nat /\ brk + (later + (most + 2)) <= HEAP
    BY <2>3, <2>4 DEF StacksInv
  <2>6. (MAXCALLS - asked') * (most + 2) = later
    BY <2>1
  <2> HIDE DEF later
  <2>7. Malloc(size).addr = brk /\ Malloc(size).brk = brk + size + 2
    BY <2>2, <2>5 DEF Malloc
  <2>8. brk' = brk + size + 2 /\ brk' + (MAXCALLS - asked') * (most + 2) <= HEAP
    BY <2>1, <2>2, <2>5, <2>6, <2>7
  <2>9. /\ threads'[asked + 1].stackBase = brk
        /\ threads'[asked + 1].stackEnd = brk + size
        /\ threads'[asked + 1].stackPointer = brk + size - FRAME
    BY <2>1, <2>7 DEF NewRow
  <2>10. \A i \in 1..asked : threads'[i] = threads[i]
    BY <2>1
  <2>11. ASSUME NEW i \in 1..asked'
         PROVE  /\ threads'[i].stackBase \in Nat /\ threads'[i].stackEnd \in Nat
                /\ threads'[i].stackBase + FRAME <= threads'[i].stackEnd
                /\ threads'[i].stackPointer = threads'[i].stackEnd - FRAME
                /\ threads'[i].stackEnd <= brk'
    <3>1. CASE i = asked + 1
      BY <2>2, <2>8, <2>9, <3>1
    <3>2. CASE i \in 1..asked
      <4>1. /\ threads[i].stackBase \in Nat /\ threads[i].stackEnd \in Nat
            /\ threads[i].stackBase + FRAME <= threads[i].stackEnd
            /\ threads[i].stackPointer = threads[i].stackEnd - FRAME
            /\ threads[i].stackEnd <= brk
        BY <3>2 DEF StacksInv
      <4>2. brk <= brk' /\ brk' \in Nat
        BY <2>2, <2>8
      <4> QED
        BY <2>2, <2>10, <3>2, <4>1, <4>2
    <3> QED
      BY <2>1, <2>11, <3>1, <3>2
  <2>12. ASSUME NEW i \in 1..asked', NEW j \in 1..asked', i < j
         PROVE  threads'[i].stackEnd <= threads'[j].stackBase
    <3>1. i \in 1..asked
      BY <2>1, <2>12
    <3>2. CASE j = asked + 1
      BY <2>9, <2>10, <3>1, <3>2 DEF StacksInv
    <3>3. CASE j \in 1..asked
      BY <2>10, <2>12, <3>1, <3>3 DEF StacksInv
    <3> QED
      BY <2>1, <3>2, <3>3
  <2> QED
    BY <2>2, <2>8, <2>11, <2>12 DEF StacksInv
<1>2. CASE OsStart
  <2>1. UNCHANGED <<asked, brk>>
    BY <1>2 DEF OsStart
  <2>2. \A i \in 1..asked : threads'[i] = threads[i]
    BY <1>2, TableAssumption DEF OsStart, StoredInv, FewThreads
  <2> QED
    BY <2>1, <2>2 DEF StacksInv
<1>3. CASE UNCHANGED tableVars
  BY <1>3 DEF tableVars, StacksInv
<1> QED
  BY <1>1, <1>2, <1>3 DEF TableNext

\* With a large enough heap no two stacks overlap, and each first frame is at
\* the top of its own.
THEOREM FramesKept ==
    ASSUME FewThreads, ShortNames, LargeHeap PROVE TableSpec => []FramesInOwnStack
<1>1. PICK most \in Nat : /\ \A size \in Sizes : size <= most
                          /\ FirstStack + MAXCALLS * (most + 2) <= HEAP
  BY DEF LargeHeap
<1>2. TableInit => StacksInv(most)
  BY <1>1, TableAssumption DEF TableInit, StacksInv, FirstStack
<1>3. StoredInv /\ StacksInv(most) /\ [TableNext]_tableVars => StacksInv(most)'
  BY <1>1, StacksStep
<1>4. StoredInv /\ StacksInv(most) => FramesInOwnStack
  <2> SUFFICES ASSUME StoredInv, StacksInv(most) PROVE FramesInOwnStack
    OBVIOUS
  <2>1. Created = 1..asked /\ asked \in Nat /\ FRAME \in Nat
    BY TableAssumption DEF Created, StoredInv
  <2>2. ASSUME NEW i \in 1..asked
        PROVE  threads[i].stackPointer .. threads[i].stackPointer + FRAME - 1 \subseteq StackOf(i)
    <3>1. /\ threads[i].stackBase \in Nat /\ threads[i].stackEnd \in Nat
          /\ threads[i].stackBase + FRAME <= threads[i].stackEnd
          /\ threads[i].stackPointer = threads[i].stackEnd - FRAME
      BY DEF StacksInv
    <3>2. \A b, e, f \in Nat : b + f <= e => (e - f) .. (e - f) + f - 1 \subseteq b .. e - 1
      OBVIOUS
    <3> QED
      BY <2>1, <3>1, <3>2 DEF StackOf
  <2>3. ASSUME NEW i \in 1..asked, NEW j \in 1..asked, i < j
        PROVE  StackOf(i) \cap StackOf(j) = {}
    <3>1. /\ threads[i].stackBase \in Nat /\ threads[i].stackEnd \in Nat
          /\ threads[j].stackBase \in Nat /\ threads[j].stackEnd \in Nat
          /\ threads[i].stackEnd <= threads[j].stackBase
      BY <2>3 DEF StacksInv
    <3> QED
      BY <3>1 DEF StackOf
  <2>4. ASSUME NEW i \in 1..asked, NEW j \in 1..asked, i # j
        PROVE  StackOf(i) \cap StackOf(j) = {}
    <3>1. i < j \/ j < i
      BY <2>1, <2>4
    <3> QED
      BY <2>3, <3>1
  <2> QED
    BY <2>1, <2>2, <2>4 DEF FramesInOwnStack
<1> QED
  BY <1>2, <1>3, <1>4, StoredFirst, StoredStep, PTL DEF TableSpec

-----------------------------------------------------------------------------
(***************************************************************************)
(* The search: get_next_thread takes the threads in turn, for every number *)
(* of threads.                                                             *)
(***************************************************************************)

\* Every ready thread the search has yet to find is at the row it looks at or
\* behind it.
SearchInv ==
    /\ SearchTypeOK
    /\ pc = "search" =>
         /\ dontReturn = runningThread
         /\ \A k \in Thread \ {runningThread} :
               curState[k] = "READY" =>
                  Distance(runningThread, current) <= Distance(runningThread, k)

-----------------------------------------------------------------------------
(* Going round *)

LEMMA FollowingIsThread == ASSUME NEW i \in Thread PROVE Following(i) \in Thread
BY NextThreadAssumption DEF Thread, Following

LEMMA DistanceBounds ==
    ASSUME NEW i \in Thread, NEW j \in Thread
    PROVE  /\ Distance(i, j) \in 1..N
           /\ Distance(i, j) = N <=> i = j
BY NextThreadAssumption DEF Thread, Distance

LEMMA DistanceTellsThreads ==
    ASSUME NEW i \in Thread, NEW j \in Thread, NEW k \in Thread,
           Distance(i, j) = Distance(i, k)
    PROVE  j = k
BY NextThreadAssumption DEF Thread, Distance

\* Following starts a round at distance 1 and goes on by one.
LEMMA FollowingIsNext ==
    ASSUME NEW i \in Thread
    PROVE  /\ Distance(i, Following(i)) = 1
           /\ \A j \in Thread \ {i} : Distance(i, Following(j)) = Distance(i, j) + 1
<1>1. Distance(i, Following(i)) = 1
  BY NextThreadAssumption DEF Thread, Distance, Following
<1>2. ASSUME NEW j \in Thread, j # i
      PROVE  Distance(i, Following(j)) = Distance(i, j) + 1
  BY <1>2, NextThreadAssumption DEF Thread, Distance, Following
<1> QED
  BY <1>1, <1>2

-----------------------------------------------------------------------------
(* The invariant *)

LEMMA SearchFirst == SearchInit => SearchInv
BY NextThreadAssumption DEF SearchInit, SearchInv, SearchTypeOK, Thread, State

LEMMA EnterStep == SearchInv /\ GetNextThread => SearchInv'
<1> SUFFICES ASSUME SearchInv, GetNextThread PROVE SearchInv'
  OBVIOUS
<1>1. SearchTypeOK'
  BY FollowingIsThread DEF SearchInv, SearchTypeOK, GetNextThread
<1>2. \A k \in Thread : 1 <= Distance(runningThread, k)
  BY DistanceBounds, NextThreadAssumption DEF SearchInv, SearchTypeOK
<1>3. /\ dontReturn' = runningThread /\ current' = Following(runningThread)
      /\ UNCHANGED <<runningThread, curState>>
  BY DEF GetNextThread
<1>4. Distance(runningThread, Following(runningThread)) = 1
  BY FollowingIsNext DEF SearchInv, SearchTypeOK
<1>5. \A k \in Thread \ {runningThread'} :
         Distance(runningThread', current') <= Distance(runningThread', k)
  BY <1>2, <1>3, <1>4
<1> QED
  BY <1>1, <1>3, <1>5 DEF SearchInv, Distance

LEMMA SearchStep == SearchInv /\ Search => SearchInv'
<1> SUFFICES ASSUME SearchInv, Search PROVE SearchInv'
  OBVIOUS
<1>1. /\ SearchTypeOK /\ dontReturn = runningThread /\ pc = "search"
      /\ \A k \in Thread \ {runningThread} :
            curState[k] = "READY" =>
               Distance(runningThread, current) <= Distance(runningThread, k)
  BY DEF SearchInv, Search
<1>2. CASE Found
  <2>1. \A c \in Nat : (c + 1) % MOD32 \in 0..MOD32 - 1
    BY NextThreadAssumption
  <2>2. sched_count[current] \in Nat
    BY <1>1, NextThreadAssumption DEF SearchTypeOK
  <2> QED
    BY <1>1, <1>2, <2>1, <2>2 DEF Search, SearchInv, SearchTypeOK
<1>3. CASE ~Found
  <2>1. /\ current' = Following(current)
        /\ UNCHANGED <<runningThread, sched_count, pc, curState, dontReturn>>
    BY <1>3 DEF Search
  <2>2. current \in Thread /\ runningThread \in Thread
    BY <1>1 DEF SearchTypeOK
  <2>3. SearchTypeOK'
    BY <1>1, <2>1, FollowingIsThread DEF SearchTypeOK
  <2>4. ASSUME NEW k \in Thread \ {runningThread}, curState[k] = "READY"
        PROVE  Distance(runningThread, Following(current)) <= Distance(runningThread, k)
    <3>1. Distance(runningThread, current) <= Distance(runningThread, k)
      BY <1>1, <2>4
    <3>2. /\ Distance(runningThread, k) \in 1..N /\ Distance(runningThread, k) # N
          /\ Distance(runningThread, current) \in 1..N
      BY <2>2, DistanceBounds
    <3>3. current # runningThread
      BY <2>2, <3>1, <3>2, DistanceBounds, NextThreadAssumption
    <3>4. Distance(runningThread, current) # Distance(runningThread, k)
      BY <1>1, <1>3, <2>2, <2>4, <3>3, DistanceTellsThreads DEF Found
    <3>5. Distance(runningThread, Following(current)) = Distance(runningThread, current) + 1
      BY <2>2, <3>3, FollowingIsNext
    <3> QED
      BY <3>1, <3>2, <3>4, <3>5, NextThreadAssumption
  <2> QED
    BY <1>1, <2>1, <2>3, <2>4 DEF SearchInv, Distance
<1> QED
  BY <1>2, <1>3

LEMMA SearchInvStep == SearchInv /\ [SearchNext]_searchVars => SearchInv'
<1> SUFFICES ASSUME SearchInv, [SearchNext]_searchVars PROVE SearchInv'
  OBVIOUS
<1>1. CASE GetNextThread
  BY <1>1, EnterStep
<1>2. CASE Search
  BY <1>2, SearchStep
<1>3. CASE GetNextThread2
  BY <1>3, FollowingIsThread DEF GetNextThread2, SearchInv, SearchTypeOK
<1>4. ASSUME NEW i \in Thread, Change(i) PROVE SearchInv'
  BY <1>4 DEF Change, SearchInv, SearchTypeOK
<1>5. CASE UNCHANGED searchVars
  BY <1>5 DEF searchVars, SearchInv, SearchTypeOK, Distance
<1> QED
  BY <1>1, <1>2, <1>3, <1>4, <1>5 DEF SearchNext

LEMMA SearchInvariance == SearchSpec => []SearchInv
<1> QED
  BY SearchFirst, SearchInvStep, PTL DEF SearchSpec

\* The search of get_next_thread stays inside the table (os.c:173-184).
THEOREM SearchTypeCorrect == SearchSpec => []SearchTypeOK
<1>1. SearchInv => SearchTypeOK
  BY DEF SearchInv
<1> QED
  BY <1>1, SearchInvariance, PTL

\* get_next_thread passes over no ready thread, whatever their states were
\* when it was called and however many threads there are.
THEOREM TakenInTurn == SearchSpec => NextInTurn
<1> DEFINE Turn == pc = "search" /\ pc' = "idle" =>
                     LET i == runningThread
                         j == runningThread'
                     IN /\ j # i /\ curState[j] = "READY"
                        /\ \A k \in Thread \ {i} :
                              curState[k] = "READY" => Distance(i, j) <= Distance(i, k)
<1>1. SearchInv /\ [SearchNext]_searchVars => [Turn]_searchVars
  <2> SUFFICES ASSUME SearchInv, SearchNext, pc = "search", pc' = "idle"
               PROVE  Turn
    BY DEF searchVars
  <2>1. Search
    BY DEF SearchNext, GetNextThread, GetNextThread2, Change
  <2>2. Found /\ runningThread' = current
    BY <2>1 DEF Search
  <2> QED
    BY <2>2 DEF SearchInv, Found
<1> QED
  BY <1>1, SearchInvariance, PTL DEF SearchSpec, NextInTurn

-----------------------------------------------------------------------------
(***************************************************************************)
(* The statistics: one panel for each thread.                              *)
(***************************************************************************)

\* The screen has six places.
SixPanels == N <= 6

StatsTypeOK ==
    /\ stage \in {"lock", "draw", "unlock"} /\ row \in 0..N
    /\ panels = [p \in Places |-> panels[p]]

\* The panels drawn so far, each in its place.
DrawnInv ==
    /\ stage = "unlock" => row = N
    /\ stage \in {"draw", "unlock"} =>
          \A n \in 0..row - 1 :
              panels[Place(n)].id = n /\ panels[Place(n)].curState = curState[n]

StatsInv == StatsTypeOK /\ DrawnInv

\* Up to six threads, each has a place of its own.
LEMMA PlacesDiffer ==
    ASSUME SixPanels, NEW m \in Thread, NEW n \in Thread
    PROVE  Place(m) \in Places /\ (Place(m) = Place(n) => m = n)
<1>1. m \in 0..5 /\ n \in 0..5
  BY NextThreadAssumption DEF SixPanels, Thread
<1>2. /\ 0 % 3 = 0 /\ 1 % 3 = 1 /\ 2 % 3 = 2 /\ 3 % 3 = 0 /\ 4 % 3 = 1 /\ 5 % 3 = 2
      /\ 0 * 33 = 0 /\ 1 * 33 = 33 /\ 2 * 33 = 66
  OBVIOUS
<1>3. ASSUME NEW k \in 0..5
      PROVE  /\ Place(k).row = (IF k < 3 THEN 4 ELSE 15)
             /\ Place(k).col = (k % 3) * 33
             /\ Place(k) \in Places
  <2>1. (k % 3) * 33 \in {0, 33, 66}
    OBVIOUS
  <2> QED
    BY <2>1 DEF Place, Places
<1>4. \A k \in 0..5 : k = 0 \/ k = 1 \/ k = 2 \/ k = 3 \/ k = 4 \/ k = 5
  OBVIOUS
<1>5. Place(m) = Place(n) => Place(m).row = Place(n).row /\ Place(m).col = Place(n).col
  OBVIOUS
<1>6. (IF m < 3 THEN 4 ELSE 15) = (IF n < 3 THEN 4 ELSE 15) /\ (m % 3) * 33 = (n % 3) * 33
        => m = n
  BY <1>1
<1> QED
  BY <1>1, <1>3, <1>5, <1>6

LEMMA StatsTypeStep == StatsTypeOK /\ [StatsNext]_statsVars => StatsTypeOK'
<1> SUFFICES ASSUME StatsTypeOK, [StatsNext]_statsVars PROVE StatsTypeOK'
  OBVIOUS
<1>0. N \in Nat /\ row \in 0..N
  BY NextThreadAssumption DEF StatsTypeOK
<1>1. CASE Begin
  BY <1>0, <1>1 DEF Begin, StatsTypeOK
<1>2. CASE DrawPanel
  BY <1>0, <1>2 DEF DrawPanel, StatsTypeOK
<1>3. CASE AllDrawn
  BY <1>0, <1>3 DEF AllDrawn, StatsTypeOK
<1>4. CASE Unlock
  BY <1>0, <1>4 DEF Unlock, StatsTypeOK
<1>5. CASE Others
  BY <1>0, <1>5 DEF Others, StatsTypeOK
<1>6. CASE UNCHANGED statsVars
  BY <1>0, <1>6 DEF statsVars, StatsTypeOK
<1> QED
  BY <1>1, <1>2, <1>3, <1>4, <1>5, <1>6 DEF StatsNext

LEMMA StatsFirst == StatsInit => StatsInv
<1> SUFFICES ASSUME StatsInit PROVE StatsInv
  OBVIOUS
<1>1. stage = "lock" /\ row = 0 /\ panels = [p \in Places |-> NoPanel]
  BY DEF StatsInit
<1>2. StatsTypeOK
  BY <1>1, NextThreadAssumption DEF StatsTypeOK
<1> QED
  BY <1>1, <1>2 DEF StatsInv, DrawnInv

LEMMA StatsStep ==
    ASSUME SixPanels, StatsInv, [StatsNext]_statsVars
    PROVE  StatsInv'
<1>0. /\ StatsTypeOK /\ DrawnInv /\ StatsTypeOK' /\ N \in Nat /\ row \in 0..N
      /\ Thread = 0..N - 1
  BY StatsTypeStep, NextThreadAssumption DEF StatsInv, StatsTypeOK, Thread
<1>1. CASE Begin
  BY <1>0, <1>1 DEF Begin, StatsInv, DrawnInv
<1>2. CASE DrawPanel
  <2>1. /\ stage = "draw" /\ row < N /\ row' = row + 1 /\ UNCHANGED <<curState, stage>>
        /\ panels' = [panels EXCEPT ![Place(row)] = Panel(row)]
    BY <1>2 DEF DrawPanel
  <2>2. row \in Thread
    BY <1>0, <2>1
  <2>3. /\ Panel(row).id = row /\ Panel(row).curState = curState[row]
        /\ DOMAIN panels = Places
    BY <1>0 DEF Panel, StatsTypeOK
  <2>4. ASSUME NEW n \in 0..row
        PROVE  panels'[Place(n)].id = n /\ panels'[Place(n)].curState = curState[n]
    <3>1. n \in Thread /\ (n = row \/ n \in 0..row - 1)
      BY <1>0, <2>1
    <3>2. CASE n = row
      BY <2>1, <2>2, <2>3, <3>2, PlacesDiffer
    <3>3. CASE n \in 0..row - 1
      <4>1. n # row
        BY <1>0, <3>3
      <4>2. panels'[Place(n)] = panels[Place(n)]
        BY <2>1, <2>2, <2>3, <3>1, <4>1, PlacesDiffer
      <4> QED
        BY <1>0, <2>1, <3>3, <4>2 DEF DrawnInv
    <3> QED
      BY <3>1, <3>2, <3>3
  <2>5. \A n \in 0..row' - 1 : n \in 0..row
    BY <1>0, <2>1
  <2> QED
    BY <1>0, <2>1, <2>4, <2>5 DEF StatsInv, DrawnInv
<1>3. CASE AllDrawn
  BY <1>0, <1>3 DEF AllDrawn, StatsInv, DrawnInv
<1>4. CASE Unlock
  BY <1>0, <1>4 DEF Unlock, StatsInv, DrawnInv
<1>5. CASE Others
  BY <1>0, <1>5 DEF Others, StatsInv, DrawnInv
<1>6. CASE UNCHANGED statsVars
  BY <1>0, <1>6 DEF statsVars, StatsInv, DrawnInv
<1> QED
  BY <1>1, <1>2, <1>3, <1>4, <1>5, <1>6 DEF StatsNext

\* Up to six threads, whatever their states: when display_stats gives up the
\* lock, no panel lies over another (synchro.c:738-784).
THEOREM EveryPanelShown ==
    ASSUME SixPanels PROVE StatsSpec => []StatesShown
<1>1. StatsInv => StatesShown
  <2> SUFFICES ASSUME StatsInv, stage = "unlock", NEW n \in Thread
               PROVE  panels[Place(n)].id = n /\ panels[Place(n)].curState = curState[n]
    BY DEF StatesShown
  <2>1. n \in 0..row - 1
    BY DEF StatsInv, DrawnInv, Thread
  <2> QED
    BY <2>1 DEF StatsInv, DrawnInv
<1>2. StatsInv /\ [StatsNext]_statsVars => StatsInv'
  BY StatsStep
<1> QED
  BY <1>1, <1>2, StatsFirst, PTL DEF StatsSpec

-----------------------------------------------------------------------------
(***************************************************************************)
(* The animations: the colours that rows of a picture are drawn in.        *)
(***************************************************************************)

HasInk(tokens) == \E k \in DOMAIN tokens : tokens[k] \in DOMAIN Inks

LEMMA InkTokens == DOMAIN Inks = {"c", "b"} /\ Inks["c"] = "CYAN" /\ Inks["b"] = "WHITE"
BY DEF Inks

\* Before the first colour of a row is set, the one it finds holds.
LEMMA NoInk ==
    ASSUME NEW tokens, NEW k, NEW c, \A j \in 1..k - 1 : tokens[j] \notin DOMAIN Inks
    PROVE  ColourAt(tokens, k, c) = c
BY DEF ColourAt, Sets

LEMMA MaxIs ==
    ASSUME NEW S, S \subseteq Int, NEW x \in S, \A y \in S : x >= y
    PROVE  Max(S) = x
<1>1. \A z \in S : (\A y \in S : z >= y) => z = x
  BY Z3
<1> QED
  BY <1>1 DEF Max

\* After it, the last one set.
LEMMA LastInk ==
    ASSUME NEW tokens, NEW k \in Nat, NEW c, NEW j \in 1..k - 1,
           tokens[j] \in DOMAIN Inks,
           \A i \in j + 1..k - 1 : tokens[i] \notin DOMAIN Inks
    PROVE  ColourAt(tokens, k, c) = Inks[tokens[j]]
<1>1. j \in Sets(tokens, k) /\ Sets(tokens, k) \subseteq Int
  BY DEF Sets
<1>2. \A i \in Sets(tokens, k) : j >= i
  BY DEF Sets
<1>3. Max(Sets(tokens, k)) = j
  BY <1>1, <1>2, MaxIs
<1> QED
  BY <1>1, <1>3 DEF ColourAt

\* Pictures have at most eight rows.
LEMMA MaxOfRows ==
    ASSUME NEW S, S \subseteq 1..8, S # {}
    PROVE  Max(S) \in S
<1>1. \E x \in S : \A y \in S : x >= y
  <2> SUFFICES ASSUME \A x \in S : \E y \in S : y > x PROVE FALSE
    OBVIOUS
  <2>1. 8 \notin S
    OBVIOUS
  <2>2. 7 \notin S
    BY <2>1
  <2>3. 6 \notin S
    BY <2>1, <2>2
  <2>4. 5 \notin S
    BY <2>1, <2>2, <2>3
  <2>5. 4 \notin S
    BY <2>1, <2>2, <2>3, <2>4
  <2>6. 3 \notin S
    BY <2>1, <2>2, <2>3, <2>4, <2>5
  <2>7. 2 \notin S
    BY <2>1, <2>2, <2>3, <2>4, <2>5, <2>6
  <2>8. 1 \notin S
    BY <2>1, <2>2, <2>3, <2>4, <2>5, <2>6, <2>7
  <2>9. PICK x \in S : x \in 1..8
    OBVIOUS
  <2>10. x \in {1, 2, 3, 4, 5, 6, 7, 8}
    BY <2>9
  <2> QED
    BY <2>1, <2>2, <2>3, <2>4, <2>5, <2>6, <2>7, <2>8, <2>9, <2>10
<1> QED
  BY <1>1 DEF Max

\* The rows of pictures, and what they are drawn in.
PlainRows == {Blank, Word, Hash, Hole, Holes}
Top == <<"c", "0">>
Second == <<"c">> \o Rim
Last == <<"0">>

\* A sequence under a first element.
Under(x, s) == [i \in 1..1 + Len(s) |-> IF i = 1 THEN x ELSE s[i - 1]]

LEMMA OnTop ==
    ASSUME NEW S, NEW x \in S, NEW s \in Seq(S)
    PROVE  /\ <<x>> \o s = Under(x, s) /\ Under(x, s) \in Seq(S)
           /\ Len(Under(x, s)) = 1 + Len(s)
<1>1. <<x>> \in Seq(S) /\ Len(<<x>>) = 1 /\ <<x>>[1] = x /\ Len(s) \in Nat
  OBVIOUS
<1>2. /\ <<x>> \o s \in Seq(S)
      /\ Len(<<x>> \o s) = Len(<<x>>) + Len(s)
      /\ \A i \in 1..Len(<<x>>) + Len(s) :
            (<<x>> \o s)[i] = IF i <= Len(<<x>>) THEN <<x>>[i] ELSE s[i - Len(<<x>>)]
  BY <1>1, ConcatProperties, Zenon
<1> DEFINE all == <<x>> \o s
<1> HIDE DEF all
<1>3. \A i \in 1..1 + Len(s) : all[i] = IF i <= 1 THEN <<x>>[i] ELSE s[i - 1]
  BY <1>1, <1>2, Zenon DEF all
<1>4. all \in Seq(S) /\ Len(all) = 1 + Len(s)
  BY <1>1, <1>2, Zenon DEF all
<1>5. DOMAIN all = 1..1 + Len(s) /\ all = [i \in DOMAIN all |-> all[i]]
  BY <1>4
<1>6. \A i \in 1..1 + Len(s) : all[i] = IF i = 1 THEN x ELSE s[i - 1]
  BY <1>1, <1>3
<1>7. all = Under(x, s)
  BY <1>5, <1>6 DEF Under
<1> QED
  BY <1>4, <1>7 DEF all

LEMMA SecondRow ==
    /\ DOMAIN Second = 1..6 /\ Len(Second) = 6
    /\ Second[1] = "c" /\ Second[2] = "0" /\ Second[3] = "b"
    /\ Second[4] = "#" /\ Second[5] = "c" /\ Second[6] = "0"
<1> DEFINE S == {"0", "b", "#", "c"}
<1>1. "c" \in S /\ Rim \in Seq(S) /\ Len(Rim) = 5
  BY DEF Rim
<1>2. Rim[1] = "0" /\ Rim[2] = "b" /\ Rim[3] = "#" /\ Rim[4] = "c" /\ Rim[5] = "0"
  BY DEF Rim
<1>3. Second = Under("c", Rim) /\ Second \in Seq(S)
  BY <1>1, OnTop, Zenon DEF Second
<1>4. /\ DOMAIN Second = 1..6
      /\ Second[1] = "c"
      /\ \A i \in 2..6 : Second[i] = Rim[i - 1]
  BY <1>1, <1>3 DEF Under
<1>5. Len(Second) = 6
  BY <1>3, <1>4
<1>6. /\ Second[2] = Rim[1] /\ Second[3] = Rim[2] /\ Second[4] = Rim[3]
      /\ Second[5] = Rim[4] /\ Second[6] = Rim[5]
  BY <1>4
<1> QED
  BY <1>2, <1>4, <1>5, <1>6

\* A mark of a plain row: a 0 is cyan, another mark white or as found.
PlainMark(m, c) ==
    \/ m = <<"0", "CYAN">>
    \/ m[1] \in {"#", "CONSUMIN", "G"} /\ m = <<m[1], m[2]>> /\ m[2] \in {c, "WHITE"}

LEMMA MarkDrawn ==
    ASSUME NEW tokens, NEW c, NEW m \in Drawn(tokens, c)
    PROVE  \E k \in DOMAIN tokens :
              tokens[k] \notin DOMAIN Inks /\ m = <<tokens[k], ColourAt(tokens, k, c)>>
BY DEF Drawn

LEMMA PlainRowsDrawn ==
    ASSUME NEW t \in PlainRows, NEW c, NEW m \in Drawn(t, c)
    PROVE  /\ PlainMark(m, c)
           /\ t # Blank
           /\ m[1] = "G" => t = Word
<1>1. PICK k \in DOMAIN t : t[k] \notin DOMAIN Inks /\ m = <<t[k], ColourAt(t, k, c)>>
  BY MarkDrawn
<1>2. CASE t = Blank
  BY <1>1, <1>2 DEF Blank
<1>3. CASE t = Word
  <2>1. k \in 1..2 /\ t[k] \in {"CONSUMIN", "G"}
    BY <1>1, <1>3 DEF Word
  <2>2. \A j \in 1..k - 1 : t[j] \notin DOMAIN Inks
    BY <1>3, <2>1, InkTokens DEF Word
  <2>3. m = <<t[k], c>>
    BY <1>1, <2>2, NoInk
  <2> QED
    BY <1>3, <2>1, <2>3 DEF PlainMark, Word, Blank
<1>4. CASE t = Hash
  <2>1. k = 1 /\ t[k] = "#"
    BY <1>1, <1>4 DEF Hash
  <2>2. m = <<"#", c>>
    BY <1>1, <2>1, NoInk
  <2> QED
    BY <1>4, <2>2 DEF PlainMark, Blank, Hash
<1>5. CASE t = Hole
  <2>1. /\ t[1] = "#" /\ t[2] = "c" /\ t[3] = "0" /\ t[4] = "b" /\ t[5] = "#"
        /\ DOMAIN t = 1..5
    BY <1>5 DEF Hole
  <2>2. k \in {1, 3, 5}
    BY <1>1, <2>1, InkTokens
  <2>3. CASE k = 1
    <3>1. m = <<"#", c>>
      BY <1>1, <2>1, <2>3, NoInk
    <3> QED
      BY <3>1, <1>5 DEF PlainMark, Blank, Hole
  <2>4. CASE k = 3
    <3>1. ColourAt(t, 3, c) = "CYAN"
      BY <2>1, LastInk, InkTokens
    <3> QED
      BY <1>1, <1>5, <2>1, <2>4, <3>1 DEF PlainMark, Blank, Hole
  <2>5. CASE k = 5
    <3>1. ColourAt(t, 5, c) = "WHITE"
      BY <2>1, LastInk, InkTokens
    <3> QED
      BY <1>1, <1>5, <2>1, <2>5, <3>1 DEF PlainMark, Blank, Hole
  <2> QED
    BY <2>2, <2>3, <2>4, <2>5
<1>6. CASE t = Holes
  <2>1. /\ t[1] = "#" /\ t[2] = "c" /\ t[3] = "0" /\ t[4] = "b" /\ t[5] = "#"
        /\ t[6] = "c" /\ t[7] = "0" /\ t[8] = "b" /\ t[9] = "#"
        /\ DOMAIN t = 1..9
    BY <1>6 DEF Holes
  <2>2. k \in {1, 3, 5, 7, 9}
    BY <1>1, <2>1, InkTokens
  <2>3. CASE k = 1
    <3>1. m = <<"#", c>>
      BY <1>1, <2>1, <2>3, NoInk
    <3> QED
      BY <3>1, <1>6 DEF PlainMark, Blank, Holes
  <2>4. CASE k = 3
    <3>1. ColourAt(t, 3, c) = "CYAN"
      BY <2>1, LastInk, InkTokens
    <3> QED
      BY <1>1, <1>6, <2>1, <2>4, <3>1 DEF PlainMark, Blank, Holes
  <2>5. CASE k = 5
    <3>1. ColourAt(t, 5, c) = "WHITE"
      BY <2>1, LastInk, InkTokens
    <3> QED
      BY <1>1, <1>6, <2>1, <2>5, <3>1 DEF PlainMark, Blank, Holes
  <2>6. CASE k = 7
    <3>1. ColourAt(t, 7, c) = "CYAN"
      BY <2>1, LastInk, InkTokens
    <3> QED
      BY <1>1, <1>6, <2>1, <2>6, <3>1 DEF PlainMark, Blank, Holes
  <2>7. CASE k = 9
    <3>1. ColourAt(t, 9, c) = "WHITE"
      BY <2>1, LastInk, InkTokens
    <3> QED
      BY <1>1, <1>6, <2>1, <2>7, <3>1 DEF PlainMark, Blank, Holes
  <2> QED
    BY <2>2, <2>3, <2>4, <2>5, <2>6, <2>7
<1> QED
  BY <1>2, <1>3, <1>4, <1>5, <1>6 DEF PlainRows

\* A mark of an outline.
OutlineMark(m) == m = <<"0", "CYAN">> \/ m = <<"#", "WHITE">>

LEMMA OutlineRowsDrawn ==
    /\ \A c : \A m \in Drawn(Top, c) \cup Drawn(Second, c) : OutlineMark(m)
    /\ \A m \in Drawn(Rim, "CYAN") \cup Drawn(Last, "CYAN") : OutlineMark(m)
<1>1. ASSUME NEW c, NEW m \in Drawn(Top, c) PROVE OutlineMark(m)
  <2>1. PICK k \in DOMAIN Top : Top[k] \notin DOMAIN Inks /\ m = <<Top[k], ColourAt(Top, k, c)>>
    BY <1>1, MarkDrawn
  <2>2. Top[1] = "c" /\ Top[2] = "0" /\ DOMAIN Top = 1..2
    BY DEF Top
  <2>3. k = 2
    BY <2>1, <2>2, InkTokens
  <2>4. ColourAt(Top, 2, c) = "CYAN"
    BY <2>2, LastInk, InkTokens
  <2> QED
    BY <2>1, <2>2, <2>3, <2>4 DEF OutlineMark
<1>2. ASSUME NEW c, NEW m \in Drawn(Second, c) PROVE OutlineMark(m)
  <2>1. PICK k \in DOMAIN Second :
            Second[k] \notin DOMAIN Inks /\ m = <<Second[k], ColourAt(Second, k, c)>>
    BY <1>2, MarkDrawn
  <2>2. k \in {2, 4, 6}
    BY <2>1, SecondRow, InkTokens
  <2>3. ColourAt(Second, 2, c) = "CYAN"
    BY SecondRow, LastInk, InkTokens
  <2>4. ColourAt(Second, 4, c) = "WHITE"
    BY SecondRow, LastInk, InkTokens
  <2>5. ColourAt(Second, 6, c) = "CYAN"
    BY SecondRow, LastInk, InkTokens
  <2> QED
    BY <2>1, <2>2, <2>3, <2>4, <2>5, SecondRow DEF OutlineMark
<1>3. ASSUME NEW m \in Drawn(Rim, "CYAN") PROVE OutlineMark(m)
  <2>1. PICK k \in DOMAIN Rim : Rim[k] \notin DOMAIN Inks /\ m = <<Rim[k], ColourAt(Rim, k, "CYAN")>>
    BY <1>3, MarkDrawn
  <2>2. /\ DOMAIN Rim = 1..5
        /\ Rim[1] = "0" /\ Rim[2] = "b" /\ Rim[3] = "#" /\ Rim[4] = "c" /\ Rim[5] = "0"
    BY DEF Rim
  <2>3. k \in {1, 3, 5}
    BY <2>1, <2>2, InkTokens
  <2>4. ColourAt(Rim, 1, "CYAN") = "CYAN"
    BY NoInk
  <2>5. ColourAt(Rim, 3, "CYAN") = "WHITE"
    BY <2>2, LastInk, InkTokens
  <2>6. ColourAt(Rim, 5, "CYAN") = "CYAN"
    BY <2>2, LastInk, InkTokens
  <2> QED
    BY <2>1, <2>2, <2>3, <2>4, <2>5, <2>6 DEF OutlineMark
<1>4. ASSUME NEW m \in Drawn(Last, "CYAN") PROVE OutlineMark(m)
  <2>1. PICK k \in DOMAIN Last : m = <<Last[k], ColourAt(Last, k, "CYAN")>>
    BY <1>4, MarkDrawn
  <2>2. k = 1 /\ Last[k] = "0"
    BY DEF Last
  <2>3. ColourAt(Last, 1, "CYAN") = "CYAN"
    BY NoInk
  <2> QED
    BY <2>1, <2>2, <2>3 DEF OutlineMark
<1> QED
  BY <1>1, <1>2, <1>3, <1>4

\* The colour a row leaves behind when it sets one.
LEMMA LeftBehind ==
    /\ \A c : \A t \in PlainRows : HasInk(t) => ColourAfter(t, c) = "WHITE"
    /\ \A c : \A t \in {Top, Second, Rim} : HasInk(t) /\ ColourAfter(t, c) = "CYAN"
    /\ ~HasInk(Blank) /\ ~HasInk(Last)
<1>1. ASSUME NEW c PROVE ColourAfter(Hole, c) = "WHITE"
  <2>1. /\ Len(Hole) = 5 /\ DOMAIN Hole = 1..5
        /\ Hole[4] = "b" /\ Hole[5] = "#"
    BY DEF Hole
  <2>2. ColourAt(Hole, 6, c) = "WHITE"
    BY <2>1, LastInk, InkTokens
  <2> QED
    BY <2>1, <2>2 DEF ColourAfter
<1>2. ASSUME NEW c PROVE ColourAfter(Holes, c) = "WHITE"
  <2>1. /\ Len(Holes) = 9 /\ DOMAIN Holes = 1..9
        /\ Holes[8] = "b" /\ Holes[9] = "#"
    BY DEF Holes
  <2>2. ColourAt(Holes, 10, c) = "WHITE"
    BY <2>1, LastInk, InkTokens
  <2> QED
    BY <2>1, <2>2 DEF ColourAfter
<1>3. ~HasInk(Blank) /\ ~HasInk(Word) /\ ~HasInk(Hash) /\ ~HasInk(Last)
  BY InkTokens DEF HasInk, Blank, Word, Hash, Last
<1>4. ASSUME NEW c PROVE HasInk(Top) /\ ColourAfter(Top, c) = "CYAN"
  <2>1. Len(Top) = 2 /\ DOMAIN Top = 1..2 /\ Top[1] = "c" /\ Top[2] = "0"
    BY DEF Top
  <2>2. ColourAt(Top, 3, c) = "CYAN"
    BY <2>1, LastInk, InkTokens
  <2> QED
    BY <2>1, <2>2, InkTokens DEF ColourAfter, HasInk
<1>5. ASSUME NEW c PROVE HasInk(Second) /\ ColourAfter(Second, c) = "CYAN"
  <2>1. Len(Second) = 6
    BY SecondRow
  <2>2. ColourAt(Second, 7, c) = "CYAN"
    BY SecondRow, LastInk, InkTokens
  <2> QED
    BY <2>1, <2>2, SecondRow, InkTokens DEF ColourAfter, HasInk
<1>6. ASSUME NEW c PROVE HasInk(Rim) /\ ColourAfter(Rim, c) = "CYAN"
  <2>1. Len(Rim) = 5 /\ DOMAIN Rim = 1..5 /\ Rim[4] = "c" /\ Rim[5] = "0"
    BY DEF Rim
  <2>2. ColourAt(Rim, 6, c) = "CYAN"
    BY <2>1, LastInk, InkTokens
  <2> QED
    BY <2>1, <2>2, InkTokens DEF ColourAfter, HasInk
<1> QED
  BY <1>1, <1>2, <1>3, <1>4, <1>5, <1>6 DEF PlainRows

\* A picture under its first row: of plain rows, or an outline.
Plain(p) ==
    /\ Len(p) = 8 /\ DOMAIN p = 1..8
    /\ p[1] \in {Blank, Word}
    /\ \A r \in 2..8 : p[r] \in {Hash, Hole, Holes}
Outlined(p) ==
    /\ Len(p) = 8 /\ DOMAIN p = 1..8
    /\ p[1] = Blank /\ p[2] = Top /\ p[3] = Second
    /\ \A r \in 4..7 : p[r] = Rim
    /\ p[8] = Last

LEMMA PlainPictures ==
    ASSUME NEW top \in {Blank, Word}, NEW rows \in {Full, Inner, Small, Centre}
    PROVE  Plain(<<top>> \o rows)
<1> DEFINE S == PlainRows
<1>1. /\ rows \in Seq(S) /\ Len(rows) = 7
      /\ \A r \in 1..7 : rows[r] \in {Hash, Hole, Holes}
  <2>1. CASE rows = Full
    BY <2>1 DEF Full, PlainRows
  <2>2. CASE rows = Inner
    BY <2>2 DEF Inner, PlainRows
  <2>3. CASE rows = Small
    BY <2>3 DEF Small, PlainRows
  <2>4. CASE rows = Centre
    BY <2>4 DEF Centre, PlainRows
  <2> QED
    BY <2>1, <2>2, <2>3, <2>4
<1>2. top \in S
  BY DEF PlainRows
<1> DEFINE p == Under(top, rows)
<1>3. <<top>> \o rows = p /\ Len(p) = 1 + Len(rows)
  BY <1>1, <1>2, OnTop, Zenon
<1>4. DOMAIN p = 1..8 /\ p[1] = top /\ \A r \in 2..8 : p[r] = rows[r - 1]
  BY <1>1 DEF Under
<1> HIDE DEF p
<1>5. Len(p) = 8
  BY <1>1, <1>3
<1>6. \A r \in 2..8 : r - 1 \in 1..7
  OBVIOUS
<1>7. Plain(p)
  BY <1>1, <1>4, <1>5, <1>6 DEF Plain
<1> QED
  BY <1>3, <1>7

LEMMA OutlinePicture == Outlined(<<Blank>> \o Outline)
<1> DEFINE S == {Blank, Top, Second, Rim, Last}
           top == Blank
           rows == Outline
<1>1. rows = <<Top, Second, Rim, Rim, Rim, Rim, Last>>
  BY DEF Outline, Top, Second, Last
<1>2. top \in S /\ rows \in Seq(S) /\ Len(rows) = 7
  BY <1>1
<1>3. /\ rows[1] = Top /\ rows[2] = Second /\ rows[3] = Rim /\ rows[4] = Rim
      /\ rows[5] = Rim /\ rows[6] = Rim /\ rows[7] = Last
  BY <1>1
<1> DEFINE p == Under(top, rows)
<1> HIDE DEF S, rows
<1>4. <<top>> \o rows = p /\ Len(p) = 1 + Len(rows)
  BY <1>2, OnTop, Zenon
<1>5. DOMAIN p = 1..8 /\ p[1] = top /\ \A r \in 2..8 : p[r] = rows[r - 1]
  BY <1>2 DEF Under
<1> HIDE DEF p
<1>6. Len(p) = 8
  BY <1>2, <1>4
<1>7. /\ p[2] = Top /\ p[3] = Second /\ p[4] = Rim /\ p[5] = Rim
      /\ p[6] = Rim /\ p[7] = Rim /\ p[8] = Last
  BY <1>3, <1>5
<1>8. Outlined(p)
  BY <1>5, <1>6, <1>7 DEF Outlined
<1> QED
  BY <1>4, <1>8 DEF rows

\* All pictures; from frame 81 on the producer shows the outline.
LEMMA Pictures ==
    ASSUME NEW who \in Anims, NEW n \in 0..LAST - 1
    PROVE  /\ Plain(Frame(who, n)) \/ Outlined(Frame(who, n))
           /\ who = "producer" /\ n > 80 => Outlined(Frame(who, n))
<1>1. Stage(n) \in 1..5 /\ (n > 80 => Stage(n) = 5)
  BY DEF Stage, LAST
<1>2. Frame(who, n) = Stages(who)[Stage(n)]
  BY DEF Frame, LAST
<1>3. CASE who = "consumer"
  <2> DEFINE pictures == <<<<Blank>> \o Full, <<Blank>> \o Outline, <<Word>> \o Inner,
                           <<Blank>> \o Small, <<Word>> \o Centre>>
  <2>1. Stages(who) = pictures
    BY <1>3 DEF Stages
  <2>2. /\ Plain(pictures[1]) /\ Outlined(pictures[2]) /\ Plain(pictures[3])
        /\ Plain(pictures[4]) /\ Plain(pictures[5])
    BY PlainPictures, OutlinePicture
  <2> HIDE DEF pictures
  <2> QED
    BY <1>1, <1>2, <1>3, <2>1, <2>2
<1>4. CASE who = "producer"
  <2> DEFINE pictures == <<<<Blank>> \o Full, <<Word>> \o Centre, <<Blank>> \o Small,
                           <<Word>> \o Inner, <<Blank>> \o Outline>>
  <2>1. Stages(who) = pictures
    BY <1>4 DEF Stages
  <2>2. /\ Plain(pictures[1]) /\ Plain(pictures[2]) /\ Plain(pictures[3])
        /\ Plain(pictures[4]) /\ Outlined(pictures[5])
    BY PlainPictures, OutlinePicture
  <2> HIDE DEF pictures
  <2> QED
    BY <1>1, <1>2, <1>4, <2>1, <2>2
<1> QED
  BY <1>3, <1>4 DEF Anims

\* The blank frame.
Wipes(p, who) ==
    /\ Len(p) = Wiped(who) /\ DOMAIN p = 1..Wiped(who)
    /\ \A r \in 1..Wiped(who) : p[r] = Blank

LEMMA LastFrame == ASSUME NEW who PROVE Wipes(Frame(who, LAST), who) /\ Wiped(who) \in {7, 8}
<1>1. Wiped(who) \in {7, 8}
  BY DEF Wiped
<1> DEFINE w == Wiped(who)
           p == [r \in 1..w |-> Blank]
<1>2. Frame(who, LAST) = p
  BY DEF Frame
<1> HIDE DEF w
<1>3. w \in Nat
  BY <1>1 DEF w
<1>4. p \in Seq({Blank}) /\ Len(p) = w
  BY <1>3
<1>5. DOMAIN p = 1..w /\ \A r \in 1..w : p[r] = Blank
  OBVIOUS
<1> QED
  BY <1>1, <1>2, <1>4, <1>5 DEF Wipes, w

\* The colour that a row of a picture finds, and the one the picture leaves.
LEMMA InkedRows ==
    ASSUME NEW p, NEW r \in 1..9
    PROVE  /\ \A q : q \in Inked(p, r) <=> q \in 1..r - 1 /\ HasInk(p[q])
           /\ Inked(p, r) \subseteq 1..8
BY DEF Inked, HasInk

LEMMA BeforePlain ==
    ASSUME NEW p, Plain(p), NEW r \in 1..9, NEW c
    PROVE  Before(p, r, c) \in {c, "WHITE"}
<1> DEFINE S == Inked(p, r)
<1>1. CASE S = {}
  BY <1>1 DEF Before
<1>2. CASE S # {}
  <2>1. Max(S) \in S
    BY <1>2, InkedRows, MaxOfRows
  <2>2. HasInk(p[Max(S)]) /\ Max(S) \in 1..8
    BY <2>1, InkedRows
  <2>3. \A q \in 1..8 : p[q] \in PlainRows
    <3>1. ASSUME NEW q \in 1..8 PROVE q = 1 \/ q \in 2..8
      OBVIOUS
    <3> QED
      BY <3>1 DEF Plain, PlainRows
  <2>4. ColourAfter(p[Max(S)], c) = "WHITE"
    BY <2>2, <2>3, LeftBehind
  <2> QED
    BY <1>2, <2>4 DEF Before
<1> QED
  BY <1>1, <1>2

LEMMA BeforeOutlined ==
    ASSUME NEW p, Outlined(p), NEW r \in 1..9, NEW c
    PROVE  Before(p, r, c) = IF r <= 2 THEN c ELSE "CYAN"
<1> DEFINE S == Inked(p, r)
<1>1. \A q \in S : q \in 2..7 /\ p[q] \in {Top, Second, Rim}
  <2> SUFFICES ASSUME NEW q \in S PROVE q \in 2..7 /\ p[q] \in {Top, Second, Rim}
    OBVIOUS
  <2>1. q \in 1..8 /\ HasInk(p[q])
    BY InkedRows
  <2>2. q # 1 /\ q # 8
    BY <2>1, LeftBehind DEF Outlined
  <2>3. q = 2 \/ q = 3 \/ q \in 4..7
    BY <2>1, <2>2
  <2> QED
    BY <2>3 DEF Outlined
<1>2. CASE r <= 2
  <2>1. S = {}
    BY <1>1, <1>2, InkedRows
  <2> QED
    BY <1>2, <2>1 DEF Before
<1>3. CASE r > 2
  <2>1. 2 \in S
    <3>1. p[2] = Top /\ HasInk(Top)
      BY LeftBehind DEF Outlined
    <3> QED
      BY <1>3, <3>1, InkedRows
  <2>2. Max(S) \in S
    BY <2>1, InkedRows, MaxOfRows
  <2>3. ColourAfter(p[Max(S)], c) = "CYAN"
    BY <1>1, <2>2, LeftBehind
  <2>4. Before(p, r, c) = "CYAN"
    BY <2>1, <2>3 DEF Before
  <2> QED
    BY <1>3, <2>4
<1> QED
  BY <1>2, <1>3

LEMMA BeforeBlank ==
    ASSUME NEW p, NEW who, Wipes(p, who), NEW c
    PROVE  Before(p, Len(p) + 1, c) = c
<1>1. ASSUME NEW q \in 1..Len(p) PROVE ~HasInk(p[q])
  BY LeftBehind DEF Wipes
<1>2. Inked(p, Len(p) + 1) = {}
  <2>1. Len(p) \in {7, 8}
    BY LastFrame DEF Wipes
  <2>2. 1..(Len(p) + 1) - 1 = 1..Len(p)
    BY <2>1
  <2> QED
    BY <1>1, <2>2 DEF Inked, HasInk
<1> QED
  BY <1>2 DEF Before

\* What a frame draws.
LEMMA FrameDrawn ==
    ASSUME NEW who \in Anims, NEW n \in 0..LAST, NEW c,
           NEW r \in DOMAIN Frame(who, n),
           NEW m \in Drawn(Frame(who, n)[r], Before(Frame(who, n), r, c))
    PROVE  /\ PlainMark(m, c) \/ OutlineMark(m)
           /\ n # LAST
           /\ m[1] = "G" => r = 1 /\ ~(who = "producer" /\ n > 80)
<1> DEFINE p == Frame(who, n)
           b == Before(p, r, c)
<1>1. CASE n = LAST
  <2>1. p[r] = Blank
    BY <1>1, LastFrame DEF Wipes
  <2>2. Blank \in PlainRows
    BY DEF PlainRows
  <2> QED
    BY <2>1, <2>2, PlainRowsDrawn
<1>2. CASE n # LAST
  <2>1. n \in 0..LAST - 1
    BY <1>2 DEF LAST
  <2> HIDE DEF p
  <2>2. CASE Plain(p) /\ ~(who = "producer" /\ n > 80)
    <3>1. r \in 1..8
      BY <2>2 DEF Plain, p
    <3>2. b \in {c, "WHITE"}
      BY <2>2, <3>1, BeforePlain
    <3>3. p[r] \in PlainRows /\ (p[r] = Word => r = 1)
      <4>1. Word \notin {Hash, Hole, Holes}
        BY DEF Word, Hash, Hole, Holes
      <4>2. r = 1 \/ r \in 2..8
        BY <3>1
      <4> QED
        BY <2>2, <4>1, <4>2 DEF Plain, PlainRows
    <3>4. PlainMark(m, b) /\ (m[1] = "G" => p[r] = Word)
      BY <3>3, PlainRowsDrawn DEF p
    <3>5. PlainMark(m, c)
      BY <3>2, <3>4 DEF PlainMark
    <3> QED
      BY <1>2, <2>2, <3>3, <3>4, <3>5
  <2>3. CASE Outlined(p)
    <3>1. r \in 1..8
      BY <2>3 DEF Outlined, p
    <3>2. b = IF r <= 2 THEN c ELSE "CYAN"
      BY <2>3, <3>1, BeforeOutlined
    <3>3. m \in Drawn(p[r], b)
      BY DEF p
    <3> HIDE DEF b
    <3>4. r # 1
      <4>1. Blank \in PlainRows
        BY DEF PlainRows
      <4> QED
        BY <2>3, <3>3, <4>1, PlainRowsDrawn DEF Outlined
    <3>5. OutlineMark(m)
      <4>1. CASE r \in 2..3
        BY <2>3, <3>3, <4>1, OutlineRowsDrawn DEF Outlined
      <4>2. CASE r \in 4..8
        <5>1. b = "CYAN"
          BY <3>2, <4>2
        <5>2. r = 8 \/ r \in 4..7
          BY <4>2
        <5> QED
          BY <2>3, <3>3, <5>1, <5>2, OutlineRowsDrawn DEF Outlined
      <4> QED
        BY <3>1, <3>4, <4>1, <4>2
    <3>6. m[1] # "G"
      BY <3>5 DEF OutlineMark
    <3> QED
      BY <1>2, <3>5, <3>6
  <2> QED
    BY <2>1, <2>2, <2>3, Pictures DEF p
<1> QED
  BY <1>1, <1>2

\* The colour it leaves.
LEMMA FrameLeaves ==
    ASSUME NEW who \in Anims, NEW n \in 0..LAST, NEW c
    PROVE  Before(Frame(who, n), Len(Frame(who, n)) + 1, c) \in {c, "WHITE", "CYAN"}
<1> DEFINE p == Frame(who, n)
<1>1. CASE n = LAST
  BY <1>1, LastFrame, BeforeBlank
<1>2. CASE n # LAST
  <2>1. n \in 0..LAST - 1
    BY <1>2 DEF LAST
  <2>2. Plain(p) \/ Outlined(p)
    BY <2>1, Pictures
  <2> HIDE DEF p
  <2>3. Len(p) + 1 = 9
    <3>1. Len(p) = 8
      BY <2>2 DEF Plain, Outlined
    <3> QED
      BY <3>1
  <2>4. Before(p, 9, c) \in {c, "WHITE", "CYAN"}
    BY <2>2, BeforePlain, BeforeOutlined
  <2> QED
    BY <2>3, <2>4 DEF p
<1> QED
  BY <1>1, <1>2

-----------------------------------------------------------------------------
(* The animations: the types, the colours, and what is left of a picture *)

\* just_animations has no statistics.
AnimInv == AnimTypeOK /\ (body = "just_animations" => task # "display_stats")

\* A mark that stands after a pass: one the frame drew, or one the blank frame left.
LEMMA MarksAfter ==
    ASSUME AnimTypeOK, NEW who \in Anims, Draw(who)
    PROVE  /\ frame \in 0..LAST /\ frame' = frame + 1
           /\ task = who /\ UNCHANGED <<body, task, buffer, cells>>
           /\ \A other \in Anims \ {who} : screen'[other] = screen[other]
           /\ screen' = [a \in Anims |-> [r \in Rows |-> screen'[a][r]]]
           /\ \A r \in Rows : \A m \in screen'[who][r] :
                 \/ /\ PlainMark(m, FirstColour(who)) \/ OutlineMark(m)
                    /\ frame # LAST
                    /\ m[1] = "G" => r = 1 /\ ~(who = "producer" /\ frame > 80)
                 \/ /\ frame = LAST /\ m \in screen[who][r]
                    /\ r \in 1..Wiped(who) => m[1] = "G"
<1>1. /\ task = who /\ frame <= LAST /\ frame' = frame + 1
      /\ UNCHANGED <<body, task, buffer, cells>>
  BY DEF Draw
<1>2. frame \in 0..LAST
  <2>1. frame \in 0..LAST + 1
    BY <1>1 DEF AnimTypeOK, Anims
  <2> QED
    BY <1>1, <2>1 DEF LAST
<1> DEFINE p == Frame(who, frame)
           c == FirstColour(who)
           New(r) == IF r \notin DOMAIN p THEN screen[who][r]
                     ELSE Drawn(p[r], Before(p, r, c)) \cup
                          IF frame = LAST THEN {m \in screen[who][r] : m[1] = "G"} ELSE {}
<1>3. screen' = [screen EXCEPT ![who] = [r \in Rows |-> New(r)]]
  BY DEF Draw
<1>4. DOMAIN screen = Anims /\ \A a \in Anims : screen[a] = [r \in Rows |-> screen[a][r]]
  BY DEF AnimTypeOK
<1>5. ASSUME NEW r \in Rows, NEW m \in New(r)
      PROVE  \/ /\ PlainMark(m, c) \/ OutlineMark(m)
                /\ frame # LAST
                /\ m[1] = "G" => r = 1 /\ ~(who = "producer" /\ frame > 80)
             \/ /\ frame = LAST /\ m \in screen[who][r]
                /\ r \in 1..Wiped(who) => m[1] = "G"
  <2>1. CASE r \notin DOMAIN p
    <3>1. frame = LAST
      <4> SUFFICES ASSUME frame # LAST PROVE FALSE
        OBVIOUS
      <4>1. frame \in 0..LAST - 1
        BY <1>2 DEF LAST
      <4>2. DOMAIN p = 1..8
        BY <4>1, Pictures DEF Plain, Outlined
      <4> QED
        BY <2>1, <4>2 DEF Rows
    <3>2. r \notin 1..Wiped(who)
      BY <2>1, <3>1, LastFrame DEF Wipes
    <3> QED
      BY <1>5, <2>1, <3>1, <3>2
  <2>2. CASE r \in DOMAIN p /\ m \in Drawn(p[r], Before(p, r, c))
    BY <1>2, <2>2, FrameDrawn
  <2>3. CASE r \in DOMAIN p /\ frame = LAST /\ m \in {k \in screen[who][r] : k[1] = "G"}
    BY <2>3
  <2> QED
    BY <1>5, <2>1, <2>2, <2>3
<1> HIDE DEF p, c, New
<1>6. screen'[who] = [r \in Rows |-> New(r)]
  BY <1>3, <1>4
<1>7. \A other \in Anims \ {who} : screen'[other] = screen[other]
  BY <1>3, <1>4
<1>8. screen' = [a \in Anims |-> [r \in Rows |-> screen'[a][r]]]
  <2>1. DOMAIN screen' = Anims /\ screen' = [a \in Anims |-> screen'[a]]
    BY <1>3, <1>4
  <2>2. \A a \in Anims : screen'[a] = [r \in Rows |-> screen'[a][r]]
    BY <1>4, <1>6, <1>7
  <2> QED
    BY <2>1, <2>2
<1>9. \A r \in Rows : screen'[who][r] = New(r)
  BY <1>6
<1> QED
  BY <1>1, <1>2, <1>5, <1>7, <1>8, <1>9 DEF c

LEMMA AnimFirst == AnimInit => AnimInv
<1> SUFFICES ASSUME AnimInit PROVE AnimInv
  OBVIOUS
<1>1. Clear \in [Anims -> [Rows -> SUBSET Marks]]
  BY DEF Clear
<1>2. Cells \in Nat /\ 0 \in 0..LAST + 1 /\ 0 \in 0..Cells
  BY AnimationsAssumption DEF LAST
<1> QED
  BY <1>1, <1>2 DEF AnimInit, AnimInv, AnimTypeOK, Anims

LEMMA AnimStep == AnimInv /\ [AnimNext]_animVars => AnimInv'
<1> SUFFICES ASSUME AnimInv, [AnimNext]_animVars PROVE AnimInv'
  OBVIOUS
<1>0. AnimTypeOK /\ (body = "just_animations" => task # "display_stats")
  BY DEF AnimInv
<1> DEFINE Tasks == Anims \cup {"display_bounded_buffer", "display_stats"}
<1>1. Cells \in Nat /\ LAST \in Nat /\ 0 \in 0..LAST + 1 /\ 0 \in 0..Cells
  BY AnimationsAssumption DEF LAST
<1>2. /\ Clear \in [Anims -> [Rows -> SUBSET Marks]]
      /\ [k \in DOMAIN cells |-> FALSE] \in [0..Cells - 1 -> BOOLEAN]
      /\ [k \in DOMAIN buffer |-> 0] \in [0..Cells - 1 -> 0..1]
  BY <1>0 DEF Clear, AnimTypeOK
<1>3. ASSUME NEW who \in Anims, Draw(who) PROVE AnimInv'
  <2>1. /\ frame \in 0..LAST /\ frame' = frame + 1
        /\ task = who /\ UNCHANGED <<body, task, buffer, cells>>
    BY <1>0, <1>3, MarksAfter
  <2>2. who # "display_bounded_buffer" /\ frame' \in 0..LAST + 1
    BY <2>1 DEF Anims, LAST
  <2>3. colour' \in {"WHITE", "CYAN", "GREEN"} /\ FirstColour(who) \in {"WHITE", "CYAN", "GREEN"}
    <3>1. FirstColour(who) \in {"WHITE", "CYAN", "GREEN"}
      BY <1>0 DEF FirstColour, AnimTypeOK
    <3>2. colour' \in {FirstColour(who), "WHITE", "CYAN"}
      BY <1>3, <2>1, FrameLeaves DEF Draw
    <3> QED
      BY <3>1, <3>2
  <2>4. screen' \in [Anims -> [Rows -> SUBSET Marks]]
    <3>1. ASSUME NEW a \in Anims, NEW r \in Rows, NEW m \in screen'[a][r] PROVE m \in Marks
      <4>1. CASE a = who
        <5>1. \/ PlainMark(m, FirstColour(who)) \/ OutlineMark(m)
              \/ m \in screen[who][r]
          BY <1>0, <1>3, <3>1, <4>1, MarksAfter
        <5>2. screen[who][r] \subseteq Marks
          BY <1>0 DEF AnimTypeOK
        <5>3. PlainMark(m, FirstColour(who)) => m \in Marks
          BY <2>3 DEF PlainMark, Marks
        <5>4. OutlineMark(m) => m \in Marks
          BY DEF OutlineMark, Marks
        <5> QED
          BY <5>1, <5>2, <5>3, <5>4
      <4>2. CASE a # who
        BY <1>0, <1>3, <3>1, <4>2, MarksAfter DEF AnimTypeOK
      <4> QED
        BY <4>1, <4>2
    <3>2. screen' = [a \in Anims |-> [r \in Rows |-> screen'[a][r]]]
      BY <1>0, <1>3, MarksAfter
    <3> QED
      BY <3>1, <3>2
  <2> QED
    BY <1>0, <2>1, <2>2, <2>3, <2>4 DEF AnimInv, AnimTypeOK
<1>4. CASE Fill
  <2>1. frame \in 0..Cells /\ frame # Cells
    BY <1>0, <1>4 DEF Fill, Room, AnimTypeOK
  <2>2. frame + 1 \in 0..Cells
    BY <1>1, <2>1
  <2>3. buffer' \in [0..Cells - 1 -> 0..1]
    <3>1. buffer \in [0..Cells - 1 -> 0..1] /\ buffer' = [buffer EXCEPT ![frame] = 1]
      BY <1>0, <1>4 DEF Fill, AnimTypeOK
    <3>2. 1 \in 0..1
      OBVIOUS
    <3> QED
      BY <3>1, <3>2
  <2>4. cells' \in [0..Cells - 1 -> BOOLEAN]
    BY <1>0, <1>4 DEF Fill, AnimTypeOK
  <2> QED
    BY <1>0, <1>4, <2>2, <2>3, <2>4 DEF Fill, AnimInv, AnimTypeOK
<1>5. CASE Loop
  <2>1. task \in {"consumer", "producer", "display_bounded_buffer"}
    BY <1>0, <1>5 DEF Loop, AnimTypeOK, Anims
  <2>2. Afterwards[task] \in {"consumer", "producer", "display_bounded_buffer"}
    BY <2>1 DEF Afterwards
  <2>3. task' \in {"consumer", "producer", "display_bounded_buffer"} /\ frame' = 0
    BY <1>5, <2>2 DEF Loop, Enter
  <2>4. /\ screen' = Clear /\ cells' = [k \in DOMAIN cells |-> FALSE]
        /\ buffer' \in {buffer, [k \in DOMAIN buffer |-> 0]}
        /\ UNCHANGED <<body, colour>>
    BY <1>5 DEF Loop, Enter
  <2> QED
    BY <1>0, <1>1, <1>2, <2>3, <2>4 DEF AnimInv, AnimTypeOK, Anims
<1>6. CASE Switch
  <2>1. PICK next \in Tasks :
            /\ Enter(next)
            /\ \/ colour' = "GREEN" /\ screen' = Clear /\ cells' = [k \in DOMAIN cells |-> FALSE]
               \/ colour' = "GREEN" /\ UNCHANGED <<screen, cells>>
               \/ UNCHANGED <<colour, screen, cells>>
    BY <1>6 DEF Switch
  <2>2. body = "threads"
    BY <1>6 DEF Switch
  <2>3. /\ task' \in Tasks /\ frame' = 0 /\ body' = body
        /\ buffer' \in {buffer, [k \in DOMAIN buffer |-> 0]}
    BY <2>1 DEF Enter
  <2>4. /\ screen' \in {screen, Clear}
        /\ cells' \in {cells, [k \in DOMAIN cells |-> FALSE]}
        /\ colour' \in {colour, "GREEN"}
    BY <2>1
  <2> QED
    BY <1>0, <1>1, <1>2, <2>2, <2>3, <2>4 DEF AnimInv, AnimTypeOK
<1>7. CASE UNCHANGED animVars
  BY <1>0, <1>7 DEF AnimInv, AnimTypeOK, animVars
<1> QED
  BY <1>3, <1>4, <1>5, <1>6, <1>7 DEF AnimNext, Anims

THEOREM AnimationsTypeCorrect == AnimSpec => []AnimTypeOK
<1>1. AnimInv => AnimTypeOK
  BY DEF AnimInv
<1> QED
  BY <1>1, AnimFirst, AnimStep, PTL DEF AnimSpec

\* Loop and Switch start the next animation on the screen as it is, or clear it.
LEMMA ScreenBetween ==
    ASSUME Fill \/ Loop \/ Switch \/ UNCHANGED animVars
    PROVE  screen' = screen \/ screen' = Clear
<1>1. CASE Fill
  BY <1>1 DEF Fill
<1>2. CASE Loop
  BY <1>2 DEF Loop
<1>3. CASE Switch
  BY <1>3 DEF Switch
<1> QED
  BY <1>1, <1>2, <1>3 DEF animVars

\* Whatever colour an animation finds, and although most rows of an outline
\* rely on the row above, a 0 is cyan and the producer's other marks are white.
THEOREM ColoursStay == AnimSpec => []ColoursAreKept
<1>1. AnimInit => ColoursAreKept
  BY DEF AnimInit, Clear, ColoursAreKept
<1>2. ASSUME AnimInv, ColoursAreKept, [AnimNext]_animVars PROVE ColoursAreKept'
  <2>1. ASSUME NEW who \in Anims, Draw(who) PROVE ColoursAreKept'
    <3>0. AnimTypeOK
      BY <1>2 DEF AnimInv
    <3>1. ASSUME NEW r \in Rows, NEW m \in screen'[who][r]
          PROVE  /\ m[1] = "0" => m[2] = "CYAN"
                 /\ m[1] # "0" /\ who = "producer" => m[2] = "WHITE"
      <4>1. CASE m \in screen[who][r]
        BY <1>2, <4>1 DEF ColoursAreKept
      <4>2. CASE PlainMark(m, FirstColour(who))
        BY <4>2 DEF PlainMark, FirstColour
      <4>3. CASE OutlineMark(m)
        BY <4>3 DEF OutlineMark
      <4> QED
        BY <2>1, <3>0, <3>1, <4>1, <4>2, <4>3, MarksAfter
    <3>2. \A other \in Anims \ {who} : screen'[other] = screen[other]
      BY <2>1, <3>0, MarksAfter
    <3> QED
      BY <1>2, <3>1, <3>2 DEF ColoursAreKept
  <2>2. CASE Fill \/ Loop \/ Switch \/ UNCHANGED animVars
    <3>1. screen' = screen \/ screen' = Clear
      BY <2>2, ScreenBetween
    <3> QED
      BY <1>2, <3>1 DEF ColoursAreKept, Clear
  <2> QED
    BY <1>2, <2>1, <2>2 DEF AnimNext, Anims
<1> QED
  BY <1>1, <1>2, AnimFirst, AnimStep, PTL DEF AnimSpec

\* What stands of a picture while it is shown, before its last frame, and after.
ErasedInv ==
    /\ \A who \in Anims : \A r \in Rows \ {1} : \A m \in screen[who][r] : m[1] # "G"
    /\ task = "producer" /\ frame > 81 => \A m \in screen["producer"][1] : m[1] # "G"
    /\ task # "consumer" \/ frame > LAST =>
          \A r \in Rows : \A m \in screen["consumer"][r] : r = 1 /\ m[1] = "G"
    /\ task # "producer" \/ frame > LAST =>
          \A r \in Rows \ {8} : screen["producer"][r] = {}

LEMMA ErasedStep == AnimInv /\ ErasedInv /\ [AnimNext]_animVars => ErasedInv'
<1> SUFFICES ASSUME AnimInv, ErasedInv, [AnimNext]_animVars PROVE ErasedInv'
  OBVIOUS
<1>0. AnimTypeOK
  BY DEF AnimInv
<1>1. CASE Draw("consumer")
  <2> DEFINE who == "consumer"
  <2>1. /\ frame \in 0..LAST /\ frame' = frame + 1 /\ task = who /\ task' = who
        /\ screen'["producer"] = screen["producer"]
    BY <1>0, <1>1, MarksAfter DEF Anims
  <2>2. ASSUME NEW r \in Rows, NEW m \in screen'[who][r]
        PROVE  /\ m[1] = "G" => r = 1
               /\ frame = LAST => r = 1 /\ m[1] = "G"
    <3>1. \/ frame # LAST /\ (m[1] = "G" => r = 1)
          \/ frame = LAST /\ m \in screen[who][r] /\ (r \in 1..Wiped(who) => m[1] = "G")
      BY <1>0, <1>1, <2>2, MarksAfter DEF Anims
    <3>2. r \in 1..Wiped(who)
      BY <2>2 DEF Rows, Wiped
    <3>3. m \in screen[who][r] => (m[1] = "G" => r = 1)
      BY <2>2 DEF ErasedInv, Anims
    <3> QED
      BY <3>1, <3>2, <3>3
  <2>3. frame' > LAST => frame = LAST
    BY <2>1 DEF LAST
  <2>4. \A r \in Rows \ {8} : screen'["producer"][r] = {}
    BY <2>1 DEF ErasedInv
  <2>5. \A r \in Rows \ {1} : \A m \in screen'["producer"][r] : m[1] # "G"
    BY <2>1 DEF ErasedInv, Anims
  <2>6. \A r \in Rows \ {1} : \A m \in screen'[who][r] : m[1] # "G"
    BY <2>2
  <2>7. frame' > LAST => \A r \in Rows : \A m \in screen'[who][r] : r = 1 /\ m[1] = "G"
    BY <2>2, <2>3
  <2> QED
    BY <2>1, <2>4, <2>5, <2>6, <2>7 DEF ErasedInv, Anims
<1>2. CASE Draw("producer")
  <2> DEFINE who == "producer"
  <2>1. /\ frame \in 0..LAST /\ frame' = frame + 1 /\ task = who /\ task' = who
        /\ screen'["consumer"] = screen["consumer"]
    BY <1>0, <1>2, MarksAfter DEF Anims
  <2>2. ASSUME NEW r \in Rows, NEW m \in screen'[who][r]
        PROVE  /\ m[1] = "G" => r = 1 /\ ~(frame > 80)
               /\ frame = LAST => r = 8
    <3>1. \/ frame # LAST /\ (m[1] = "G" => r = 1 /\ ~(frame > 80))
          \/ frame = LAST /\ m \in screen[who][r] /\ (r \in 1..Wiped(who) => m[1] = "G")
      BY <1>0, <1>2, <2>2, MarksAfter DEF Anims
    <3>2. CASE frame = LAST
      <4>1. frame > 81 /\ m \in screen[who][r]
        BY <3>1, <3>2 DEF LAST
      <4>2. m[1] # "G"
        BY <2>1, <2>2, <4>1 DEF ErasedInv, Anims
      <4>3. r \notin 1..7
        BY <3>1, <3>2, <4>2 DEF Wiped
      <4> QED
        BY <2>2, <4>2, <4>3 DEF Rows
    <3> QED
      BY <3>1, <3>2
  <2>3. /\ frame' > LAST => frame = LAST
        /\ frame' > 81 => frame > 80
    BY <2>1 DEF LAST
  <2>4. \A r \in Rows : \A m \in screen'["consumer"][r] : r = 1 /\ m[1] = "G"
    BY <2>1 DEF ErasedInv
  <2>5. \A r \in Rows \ {1} : \A m \in screen'[who][r] : m[1] # "G"
    BY <2>2
  <2>6. frame' > 81 => \A m \in screen'[who][1] : m[1] # "G"
    BY <2>2, <2>3 DEF Rows
  <2>7. frame' > LAST => \A r \in Rows \ {8} : screen'[who][r] = {}
    BY <2>2, <2>3
  <2>8. \A r \in Rows \ {1} : \A m \in screen'["consumer"][r] : m[1] # "G"
    BY <2>4
  <2> QED
    BY <2>1, <2>4, <2>5, <2>6, <2>7, <2>8 DEF ErasedInv, Anims
<1>3. CASE Fill
  BY <1>3 DEF Fill, ErasedInv
<1>4. CASE Loop \/ Switch
  <2>1. screen' = screen \/ screen' = Clear
    BY <1>4, ScreenBetween
  <2>2. frame' = 0 /\ ~(frame' > 81) /\ ~(frame' > LAST)
    BY <1>4 DEF Loop, Switch, Enter, LAST
  <2>3. CASE screen' = Clear
    BY <2>2, <2>3 DEF ErasedInv, Clear, Anims
  <2>4. CASE screen' = screen
    <3>1. /\ task = "consumer" => frame > LAST
          /\ task = "producer" => frame > LAST
      BY <1>4 DEF Loop, Switch, Returned, Anims
    <3> QED
      BY <2>2, <2>4, <3>1 DEF ErasedInv
  <2> QED
    BY <2>1, <2>3, <2>4
<1>5. CASE UNCHANGED animVars
  BY <1>5 DEF animVars, ErasedInv
<1> QED
  BY <1>1, <1>2, <1>3, <1>4, <1>5 DEF AnimNext

\* The consumer leaves at most the last letter of CONSUMING, the producer at
\* most its last row.
THEOREM PicturesGo == AnimSpec => []PicturesAreErased
<1>1. AnimInit => ErasedInv
  BY DEF AnimInit, Clear, ErasedInv, Anims, LAST
<1>2. ErasedInv => PicturesAreErased
  BY DEF ErasedInv, PicturesAreErased
<1> QED
  BY <1>1, <1>2, ErasedStep, AnimFirst, AnimStep, PTL DEF AnimSpec

-----------------------------------------------------------------------------
(***************************************************************************)
(* The types of all four parts.                                            *)
(***************************************************************************)

LEMMA MallocTypes ==
    ASSUME brk \in Nat, NEW size \in Nat
    PROVE  Malloc(size).addr \in Nat /\ Malloc(size).brk \in Nat
BY DEF Malloc

\* A row that create_thread fills has its type, and ends the table or not.
LEMMA CreateTypes ==
    ASSUME TableTypeOK, NEW size \in Sizes, NEW length \in Names, CreateThread(size, length)
    PROVE  TableTypeOK'
<1> DEFINE r == RowOf(numThreads)
           addr == Malloc(size).addr
<1>1. /\ size \in Nat /\ FRAME \in Nat /\ size - FRAME \in Nat /\ CAP \in Nat /\ CAP >= 2
      /\ MAXCALLS \in Nat
  BY TableAssumption
<1>2. /\ threads \in [0..CAP - 1 -> Row] /\ numThreads \in 1..CAP
      /\ brk \in Nat /\ asked \in 0..MAXCALLS
  BY DEF TableTypeOK
<1>3. /\ asked < MAXCALLS /\ asked' = asked + 1
      /\ brk' = Malloc(size).brk
      /\ threads' = [threads EXCEPT ![r] = Filled(r, addr, size, length)]
      /\ numThreads' = CountUp(r)
      /\ ~started /\ UNCHANGED started
  BY DEF CreateThread
<1>4. r \in 0..CAP - 1
  BY <1>1, <1>2 DEF RowOf
<1>5. addr \in Nat /\ brk' \in Nat
  BY <1>1, <1>2, <1>3, MallocTypes
<1> HIDE DEF r, addr
<1>6. /\ addr + size \in Nat /\ addr + (size - FRAME) \in Nat
      /\ Address(asked + 1) \in Nat
  BY <1>1, <1>2, <1>5 DEF Address, MainPC
<1>7. ASSUME NEW n, NEW value \in Nat PROVE Kept(length, n, value) \in Nat
  BY <1>7 DEF Kept, Garbled
<1>8. /\ Early(r, "stackBase", addr) \in Nat
      /\ Early(r, "stackEnd", addr + size) \in Nat
  BY <1>2, <1>4, <1>5, <1>6 DEF Early, Row
<1>9. Filled(r, addr, size, length) \in Row
  <2>1. r \in 0..CAP
    BY <1>1, <1>4
  <2>2. /\ Kept(length, 3, Address(asked + 1)) \in Nat
        /\ Kept(length, 5, Early(r, "stackBase", addr)) \in Nat
        /\ Kept(length, 7, Early(r, "stackEnd", addr + size)) \in Nat
        /\ Kept(length, 9, addr + (size - FRAME)) \in Nat
    BY <1>6, <1>7, <1>8
  <2> QED
    BY <1>1, <1>6, <2>1, <2>2 DEF Filled, Row
<1>10. threads' \in [0..CAP - 1 -> Row]
  BY <1>2, <1>3, <1>4, <1>9
<1>11. numThreads' \in 1..CAP /\ asked' \in 0..MAXCALLS
  BY <1>1, <1>2, <1>3, <1>4 DEF CountUp
<1> QED
  BY <1>3, <1>5, <1>10, <1>11 DEF TableTypeOK

LEMMA TableTypeStep == TableTypeOK /\ [TableNext]_tableVars => TableTypeOK'
<1> SUFFICES ASSUME TableTypeOK, [TableNext]_tableVars PROVE TableTypeOK'
  OBVIOUS
<1>1. ASSUME NEW size \in Sizes, NEW length \in Names, CreateThread(size, length)
      PROVE  TableTypeOK'
  BY <1>1, CreateTypes
<1>2. CASE OsStart
  <2> DEFINE main == [threads[0] EXCEPT !.id = 0, !.PC = MainPC, !.curState = "READY",
                        !.stackSize = 0, !.stackBase = 0, !.stackEnd = 0, !.stackTop = 0]
  <2>1. threads \in [0..CAP - 1 -> Row] /\ 0 \in 0..CAP - 1 /\ 0 \in 0..CAP
    BY TableAssumption DEF TableTypeOK
  <2>2. main \in Row
    BY <2>1 DEF Row, MainPC
  <2>3. threads' = [threads EXCEPT ![0] = main]
    BY <1>2 DEF OsStart
  <2> HIDE DEF main
  <2>4. threads' \in [0..CAP - 1 -> Row]
    BY <2>1, <2>2, <2>3
  <2> QED
    BY <1>2, <2>4 DEF OsStart, TableTypeOK
<1>3. CASE UNCHANGED tableVars
  BY <1>3 DEF tableVars, TableTypeOK
<1> QED
  BY <1>1, <1>2, <1>3 DEF TableNext

LEMMA Counts == \A count \in 0..MOD32 - 1 : (count + 1) % MOD32 \in 0..MOD32 - 1
BY NextThreadAssumption

LEMMA SearchTypeStep == SearchTypeOK /\ [SearchNext]_searchVars => SearchTypeOK'
<1> SUFFICES ASSUME SearchTypeOK, [SearchNext]_searchVars PROVE SearchTypeOK'
  OBVIOUS
<1>1. CASE GetNextThread
  BY <1>1, FollowingIsThread DEF GetNextThread, SearchTypeOK
<1>2. CASE Search
  BY <1>2, FollowingIsThread, Counts DEF Search, SearchTypeOK
<1>3. CASE GetNextThread2
  BY <1>3, FollowingIsThread DEF GetNextThread2, SearchTypeOK
<1>4. ASSUME NEW i \in Thread, Change(i) PROVE SearchTypeOK'
  BY <1>4 DEF Change, SearchTypeOK
<1>5. CASE UNCHANGED searchVars
  BY <1>5 DEF searchVars, SearchTypeOK
<1> QED
  BY <1>1, <1>2, <1>3, <1>4, <1>5 DEF SearchNext

\* While a panel is drawn nobody changes the states or the counts.
LEMMA OthersTypes ==
    ASSUME SearchTypeOK, StatsNext, UNCHANGED <<current, dontReturn, pc>>
    PROVE  SearchTypeOK'
<1>1. CASE Others
  BY <1>1, Counts DEF Others, SearchTypeOK, State
<1>2. CASE Begin \/ DrawPanel \/ AllDrawn \/ Unlock
  BY <1>2 DEF Begin, DrawPanel, AllDrawn, Unlock, SearchTypeOK
<1> QED
  BY <1>1, <1>2 DEF StatsNext

TypesInv == TableTypeOK /\ SearchTypeOK /\ StatsTypeOK /\ AnimInv

\* Every part keeps its types, whichever runs, for every table, heap, set of
\* names and stack sizes, number of threads and size of the buffer.
THEOREM TypesCorrect == Spec => []TypeOK
<1>1. Init => TypesInv
  <2> SUFFICES ASSUME Init PROVE TypesInv
    OBVIOUS
  <2>1. TableTypeOK
    <3>1. Unset \in Row /\ CAP \in Nat /\ CAP >= 2 /\ MAXCALLS \in Nat
      BY TableAssumption DEF Unset, Row
    <3>2. /\ threads = [i \in 0..CAP - 1 |-> Unset]
          /\ numThreads = 1 /\ brk = 2 /\ asked = 0 /\ started = FALSE
      BY DEF Init, TableInit, FirstStack
    <3>3. threads \in [0..CAP - 1 -> Row]
      BY <3>1, <3>2
    <3>4. started \in BOOLEAN
      BY <3>2
    <3>5. numThreads \in 1..CAP /\ brk \in Nat /\ asked \in 0..MAXCALLS
      BY <3>1, <3>2
    <3> QED
      BY <3>3, <3>4, <3>5 DEF TableTypeOK
  <2>2. 0 \in Thread /\ 0 \in 0..MOD32 - 1 /\ 0 \in 0..N
    BY NextThreadAssumption DEF Thread
  <2>3. SearchTypeOK
    BY <2>2 DEF Init, StatsInit, SearchInit, SearchTypeOK, State
  <2>4. StatsTypeOK
    BY <2>2 DEF Init, StatsInit, StatsTypeOK
  <2> QED
    BY <2>1, <2>3, <2>4, AnimFirst DEF Init, TypesInv
<1>2. TypesInv /\ [Next]_vars => TypesInv'
  <2> SUFFICES ASSUME TypesInv, [Next]_vars PROVE TypesInv'
    OBVIOUS
  <2>0. TableTypeOK /\ SearchTypeOK /\ StatsTypeOK /\ AnimInv
    BY DEF TypesInv
  <2>1. TableTypeOK'
    BY <2>0, TableTypeStep DEF Next, Create, Seek, Show, Animate, vars
  <2>2. AnimInv'
    BY <2>0, AnimStep DEF Next, Create, Seek, Show, Animate, vars
  <2>3. SearchTypeOK'
    <3>1. CASE Show
      BY <2>0, <3>1, OthersTypes DEF Show, searchOnly
    <3>2. CASE [SearchNext]_searchVars
      BY <2>0, <3>2, SearchTypeStep
    <3> QED
      BY <3>1, <3>2 DEF Next, Create, Seek, Animate, vars
  <2>4. StatsTypeOK'
    <3>1. CASE Show
      BY <2>0, <3>1, StatsTypeStep DEF Show
    <3>2. CASE UNCHANGED screenOnly
      BY <2>0, <3>2 DEF screenOnly, StatsTypeOK
    <3> QED
      BY <3>1, <3>2 DEF Next, Create, Seek, Animate, vars, statsVars, screenOnly
  <2> QED
    BY <2>1, <2>2, <2>3, <2>4 DEF TypesInv
<1>3. TypesInv => TypeOK
  BY DEF TypesInv, TypeOK, StatsTypeOK, AnimInv
<1> QED
  BY <1>1, <1>2, <1>3, PTL DEF Spec
=============================================================================
