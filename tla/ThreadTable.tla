----------------------------- MODULE ThreadTable -----------------------------
(***************************************************************************)
(* The thread table of os.c: os_init, the calls of create_thread and       *)
(* os_start, as reads and writes of the heap block memBegin points to.     *)
(* create_thread reads numThreads again for every field it writes, and a   *)
(* row past the eighth lies over the fields that follow the table.         *)
(***************************************************************************)
EXTENDS Naturals

CONSTANTS
    CAP,        \* rows of system_t.threads
    FRAME,      \* sizeof(regs_context_switch)
    HEAP,       \* the first address malloc cannot hand out
    NAME,       \* sizeof(thread_t.tName)
    Sizes,      \* stack sizes asked for
    Names,      \* lengths of the names given
    MAXCALLS    \* bound: calls of create_thread before os_start

ASSUME TableAssumption ==
    /\ CAP \in Nat /\ CAP >= 2 /\ MAXCALLS \in Nat
    /\ FRAME \in Nat /\ HEAP \in Nat /\ NAME \in Nat
    /\ Sizes \subseteq Nat /\ \A size \in Sizes : size >= FRAME
    /\ Names \subseteq Nat /\ \A length \in Names : length < NAME + 10

VARIABLES threads, numThreads,    \* system_t (runningThread: see NextThread)
          brk,                    \* malloc's next free address
          asked,                  \* the calls of create_thread so far: their addresses
          started

tableVars == <<threads, numThreads, brk, asked, started>>

-----------------------------------------------------------------------------
Row == [id : 0..CAP, curState : {"unset", "READY"}, stackSize : Nat, PC : Nat,
        stackBase : Nat, stackEnd : Nat, stackTop : Nat, stackPointer : Nat]

Garbled == 0        \* a field that holds characters of a name
MainPC == 1
FirstStack == 2     \* the first address malloc hands out after the table

Unset == [id |-> 0, curState |-> "unset", stackSize |-> 0, PC |-> 0, stackBase |-> 0,
          stackEnd |-> 0, stackTop |-> 0, stackPointer |-> 0]

\* A mutant of Malloc: the block is not taken off the heap.
MallocSame(size) == [addr |-> IF brk + size <= HEAP THEN brk ELSE 0, brk |-> brk]
\* malloc: blocks follow one another, two bytes of size before each; 0 is NULL.
Malloc(size) == IF brk + size <= HEAP THEN [addr |-> brk, brk |-> brk + size + 2]
                ELSE [addr |-> 0, brk |-> brk]

\* memcpy of a name and its final 0 runs into the fields behind tName: the
\* n-th byte of those fields is overwritten.
Spills(length, n) == length + 1 >= NAME + n
Kept(length, n, value) == IF Spills(length, n) THEN Garbled ELSE value

\* The address a new thread will run, distinct for every call.
Address(call) == MainPC + call

-----------------------------------------------------------------------------
\* os_init
TableInit ==
    /\ threads = [i \in 0..CAP - 1 |-> Unset]
    /\ numThreads = 1
    /\ brk = FirstStack
    /\ asked = 0
    /\ started = FALSE

\* A mutant of RowOf: numThreads is counted up before the row is filled.
RowAfter(n) == IF n + 1 < CAP THEN n + 1 ELSE 0
\* A mutant of CountUp: the thread is counted again by the caller.
CountTwice(r) == r + 2
CountUp(r) == r + 1

\* The row create_thread fills: ticks of a row past the table is numThreads,
\* so the store of 0 to it sends the stores that follow to row 0.
RowOf(n) == IF n < CAP THEN n ELSE 0

\* stackBase and stackEnd are stored before ticks: past the table they go to
\* the first bytes of the stack behind it.
Early(r, field, value) == IF r = numThreads THEN value ELSE threads[r][field]

\* What create_thread leaves in row r, the stack at addr.
Filled(r, addr, size, length) ==
    [id |-> r, curState |-> "READY", stackSize |-> size,
     PC |-> Kept(length, 3, Address(asked + 1)),
     stackBase |-> Kept(length, 5, Early(r, "stackBase", addr)),
     stackEnd |-> Kept(length, 7, Early(r, "stackEnd", addr + size)),
     stackTop |-> Kept(length, 9, addr + size - FRAME),
     stackPointer |-> addr + size - FRAME]

CreateThread(size, length) ==
    LET block == Malloc(size)
        r == RowOf(numThreads)
    IN /\ ~started /\ asked < MAXCALLS
       /\ asked' = asked + 1
       /\ brk' = block.brk
       /\ threads' = [threads EXCEPT ![r] = Filled(r, block.addr, size, length)]
       /\ numThreads' = CountUp(r)
       /\ UNCHANGED started

\* os_start: the row of main.
OsStart ==
    /\ ~started
    /\ started' = TRUE
    /\ threads' = [threads EXCEPT ![0] =
          [@ EXCEPT !.id = 0, !.PC = MainPC, !.curState = "READY", !.stackSize = 0,
                    !.stackBase = 0, !.stackEnd = 0, !.stackTop = 0]]
    /\ UNCHANGED <<numThreads, brk, asked>>

TableNext == \/ \E size \in Sizes, length \in Names : CreateThread(size, length)
             \/ OsStart

TableSpec == TableInit /\ [][TableNext]_tableVars

-----------------------------------------------------------------------------
(* Properties *)

TableTypeOK ==
    /\ threads \in [0..CAP - 1 -> Row]
    /\ numThreads \in 1..CAP
    /\ brk \in Nat /\ asked \in 0..MAXCALLS /\ started \in BOOLEAN

(***************************************************************************)
(* The table holds a row for every thread created, with the address it is  *)
(* to run, whatever the order of the stores (os.c:41-86).                  *)
(***************************************************************************)
EveryThreadStored ==
    /\ numThreads = asked + 1
    /\ \A i \in 1..asked : threads[i].id = i /\ threads[i].PC = Address(i)

(***************************************************************************)
(* Each first frame lies in the thread's own stack, and no two stacks      *)
(* overlap (os.c:42-53, 84).                                               *)
(***************************************************************************)
Created == 1..numThreads - 1
StackOf(i) == threads[i].stackBase .. threads[i].stackEnd - 1
FramesInOwnStack ==
    /\ \A i \in Created :
          threads[i].stackPointer .. threads[i].stackPointer + FRAME - 1 \subseteq StackOf(i)
    /\ \A i, j \in Created : i # j => StackOf(i) \cap StackOf(j) = {}
=============================================================================
