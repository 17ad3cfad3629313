------------------------------- MODULE Threads -------------------------------
(***************************************************************************)
(* The thread switch of os.c and the mutex of synchro.c, from os_start on, *)
(* the threads created.  Nothing preempts a thread (the switch in the      *)
(* timer interrupt is commented out): control moves in os_start and in      *)
(* yieldGiven only, so a call of the mutex is one step up to its switch.   *)
(*                                                                         *)
(* A stack is the sequence of words pushed on it, the oldest first; words   *)
(* that were popped stay in memory.  A word is a return address or the     *)
(* registers context_switch saves, both written <<kind, thread, index>>.    *)
(* The first word is exactly the top three bytes of the stack; the words   *)
(* under it stand for whatever overlaps the eighteen register bytes.       *)
(*                                                                         *)
(* The printLock that synchro.c locks is not the one mutex_init sets,      *)
(* which is static in program5.c: it is the pointer of os.c, two bytes of  *)
(* zeros.  m->lock and m->waiting are these two; m->owner is the byte      *)
(* behind them, in the build the low byte of memBegin.                     *)
(***************************************************************************)
EXTENDS Integers, Sequences

CONSTANTS NT,       \* threads created before os_start
          Bodies,   \* the thread bodies: sequences of calls, repeated for ever
          LowBytes  \* the low bytes that the address in memBegin may have

Thread == 1..NT
Call == {"lock", "unlock", "yield", "wait", "signal", "draw"}

ASSUME ThreadsAssumption ==
    /\ NT \in 1..7
    /\ Bodies \subseteq Seq(Call) /\ <<>> \notin Bodies
    /\ LowBytes \subseteq 0..255

VARIABLES body,           \* body[i]: the code of thread i
          mem,            \* mem[s]: the words in the memory of stack s
          saved,          \* saved[i]: threads[i].stackPointer, [stack, depth]
          cur, depth,     \* the stack pointer: a stack and the words in use
          pc,             \* the next instruction, written like a return address
          iflag,          \* interrupts are enabled
          runningThread,
          curState,
          printLock,      \* the mutex the bodies share; its owner is a byte of memBegin
          sem,            \* the value of the semaphore the bodies share
          inside          \* threads past mutex_lock that have not called mutex_unlock

vars == <<body, mem, saved, cur, depth, pc, iflag, runningThread, curState,
          printLock, sem, inside>>

-----------------------------------------------------------------------------
Ret(f) == <<f, 0, 0>>
Regs(i) == <<"regs", i, 0>>         \* r29:r28 hold the body of thread i; 0: not
Wild == Ret("wild")
NoSp == [stack |-> 0, depth |-> 0]  \* a stackPointer that was never written

At(i, k) == <<"body", i, k>>
After(i, k) == At(i, IF k = Len(body[i]) THEN 1 ELSE k + 1)
PastLock(w) == \E k \in DOMAIN body[w[2]] :
                  body[w[2]][k] = "lock" /\ w = After(w[2], k)

\* The words f pushed on a stack q of which d words are in use.
Pushed(q, d, f) == SubSeq(q, 1, d) \o f \o SubSeq(q, d + Len(f) + 1, Len(q))

\* Two mutants of InitialFrame: the words in the wrong order, and the body of
\* thread 1 for every thread.
FrameUpsideDown(i) == <<Regs(i), Ret("thread_start")>>
FrameOfFirst(i) == <<Ret("thread_start"), Regs(1)>>
\* The frame create_thread builds at the top of the stack of thread i.
InitialFrame(i) == <<Ret("thread_start"), Regs(i)>>

\* A mutant of AfterUnlock: mutex_unlock has no sei.
StillOff == FALSE
\* The interrupt flag when mutex_unlock has nothing to do.
AfterUnlock == TRUE

\* A mutant of InitialLock: the mutex as mutex_init would set it, but for owner.
FreeLock(b) == [lock |-> 1, waiting |-> 0, owner |-> b]
\* The two bytes of the pointer in os.c, and b, the byte behind them.
InitialLock(b) == [lock |-> 0, waiting |-> 0, owner |-> b]

\* Storing the owner stores the low byte of memBegin.
Taken(m) == [m EXCEPT !.lock = 0, !.owner = runningThread]
Released(m) == [m EXCEPT !.lock = 1]

\* The end of context_switch: load sp, pop the registers, RET.  "in" are the
\* threads that hold the lock before RET, which may land behind a mutex_lock.
Resume(memory, sp, in) ==
    LET q == memory[sp.stack]
        d == sp.depth
        w == IF d < 2 THEN Wild
             ELSE IF q[d - 1] = Ret("thread_start")
                  THEN <<"thread_start", q[d][2], 0>> ELSE q[d - 1]
    IN /\ cur' = sp.stack
       /\ depth' = IF d < 2 THEN 0 ELSE d - 2
       /\ pc' = IF w[1] = "regs" \/ w = Ret("thread_start") THEN Wild ELSE w
       /\ inside' = IF w[1] = "body" /\ PastLock(w) THEN in \cup {w[2]} ELSE in

\* A mutant of Target: the thread that is not on the processor.
TheOther == IF cur = 1 THEN 2 ELSE 1
\* yieldGiven: the thread whose stack pointer is loaded, the one it is saved for.
Target == IF runningThread = 1 THEN 2 ELSE 1
Yielding == IF Target = 2 THEN 1 ELSE 2

\* yieldGiven, called with the words f pushed on those of the body.
SwitchAway(f, in) ==
    LET words == f \o <<Ret("yieldGiven"), Regs(0)>>
        memory == [mem EXCEPT ![cur] = Pushed(@, depth, words)]
        stored == [saved EXCEPT ![Yielding] =
                     [stack |-> cur, depth |-> depth + Len(words)]]
    IN /\ mem' = memory
       /\ saved' = stored
       /\ Resume(memory, stored[Target], in)

-----------------------------------------------------------------------------
Init ==
    /\ body \in [Thread -> Bodies]
    /\ mem = [s \in 0..NT |-> IF s = 0 THEN <<>> ELSE InitialFrame(s)]
    /\ saved = [i \in 0..7 |-> IF i \in Thread THEN [stack |-> i, depth |-> 2] ELSE NoSp]
    /\ cur = 0 /\ depth = 0
    /\ pc = Ret("os_start")
    /\ iflag = FALSE
    /\ runningThread = 1
    /\ curState = [i \in 0..7 |-> IF i \in Thread THEN "READY" ELSE "unset"]
    /\ sem = 0      \* seminit sets the value of a block of its own, not this one
    /\ \E b \in LowBytes : printLock = InitialLock(b)
    /\ inside = {}

\* os_start: fill the row of main and switch to thread 1.
OsStart ==
    /\ pc = Ret("os_start")
    /\ iflag' = TRUE
    /\ curState' = [curState EXCEPT ![0] = "READY"]
    /\ LET memory == [mem EXCEPT ![0] = <<Ret("os_start"), Regs(0)>>]
           stored == [saved EXCEPT ![0] = [stack |-> 0, depth |-> 2]]
       IN mem' = memory /\ saved' = stored /\ Resume(memory, stored[1], inside)
    /\ UNCHANGED <<body, runningThread, printLock, sem>>

\* thread_start, or the rest of a function that called on to yieldGiven.
Continue ==
    /\ pc[1] \in {"thread_start", "yieldGiven", "mutex_lock", "mutex_unlock"}
    /\ IF pc[1] = "thread_start"
       THEN pc' = At(pc[2], 1) /\ depth' = depth
       ELSE /\ pc' = IF depth = 0 THEN Wild ELSE mem[cur][depth]
            /\ depth' = IF depth = 0 THEN 0 ELSE depth - 1
    /\ iflag' = (iflag \/ pc[1] # "yieldGiven")
    /\ printLock' = CASE pc[1] = "mutex_lock" -> [Taken(printLock) EXCEPT !.waiting = 0]
                      [] pc[1] = "mutex_unlock" -> [printLock EXCEPT !.waiting = 0]
                      [] OTHER -> printLock
    /\ inside' = IF pc[1] = "mutex_lock" THEN inside \cup {cur} ELSE inside
    /\ UNCHANGED <<body, mem, saved, cur, runningThread, curState, sem>>

\* The body of thread i makes its k-th call, c.
Calls(i, k, c) ==
    /\ pc = At(i, k) /\ body[i][k] = c
    /\ UNCHANGED <<body, runningThread>>

\* A call that returns at once leaves its return address behind in memory.
Returns(i, k) ==
    /\ pc' = After(i, k)
    /\ mem' = [mem EXCEPT ![cur] = Pushed(@, depth, <<After(i, k)>>)]
    /\ UNCHANGED <<saved, cur, depth>>

\* mutex_lock of a free lock.
MutexLock(i, k) ==
    /\ Calls(i, k, "lock")
    /\ printLock.lock = 1
    /\ printLock' = Taken(printLock)
    /\ curState' = [curState EXCEPT ![printLock.waiting] = "READY"]
    /\ iflag' = TRUE
    /\ inside' = inside \cup {i}
    /\ UNCHANGED sem
    /\ Returns(i, k)

\* mutex_lock of a taken lock: mark the running thread, give up control.
MutexWait(i, k) ==
    /\ Calls(i, k, "lock")
    /\ printLock.lock = 0
    /\ printLock' = [printLock EXCEPT !.waiting = runningThread]
    /\ curState' = [curState EXCEPT ![runningThread] = "WAITING", ![Target] = "RUNNING"]
    /\ iflag' = FALSE
    /\ SwitchAway(<<After(i, k), Ret("mutex_lock")>>, inside)
    /\ UNCHANGED sem

\* mutex_unlock: if the byte behind the lock happens to be runningThread, open
\* the lock, ready the waiter and give up control; if not, nothing happens.
MutexUnlock(i, k) ==
    /\ Calls(i, k, "unlock")
    /\ IF printLock.owner = runningThread
       THEN /\ printLock' = Released(printLock)
            /\ curState' = [curState EXCEPT ![printLock.waiting] = "READY",
                                           ![Target] = "RUNNING"]
            /\ iflag' = FALSE
            /\ SwitchAway(<<After(i, k), Ret("mutex_unlock")>>, inside \ {i})
       ELSE /\ iflag' = AfterUnlock
            /\ inside' = inside \ {i}
            /\ UNCHANGED <<printLock, curState>>
            /\ Returns(i, k)
    /\ UNCHANGED sem

\* A body that gives up control of its own accord.
YieldGiven(i, k) ==
    /\ Calls(i, k, "yield")
    /\ curState' = [curState EXCEPT ![Target] = "RUNNING"]
    /\ SwitchAway(<<After(i, k)>>, inside)
    /\ UNCHANGED <<iflag, printLock, sem>>

\* sem_wait and sem_signal count; the branches that would block or wake a
\* thread are empty.
SemWait(i, k) ==
    /\ Calls(i, k, "wait")
    /\ sem' = sem - 1
    /\ iflag' = TRUE
    /\ UNCHANGED <<curState, printLock, inside>>
    /\ Returns(i, k)

SemSignal(i, k) ==
    /\ Calls(i, k, "signal")
    /\ sem' = sem + 1
    /\ iflag' = TRUE
    /\ UNCHANGED <<curState, printLock, inside>>
    /\ Returns(i, k)

\* Anything a body does that touches neither the mutex nor the switch.
Draw(i, k) ==
    /\ Calls(i, k, "draw")
    /\ UNCHANGED <<iflag, curState, printLock, sem, inside>>
    /\ Returns(i, k)

Next ==
    \/ OsStart
    \/ Continue
    \/ \E i \in Thread : \E k \in DOMAIN body[i] :
          \/ MutexLock(i, k) \/ MutexWait(i, k)
          \/ MutexUnlock(i, k) \/ YieldGiven(i, k)
          \/ SemWait(i, k) \/ SemSignal(i, k) \/ Draw(i, k)

\* The processor goes on executing.
Spec == Init /\ [][Next]_vars /\ WF_vars(Next)
-----------------------------------------------------------------------------
(* Properties *)

Word == {"body", "regs", "os_start", "thread_start", "yieldGiven",
         "mutex_lock", "mutex_unlock"} \X (0..NT) \X Nat

TypeOK ==
    /\ body \in [Thread -> Bodies]
    /\ DOMAIN mem = 0..NT /\ \A s \in 0..NT : mem[s] \in Seq(Word)
    /\ saved \in [0..7 -> [stack : 0..NT, depth : Nat]]
    /\ cur \in 0..NT /\ depth \in Nat
    /\ pc \in Word
    /\ iflag \in BOOLEAN
    /\ runningThread \in 1..7
    /\ curState \in [0..7 -> {"unset", "READY", "RUNNING", "WAITING"}]
    /\ printLock \in [lock : {0, 1}, waiting : 0..7, owner : 0..255]
    /\ sem \in Int
    /\ inside \subseteq Thread

(***************************************************************************)
(* The frame yieldGiven loads for thread 2 is the one create_thread built, *)
(* whose memory thread 2 has used since.  Wherever RET lands, a thread     *)
(* runs its own code on its own, empty stack (os.c:98-117, 394-412).       *)
(***************************************************************************)
OwnCodeOwnStack ==
    pc[1] # "os_start" => /\ pc[1] \in {"body", "thread_start"}
                          /\ pc[2] = cur /\ depth = 0

(***************************************************************************)
(* Two threads are never both between mutex_lock and mutex_unlock.  No     *)
(* owner sees to that, for every owner is 1: the lock starts taken, so the *)
(* first mutex_lock of thread 1 gives the processor away for ever, and     *)
(* thread 2 returns from its own at once, on the stale frame, without the  *)
(* lock (os.c:16, synchro.c:67-99).                                        *)
(***************************************************************************)
MutualExclusion == \A i, j \in inside : i = j

(***************************************************************************)
(* Every access of the thread table goes through memBegin, of which a      *)
(* mutex_lock that gets the lock stores the low byte (os.c:15-16,          *)
(* synchro.c:76, 81).  It only ever stores what is there: the lock is      *)
(* opened by a mutex_unlock that found runningThread in that byte.         *)
(***************************************************************************)
TableStays == [][printLock'.owner = printLock.owner]_vars

(***************************************************************************)
(* runningThread keeps the 1 os_init stores, so every switch goes to the   *)
(* row of thread 2: once thread 2 has the processor it never gives it up   *)
(* (os.c:98-117, 134).                                                     *)
(***************************************************************************)
OnlyThreadTwo == [][cur = 2 => cur' = 2]_vars

(***************************************************************************)
(* A thread that comes back on a stale frame is behind its mutex_lock with *)
(* interrupts off, for the sei of mutex_lock was never reached; the        *)
(* mutex_unlock that finds somebody else's byte as the owner turns them    *)
(* on, or the mutex_lock of a lock that was opened, so they never stay off *)
(* (synchro.c:68, 74, 84, 89, 97).                                         *)
(***************************************************************************)
InterruptsReturn == []<>iflag

(***************************************************************************)
(* os.c:122: "context switches causing the threads to continuously swaps   *)
(* between each other".                                                    *)
(***************************************************************************)
ThreadsSwap == \A i \in Thread : []<>(cur = i)
=============================================================================
