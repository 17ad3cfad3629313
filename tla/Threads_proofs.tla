---------------------------- MODULE Threads_proofs ----------------------------
(***************************************************************************)
(* What the thread switch and the mutex keep up for every set of bodies    *)
(* and every number of threads from two on.  The invariant says what       *)
(* yieldGiven finds when it loads the frame of thread 2: the words         *)
(* create_thread built, or a return address thread 2 pushed over them.     *)
(***************************************************************************)
EXTENDS Threads, TLAPS

\* The word w is an address in the body of thread i.
InBody(w, i) == \E k \in DOMAIN body[i] : w = At(i, k)

\* What context_switch finds in the two words of the first frame of thread i.
Resumable(i) ==
    /\ Len(mem[i]) >= 2
    /\ \/ mem[i][1] = Ret("thread_start") /\ mem[i][2] = Regs(i)
       \/ InBody(mem[i][1], i)

MemoryInv ==
    /\ body \in [Thread -> Bodies]
    /\ mem \in [0..NT -> Seq(Word)]
    /\ saved \in [0..7 -> [stack : 0..NT, depth : Nat]]
    /\ runningThread = 1

FrameInv ==
    /\ saved[2] = [stack |-> 2, depth |-> 2]
    /\ Resumable(2)

ControlInv ==
    \/ /\ pc = Ret("os_start") /\ cur = 0 /\ depth = 0
       /\ saved[1] = [stack |-> 1, depth |-> 2] /\ Len(mem[1]) >= 2
       /\ mem[1][1] = Ret("thread_start") /\ mem[1][2] = Regs(1)
    \/ /\ cur \in {1, 2} /\ depth = 0
       /\ pc = <<"thread_start", cur, 0>> \/ InBody(pc, cur)

IInv == MemoryInv /\ FrameInv /\ ControlInv

-----------------------------------------------------------------------------
(* Words and frames *)

LEMMA WordTypes ==
    /\ \A i \in 0..NT : Regs(i) \in Word
    /\ \A f \in {"os_start", "thread_start", "yieldGiven", "mutex_lock", "mutex_unlock"} :
          Ret(f) \in Word
    /\ \A i \in Thread, k \in Nat : At(i, k) \in Word
BY ThreadsAssumption DEF Regs, Ret, At, Word, Thread

\* A body has calls, and the one after a call is one of them.
LEMMA BodyGoesOn ==
    ASSUME body \in [Thread -> Bodies], NEW i \in Thread
    PROVE  /\ 1 \in DOMAIN body[i]
           /\ \A k \in DOMAIN body[i] : InBody(After(i, k), i) /\ After(i, k) \in Word
<1>1. body[i] \in Seq(Call) /\ body[i] # <<>>
  BY ThreadsAssumption
<1>2. Len(body[i]) \in Nat \ {0} /\ DOMAIN body[i] = 1..Len(body[i])
  BY <1>1
<1>3. ASSUME NEW k \in DOMAIN body[i]
      PROVE  \E l \in DOMAIN body[i] : After(i, k) = At(i, l)
  BY <1>2 DEF After
<1> QED
  BY <1>2, <1>3, WordTypes DEF InBody

\* Words pushed on an empty stack stand at its beginning.
LEMMA PushedOnEmpty ==
    ASSUME NEW q \in Seq(Word), NEW f \in Seq(Word), Len(f) >= 1
    PROVE  /\ Pushed(q, 0, f) \in Seq(Word)
           /\ Len(Pushed(q, 0, f)) >= Len(f) /\ Len(Pushed(q, 0, f)) >= Len(q)
           /\ Pushed(q, 0, f)[1] = f[1]
<1> DEFINE rest == SubSeq(q, 0 + Len(f) + 1, Len(q))
<1>1. SubSeq(q, 1, 0) \in Seq(Word) /\ Len(SubSeq(q, 1, 0)) = 0
  OBVIOUS
<1>2. rest \in Seq(Word) /\ Len(rest) = IF Len(f) + 1 <= Len(q) THEN Len(q) - Len(f) ELSE 0
  OBVIOUS
<1>3. SubSeq(q, 1, 0) \o f \in Seq(Word) /\ Len(SubSeq(q, 1, 0) \o f) = Len(f)
      /\ (SubSeq(q, 1, 0) \o f)[1] = f[1]
  BY <1>1
<1> HIDE DEF rest
<1>4. /\ (SubSeq(q, 1, 0) \o f) \o rest \in Seq(Word)
      /\ Len((SubSeq(q, 1, 0) \o f) \o rest) = Len(f) + Len(rest)
      /\ ((SubSeq(q, 1, 0) \o f) \o rest)[1] = f[1]
  BY <1>2, <1>3
<1> QED
  BY <1>2, <1>4 DEF Pushed, rest

-----------------------------------------------------------------------------
(* The switch *)

\* Loading a first frame leads to the thread's own code and an empty stack.
LEMMA ResumesOwnCode ==
    ASSUME NEW memory \in [0..NT -> Seq(Word)], NEW in, NEW t \in {1, 2},
           NT >= 2, Len(memory[t]) >= 2,
           \/ memory[t][1] = Ret("thread_start") /\ memory[t][2] = Regs(t)
           \/ InBody(memory[t][1], t),
           Resume(memory, [stack |-> t, depth |-> 2], in)
    PROVE  /\ cur' = t /\ depth' = 0
           /\ pc' = <<"thread_start", t, 0>> \/ InBody(pc', t)
           /\ inside' \subseteq in \cup {t}
           /\ memory[t][1] = Ret("thread_start") => inside' = in
<1> DEFINE q == memory[t]
           w == IF q[1] = Ret("thread_start") THEN <<"thread_start", q[2][2], 0>> ELSE q[1]
<1>1. /\ cur' = t /\ depth' = 0
      /\ pc' = IF w[1] = "regs" \/ w = Ret("thread_start") THEN Wild ELSE w
      /\ inside' = IF w[1] = "body" /\ PastLock(w) THEN in \cup {w[2]} ELSE in
  BY DEF Resume
<1>2. CASE q[1] = Ret("thread_start") /\ q[2] = Regs(t)
  <2>1. w = <<"thread_start", t, 0>>
    BY <1>2 DEF Regs
  <2>2. w[1] = "thread_start" /\ w # Ret("thread_start")
    BY <2>1 DEF Ret
  <2> QED
    BY <1>1, <2>1, <2>2
<1>3. CASE InBody(q[1], t)
  <2>1. q[1] # Ret("thread_start") /\ w = q[1]
    BY <1>3 DEF InBody, At, Ret
  <2>2. w[1] = "body" /\ w[2] = t /\ w # Ret("thread_start")
    BY <1>3, <2>1 DEF InBody, At, Ret
  <2> QED
    BY <1>1, <1>3, <2>1, <2>2
<1> QED
  BY <1>2, <1>3

\* A thread that makes a call is the one on the processor.
LEMMA CallerRuns ==
    ASSUME IInv, NEW i \in Thread, NEW k \in DOMAIN body[i], pc = At(i, k)
    PROVE  cur = i /\ i \in {1, 2} /\ depth = 0
BY DEF IInv, ControlInv, InBody, At, Ret

\* A call of yieldGiven saves the row of thread 1 and loads that of thread 2,
\* whose frame is either untouched or has a return address of thread 2 on it.
LEMMA SwitchGoesToTwo ==
    ASSUME IInv, NT >= 2, cur \in {1, 2}, depth = 0,
           NEW f \in Seq(Word), Len(f) >= 1, InBody(f[1], cur), NEW in,
           SwitchAway(f, in), UNCHANGED <<body, runningThread>>
    PROVE  IInv' /\ cur' = 2 /\ inside' \subseteq in \cup {2}
<1>0. MemoryInv /\ FrameInv
  BY DEF IInv
<1> DEFINE words == f \o <<Ret("yieldGiven"), Regs(0)>>
           memory == [mem EXCEPT ![cur] = Pushed(@, depth, words)]
           stored == [saved EXCEPT ![Yielding] =
                         [stack |-> cur, depth |-> depth + Len(words)]]
<1>1. Target = 2 /\ Yielding = 1
  BY <1>0 DEF MemoryInv, Target, Yielding
<1>2. words \in Seq(Word) /\ Len(words) = Len(f) + 2 /\ words[1] = f[1]
  <2>1. <<Ret("yieldGiven"), Regs(0)>> \in Seq(Word)
    BY WordTypes, ThreadsAssumption
  <2> QED
    BY <2>1
<1>3. mem' = memory /\ saved' = stored /\ Resume(memory, stored[Target], in)
  BY DEF SwitchAway
<1> HIDE DEF words
<1>4. /\ cur \in 0..NT /\ mem[cur] \in Seq(Word)
      /\ Pushed(mem[cur], 0, words) \in Seq(Word)
      /\ Len(Pushed(mem[cur], 0, words)) >= 2
      /\ Pushed(mem[cur], 0, words)[1] = f[1]
  <2>1. cur \in 0..NT
    BY ThreadsAssumption
  <2>2. mem[cur] \in Seq(Word)
    BY <1>0, <2>1 DEF MemoryInv
  <2>3. Len(words) >= 1
    BY <1>2
  <2>4. /\ Pushed(mem[cur], 0, words) \in Seq(Word)
        /\ Len(Pushed(mem[cur], 0, words)) >= Len(words)
        /\ Pushed(mem[cur], 0, words)[1] = words[1]
    BY <1>2, <2>2, <2>3, PushedOnEmpty
  <2>5. Len(Pushed(mem[cur], 0, words)) >= 2
    BY <1>2, <2>4
  <2> QED
    BY <1>2, <2>1, <2>2, <2>4, <2>5
<1>5. memory \in [0..NT -> Seq(Word)]
  BY <1>0, <1>4 DEF MemoryInv
<1>6. stored \in [0..7 -> [stack : 0..NT, depth : Nat]] /\ stored[2] = [stack |-> 2, depth |-> 2]
  <2> DEFINE sp == [stack |-> cur, depth |-> depth + Len(words)]
             Sp == [stack : 0..NT, depth : Nat]
  <2>1. sp \in Sp
    BY <1>2, <1>4
  <2>2. saved \in [0..7 -> Sp] /\ saved[2] = [stack |-> 2, depth |-> 2]
    BY <1>0 DEF MemoryInv, FrameInv
  <2>3. stored = [saved EXCEPT ![1] = sp]
    BY <1>1
  <2> HIDE DEF stored, sp, Sp
  <2>4. stored \in [0..7 -> Sp] /\ stored[2] = saved[2]
    BY <2>1, <2>2, <2>3
  <2> QED
    BY <2>2, <2>4 DEF Sp
<1>7. /\ Len(memory[2]) >= 2
      /\ \/ memory[2][1] = Ret("thread_start") /\ memory[2][2] = Regs(2)
         \/ InBody(memory[2][1], 2)
  <2>1. CASE cur = 2
    BY <1>0, <1>4, <2>1 DEF MemoryInv
  <2>2. CASE cur = 1
    BY <1>0, <2>2, ThreadsAssumption DEF MemoryInv, FrameInv, Resumable
  <2> QED
    BY <2>1, <2>2
<1> HIDE DEF memory, stored
<1>8. /\ cur' = 2 /\ depth' = 0
      /\ pc' = <<"thread_start", 2, 0>> \/ InBody(pc', 2)
      /\ inside' \subseteq in \cup {2}
  BY <1>1, <1>3, <1>5, <1>6, <1>7, ResumesOwnCode
<1>9. MemoryInv'
  BY <1>0, <1>3, <1>5, <1>6 DEF MemoryInv
<1>10. FrameInv'
  BY <1>3, <1>6, <1>7 DEF FrameInv, Resumable, InBody
<1>11. ControlInv'
  BY <1>8 DEF ControlInv, InBody
<1> QED
  BY <1>8, <1>9, <1>10, <1>11 DEF IInv

\* A call that returns at once leaves its return address in the first word.
LEMMA ReturningKeeps ==
    ASSUME IInv, NT >= 2, NEW i \in Thread, NEW k \in DOMAIN body[i], pc = At(i, k),
           Returns(i, k), UNCHANGED <<body, runningThread>>
    PROVE  IInv'
<1>0. MemoryInv /\ FrameInv
  BY DEF IInv
<1>1. cur = i /\ i \in {1, 2} /\ depth = 0
  BY CallerRuns
<1>2. InBody(After(i, k), i) /\ After(i, k) \in Word
  BY <1>0, BodyGoesOn DEF MemoryInv
<1> DEFINE f == <<After(i, k)>>
<1>3. f \in Seq(Word) /\ Len(f) = 1 /\ f[1] = After(i, k)
  BY <1>2
<1>4. i \in 0..NT /\ mem[i] \in Seq(Word)
  <2>1. i \in 0..NT
    BY <1>1, ThreadsAssumption
  <2> QED
    BY <1>0, <2>1 DEF MemoryInv
<1> HIDE DEF f
<1>5. /\ Pushed(mem[i], 0, f) \in Seq(Word)
      /\ Len(Pushed(mem[i], 0, f)) >= Len(mem[i])
      /\ Pushed(mem[i], 0, f)[1] = After(i, k)
  <2>1. Len(f) >= 1
    BY <1>3
  <2> QED
    BY <1>3, <1>4, <2>1, PushedOnEmpty
<1>6. mem' = [mem EXCEPT ![i] = Pushed(@, 0, f)] /\ pc' = After(i, k)
      /\ UNCHANGED <<saved, cur, depth>>
  BY <1>1 DEF Returns, f
<1>7. MemoryInv'
  BY <1>0, <1>4, <1>5, <1>6 DEF MemoryInv
<1>8. FrameInv'
  <2>1. Len(mem'[2]) >= 2
        /\ \/ mem'[2][1] = Ret("thread_start") /\ mem'[2][2] = Regs(2)
           \/ InBody(mem'[2][1], 2)
    <3>1. mem \in [0..NT -> Seq(Word)] /\ Resumable(2)
      BY <1>0 DEF MemoryInv, FrameInv
    <3>2. CASE i = 2
      <4>1. mem'[2] = Pushed(mem[2], 0, f)
        BY <1>4, <1>6, <3>1, <3>2
      <4>2. Len(mem[2]) >= 2
        BY <3>1 DEF Resumable
      <4>3. Len(mem'[2]) >= 2
        BY <1>4, <1>5, <3>1, <3>2, <4>1, <4>2
      <4> QED
        BY <1>2, <1>5, <3>2, <4>1, <4>3
    <3>3. CASE i = 1
      <4>1. mem'[2] = mem[2]
        BY <1>6, <3>1, <3>3
      <4> QED
        BY <3>1, <4>1 DEF Resumable
    <3> QED
      BY <1>1, <3>2, <3>3
  <2>2. saved'[2] = [stack |-> 2, depth |-> 2]
    BY <1>0, <1>6 DEF FrameInv
  <2> QED
    BY <2>1, <2>2 DEF FrameInv, Resumable, InBody
<1>9. ControlInv'
  BY <1>1, <1>2, <1>6 DEF ControlInv, InBody
<1> QED
  BY <1>7, <1>8, <1>9 DEF IInv

-----------------------------------------------------------------------------
(* Who runs what, and where *)

LEMMA FirstState == NT >= 2 /\ Init => IInv
<1> SUFFICES ASSUME NT >= 2, Init PROVE IInv
  OBVIOUS
<1>1. 0..NT \subseteq Nat /\ {1, 2} \subseteq Thread /\ Thread \subseteq 0..NT /\ NT <= 7
  BY ThreadsAssumption DEF Thread
<1>2. \A s \in Thread : InitialFrame(s) \in Seq(Word) /\ Len(InitialFrame(s)) = 2
  BY <1>1, WordTypes DEF InitialFrame
<1>3. mem \in [0..NT -> Seq(Word)]
  BY <1>1, <1>2 DEF Init, Thread
<1>4. \A i \in {1, 2} : /\ saved[i] = [stack |-> i, depth |-> 2]
                        /\ mem[i] = InitialFrame(i)
  BY <1>1 DEF Init
<1>5. \A i \in {1, 2} : /\ Len(mem[i]) = 2 /\ mem[i][1] = Ret("thread_start")
                        /\ mem[i][2] = Regs(i)
  BY <1>4 DEF InitialFrame
<1>6. saved \in [0..7 -> [stack : 0..NT, depth : Nat]]
  <2>1. \A i \in Thread : [stack |-> i, depth |-> 2] \in [stack : 0..NT, depth : Nat]
    BY <1>1
  <2>2. NoSp \in [stack : 0..NT, depth : Nat]
    BY ThreadsAssumption DEF NoSp
  <2> QED
    BY <2>1, <2>2 DEF Init
<1>7. MemoryInv
  BY <1>3, <1>6 DEF MemoryInv, Init
<1> QED
  BY <1>4, <1>5, <1>7 DEF IInv, FrameInv, Resumable, ControlInv, Init

\* os_start loads the first frame of thread 1.
LEMMA StartStep == NT >= 2 /\ IInv /\ OsStart => IInv' /\ cur' = 1 /\ inside' = inside
<1> SUFFICES ASSUME NT >= 2, IInv, OsStart PROVE IInv' /\ cur' = 1 /\ inside' = inside
  OBVIOUS
<1> DEFINE memory == [mem EXCEPT ![0] = <<Ret("os_start"), Regs(0)>>]
           stored == [saved EXCEPT ![0] = [stack |-> 0, depth |-> 2]]
<1>1. /\ MemoryInv /\ FrameInv /\ saved[1] = [stack |-> 1, depth |-> 2]
      /\ Len(mem[1]) >= 2 /\ mem[1][1] = Ret("thread_start") /\ mem[1][2] = Regs(1)
  <2>1. pc = Ret("os_start")
    BY DEF OsStart
  <2>2. ~InBody(pc, cur) /\ pc # <<"thread_start", cur, 0>>
    BY <2>1 DEF InBody, At, Ret
  <2> QED
    BY <2>2 DEF IInv, ControlInv
<1>2. mem' = memory /\ saved' = stored /\ Resume(memory, stored[1], inside)
  BY DEF OsStart
<1>3. <<Ret("os_start"), Regs(0)>> \in Seq(Word)
  BY WordTypes, ThreadsAssumption
<1>4. memory \in [0..NT -> Seq(Word)] /\ memory[1] = mem[1] /\ memory[2] = mem[2]
  BY <1>1, <1>3, ThreadsAssumption DEF MemoryInv
<1>5. /\ stored \in [0..7 -> [stack : 0..NT, depth : Nat]]
      /\ stored[1] = [stack |-> 1, depth |-> 2] /\ stored[2] = [stack |-> 2, depth |-> 2]
  <2> DEFINE sp == [stack |-> 0, depth |-> 2]
             Sp == [stack : 0..NT, depth : Nat]
  <2>1. sp \in Sp
    BY ThreadsAssumption
  <2>2. saved \in [0..7 -> Sp]
    BY <1>1 DEF MemoryInv
  <2> HIDE DEF sp, Sp
  <2>3. [saved EXCEPT ![0] = sp] \in [0..7 -> Sp]
        /\ \A i \in 1..7 : [saved EXCEPT ![0] = sp][i] = saved[i]
    BY <2>1, <2>2
  <2> QED
    BY <1>1, <2>3 DEF FrameInv, sp, Sp
<1> HIDE DEF memory, stored
<1>6. /\ cur' = 1 /\ depth' = 0 /\ inside' = inside
      /\ pc' = <<"thread_start", 1, 0>> \/ InBody(pc', 1)
  BY <1>1, <1>2, <1>4, <1>5, ResumesOwnCode
<1>7. UNCHANGED <<body, runningThread>>
  BY DEF OsStart
<1>8. MemoryInv'
  BY <1>1, <1>2, <1>4, <1>5, <1>7 DEF MemoryInv
<1>9. FrameInv'
  BY <1>1, <1>2, <1>4, <1>5, <1>7 DEF FrameInv, Resumable, InBody
<1>10. ControlInv'
  BY <1>6, <1>7 DEF ControlInv, InBody
<1> QED
  BY <1>6, <1>8, <1>9, <1>10 DEF IInv

\* Only thread_start is ever continued: no frame leads back into a function
\* that gave up control.
LEMMA ContinueStep ==
    IInv /\ Continue => IInv' /\ UNCHANGED <<cur, inside>> /\ pc[1] = "thread_start"
<1> SUFFICES ASSUME IInv, Continue
             PROVE  IInv' /\ UNCHANGED <<cur, inside>> /\ pc[1] = "thread_start"
  OBVIOUS
<1>1. cur \in {1, 2} /\ depth = 0 /\ pc = <<"thread_start", cur, 0>>
  <2>1. pc[1] \in {"thread_start", "yieldGiven", "mutex_lock", "mutex_unlock"}
    BY DEF Continue
  <2>2. pc # Ret("os_start")
    BY <2>1 DEF Ret
  <2>3. ~InBody(pc, cur)
    BY <2>1 DEF InBody, At
  <2> QED
    BY <2>2, <2>3 DEF IInv, ControlInv
<1>2. pc[1] = "thread_start" /\ pc[2] = cur
  <2>1. \A c : <<"thread_start", c, 0>>[1] = "thread_start" /\ <<"thread_start", c, 0>>[2] = c
    OBVIOUS
  <2> QED
    BY <1>1, <2>1
<1>3. /\ pc' = At(cur, 1) /\ depth' = depth
      /\ UNCHANGED <<body, mem, saved, cur, runningThread, inside>>
  BY <1>2 DEF Continue
<1>4. MemoryInv /\ FrameInv
  BY DEF IInv
<1>5. cur \in Thread
  <2>1. saved[2] \in [stack : 0..NT, depth : Nat]
    BY <1>4 DEF MemoryInv
  <2>2. 2 \in 0..NT
    BY <1>4, <2>1 DEF FrameInv
  <2> QED
    BY <1>1, <2>2, ThreadsAssumption DEF Thread
<1>6. pc' = At(cur, 1) /\ 1 \in DOMAIN body[cur]
  BY <1>3, <1>4, <1>5, BodyGoesOn DEF MemoryInv
<1>7. ControlInv'
  BY <1>1, <1>3, <1>6 DEF ControlInv, InBody
<1>8. MemoryInv' /\ FrameInv'
  BY <1>3, <1>4 DEF MemoryInv, FrameInv, Resumable, InBody
<1> QED
  BY <1>2, <1>3, <1>7, <1>8 DEF IInv

\* The words a waiting, an unlocking or a yielding thread pushes.
LEMMA PushedWords ==
    ASSUME IInv, NEW i \in Thread, NEW k \in DOMAIN body[i]
    PROVE  /\ InBody(After(i, k), i)
           /\ \A f \in {<<After(i, k), Ret("mutex_lock")>>,
                         <<After(i, k), Ret("mutex_unlock")>>, <<After(i, k)>>} :
                 f \in Seq(Word) /\ Len(f) >= 1 /\ f[1] = After(i, k)
<1>1. InBody(After(i, k), i) /\ After(i, k) \in Word
  BY BodyGoesOn DEF IInv, MemoryInv
<1>2. Ret("mutex_lock") \in Word /\ Ret("mutex_unlock") \in Word
  BY WordTypes
<1> QED
  BY <1>1, <1>2

Lock == [lock : {0, 1}, waiting : 0..7, owner : 0..255]

\* The calls of a body either return at once or hand over to thread 2.
ReturnCall(i, k) ==
    \/ MutexLock(i, k) \/ SemWait(i, k) \/ SemSignal(i, k) \/ Draw(i, k)
    \/ MutexUnlock(i, k) /\ printLock.owner # runningThread
SwitchCall(i, k) ==
    \/ MutexWait(i, k) \/ YieldGiven(i, k)
    \/ MutexUnlock(i, k) /\ printLock.owner = runningThread

LEMMA ReturnStep ==
    ASSUME NT >= 2, IInv, NEW i \in Thread, NEW k \in DOMAIN body[i], ReturnCall(i, k)
    PROVE  IInv' /\ cur' = cur /\ cur = i /\ pc' = After(i, k)
<1>1. pc = At(i, k) /\ Returns(i, k) /\ UNCHANGED <<body, runningThread>>
  BY DEF ReturnCall, MutexLock, SemWait, SemSignal, Draw, MutexUnlock, Calls
<1>2. IInv'
  BY <1>1, ReturningKeeps
<1>3. cur = i
  BY <1>1, CallerRuns
<1> QED
  BY <1>1, <1>2, <1>3 DEF Returns

LEMMA SwitchStep ==
    ASSUME NT >= 2, IInv, NEW i \in Thread, NEW k \in DOMAIN body[i], SwitchCall(i, k)
    PROVE  /\ IInv' /\ cur' = 2 /\ cur = i
           /\ inside' \subseteq inside \cup {2}
<1>1. pc = At(i, k) /\ UNCHANGED <<body, runningThread>>
  BY DEF SwitchCall, MutexWait, YieldGiven, MutexUnlock, Calls
<1>2. cur = i /\ i \in {1, 2} /\ depth = 0
  BY <1>1, CallerRuns
<1>3. PICK f \in {<<After(i, k), Ret("mutex_lock")>>,
                  <<After(i, k), Ret("mutex_unlock")>>, <<After(i, k)>>} :
          \E in : /\ SwitchAway(f, in)
                  /\ in = inside \/ in = inside \ {i}
  <2>2. CASE MutexWait(i, k)
    BY <2>2 DEF MutexWait
  <2>3. CASE YieldGiven(i, k)
    BY <2>3 DEF YieldGiven
  <2>4. CASE MutexUnlock(i, k) /\ printLock.owner = runningThread
    BY <2>4 DEF MutexUnlock
  <2> QED
    BY <2>2, <2>3, <2>4 DEF SwitchCall
<1>4. f \in Seq(Word) /\ Len(f) >= 1 /\ InBody(f[1], cur)
  BY <1>2, PushedWords
<1> QED
  BY <1>1, <1>2, <1>3, <1>4, SwitchGoesToTwo

\* What a step does to the lock, besides what it does to the control.
LockCase ==
    \/ UNCHANGED printLock
    \/ cur # 1 /\ printLock.lock = 1 /\ printLock' = Taken(printLock)
    \/ printLock.lock = 0 /\ printLock' = [printLock EXCEPT !.waiting = runningThread]
    \/ printLock.owner = runningThread /\ cur' = 2 /\ printLock' = Released(printLock)

LEMMA IInvStep == NT >= 2 /\ IInv /\ [Next]_vars => IInv' /\ (cur = 2 => cur' = 2)
<1> SUFFICES ASSUME NT >= 2, IInv, [Next]_vars PROVE IInv' /\ (cur = 2 => cur' = 2)
  OBVIOUS
<1>1. CASE OsStart
  <2>1. cur # 2
    BY <1>1 DEF IInv, ControlInv, OsStart, InBody, Ret, At
  <2> QED
    BY <1>1, <2>1, StartStep
<1>2. CASE Continue
  BY <1>2, ContinueStep
<1>3. ASSUME NEW i \in Thread, NEW k \in DOMAIN body[i],
             \/ MutexLock(i, k) \/ MutexWait(i, k)
             \/ MutexUnlock(i, k) \/ YieldGiven(i, k)
             \/ SemWait(i, k) \/ SemSignal(i, k) \/ Draw(i, k)
      PROVE  IInv' /\ (cur = 2 => cur' = 2)
  <2>1. ReturnCall(i, k) \/ SwitchCall(i, k)
    BY <1>3 DEF ReturnCall, SwitchCall
  <2>2. CASE ReturnCall(i, k)
    BY <2>2, ReturnStep
  <2>3. CASE SwitchCall(i, k)
    BY <2>3, SwitchStep
  <2> QED
    BY <2>1, <2>2, <2>3
<1>4. CASE UNCHANGED vars
  BY <1>4 DEF vars, IInv, MemoryInv, FrameInv, ControlInv, Resumable, InBody
<1> QED
  BY <1>1, <1>2, <1>3, <1>4 DEF Next

LEMMA IInvariance == ASSUME NT >= 2 PROVE Spec => []IInv
<1>1. Init => IInv
  BY FirstState
<1>2. IInv /\ [Next]_vars => IInv'
  BY IInvStep
<1> QED
  BY <1>1, <1>2, PTL DEF Spec

\* Wherever RET lands, a thread runs its own code on its own, empty stack.
THEOREM OwnCode == ASSUME NT >= 2 PROVE Spec => []OwnCodeOwnStack
<1>1. IInv => OwnCodeOwnStack
  BY DEF IInv, ControlInv, OwnCodeOwnStack, InBody, At, Ret
<1> QED
  BY <1>1, IInvariance, PTL

\* Once thread 2 has the processor, no call of any body takes it away.
THEOREM ThreadTwoKeepsRunning == ASSUME NT >= 2 PROVE Spec => OnlyThreadTwo
<1>1. IInv /\ [Next]_vars => [cur = 2 => cur' = 2]_vars
  BY IInvStep
<1> QED
  BY <1>1, IInvariance, PTL DEF Spec, OnlyThreadTwo

-----------------------------------------------------------------------------
(* The lock *)

(***************************************************************************)
(* The lock is taken until the processor is with thread 2, so thread 1     *)
(* never gets past mutex_lock; whoever opened it found a 1 in its byte of  *)
(* memBegin, so storing a 1 there changes nothing.                         *)
(***************************************************************************)
MutexInv ==
    /\ printLock \in Lock
    /\ inside \subseteq {2}
    /\ cur # 2 => printLock.lock = 0 /\ inside = {}
    /\ printLock.lock = 1 => printLock.owner = 1

\* What the operations leave of a lock.
LEMMA LockOperations ==
    ASSUME runningThread = 1, NEW m \in Lock
    PROVE  /\ Taken(m) \in Lock /\ Taken(m).lock = 0 /\ Taken(m).owner = 1
           /\ LET w == [m EXCEPT !.waiting = runningThread]
              IN  w \in Lock /\ w.lock = m.lock /\ w.owner = m.owner
           /\ Released(m) \in Lock /\ Released(m).owner = m.owner
<1>1. \A q \in Lock : [q EXCEPT !.lock = 0] \in Lock /\ [q EXCEPT !.lock = 0].lock = 0
  BY DEF Lock
<1>2. \A q \in Lock : /\ [q EXCEPT !.owner = 1] \in Lock
                      /\ [q EXCEPT !.owner = 1].lock = q.lock /\ [q EXCEPT !.owner = 1].owner = 1
  BY DEF Lock
<1>3. Taken(m) = [[m EXCEPT !.lock = 0] EXCEPT !.owner = 1]
  BY DEF Taken
<1>4. Taken(m) \in Lock /\ Taken(m).lock = 0 /\ Taken(m).owner = 1
  <2> DEFINE q == [m EXCEPT !.lock = 0]
  <2>1. q \in Lock /\ q.lock = 0 /\ Taken(m) = [q EXCEPT !.owner = 1]
    BY <1>1, <1>3
  <2> HIDE DEF q
  <2> QED
    BY <1>2, <2>1
<1>5. LET w == [m EXCEPT !.waiting = runningThread]
      IN  w \in Lock /\ w.lock = m.lock /\ w.owner = m.owner
  BY DEF Lock
<1>6. Released(m) \in Lock /\ Released(m).owner = m.owner
  BY DEF Lock, Released
<1> QED
  BY <1>4, <1>5, <1>6

\* Every step is one of the cases, and only thread 2 enters.
LEMMA LockStep ==
    ASSUME NT >= 2, IInv, MutexInv, [Next]_vars
    PROVE  /\ LockCase
           /\ inside' \subseteq {2}
           /\ cur' # 2 => cur # 2 /\ inside' = {}
<1>0. /\ printLock \in Lock /\ inside \subseteq {2} /\ runningThread = 1
      /\ cur # 2 => printLock.lock = 0 /\ inside = {}
  BY DEF IInv, MemoryInv, MutexInv
<1>1. CASE OsStart
  <2>1. cur' = 1 /\ inside' = inside /\ UNCHANGED printLock
    BY <1>1, StartStep DEF OsStart
  <2>2. cur # 2
    BY <1>1 DEF IInv, ControlInv, OsStart, InBody, Ret, At
  <2> QED
    BY <1>0, <2>1, <2>2 DEF LockCase
<1>2. CASE Continue
  <2>1. UNCHANGED <<cur, inside>> /\ pc[1] = "thread_start"
    BY <1>2, ContinueStep
  <2>2. UNCHANGED printLock
    BY <1>2, <2>1 DEF Continue
  <2> QED
    BY <1>0, <2>1, <2>2 DEF LockCase
<1>3. ASSUME NEW i \in Thread, NEW k \in DOMAIN body[i], ReturnCall(i, k)
      PROVE  LockCase /\ inside' \subseteq {2} /\ (cur' # 2 => cur # 2 /\ inside' = {})
  <2>1. cur' = cur /\ cur = i
    BY <1>3, ReturnStep
  <2>2. CASE MutexLock(i, k)
    <3>1. printLock.lock = 1 /\ printLock' = Taken(printLock) /\ inside' = inside \cup {i}
      BY <2>2 DEF MutexLock
    <3>2. cur = 2
      BY <1>0, <3>1
    <3> QED
      BY <1>0, <2>1, <3>1, <3>2 DEF LockCase
  <2>3. CASE ~MutexLock(i, k)
    <3>1. UNCHANGED printLock /\ inside' \subseteq inside
      BY <1>3, <2>3 DEF ReturnCall, SemWait, SemSignal, Draw, MutexUnlock
    <3> QED
      BY <1>0, <2>1, <3>1 DEF LockCase
  <2> QED
    BY <2>2, <2>3
<1>4. ASSUME NEW i \in Thread, NEW k \in DOMAIN body[i], SwitchCall(i, k)
      PROVE  LockCase /\ inside' \subseteq {2} /\ (cur' # 2 => cur # 2 /\ inside' = {})
  <2>1. cur' = 2 /\ inside' \subseteq inside \cup {2}
    BY <1>4, SwitchStep
  <2>2. LockCase
    BY <1>4, <2>1 DEF SwitchCall, MutexWait, YieldGiven, MutexUnlock, LockCase
  <2> QED
    BY <1>0, <2>1, <2>2
<1>5. CASE UNCHANGED vars
  BY <1>0, <1>5 DEF vars, LockCase
<1>6. ASSUME NEW i \in Thread, NEW k \in DOMAIN body[i],
             \/ MutexLock(i, k) \/ MutexWait(i, k)
             \/ MutexUnlock(i, k) \/ YieldGiven(i, k)
             \/ SemWait(i, k) \/ SemSignal(i, k) \/ Draw(i, k)
      PROVE  ReturnCall(i, k) \/ SwitchCall(i, k)
  BY <1>6 DEF ReturnCall, SwitchCall
<1> QED
  BY <1>1, <1>2, <1>3, <1>4, <1>5, <1>6 DEF Next

\* The step keeps the invariant, and the byte of memBegin.
LEMMA MutexStep ==
    NT >= 2 /\ IInv /\ MutexInv /\ [Next]_vars => MutexInv' /\ printLock'.owner = printLock.owner
<1> SUFFICES ASSUME NT >= 2, IInv, MutexInv, [Next]_vars
             PROVE  MutexInv' /\ printLock'.owner = printLock.owner
  OBVIOUS
<1>0. /\ runningThread = 1 /\ printLock \in Lock
      /\ cur # 2 => printLock.lock = 0
      /\ printLock.lock = 1 => printLock.owner = 1
  BY DEF IInv, MemoryInv, MutexInv
<1>1. LockCase /\ inside' \subseteq {2} /\ (cur' # 2 => cur # 2 /\ inside' = {})
  BY LockStep
<1> DEFINE Kept == /\ printLock' \in Lock /\ printLock'.owner = printLock.owner
                   /\ cur' # 2 => printLock'.lock = 0
                   /\ printLock'.lock = 1 => printLock'.owner = 1
<1>2. ASSUME UNCHANGED printLock
      PROVE  Kept
  BY <1>0, <1>1, <1>2
<1>3. ASSUME printLock.lock = 1 /\ printLock' = Taken(printLock)
      PROVE  Kept
  BY <1>0, <1>3, LockOperations
<1>4. ASSUME printLock.lock = 0 /\ printLock' = [printLock EXCEPT !.waiting = runningThread]
      PROVE  Kept
  BY <1>0, <1>4, LockOperations
<1>5. ASSUME printLock.owner = runningThread /\ cur' = 2 /\ printLock' = Released(printLock)
      PROVE  Kept
  BY <1>0, <1>5, LockOperations
<1>6. Kept
  BY <1>1, <1>2, <1>3, <1>4, <1>5 DEF LockCase
<1> QED
  BY <1>1, <1>6 DEF MutexInv

LEMMA MutexInvariance == ASSUME NT >= 2 PROVE Spec => []MutexInv
<1>1. Init => MutexInv
  <2> SUFFICES ASSUME Init PROVE MutexInv
    OBVIOUS
  <2>1. PICK b \in LowBytes : printLock = InitialLock(b)
    BY DEF Init
  <2>2. printLock \in Lock /\ printLock.lock = 0
    BY <2>1, ThreadsAssumption DEF InitialLock, Lock
  <2> QED
    BY <2>2 DEF Init, MutexInv
<1>2. IInv /\ MutexInv /\ [Next]_vars => MutexInv'
  BY MutexStep
<1> QED
  BY <1>1, <1>2, IInvariance, PTL DEF Spec

\* Two threads are never both between mutex_lock and mutex_unlock, whatever
\* they call there and whatever byte stands behind the lock.
THEOREM NeverTwoInside == ASSUME NT >= 2 PROVE Spec => []MutualExclusion
<1>1. MutexInv => MutualExclusion
  BY DEF MutexInv, MutualExclusion
<1> QED
  BY <1>1, MutexInvariance, PTL

\* No store of an owner ever changes the address in memBegin.
THEOREM TableKept == ASSUME NT >= 2 PROVE Spec => TableStays
<1>1. IInv /\ MutexInv /\ [Next]_vars => [printLock'.owner = printLock.owner]_vars
  BY MutexStep
<1> QED
  BY <1>1, IInvariance, MutexInvariance, PTL DEF Spec, TableStays

-----------------------------------------------------------------------------
(* Types *)

States == [0..7 -> {"unset", "READY", "RUNNING", "WAITING"}]

RestInv == curState \in States /\ sem \in Int /\ iflag \in BOOLEAN

LEMMA RestStep == NT >= 2 /\ IInv /\ MutexInv /\ RestInv /\ [Next]_vars => RestInv'
<1> SUFFICES ASSUME NT >= 2, IInv, MutexInv, RestInv, [Next]_vars PROVE RestInv'
  OBVIOUS
<1>0. curState \in States /\ sem \in Int /\ iflag \in BOOLEAN /\ printLock \in Lock
  BY DEF RestInv, MutexInv
<1>2. printLock.waiting \in 0..7 /\ runningThread = 1 /\ Target = 2
  <2>1. printLock.waiting \in 0..7
    BY <1>0 DEF Lock
  <2>2. runningThread = 1
    BY DEF IInv, MemoryInv
  <2> QED
    BY <2>1, <2>2 DEF Target
<1> DEFINE Mark == {"READY", "RUNNING", "WAITING"}
<1>8. \A f \in States, r \in 0..7, state \in Mark : [f EXCEPT ![r] = state] \in States
  BY DEF States
<1>9. \A f \in States, r \in 0..7, o \in 0..7, state \in Mark, other \in Mark :
         [f EXCEPT ![r] = state, ![o] = other] \in States
  BY DEF States
<1>4. CASE OsStart
  <2>1. /\ iflag' \in BOOLEAN /\ UNCHANGED sem
        /\ curState' = [curState EXCEPT ![0] = "READY"]
    BY <1>4 DEF OsStart
  <2>2. curState' \in States
    <3>1. [curState EXCEPT ![0] = "READY"] \in States
      BY <1>0 DEF States
    <3> QED
      BY <2>1, <3>1
  <2> QED
    BY <1>0, <2>1, <2>2 DEF RestInv
<1>5. CASE Continue
  <2>1. iflag' \in BOOLEAN /\ UNCHANGED <<curState, sem>>
    BY <1>5 DEF Continue
  <2> QED
    BY <1>0, <2>1 DEF RestInv
<1>6. ASSUME NEW i \in Thread, NEW k \in DOMAIN body[i],
             \/ MutexLock(i, k) \/ MutexWait(i, k)
             \/ MutexUnlock(i, k) \/ YieldGiven(i, k)
             \/ SemWait(i, k) \/ SemSignal(i, k) \/ Draw(i, k)
      PROVE  RestInv'
  <2>1. iflag' \in BOOLEAN
    BY <1>0, <1>6 DEF MutexLock, MutexWait, MutexUnlock, YieldGiven, SemWait, SemSignal,
                     Draw, AfterUnlock
  <2>2. sem' \in Int
    BY <1>0, <1>6 DEF MutexLock, MutexWait, MutexUnlock, YieldGiven, SemWait, SemSignal, Draw
  <2>3. curState' \in States
    <3>1. \/ UNCHANGED curState
          \/ \E r \in 0..7, state \in Mark : curState' = [curState EXCEPT ![r] = state]
          \/ \E r \in 0..7, o \in 0..7, state \in Mark, other \in Mark :
                curState' = [curState EXCEPT ![r] = state, ![o] = other]
      <4>1. CASE MutexLock(i, k) \/ YieldGiven(i, k)
        BY <1>2, <4>1 DEF MutexLock, YieldGiven
      <4>2. CASE MutexWait(i, k)
        BY <1>2, <4>2 DEF MutexWait
      <4>3. CASE MutexUnlock(i, k)
        BY <1>2, <4>3 DEF MutexUnlock
      <4>4. CASE SemWait(i, k) \/ SemSignal(i, k) \/ Draw(i, k)
        BY <4>4 DEF SemWait, SemSignal, Draw
      <4> QED
        BY <1>6, <4>1, <4>2, <4>3, <4>4
    <3>2. ASSUME NEW r \in 0..7, NEW state \in Mark, curState' = [curState EXCEPT ![r] = state]
          PROVE  curState' \in States
      BY <1>0, <1>8, <3>2
    <3>3. ASSUME NEW r \in 0..7, NEW o \in 0..7, NEW state \in Mark, NEW other \in Mark,
                 curState' = [curState EXCEPT ![r] = state, ![o] = other]
          PROVE  curState' \in States
      BY <1>0, <1>9, <3>3
    <3> QED
      BY <1>0, <3>1, <3>2, <3>3
  <2> QED
    BY <2>1, <2>2, <2>3 DEF RestInv
<1>7. CASE UNCHANGED vars
  BY <1>0, <1>7 DEF vars, RestInv
<1> QED
  BY <1>4, <1>5, <1>6, <1>7 DEF Next

\* Every row, lock and stack keeps its type, whatever the bodies call.
THEOREM ThreadTypes == ASSUME NT >= 2 PROVE Spec => []TypeOK
<1>1. Init => RestInv
  <2> SUFFICES ASSUME Init PROVE RestInv
    OBVIOUS
  <2>3. sem \in Int
    BY DEF Init
  <2>4. iflag \in BOOLEAN
    BY Zenon DEF Init
  <2>2. curState \in States
    BY DEF Init, States
  <2> QED
    BY <2>2, <2>3, <2>4 DEF RestInv
<1>2. IInv /\ MutexInv /\ RestInv => TypeOK
  <2> SUFFICES ASSUME IInv, MutexInv, RestInv PROVE TypeOK
    OBVIOUS
  <2>1. cur \in 0..NT /\ depth \in Nat /\ pc \in Word
    <3>1. CASE pc = Ret("os_start") /\ cur = 0
      <4>1. depth \in Nat
        BY <3>1 DEF IInv, ControlInv
      <4> QED
        BY <3>1, <4>1, WordTypes, ThreadsAssumption
    <3>2. CASE cur \in {1, 2} /\ depth = 0 /\ (pc = <<"thread_start", cur, 0>> \/ InBody(pc, cur))
      <4>1. cur \in 0..NT /\ cur \in Thread
        BY <3>2, ThreadsAssumption DEF Thread
      <4>2. \A k \in DOMAIN body[cur] : k \in Nat
        <5>1. body[cur] \in Seq(Call)
          BY <4>1, ThreadsAssumption DEF IInv, MemoryInv
        <5> QED
          BY <5>1
      <4>3. CASE pc = <<"thread_start", cur, 0>>
        <5>1. \A c \in 0..NT : <<"thread_start", c, 0>> \in Word
          BY DEF Word
        <5> QED
          BY <3>2, <4>1, <4>3, <5>1
      <4>4. CASE InBody(pc, cur)
        <5>1. PICK k \in DOMAIN body[cur] : pc = At(cur, k)
          BY <4>4 DEF InBody
        <5> QED
          BY <3>2, <4>1, <4>2, <5>1, WordTypes
      <4> QED
        BY <3>2, <4>1, <4>3, <4>4
    <3> QED
      BY <3>1, <3>2 DEF IInv, ControlInv
  <2> QED
    <3>1. /\ body \in [Thread -> Bodies] /\ mem \in [0..NT -> Seq(Word)]
          /\ saved \in [0..7 -> [stack : 0..NT, depth : Nat]] /\ runningThread = 1
      BY DEF IInv, MemoryInv
    <3>2. DOMAIN mem = 0..NT /\ \A s \in 0..NT : mem[s] \in Seq(Word)
      BY <3>1
    <3>3. runningThread \in 1..7
      BY <3>1
    <3>4. /\ printLock \in [lock : {0, 1}, waiting : 0..7, owner : 0..255]
          /\ curState \in [0..7 -> {"unset", "READY", "RUNNING", "WAITING"}]
          /\ sem \in Int /\ iflag \in BOOLEAN
      BY DEF RestInv, MutexInv, Lock, States
    <3>5. inside \subseteq Thread
      BY ThreadsAssumption DEF MutexInv, Thread
    <3> QED
      BY <2>1, <3>1, <3>2, <3>3, <3>4, <3>5 DEF TypeOK
<1> QED
  BY <1>1, <1>2, RestStep, IInvariance, MutexInvariance, PTL DEF Spec
=============================================================================
