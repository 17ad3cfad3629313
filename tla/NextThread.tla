------------------------------ MODULE NextThread ------------------------------
(***************************************************************************)
(* The two searches of os.c for the thread to run next, called again and   *)
(* again while the states of the threads change between the calls.         *)
(***************************************************************************)
EXTENDS Naturals

CONSTANTS N,          \* memBegin->numThreads
          MOD32       \* 2^32: sched_count is uint32_t

ASSUME NextThreadAssumption == N \in Nat \ {0} /\ MOD32 \in Nat \ {0}

Thread == 0..N - 1
State == {"READY", "WAITING", "RUNNING"}

VARIABLES runningThread, curState, sched_count,
          current,    \* the row the search looks at
          dontReturn, \* runningThread when the search began
          pc          \* "idle", or "search" inside the loop

searchVars == <<runningThread, curState, sched_count, current, dontReturn, pc>>

\* A mutant of Following: the last row is never reached.
FollowingShort(i) == IF i + 1 < N - 1 THEN i + 1 ELSE 0
Following(i) == IF i + 1 <= N - 1 THEN i + 1 ELSE 0

\* A mutant of Found: the thread that runs may be found again.
FoundAny == curState[current] = "READY"
Found == curState[current] = "READY" /\ current # dontReturn

SearchInit ==
    /\ runningThread \in Thread
    /\ curState \in [Thread -> State]
    /\ sched_count = [i \in Thread |-> 0]
    /\ current = 0 /\ dontReturn = 0 /\ pc = "idle"

\* get_next_thread is entered; its loop is Search.
GetNextThread ==
    /\ pc = "idle"
    /\ dontReturn' = runningThread
    /\ current' = Following(runningThread)
    /\ pc' = "search"
    /\ UNCHANGED <<runningThread, curState, sched_count>>

\* One pass of its loop.
Search ==
    /\ pc = "search"
    /\ IF Found
       THEN /\ runningThread' = current
            /\ sched_count' = [sched_count EXCEPT ![current] = (@ + 1) % MOD32]
            /\ pc' = "idle"
            /\ UNCHANGED current
       ELSE /\ current' = Following(current)
            /\ UNCHANGED <<runningThread, sched_count, pc>>
    /\ UNCHANGED <<curState, dontReturn>>

\* get_next_thread2, which looks at no state.
GetNextThread2 ==
    /\ pc = "idle"
    /\ runningThread' = Following(runningThread)
    /\ UNCHANGED <<curState, sched_count, current, dontReturn, pc>>

\* Between two calls a thread changes its state (mutex_lock, mutex_unlock).
Change(i) ==
    /\ pc = "idle"
    /\ \E state \in State : curState' = [curState EXCEPT ![i] = state]
    /\ UNCHANGED <<runningThread, sched_count, current, dontReturn, pc>>

SearchNext == GetNextThread \/ Search \/ GetNextThread2 \/ \E i \in Thread : Change(i)

\* The loop goes on; nothing makes anybody call.
SearchSpec == SearchInit /\ [][SearchNext]_searchVars /\ WF_searchVars(Search)

-----------------------------------------------------------------------------
(* Properties *)

SearchTypeOK ==
    /\ runningThread \in Thread /\ current \in Thread /\ dontReturn \in Thread
    /\ curState \in [Thread -> State]
    /\ sched_count \in [Thread -> 0..MOD32 - 1]
    /\ pc \in {"idle", "search"}

\* How far behind thread i the thread j comes, going round.
Distance(i, j) == IF j > i THEN j - i ELSE j + N - i

(***************************************************************************)
(* get_next_thread returns the first ready thread after the running one,   *)
(* going round: it passes over no ready thread (os.c:173-184).             *)
(***************************************************************************)
NextInTurn ==
    [][pc = "search" /\ pc' = "idle" =>
         LET i == runningThread
             j == runningThread'
         IN /\ j # i /\ curState[j] = "READY"
            /\ \A k \in Thread \ {i} :
                  curState[k] = "READY" => Distance(i, j) <= Distance(i, k)]_searchVars

(***************************************************************************)
(* The search ends whenever another thread is ready; when none is it goes  *)
(* on for ever, since nothing else runs (os.c:176-183).                    *)
(***************************************************************************)
FindsReady ==
    (pc = "search" /\ \E i \in Thread \ {runningThread} : curState[i] = "READY")
        ~> pc = "idle"
=============================================================================
