-------------------------------- MODULE Stats --------------------------------
(***************************************************************************)
(* display_stats of synchro.c: with the lock held, a panel for each thread *)
(* is drawn from the thread table; in between, the other threads run and   *)
(* the scheduler counts.  A panel is drawn over whatever is in its place.  *)
(***************************************************************************)
EXTENDS NextThread, Integers

VARIABLES stage,    \* "lock" before mutex_lock, "draw", or "unlock"
          row,      \* i: the thread whose panel comes next
          panels    \* what stands in each place of the screen

statsVars == <<curState, sched_count, runningThread, stage, row, panels>>

-----------------------------------------------------------------------------
\* A mutant of Place: all panels in one line.
PlaceInLine(n) == [row |-> 4, col |-> (n % 3) * 33]
\* Where the panel of thread n begins.
Place(n) == [row |-> IF n < 3 THEN 4 ELSE 15, col |-> (n % 3) * 33]
Places == [row : {4, 15}, col : {0, 33, 66}]

\* The count shown is the running thread's.
Panel(n) == [id |-> n, curState |-> curState[n], sched_count |-> sched_count[runningThread]]
NoPanel == [id |-> -1, curState |-> "none", sched_count |-> 0]

-----------------------------------------------------------------------------
StatsInit ==
    /\ curState \in [Thread -> {"READY", "WAITING"}]   \* two stand for all
    /\ sched_count = [n \in Thread |-> 0]
    /\ runningThread \in Thread
    /\ stage = "lock" /\ row = 0
    /\ panels = [p \in Places |-> NoPanel]

\* mutex_lock has returned; the screen may be cleared first.
Begin ==
    /\ stage = "lock"
    /\ stage' = "draw" /\ row' = 0
    /\ \/ panels' = [p \in Places |-> NoPanel]
       \/ UNCHANGED panels
    /\ UNCHANGED <<curState, sched_count, runningThread>>

DrawPanel ==
    /\ stage = "draw" /\ row < N
    /\ panels' = [panels EXCEPT ![Place(row)] = Panel(row)]
    /\ row' = row + 1
    /\ UNCHANGED <<curState, sched_count, runningThread, stage>>

AllDrawn ==
    /\ stage = "draw" /\ row = N
    /\ stage' = "unlock"
    /\ UNCHANGED <<curState, sched_count, runningThread, row, panels>>

\* mutex_unlock gives up control; until mutex_lock returns, threads run and
\* change their states, and get_next_thread counts the one it finds.
Unlock ==
    /\ stage = "unlock"
    /\ stage' = "lock"
    /\ UNCHANGED <<curState, sched_count, runningThread, row, panels>>

Others ==
    /\ stage = "lock"
    /\ \E n \in Thread :
          \/ /\ \E state \in {"READY", "WAITING"} : curState' = [curState EXCEPT ![n] = state]
             /\ UNCHANGED <<sched_count, runningThread>>
          \/ /\ sched_count' = [sched_count EXCEPT ![n] = (@ + 1) % MOD32]
             /\ runningThread' = n
             /\ UNCHANGED curState
    /\ UNCHANGED <<stage, row, panels>>

StatsNext == Begin \/ DrawPanel \/ AllDrawn \/ Unlock \/ Others

StatsSpec == StatsInit /\ [][StatsNext]_statsVars

-----------------------------------------------------------------------------
(* Properties *)

(***************************************************************************)
(* Before the lock is given up, every thread's panel stands on the screen  *)
(* with the state the thread is in, and no other is drawn over it          *)
(* (synchro.c:738-784).                                                    *)
(***************************************************************************)
StatesShown ==
    stage = "unlock" =>
        \A n \in Thread : panels[Place(n)].id = n /\ panels[Place(n)].curState = curState[n]
=============================================================================
