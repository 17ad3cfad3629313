----------------------------- MODULE MCThreadData -----------------------------
(***************************************************************************)
(* What the thread library keeps and what its threads show: the table      *)
(* while it is filled, the searches in it, the statistics drawn from it    *)
(* and the animations.  A behaviour runs one of these; the others keep a   *)
(* fixed state.                                                            *)
(***************************************************************************)
EXTENDS ThreadTable, Stats, Animations

VARIABLE part      \* "table", "search", "stats" or "animations"

searchOnly == <<current, dontReturn, pc>>
screenOnly == <<stage, row, panels>>
vars == <<part, tableVars, searchVars, screenOnly, animVars>>

\* The state of the threads while they play no part.
AllReady ==
    /\ runningThread = 1 /\ curState = [i \in Thread |-> "READY"]
    /\ sched_count = [i \in Thread |-> 0]

Init ==
    /\ part \in {"table", "search", "stats", "animations"}
    /\ TableInit /\ AnimInit
    /\ part # "animations" => body = "threads"
    /\ IF part = "stats" THEN StatsInit /\ current = 0 /\ dontReturn = 0 /\ pc = "idle"
       ELSE SearchInit /\ stage = "lock" /\ row = 0 /\ panels = [p \in Places |-> NoPanel]
    /\ part \in {"table", "animations"} => AllReady

Create == part = "table" /\ TableNext
            /\ UNCHANGED <<part, searchVars, screenOnly, animVars>>
Seek == part = "search" /\ SearchNext
            /\ UNCHANGED <<part, tableVars, screenOnly, animVars>>
Show == part = "stats" /\ StatsNext
            /\ UNCHANGED <<part, tableVars, searchOnly, animVars>>
Animate == part = "animations" /\ AnimNext
            /\ UNCHANGED <<part, tableVars, searchVars, screenOnly>>

Next == Create \/ Seek \/ Show \/ Animate

\* The loop of the search goes on.
Spec == Init /\ [][Next]_vars /\ WF_searchVars(Search)

\* The types of all four.
TypeOK ==
    /\ TableTypeOK /\ SearchTypeOK /\ AnimTypeOK
    /\ stage \in {"lock", "draw", "unlock"} /\ row \in 0..N
=============================================================================
