------------------------------ MODULE MCThreads ------------------------------
(* Thread bodies for the model checker. *)
EXTENDS Threads

Plain == <<"lock", "draw", "unlock">>                 \* consumer, display_stats
Empty == <<"lock", "unlock">>                         \* consumer1, nothing
Yielder == <<"yield", "lock", "draw", "unlock">>
Twice == <<"lock", "draw", "unlock", "draw", "yield", "lock", "unlock">>
Holder == <<"lock", "yield", "draw", "unlock">>
Again == <<"lock", "draw", "lock", "unlock">>         \* locks what it holds
Guarded == <<"wait", "yield", "signal", "lock", "unlock">>

AnyBodies == {Plain, Empty, Yielder, Twice, Guarded, Holder, Again}
\* A body that gives up control, or locks again, only after unlocking.
Polite(b) ==
    \A k \in DOMAIN b : b[k] = "lock" =>
        \E u \in k + 1..Len(b) :
            b[u] = "unlock" /\ \A l \in k + 1..u - 1 : b[l] \notin {"lock", "yield"}
PoliteBodies == {b \in AnyBodies : Polite(b)}
\* The build has 207 there if nothing was allocated before the table; 1 is the
\* one value that mutex_unlock takes for its owner.
MCLowBytes == {1, 207}
=============================================================================
