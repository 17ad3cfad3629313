------------------------------ MODULE Animations ------------------------------
(***************************************************************************)
(* The animations of synchro.c on one terminal, whose colour each of them  *)
(* finds as the one before left it.  A step is one pass through the loop   *)
(* of an animation, which draws one frame.  Of a row only the marks and    *)
(* their colours are kept.                                                 *)
(***************************************************************************)
EXTENDS Naturals, Sequences, FiniteSetsExt

CONSTANT Cells      \* elements of buffer (10)

ASSUME AnimationsAssumption == Cells \in Nat \ {0}

VARIABLES body,     \* "just_animations", or "threads" that draw in any order
          task,     \* the function that draws
          frame,    \* its passes so far, or count of display_bounded_buffer
          colour,   \* the terminal's
          screen,   \* the rows of both animations: sets of <<mark, colour>>
          buffer,   \* display_bounded_buffer's array
          cells     \* the cells of the drawn buffer: TRUE for a full one

animVars == <<body, task, frame, colour, screen, buffer, cells>>

-----------------------------------------------------------------------------
(* Rows as they are sent: "c" and "b" set the colour to CYAN and WHITE.    *)

Hash == <<"#">>
Hole == <<"#", "c", "0", "b", "#">>
Holes == <<"#", "c", "0", "b", "#", "c", "0", "b", "#">>
Rim == <<"0", "b", "#", "c", "0">>

Full == <<Hash, Hash, Hash, Hash, Hash, Hash, Hash>>
\* A mutant of Outline: the first row sets no colour.
OutlineBare == <<<<"0">>, Rim, Rim, Rim, Rim, Rim, <<"0">>>>
Outline == <<<<"c", "0">>, <<"c">> \o Rim, Rim, Rim, Rim, Rim, <<"0">>>>
Inner == <<Hash, Hole, Holes, Holes, Holes, Hole, Hash>>
Small == <<Hash, Hash, Hole, Holes, Hole, Hash, Hash>>
Centre == <<Hash, Hash, Hash, Hole, Hash, Hash, Hash>>

\* The row above the picture: blank, or CONSUMING or PRODUCING.
Blank == <<>>
Word == <<"CONSUMIN", "G">>     \* or PRODUCIN, G
Stages(who) ==
    IF who = "consumer"
    THEN <<<<Blank>> \o Full, <<Blank>> \o Outline, <<Word>> \o Inner,
           <<Blank>> \o Small, <<Word>> \o Centre>>
    ELSE <<<<Blank>> \o Full, <<Word>> \o Centre, <<Blank>> \o Small,
           <<Word>> \o Inner, <<Blank>> \o Outline>>

LAST == 101
Stage(n) == IF n <= 20 THEN 1 ELSE (n - 1) \div 20 + 1

\* Frame 101 is blank, and a row shorter for the producer.  Its rows have
\* eight blanks, so the ninth letter of a word stays.
Wiped(who) == IF who = "consumer" THEN 8 ELSE 7
\* A mutant of Frame: the blank frame of the consumer is short as well.
FrameShort(who, n) == IF n = LAST THEN [r \in 1..7 |-> Blank] ELSE Stages(who)[Stage(n)]
Frame(who, n) == IF n = LAST THEN [r \in 1..Wiped(who) |-> Blank] ELSE Stages(who)[Stage(n)]

\* A mark is drawn in the colour set last before it in its row, or in the
\* one the row finds, which the last row above it to set a colour has left.
Inks == [c |-> "CYAN", b |-> "WHITE"]
Sets(tokens, k) == {j \in 1..k - 1 : tokens[j] \in DOMAIN Inks}
ColourAt(tokens, k, c) ==
    LET sets == Sets(tokens, k) IN IF sets = {} THEN c ELSE Inks[tokens[Max(sets)]]
ColourAfter(tokens, c) == ColourAt(tokens, Len(tokens) + 1, c)
Drawn(tokens, c) ==
    {<<tokens[k], ColourAt(tokens, k, c)>> : k \in {j \in DOMAIN tokens : tokens[j] \notin DOMAIN Inks}}
Inked(picture, r) == {q \in 1..r - 1 : \E k \in DOMAIN picture[q] : picture[q][k] \in DOMAIN Inks}
Before(picture, r, c) ==
    LET rows == Inked(picture, r) IN IF rows = {} THEN c ELSE ColourAfter(picture[Max(rows)], c)

\* producer_anim sets the base colour at the start of a pass.
FirstColour(who) == IF who = "producer" THEN "WHITE" ELSE colour

-----------------------------------------------------------------------------
Rows == 1..8
Anims == {"consumer", "producer"}
Clear == [who \in Anims |-> [r \in Rows |-> {}]]

AnimInit ==
    /\ body \in {"just_animations", "threads"}
    /\ task = IF body = "just_animations" THEN "consumer" ELSE "display_stats"
    /\ frame = 0
    /\ colour = "WHITE"
    /\ screen = Clear
    /\ buffer = [k \in 0..Cells - 1 |-> 0]
    /\ cells = [k \in 0..Cells - 1 |-> FALSE]

\* A pass of consumer_anim or producer_anim.
Draw(who) ==
    /\ task = who /\ frame <= LAST
    /\ LET picture == Frame(who, frame)
           c == FirstColour(who)
       IN /\ screen' = [screen EXCEPT ![who] = [r \in Rows |->
                           IF r \notin DOMAIN picture THEN @[r]
                           ELSE Drawn(picture[r], Before(picture, r, c)) \cup
                                IF frame = LAST THEN {m \in @[r] : m[1] = "G"} ELSE {}]]
          /\ colour' = Before(picture, Len(picture) + 1, c)
    /\ frame' = frame + 1
    /\ UNCHANGED <<body, task, buffer, cells>>

Room(count) == count # Cells

\* A pass of display_bounded_buffer.
Fill ==
    /\ task = "display_bounded_buffer" /\ Room(frame)
    /\ buffer' = [buffer EXCEPT ![frame] = 1]
    /\ cells' = [k \in DOMAIN cells |-> buffer'[k] # 0]
    /\ frame' = frame + 1
    /\ UNCHANGED <<body, task, colour, screen>>

Returned == CASE task \in Anims -> frame > LAST
              [] task = "display_bounded_buffer" -> frame = Cells
              [] OTHER -> TRUE

Enter(next) ==
    /\ task' = next
    /\ frame' = 0
    /\ buffer' = IF next = "display_bounded_buffer" THEN [k \in DOMAIN buffer |-> 0] ELSE buffer
    /\ UNCHANGED body

\* just_animations: one after the other, each on a clear screen.
Afterwards == [consumer |-> "producer", producer |-> "display_bounded_buffer",
              display_bounded_buffer |-> "consumer"]
Loop ==
    /\ body = "just_animations" /\ Returned
    /\ Enter(Afterwards[task])
    /\ screen' = Clear /\ cells' = [k \in DOMAIN cells |-> FALSE]
    /\ UNCHANGED colour

\* Threads: whoever gets the processor.  display_stats, drawn in one step,
\* leaves its colour, and may clear the screen.
Switch ==
    /\ body = "threads" /\ Returned
    /\ \E next \in Anims \cup {"display_bounded_buffer", "display_stats"} :
          /\ Enter(next)
          /\ IF next = "display_stats"
             THEN /\ colour' = "GREEN"
                  /\ \/ screen' = Clear /\ cells' = [k \in DOMAIN cells |-> FALSE]
                     \/ UNCHANGED <<screen, cells>>
             ELSE UNCHANGED <<colour, screen, cells>>

AnimNext == Draw("consumer") \/ Draw("producer") \/ Fill \/ Loop \/ Switch

AnimSpec == AnimInit /\ [][AnimNext]_animVars

-----------------------------------------------------------------------------
(* Properties *)

Marks == {"#", "0", "CONSUMIN", "G"} \X {"WHITE", "CYAN", "GREEN"}
AnimTypeOK ==
    /\ body \in {"just_animations", "threads"}
    /\ task \in Anims \cup {"display_bounded_buffer", "display_stats"}
    /\ frame \in 0..IF task = "display_bounded_buffer" THEN Cells ELSE LAST + 1
    /\ colour \in {"WHITE", "CYAN", "GREEN"}
    /\ screen \in [Anims -> [Rows -> SUBSET Marks]]
    /\ buffer \in [0..Cells - 1 -> 0..1] /\ cells \in [0..Cells - 1 -> BOOLEAN]

(***************************************************************************)
(* A 0 is cyan wherever it stands, although most rows of an outline set no *)
(* colour before their first 0 and rely on the row above                   *)
(* (synchro.c:168-216, 494-534), and the producer's picture is white but   *)
(* for its zeros, whatever colour the thread before it left                *)
(* (synchro.c:361).  The consumer's is not.                                *)
(***************************************************************************)
ColoursAreKept ==
    \A who \in Anims : \A r \in Rows : \A m \in screen[who][r] :
        /\ m[1] = "0" => m[2] = "CYAN"
        /\ m[1] # "0" /\ who = "producer" => m[2] = "WHITE"

(***************************************************************************)
(* The consumer takes its picture away before it gives up the lock, but    *)
(* for the last letter of CONSUMING; of the producer's at most the last    *)
(* row stays (synchro.c:318-335, 535-550).                                 *)
(***************************************************************************)
PicturesAreErased ==
    /\ task # "consumer" =>
          \A r \in Rows : \A m \in screen["consumer"][r] : r = 1 /\ m[1] = "G"
    /\ task # "producer" => \A r \in Rows \ {8} : screen["producer"][r] = {}
=============================================================================
